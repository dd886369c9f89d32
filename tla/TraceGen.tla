------------------------------ MODULE TraceGen ------------------------------
(***************************************************************************)
(* scripts/tracegen.cpp: four workloads that touch the elements of real    *)
(* arrays and emit one load or store per touch.                            *)
(*                                                                         *)
(* An emission names the array and the index; the address is the business  *)
(* of the allocator (see Workload).  One action is one turn of the         *)
(* innermost loop.                                                         *)
(***************************************************************************)
EXTENDS Integers, Sequences, FiniteSets

CONSTANT Commands   \* the command lines: records [kind, argc, n, m]

VARIABLES
  command,   \* argv: the workload and its one or two numbers
  stage,     \* "start", "run" or "ended"
  code,      \* how the process ended: "0", "2", "abort" or "trap"
  order,     \* listwalk: the shuffled order of the nodes
  node,      \* listwalk: the node p points to
  turn,      \* turns of the innermost loop so far
  trace      \* the emissions, in the file stdout is redirected to

vars == <<command, stage, code, order, node, turn, trace>>

Kind == command.kind

Touch(op, array, index) == [op |-> op, array |-> array, index |-> index]

AtLeast0(x) == IF x > 0 THEN x ELSE 0

\* bytes / 8 rounds towards zero.
WordsOf(bytes) == IF bytes < 0 THEN -((-bytes) \div 8) ELSE bytes \div 8

\* The elements of each array; n * n is taken of two size_t, so the square of
\* a negative n is that of its absolute value.
Cells ==
  CASE Kind = "matmul" -> command.n * command.n
    [] Kind = "listwalk" -> command.n
    [] Kind \in {"seqscan", "randscan"} -> WordsOf(command.n)

\* The turns of the innermost loop.
Turns ==
  CASE Kind = "matmul"   -> AtLeast0(command.n) * AtLeast0(command.n) * AtLeast0(command.n)
    [] Kind = "listwalk" -> AtLeast0(command.m)
    [] Kind = "seqscan"  -> AtLeast0(command.m) * Cells
    [] Kind = "randscan" -> AtLeast0(command.m)

Permutations == {p \in [0 .. command.n - 1 -> 0 .. command.n - 1] :
                   \A i, j \in DOMAIN p : p[i] = p[j] => i = j}

Init ==
  /\ command \in Commands
  /\ stage = "start"
  /\ code = "none"
  /\ order = <<>>
  /\ node = 0
  /\ turn = 0
  /\ trace = <<>>

End(c) == stage' = "ended" /\ code' = c

Recognised ==
  \/ Kind = "matmul" /\ command.argc = 3
  \/ Kind \in {"listwalk", "seqscan", "randscan"} /\ command.argc = 4

Usage ==
  /\ stage = "start" /\ ~Recognised
  /\ End("2")
  /\ UNCHANGED <<command, order, node, turn, trace>>

\* A negative size is a vector longer than any: std::length_error, uncaught.
TooLong ==
  /\ stage = "start" /\ Recognised /\ Cells < 0
  /\ End("abort")
  /\ UNCHANGED <<command, order, node, turn, trace>>

\* order[0] of an empty vector is a null read, unless nothing uses its value.
NoFirstNode ==
  /\ stage = "start" /\ Recognised /\ Kind = "listwalk" /\ Cells = 0
  /\ \E c \in {"trap"} \cup (IF Turns = 0 THEN {"0"} ELSE {}) : End(c)
  /\ UNCHANGED <<command, order, node, turn, trace>>

\* The arrays are filled; the nodes are linked in a shuffled order.
Start ==
  /\ stage = "start" /\ Recognised /\ Cells >= 0
  /\ Kind = "listwalk" => Cells > 0
  /\ stage' = "run"
  /\ IF Kind = "listwalk"
     THEN order' \in Permutations /\ node' = order'[0]
     ELSE UNCHANGED <<order, node>>
  /\ UNCHANGED <<command, code, turn, trace>>

Running(kind) == stage = "run" /\ Kind = kind /\ turn < Turns

Emit(touches) == turn' = turn + 1 /\ trace' = trace \o touches

\* Mutant: B is walked along its rows, as A is.
MatmulTouches_RowWalk(i, j, k, n) ==
  <<Touch("L", "A", i * n + k), Touch("L", "B", j * n + k),
    Touch("L", "C", i * n + j), Touch("S", "C", i * n + j)>>

\* Mutant: the result is stored transposed.
MatmulTouches_StoreTransposed(i, j, k, n) ==
  <<Touch("L", "A", i * n + k), Touch("L", "B", k * n + j),
    Touch("L", "C", i * n + j), Touch("S", "C", j * n + i)>>

MatmulTouches(i, j, k, n) ==
  <<Touch("L", "A", i * n + k), Touch("L", "B", k * n + j),
    Touch("L", "C", i * n + j), Touch("S", "C", i * n + j)>>

Matmul ==
  /\ Running("matmul")
  /\ LET n == command.n
     IN  Emit(MatmulTouches(turn \div (n * n), (turn \div n) % n, turn % n, n))
  /\ UNCHANGED <<command, stage, code, order, node>>

\* Mutant: the links are stored in pool order instead of shuffled order.
NextNode_PoolOrder(i) == order[(i + 1) % command.n]

\* next: the node after this one in the shuffled order.
NextNode(i) ==
  order[((CHOOSE k \in DOMAIN order : order[k] = i) + 1) % command.n]

\* A node is two words, next and payload.
Hop ==
  /\ Running("listwalk")
  /\ Emit(<<Touch("L", "pool", 2 * node), Touch("L", "pool", 2 * node + 1)>>)
  /\ node' = NextNode(node)
  /\ UNCHANGED <<command, stage, code, order>>

Scan ==
  /\ Running("seqscan")
  /\ Emit(<<Touch("L", "a", turn % Cells)>>)
  /\ UNCHANGED <<command, stage, code, order, node>>

\* Mutant: the last index is the size.
Draws_OffByOne == 0 .. Cells

Draws == 0 .. Cells - 1

Draw ==
  /\ Running("randscan") /\ Cells > 0
  /\ \E i \in Draws : Emit(<<Touch("L", "a", i)>>)
  /\ UNCHANGED <<command, stage, code, order, node>>

\* size() - 1 of an empty vector is the largest size_t, so the first draw is
\* of all of size_t; seed 42 gives an address that faults when it is read.  The
\* line emitted for it is still in stdio's buffer and is lost.
WildDraw ==
  /\ Running("randscan") /\ Cells = 0
  /\ End("trap")
  /\ UNCHANGED <<command, order, node, turn, trace>>

Return ==
  /\ stage = "run" /\ turn = Turns
  /\ End("0")
  /\ UNCHANGED <<command, order, node, turn, trace>>

Next ==
  \/ Usage \/ TooLong \/ NoFirstNode \/ Start
  \/ Matmul \/ Hop \/ Scan \/ Draw \/ WildDraw \/ Return

Spec == Init /\ [][Next]_vars

-----------------------------------------------------------------------------
(* Properties.                                                             *)

Elements == IF Kind = "listwalk" THEN 2 * Cells ELSE Cells

\* Every address in the trace is that of an element of an array the workload
\* allocated, also for the sizes that make the array empty or impossible.
EmitsElements ==
  trace # <<>> => \A t \in DOMAIN trace : trace[t].index \in 0 .. Elements - 1

\* The shuffled list is one cycle through all nodes and not several: walking
\* as many hops as there are nodes visits every node once, wherever it starts.
Hops == [s \in 1 .. Len(trace) \div 2 |-> trace[2 * s - 1].index \div 2]

TourIsOneCycle ==
  Kind = "listwalk" =>
    \A s, t \in DOMAIN Hops : Hops[s] = Hops[t] <=> (t - s) % command.n = 0

\* matmul is a matrix product with the locality it is chosen for: its n^3 turns
\* meet every row of A with every column of B once, an element of C is finished
\* before another is touched, and the stream of B returns to an element only
\* after all others.
Positions(op, array, index) ==
  {t \in DOMAIN trace : trace[t] = Touch(op, array, index)}

MatmulLocality ==
  Kind = "matmul" /\ stage = "ended" /\ code = "0" /\ command.n > 0 =>
    LET n == command.n IN
    /\ {<<trace[t].index, trace[t + 1].index, trace[t + 2].index>> :
          t \in {u \in DOMAIN trace : u % 4 = 1}}
         = {<<i * n + k, k * n + j, i * n + j>> : i, j, k \in 0 .. n - 1}
    /\ \A x \in 0 .. n * n - 1 :
         /\ Cardinality(Positions("S", "C", x)) = n
         /\ \A t, u \in Positions("L", "B", x) : t < u => u - t >= 4 * n * n
         /\ \A t, u \in Positions("S", "C", x) : u - t < 4 * n
=============================================================================
