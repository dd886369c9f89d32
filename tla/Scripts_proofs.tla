--------------------------- MODULE Scripts_proofs ----------------------------
(***************************************************************************)
(* What the programs around the simulator promise: the traces of tracegen, *)
(* for every command line, and what a cache of any configuration makes of  *)
(* them, to the number of its misses for a scan; and the reports of        *)
(* sweep.py, for every grid.                                               *)
(***************************************************************************)
EXTENDS Workload, Sweep, CacheLevel_proofs

-----------------------------------------------------------------------------
(* Quotients, and positions in a matrix that is stored by rows.            *)

\* A number is its quotient and its remainder.
LEMMA Quotient ==
  ASSUME NEW a \in Nat, NEW n \in Nat \ {0}
  PROVE  a \div n \in Nat /\ a % n \in 0 .. n - 1 /\ a = ((a \div n) * n) + (a % n)
OBVIOUS

\* Quotient and remainder are determined by that.
LEMMA QuotientIs ==
  ASSUME NEW n \in Nat \ {0}, NEW q \in Int, NEW r \in 0 .. n - 1
  PROVE  ((q * n) + r) \div n = q /\ ((q * n) + r) % n = r
OBVIOUS

\* A quotient stays below a bound on the number.
LEMMA QuotientBelow ==
  ASSUME NEW n \in Nat \ {0}, NEW m \in Nat, NEW a \in Nat, a < m * n
  PROVE  a \div n \in 0 .. m - 1
<1> DEFINE q == a \div n
<1>1. q \in Nat /\ q * n <= a
  BY Quotient
<1> HIDE DEF q
<1>2. q < m
  <2>1. CASE q >= m
    <3>1. q * n >= m * n
      BY <1>1, <2>1
    <3> QED BY <1>1, <3>1
  <2> QED BY <1>1, <2>1
<1> QED BY <1>1, <1>2 DEF q

\* The place of row i and column k in a matrix of n by n is one of its places.
LEMMA PlaceInMatrix ==
  ASSUME NEW n \in Nat \ {0}, NEW i \in 0 .. n - 1, NEW k \in 0 .. n - 1
  PROVE  i * n + k \in 0 .. n * n - 1
<1>1. i * n <= (n - 1) * n /\ (n - 1) * n = n * n - n /\ i * n \in Nat
  OBVIOUS
<1> QED BY <1>1

\* A turn of the three loops of matmul is one i, one j and one k.
LEMMA TurnOfLoops ==
  ASSUME NEW n \in Nat \ {0}, NEW s \in 0 .. n * n * n - 1
  PROVE  LET i == s \div (n * n)
             j == (s \div n) % n
             k == s % n
         IN  /\ i \in 0 .. n - 1 /\ j \in 0 .. n - 1 /\ k \in 0 .. n - 1
             /\ i * n + j = s \div n
             /\ s = (i * n + j) * n + k
<1> DEFINE i == s \div (n * n)
           p == s \div n
           j == p % n
           k == s % n
<1>1. n * n \in Nat \ {0} /\ s \in Nat /\ s < (n * n) * n
  OBVIOUS
<1>2. p \in Nat /\ k \in 0 .. n - 1 /\ s = p * n + k
  BY <1>1, Quotient
<1>3. i = p \div n
  BY <1>1, DivideTwice
<1> HIDE DEF p
<1>4. j \in 0 .. n - 1 /\ p = ((p \div n) * n) + j
  BY <1>2, Quotient
<1>5. i \in 0 .. n - 1
  <2>1. s < n * (n * n)
    BY <1>1
  <2> QED BY <1>1, <2>1, QuotientBelow
<1> HIDE DEF i, j, k
<1>6. i * n + j = p /\ s = (i * n + j) * n + k
  BY <1>2, <1>3, <1>4
<1> QED BY <1>2, <1>4, <1>5, <1>6 DEF i, j, k, p

-----------------------------------------------------------------------------
(* The trace of a workload, turn by turn.                                  *)

Arrays == {"A", "B", "C", "pool", "a"}

TouchType == [op : {"L", "S"}, array : Arrays, index : Int]

Kind == Gen!Kind

\* The touches of a turn, and which one may stand at place c of turn s.
PerTurn == IF Kind = "matmul" THEN 4 ELSE IF Kind = "listwalk" THEN 2 ELSE 1

NodeTouches(i) == <<Gen!Touch("L", "pool", 2 * i), Gen!Touch("L", "pool", 2 * i + 1)>>

LoopTouches(s) ==
  LET n == command.n
  IN  Gen!MatmulTouches(s \div (n * n), (s \div n) % n, s % n, n)

MayStand(s, c, touch) ==
  /\ Kind = "matmul" => touch = LoopTouches(s)[c]
  /\ Kind = "listwalk" => touch = NodeTouches(order[s % command.n])[c]
  /\ Kind = "seqscan" => touch = Gen!Touch("L", "a", s % Gen!Cells)
  /\ Kind = "randscan" => \E i \in Gen!Draws : touch = Gen!Touch("L", "a", i)

\* What has been checked and set up before the first turn.
Ready ==
  /\ Gen!Recognised /\ Gen!Cells >= 0 /\ turn <= Gen!Turns
  /\ Kind = "listwalk" => command.n > 0 /\ order \in Gen!Permutations

\* The invariant of the generator: what stands where in the trace.
GenInv ==
  /\ command \in Commands
  /\ turn \in Nat /\ trace \in Seq(TouchType) /\ Len(trace) = PerTurn * turn
  /\ \A s \in 0 .. turn - 1, c \in 1 .. PerTurn : MayStand(s, c, trace[PerTurn * s + c])
  /\ stage = "start" => turn = 0
  /\ stage = "run" \/ turn > 0 => Ready
  /\ stage = "run" /\ Kind = "listwalk" => node = order[turn % command.n]
  /\ stage = "ended" /\ code = "0" /\ Kind # "listwalk" => Ready /\ turn = Gen!Turns

\* The numbers of a command line are integers, the elements of an array and
\* the turns natural numbers once the arrays are made.
LEMMA CommandNumbers ==
  ASSUME command \in Commands
  PROVE  /\ command.n \in Int /\ command.m \in Int
         /\ Gen!Recognised => Gen!Cells \in Int
         /\ Gen!Recognised /\ Gen!Cells >= 0 => Gen!Turns \in Nat
<1>1. command.n \in Int /\ command.m \in Int
  BY CommandsAssumption
<1>2. Gen!AtLeast0(command.n) \in Nat /\ Gen!AtLeast0(command.m) \in Nat
  BY <1>1 DEF Gen!AtLeast0
<1>3. command.n * command.n \in Int /\ Gen!WordsOf(command.n) \in Int
  BY <1>1 DEF Gen!WordsOf
<1>4. Gen!Recognised => Kind \in {"matmul", "listwalk", "seqscan", "randscan"}
  BY DEF Gen!Recognised, Kind
<1>5. Gen!Recognised => Gen!Cells \in Int
  BY <1>1, <1>3, <1>4 DEF Gen!Cells, Kind
<1>6. ASSUME Gen!Recognised, Gen!Cells >= 0 PROVE Gen!Turns \in Nat
  <2>1. \A x, y \in Nat : x * y \in Nat
    OBVIOUS
  <2>2. Gen!Cells \in Nat
    BY <1>5, <1>6
  <2> QED BY <1>2, <1>4, <1>6, <2>1, <2>2 DEF Gen!Turns, Kind
<1> QED BY <1>1, <1>5, <1>6

\* A touch is that of its index.
LEMMA TouchFields ==
  \A op \in {"L", "S"}, array \in Arrays, i \in Int :
    /\ Gen!Touch(op, array, i) \in TouchType
    /\ Gen!Touch(op, array, i).op = op
    /\ Gen!Touch(op, array, i).array = array
    /\ Gen!Touch(op, array, i).index = i
BY DEF Gen!Touch, TouchType

\* What may stand in turn s of a workload touches an element of its arrays.
LEMMA TouchesElements ==
  ASSUME command \in Commands, Ready, NEW s \in Nat, s < Gen!Turns,
         NEW c \in 1 .. PerTurn, NEW touch, MayStand(s, c, touch)
  PROVE  touch \in TouchType /\ touch.index \in 0 .. Gen!Elements - 1
<1>1. command.n \in Int /\ Gen!Cells \in Nat /\ Gen!Turns \in Nat
  BY CommandNumbers DEF Ready
<1>2. CASE Kind = "matmul"
  <2> DEFINE n == command.n
             i == s \div (n * n)
             j == (s \div n) % n
             k == s % n
  <2>1. Gen!Turns = Gen!AtLeast0(n) * Gen!AtLeast0(n) * Gen!AtLeast0(n) /\ Gen!Cells = n * n
        /\ Gen!Elements = n * n /\ PerTurn = 4
    BY <1>2 DEF Gen!Turns, Gen!Cells, Gen!Elements, Kind, PerTurn
  <2>2. n \in Nat \ {0} /\ s \in 0 .. n * n * n - 1
    <3>1. CASE n > 0
      BY <1>1, <2>1, <3>1 DEF Gen!AtLeast0
    <3>2. CASE ~(n > 0)
      BY <1>1, <2>1, <3>2 DEF Gen!AtLeast0
    <3> QED BY <3>1, <3>2
  <2>3. i \in 0 .. n - 1 /\ j \in 0 .. n - 1 /\ k \in 0 .. n - 1
    BY <2>2, TurnOfLoops
  <2>4. touch = Gen!MatmulTouches(i, j, k, n)[c]
    BY <1>2 DEF MayStand, LoopTouches
  <2> HIDE DEF n, i, j, k
  <2>5. /\ i * n + k \in 0 .. n * n - 1 /\ k * n + j \in 0 .. n * n - 1
        /\ i * n + j \in 0 .. n * n - 1
    BY <2>2, <2>3, PlaceInMatrix
  <2>6. c \in {1, 2, 3, 4}
    BY <2>1
  <2>7. \/ touch = Gen!Touch("L", "A", i * n + k)
        \/ touch = Gen!Touch("L", "B", k * n + j)
        \/ touch = Gen!Touch("L", "C", i * n + j)
        \/ touch = Gen!Touch("S", "C", i * n + j)
    BY <2>4, <2>6 DEF Gen!MatmulTouches
  <2>8. touch \in TouchType /\ touch.index \in {i * n + k, k * n + j, i * n + j}
    BY <2>5, <2>7, TouchFields DEF Arrays
  <2> QED BY <2>1, <2>5, <2>8
<1>3. CASE Kind = "listwalk"
  <2> DEFINE i == order[s % command.n]
  <2>1. i \in 0 .. command.n - 1
    <3>1. command.n \in Nat \ {0}
      BY <1>1, <1>3 DEF Ready
    <3>2. s % command.n \in 0 .. command.n - 1
      BY <3>1, Quotient
    <3> QED BY <1>3, <3>2 DEF Ready, Gen!Permutations
  <2>2. touch = NodeTouches(i)[c] /\ c \in 1 .. 2
    BY <1>3 DEF MayStand, PerTurn, Kind
  <2>3. Gen!Elements = 2 * command.n
    BY <1>3 DEF Gen!Elements, Gen!Cells, Kind
  <2> HIDE DEF i
  <2>4. \/ touch = Gen!Touch("L", "pool", 2 * i)
        \/ touch = Gen!Touch("L", "pool", 2 * i + 1)
    BY <2>2 DEF NodeTouches
  <2>5. touch \in TouchType /\ touch.index \in {2 * i, 2 * i + 1}
    BY <2>1, <2>4, TouchFields DEF Arrays
  <2> QED BY <1>1, <2>1, <2>3, <2>5
<1>4. CASE Kind = "seqscan"
  <2>1. Gen!Cells > 0
    <3>1. Gen!Turns = Gen!AtLeast0(command.m) * Gen!Cells
      BY <1>4 DEF Gen!Turns, Kind
    <3>2. Gen!AtLeast0(command.m) \in Nat
      BY CommandNumbers DEF Gen!AtLeast0
    <3> QED BY <1>1, <3>1, <3>2
  <2>2. s % Gen!Cells \in 0 .. Gen!Cells - 1
    BY <1>1, <2>1, Quotient
  <2>3. touch = Gen!Touch("L", "a", s % Gen!Cells) /\ Gen!Elements = Gen!Cells
    BY <1>4 DEF MayStand, Gen!Elements, Kind
  <2>4. touch \in TouchType /\ touch.index = s % Gen!Cells
    BY <1>1, <2>2, <2>3, TouchFields DEF Arrays
  <2> QED BY <2>2, <2>3, <2>4
<1>5. CASE Kind = "randscan"
  <2>1. Gen!Elements = Gen!Cells
    BY <1>5 DEF Gen!Elements, Kind
  <2>2. PICK i \in 0 .. Gen!Cells - 1 : touch = Gen!Touch("L", "a", i)
    BY <1>5 DEF MayStand, Gen!Draws, Kind
  <2>3. touch \in TouchType /\ touch.index = i
    BY <1>1, <2>2, TouchFields DEF Arrays
  <2> QED BY <1>1, <2>1, <2>2, <2>3
<1> QED BY <1>2, <1>3, <1>4, <1>5 DEF Ready, Gen!Recognised, Kind

-----------------------------------------------------------------------------
(* The generator keeps its invariant.                                      *)

\* What is appended stands behind what was there, turn by turn.
LEMMA Appended ==
  ASSUME NEW S, NEW k \in Nat, NEW m \in Nat, NEW old \in Seq(S), NEW new \in Seq(S),
         Len(old) = k * m, Len(new) = k
  PROVE  /\ old \o new \in Seq(S)
         /\ Len(old \o new) = k * (m + 1)
         /\ \A s \in 0 .. m - 1, c \in 1 .. k : (old \o new)[k * s + c] = old[k * s + c]
         /\ \A c \in 1 .. k : (old \o new)[k * m + c] = new[c]
<1>1. k * m \in Nat /\ k * (m + 1) = k * m + k
  OBVIOUS
<1>2. old \o new \in Seq(S) /\ Len(old \o new) = k * (m + 1)
  BY <1>1
<1>3. ASSUME NEW s \in 0 .. m - 1, NEW c \in 1 .. k
      PROVE  (old \o new)[k * s + c] = old[k * s + c]
  <2>1. k * s + k = k * (s + 1) /\ k * (s + 1) <= k * m /\ k * s \in Nat
    OBVIOUS
  <2>2. k * s + c \in 1 .. k * m
    BY <1>1, <2>1
  <2> QED BY <1>1, <2>2
<1>4. ASSUME NEW c \in 1 .. k PROVE (old \o new)[k * m + c] = new[c]
  BY <1>1
<1> QED BY <1>2, <1>3, <1>4

\* What may stand in a turn depends on the command and on the shuffled order.
LEMMA SameScript ==
  ASSUME command' = command, order' = order
  PROVE  /\ PerTurn' = PerTurn /\ Kind' = Kind
         /\ Gen!Recognised' <=> Gen!Recognised
         /\ Gen!Cells' = Gen!Cells /\ Gen!Turns' = Gen!Turns
         /\ Gen!Permutations' = Gen!Permutations
         /\ \A s, c, touch : MayStand(s, c, touch)' <=> MayStand(s, c, touch)
<1>1. PerTurn' = PerTurn /\ Kind' = Kind
  BY DEF PerTurn, Kind, Gen!Kind
<1>2. Gen!Cells' = Gen!Cells /\ Gen!Draws' = Gen!Draws
  BY DEF Gen!Cells, Gen!Draws, Gen!Kind
<1>3. Gen!Turns' = Gen!Turns
  BY <1>2 DEF Gen!Turns, Gen!Kind
<1>4. (Gen!Recognised' <=> Gen!Recognised) /\ Gen!Permutations' = Gen!Permutations
  BY DEF Gen!Recognised, Gen!Kind, Gen!Permutations
<1>5. ASSUME NEW s PROVE LoopTouches(s)' = LoopTouches(s)
  BY DEF LoopTouches
<1>6. ASSUME NEW s, NEW c, NEW touch
      PROVE  MayStand(s, c, touch)' <=> MayStand(s, c, touch)
  BY <1>1, <1>2, <1>5 DEF MayStand
<1> QED BY <1>1, <1>2, <1>3, <1>4, <1>6

\* A turn that emits what may stand there keeps the invariant.
LEMMA EmitKeeps ==
  ASSUME GenInv, stage = "run", turn < Gen!Turns,
         NEW touches, touches \in Seq(TouchType), Len(touches) = PerTurn,
         \A c \in 1 .. PerTurn : MayStand(turn, c, touches[c]),
         Gen!Emit(touches),
         command' = command, stage' = stage, order' = order,
         Kind = "listwalk" => node' = order[(turn + 1) % command.n]
  PROVE  GenInv'
<1>1. turn' = turn + 1 /\ trace' = trace \o touches
  BY DEF Gen!Emit
<1>2. PerTurn \in Nat
  BY DEF PerTurn
<1>3. turn \in Nat /\ trace \in Seq(TouchType) /\ Len(trace) = PerTurn * turn
      /\ command \in Commands /\ Ready
  BY DEF GenInv
<1> DEFINE k == PerTurn
           m == turn
<1>4. /\ trace' \in Seq(TouchType) /\ Len(trace') = k * (m + 1)
      /\ \A s \in 0 .. m - 1, c \in 1 .. k : trace'[k * s + c] = trace[k * s + c]
      /\ \A c \in 1 .. k : trace'[k * m + c] = touches[c]
  <2>1. k \in Nat /\ m \in Nat /\ trace \in Seq(TouchType) /\ Len(trace) = k * m
        /\ Len(touches) = k
    BY <1>2, <1>3
  <2> HIDE DEF k, m
  <2>2. /\ trace \o touches \in Seq(TouchType)
        /\ Len(trace \o touches) = k * (m + 1)
        /\ \A s \in 0 .. m - 1, c \in 1 .. k :
             (trace \o touches)[k * s + c] = trace[k * s + c]
        /\ \A c \in 1 .. k : (trace \o touches)[k * m + c] = touches[c]
    BY <2>1, Appended
  <2> QED BY <1>1, <2>2
<1>5. ASSUME NEW s \in 0 .. m, NEW c \in 1 .. k PROVE MayStand(s, c, trace'[k * s + c])
  <2>1. CASE s = m
    BY <1>4, <2>1
  <2>2. CASE s # m
    <3>1. s \in 0 .. m - 1
      BY <1>3, <2>2
    <3>2. MayStand(s, c, trace[PerTurn * s + c])
      BY <3>1 DEF GenInv
    <3> QED BY <1>4, <3>1, <3>2
  <2> QED BY <2>1, <2>2
<1>6. /\ PerTurn' = PerTurn /\ Kind' = Kind /\ (Gen!Recognised' <=> Gen!Recognised)
      /\ Gen!Cells' = Gen!Cells /\ Gen!Turns' = Gen!Turns
      /\ Gen!Permutations' = Gen!Permutations
      /\ \A s, c, touch : MayStand(s, c, touch)' <=> MayStand(s, c, touch)
  BY SameScript
<1>7. Ready'
  <2>1. Gen!Turns \in Nat
    BY <1>3, CommandNumbers DEF Ready
  <2> QED BY <1>1, <1>3, <1>6, <2>1 DEF Ready
<1>8. (\A s \in 0 .. turn - 1, c \in 1 .. PerTurn : MayStand(s, c, trace[PerTurn * s + c]))'
  BY <1>1, <1>3, <1>5, <1>6
<1>9. Kind = "listwalk" => node' = order'[turn' % command'.n]
  BY <1>1
<1> QED BY <1>1, <1>3, <1>4, <1>6, <1>7, <1>8, <1>9 DEF GenInv

\* A step that ends the process without emitting anything keeps it.
LEMMA EndKeeps ==
  ASSUME GenInv, stage' = "ended", UNCHANGED <<command, order, node, turn, trace>>,
         code' = "0" /\ Kind # "listwalk" => Ready /\ turn = Gen!Turns
  PROVE  GenInv'
<1>1. /\ PerTurn' = PerTurn /\ Kind' = Kind /\ (Gen!Recognised' <=> Gen!Recognised)
      /\ Gen!Cells' = Gen!Cells /\ Gen!Turns' = Gen!Turns
      /\ Gen!Permutations' = Gen!Permutations
      /\ \A s, c, touch : MayStand(s, c, touch)' <=> MayStand(s, c, touch)
  BY SameScript
<1>2. Ready' <=> Ready
  BY <1>1 DEF Ready
<1>3. (\A s \in 0 .. turn - 1, c \in 1 .. PerTurn : MayStand(s, c, trace[PerTurn * s + c]))'
  BY <1>1 DEF GenInv
<1> QED BY <1>1, <1>2, <1>3 DEF GenInv

\* The remainder of the next number.
LEMMA NextRemainder ==
  ASSUME NEW n \in Nat \ {0}, NEW s \in Nat
  PROVE  ((s % n) + 1) % n = (s + 1) % n
<1> DEFINE r == s % n
           q == s \div n
<1>1. r \in 0 .. n - 1 /\ q \in Nat /\ s = (q * n) + r
  BY Quotient
<1> HIDE DEF r, q
<1>2. CASE r = n - 1
  <2>1. s + 1 = ((q + 1) * n) + 0 /\ q + 1 \in Nat /\ 0 \in 0 .. n - 1
    <3>1. (q + 1) * n = q * n + n
      BY <1>1
    <3> QED BY <1>1, <1>2, <3>1
  <2>2. (((q + 1) * n) + 0) % n = 0
    <3>1. q + 1 \in Int
      BY <2>1
    <3> QED BY <2>1, <3>1, QuotientIs
  <2>3. r + 1 = (1 * n) + 0 /\ 0 \in 0 .. n - 1
    BY <1>2
  <2>4. ((1 * n) + 0) % n = 0
    BY <2>3, QuotientIs
  <2> QED BY <2>1, <2>2, <2>3, <2>4 DEF r
<1>3. CASE r # n - 1
  <2>1. s + 1 = (q * n) + (r + 1) /\ r + 1 \in 0 .. n - 1 /\ r + 1 = (0 * n) + (r + 1)
    BY <1>1, <1>3
  <2>2. ((q * n) + (r + 1)) % n = r + 1
    BY <1>1, <2>1, QuotientIs
  <2>3. ((0 * n) + (r + 1)) % n = r + 1
    BY <2>1, QuotientIs
  <2> QED BY <2>1, <2>2, <2>3 DEF r
<1> QED BY <1>2, <1>3

\* The next node of a shuffled list is the one that comes next in the order.
LEMMA NextInOrder ==
  ASSUME command.n \in Nat \ {0}, order \in Gen!Permutations, NEW s \in Nat
  PROVE  Gen!NextNode(order[s % command.n]) = order[(s + 1) % command.n]
<1> DEFINE n == command.n
           r == s % n
<1>1. n \in Nat \ {0}
  OBVIOUS
<1>2. /\ DOMAIN order = 0 .. n - 1
      /\ \A i, j \in 0 .. n - 1 : order[i] = order[j] => i = j
  BY DEF Gen!Permutations
<1>3. Gen!NextNode(order[r]) = order[((CHOOSE i \in DOMAIN order : order[i] = order[r]) + 1) % n]
  BY DEF Gen!NextNode
<1> HIDE DEF n
<1>4. r \in 0 .. n - 1 /\ (r + 1) % n = (s + 1) % n
  BY <1>1, Quotient, NextRemainder
<1> HIDE DEF r
<1>5. (CHOOSE i \in DOMAIN order : order[i] = order[r]) = r
  BY <1>2, <1>4
<1>6. Gen!NextNode(order[r]) = order[(s + 1) % n]
  BY <1>3, <1>4, <1>5
<1> QED BY <1>6 DEF n, r

-----------------------------------------------------------------------------
(* Every step of the generator.                                            *)

LEMMA InitGenInv ==
  ASSUME Gen!Init
  PROVE  GenInv
<1>1. turn = 0 /\ trace = <<>> /\ stage = "start" /\ command \in Commands
  BY DEF Gen!Init
<1>2. PerTurn \in Nat
  BY DEF PerTurn
<1>3. trace \in Seq(TouchType) /\ Len(trace) = PerTurn * turn
  BY <1>1, <1>2
<1> QED BY <1>1, <1>3 DEF GenInv

LEMMA StartKeeps ==
  ASSUME GenInv, Gen!Start
  PROVE  GenInv'
<1>1. /\ stage = "start" /\ Gen!Recognised /\ Gen!Cells >= 0 /\ turn = 0 /\ turn' = 0
      /\ stage' = "run" /\ command' = command /\ command \in Commands
      /\ trace' = trace /\ Len(trace) = PerTurn * turn /\ trace \in Seq(TouchType)
  BY DEF Gen!Start, GenInv
<1>2. /\ PerTurn' = PerTurn /\ Kind' = Kind /\ (Gen!Recognised' <=> Gen!Recognised)
      /\ Gen!Cells' = Gen!Cells /\ Gen!Turns' = Gen!Turns
      /\ Gen!Permutations' = Gen!Permutations
  <2>1. PerTurn' = PerTurn /\ Kind' = Kind
    BY <1>1 DEF PerTurn, Kind, Gen!Kind
  <2>2. Gen!Cells' = Gen!Cells
    BY <1>1 DEF Gen!Cells, Gen!Kind
  <2>3. Gen!Turns' = Gen!Turns
    BY <1>1, <2>2 DEF Gen!Turns, Gen!Kind
  <2>4. (Gen!Recognised' <=> Gen!Recognised) /\ Gen!Permutations' = Gen!Permutations
    BY <1>1 DEF Gen!Recognised, Gen!Kind, Gen!Permutations
  <2> QED BY <2>1, <2>2, <2>3, <2>4
<1>3. Kind = "listwalk" =>
        command.n > 0 /\ order' \in Gen!Permutations /\ node' = order'[0]
  BY DEF Gen!Start, Gen!Cells, Kind
<1>4. Ready'
  <2>1. Gen!Turns \in Nat
    BY <1>1, CommandNumbers
  <2> QED BY <1>1, <1>2, <1>3, <2>1 DEF Ready
<1>5. Kind = "listwalk" => node' = order'[turn' % command'.n]
  <2>1. ASSUME Kind = "listwalk" PROVE 0 % command.n = 0
    <3>1. command.n \in Nat \ {0}
      BY <1>1, <1>3, <2>1, CommandNumbers
    <3> HIDE DEF Kind
    <3> QED BY <3>1
  <2> QED BY <1>1, <1>3, <2>1
<1>6. (\A s \in 0 .. turn - 1, c \in 1 .. PerTurn : MayStand(s, c, trace[PerTurn * s + c]))'
  BY <1>1
<1> QED BY <1>1, <1>2, <1>4, <1>5, <1>6 DEF GenInv

LEMMA MatmulKeeps ==
  ASSUME GenInv, Gen!Matmul
  PROVE  GenInv'
<1> DEFINE touches == LoopTouches(turn)
<1>1. Kind = "matmul" /\ PerTurn = 4 /\ stage = "run" /\ turn < Gen!Turns /\ turn \in Nat
      /\ command \in Commands /\ Ready
  BY DEF Gen!Matmul, Gen!Running, Kind, PerTurn, GenInv
<1>2. Gen!Emit(touches) /\ command' = command /\ stage' = stage /\ order' = order
  BY DEF Gen!Matmul, LoopTouches
<1>3. Len(touches) = 4 /\ DOMAIN touches = 1 .. 4 /\ touches = [c \in 1 .. 4 |-> touches[c]]
  BY DEF LoopTouches, Gen!MatmulTouches
<1> HIDE DEF touches
<1>4. \A c \in 1 .. PerTurn : MayStand(turn, c, touches[c])
  BY <1>1 DEF MayStand, touches
<1>5. \A c \in 1 .. 4 : touches[c] \in TouchType
  BY <1>1, <1>4, TouchesElements
<1>6. touches \in Seq(TouchType)
  BY <1>3, <1>5
<1> QED BY <1>1, <1>2, <1>3, <1>4, <1>6, EmitKeeps

LEMMA HopKeeps ==
  ASSUME GenInv, Gen!Hop
  PROVE  GenInv'
<1> DEFINE touches == NodeTouches(node)
<1>1. Kind = "listwalk" /\ PerTurn = 2 /\ stage = "run" /\ turn < Gen!Turns /\ turn \in Nat
      /\ command \in Commands /\ Ready /\ node = order[turn % command.n]
  BY DEF Gen!Hop, Gen!Running, Kind, PerTurn, GenInv
<1>2. Gen!Emit(touches) /\ command' = command /\ stage' = stage /\ order' = order
      /\ node' = Gen!NextNode(node)
  BY DEF Gen!Hop, NodeTouches
<1>3. Len(touches) = 2 /\ DOMAIN touches = 1 .. 2 /\ touches = [c \in 1 .. 2 |-> touches[c]]
  BY DEF NodeTouches
<1>4. touches = NodeTouches(order[turn % command.n])
  BY <1>1
<1> HIDE DEF touches
<1>5. \A c \in 1 .. PerTurn : MayStand(turn, c, touches[c])
  BY <1>1, <1>4 DEF MayStand
<1>6. \A c \in 1 .. 2 : touches[c] \in TouchType
  BY <1>1, <1>5, TouchesElements
<1>7. touches \in Seq(TouchType)
  BY <1>3, <1>6
<1>8. node' = order[(turn + 1) % command.n]
  <2>1. command.n \in Nat \ {0} /\ order \in Gen!Permutations
    BY <1>1, CommandNumbers DEF Ready
  <2> QED BY <1>1, <1>2, <2>1, NextInOrder
<1> QED BY <1>1, <1>2, <1>3, <1>5, <1>7, <1>8, EmitKeeps

\* A scan and a draw emit one load each.
LEMMA OneTouchKeeps ==
  ASSUME GenInv, Kind \in {"seqscan", "randscan"}, stage = "run", turn < Gen!Turns,
         NEW touch, MayStand(turn, 1, touch), Gen!Emit(<<touch>>),
         command' = command, stage' = stage, order' = order
  PROVE  GenInv'
<1>1. PerTurn = 1 /\ turn \in Nat /\ command \in Commands /\ Ready /\ Kind # "listwalk"
  BY DEF PerTurn, GenInv
<1>2. touch \in TouchType
  BY <1>1, TouchesElements
<1> DEFINE touches == <<touch>>
<1>3. touches \in Seq(TouchType) /\ Len(touches) = PerTurn
      /\ \A c \in 1 .. PerTurn : touches[c] = touch /\ c = 1
  BY <1>1, <1>2
<1>4. \A c \in 1 .. PerTurn : MayStand(turn, c, touches[c])
  BY <1>3
<1>5. Gen!Emit(touches)
  OBVIOUS
<1> HIDE DEF touches
<1> QED BY <1>1, <1>3, <1>4, <1>5, EmitKeeps

LEMMA GeneratorKeeps ==
  ASSUME GenInv, Gen!Next
  PROVE  GenInv'
<1>1. CASE Gen!Usage
  BY <1>1, EndKeeps DEF Gen!Usage, Gen!End
<1>2. CASE Gen!TooLong
  BY <1>2, EndKeeps DEF Gen!TooLong, Gen!End
<1>3. CASE Gen!NoFirstNode
  BY <1>3, EndKeeps DEF Gen!NoFirstNode, Gen!End, Kind
<1>4. CASE Gen!Start
  BY <1>4, StartKeeps
<1>5. CASE Gen!Matmul
  BY <1>5, MatmulKeeps
<1>6. CASE Gen!Hop
  BY <1>6, HopKeeps
<1>7. CASE Gen!Scan
  <2>1. Kind = "seqscan" /\ stage = "run" /\ turn < Gen!Turns
        /\ Gen!Emit(<<Gen!Touch("L", "a", turn % Gen!Cells)>>)
        /\ command' = command /\ stage' = stage /\ order' = order
    BY <1>7 DEF Gen!Scan, Gen!Running, Kind
  <2>2. MayStand(turn, 1, Gen!Touch("L", "a", turn % Gen!Cells))
    BY <2>1 DEF MayStand
  <2> QED BY <2>1, <2>2, OneTouchKeeps
<1>8. CASE Gen!Draw
  <2>1. PICK i \in Gen!Draws : Gen!Emit(<<Gen!Touch("L", "a", i)>>)
    BY <1>8 DEF Gen!Draw
  <2>2. Kind = "randscan" /\ stage = "run" /\ turn < Gen!Turns
        /\ command' = command /\ stage' = stage /\ order' = order
    BY <1>8 DEF Gen!Draw, Gen!Running, Kind
  <2>3. MayStand(turn, 1, Gen!Touch("L", "a", i))
    BY <2>2 DEF MayStand
  <2> QED BY <2>1, <2>2, <2>3, OneTouchKeeps
<1>9. CASE Gen!WildDraw
  BY <1>9, EndKeeps DEF Gen!WildDraw, Gen!End
<1>10. CASE Gen!Return
  BY <1>10, EndKeeps DEF Gen!Return, Gen!End, GenInv
<1> QED
  BY <1>1, <1>2, <1>3, <1>4, <1>5, <1>6, <1>7, <1>8, <1>9, <1>10 DEF Gen!Next

-----------------------------------------------------------------------------
(* What stands in the trace.                                               *)

\* It is about the generator only.
LEMMA SameGenerator ==
  ASSUME GenInv, UNCHANGED genVars
  PROVE  GenInv'
<1>1. command' = command /\ stage' = stage /\ code' = code /\ order' = order
      /\ node' = node /\ turn' = turn /\ trace' = trace
  BY DEF genVars
<1>2. /\ PerTurn' = PerTurn /\ Kind' = Kind /\ (Gen!Recognised' <=> Gen!Recognised)
      /\ Gen!Cells' = Gen!Cells /\ Gen!Turns' = Gen!Turns
      /\ Gen!Permutations' = Gen!Permutations
      /\ \A s, c, touch : MayStand(s, c, touch)' <=> MayStand(s, c, touch)
  BY <1>1, SameScript
<1>3. Ready' <=> Ready
  BY <1>1, <1>2 DEF Ready
<1>4. (\A s \in 0 .. turn - 1, c \in 1 .. PerTurn : MayStand(s, c, trace[PerTurn * s + c]))'
  BY <1>1, <1>2 DEF GenInv
<1> QED BY <1>1, <1>2, <1>3, <1>4 DEF GenInv

LEMMA GenInvAlways == Spec => []GenInv
<1>1. Init => GenInv
  BY InitGenInv DEF Init
<1>2. GenInv /\ [Next]_vars => GenInv'
  BY GeneratorKeeps, SameGenerator DEF Next, Generate, Feed, vars
<1> QED BY <1>1, <1>2, PTL DEF Spec

\* Every position of the trace is a place in a turn.
LEMMA PlaceOfTouch ==
  ASSUME GenInv, NEW t \in DOMAIN trace
  PROVE  \E s \in 0 .. turn - 1, c \in 1 .. PerTurn :
           t = PerTurn * s + c /\ MayStand(s, c, trace[t]) /\ s < Gen!Turns /\ Ready
<1>1. turn \in Nat /\ t \in 1 .. PerTurn * turn
  BY DEF GenInv
<1>2. PerTurn \in {1, 2, 4}
  BY DEF PerTurn
<1> DEFINE s == (t - 1) \div PerTurn
           c == ((t - 1) % PerTurn) + 1
<1>3. s \in 0 .. turn - 1 /\ c \in 1 .. PerTurn /\ t = PerTurn * s + c
  BY <1>1, <1>2
<1> HIDE DEF s, c
<1>4. MayStand(s, c, trace[PerTurn * s + c])
  BY <1>3 DEF GenInv
<1>5. Ready
  BY <1>1, <1>3 DEF GenInv
<1>6. s < Gen!Turns
  <2>1. Gen!Turns \in Nat /\ turn <= Gen!Turns
    BY <1>5, CommandNumbers DEF Ready, GenInv
  <2> QED BY <1>1, <1>3, <2>1
<1> QED BY <1>3, <1>4, <1>5, <1>6

\* Whatever the command line, every address in the trace of tracegen.cpp is
\* that of an element of an array the workload allocated: its index arithmetic
\* never leaves the arrays, for empty and impossible sizes included.
THEOREM TracesStayInArrays == Spec => []EmitsElements
<1>1. GenInv => EmitsElements
  <2> SUFFICES ASSUME GenInv, NEW t \in DOMAIN trace
               PROVE  trace[t].index \in 0 .. Gen!Elements - 1
    BY DEF EmitsElements, Gen!EmitsElements
  <2>1. PICK s \in 0 .. turn - 1, c \in 1 .. PerTurn :
          MayStand(s, c, trace[t]) /\ s < Gen!Turns /\ Ready
    BY PlaceOfTouch
  <2>2. command \in Commands /\ s \in Nat
    BY <2>1 DEF GenInv
  <2> QED BY <2>1, <2>2, TouchesElements
<1> QED BY <1>1, GenInvAlways, PTL

\* Two numbers have the same remainder when their difference has none.
LEMMA SameRemainder ==
  ASSUME NEW n \in Nat \ {0}, NEW a \in Nat, NEW b \in Nat
  PROVE  a % n = b % n <=> (b - a) % n = 0
<1> DEFINE p == a \div n
           r == a % n
           q == b \div n
           z == b % n
<1>1. p \in Nat /\ r \in 0 .. n - 1 /\ a = (p * n) + r
      /\ q \in Nat /\ z \in 0 .. n - 1 /\ b = (q * n) + z
  BY Quotient
<1> HIDE DEF p, r, q, z
<1>2. ASSUME r = z PROVE (b - a) % n = 0
  <2>1. (q - p) * n = q * n - p * n
    BY <1>1
  <2>2. b - a = ((q - p) * n) + 0 /\ q - p \in Int /\ 0 \in 0 .. n - 1
    BY <1>1, <1>2, <2>1
  <2> HIDE DEF p
  <2>3. (((q - p) * n) + 0) % n = 0
    BY <2>2, QuotientIs
  <2> QED BY <2>2, <2>3
<1>3. ASSUME (b - a) % n = 0 PROVE r = z
  <2> DEFINE d == (b - a) \div n
  <2>1. d \in Int /\ b - a = d * n
    BY <1>3
  <2> HIDE DEF d
  <2>2. (p + d) * n = p * n + d * n
    BY <1>1, <2>1
  <2>3. b = ((p + d) * n) + r /\ p + d \in Int
    BY <1>1, <2>1, <2>2
  <2>4. (((p + d) * n) + r) % n = r
    BY <1>1, <2>3, QuotientIs
  <2> QED BY <2>3, <2>4 DEF z
<1> QED BY <1>2, <1>3 DEF r, z

\* The hops of listwalk follow the shuffled order round and round: the links
\* written from order[(i + 1) % n] are one cycle through all n nodes.
THEOREM ShuffledListIsOneCycle == Spec => []TourIsOneCycle
<1>1. GenInv => TourIsOneCycle
  <2> SUFFICES ASSUME GenInv, Kind = "listwalk",
                      NEW s \in DOMAIN Gen!Hops, NEW t \in DOMAIN Gen!Hops
               PROVE  Gen!Hops[s] = Gen!Hops[t] <=> (t - s) % command.n = 0
    BY DEF TourIsOneCycle, Gen!TourIsOneCycle, Kind
  <2> DEFINE n == command.n
  <2>1. turn \in Nat /\ PerTurn = 2 /\ Len(trace) = 2 * turn /\ command \in Commands
    BY DEF GenInv, PerTurn
  <2>2. DOMAIN Gen!Hops = 1 .. turn
    BY <2>1 DEF Gen!Hops
  <2>3. Ready
    BY <2>1, <2>2 DEF GenInv
  <2>4. n \in Nat \ {0} /\ order \in [0 .. n - 1 -> 0 .. n - 1]
        /\ \A i, j \in 0 .. n - 1 : order[i] = order[j] => i = j
    BY <2>1, <2>3, CommandNumbers DEF Ready, Gen!Permutations
  <2>5. ASSUME NEW x \in 1 .. turn
        PROVE  (x - 1) % n \in 0 .. n - 1 /\ Gen!Hops[x] = order[(x - 1) % n]
    <3>1. x - 1 \in 0 .. turn - 1 /\ 2 * x - 1 = PerTurn * (x - 1) + 1 /\ 1 \in 1 .. PerTurn
      BY <2>1
    <3>2. MayStand(x - 1, 1, trace[2 * x - 1])
      BY <3>1 DEF GenInv
    <3> DEFINE i == order[(x - 1) % n]
    <3>3. (x - 1) % n \in 0 .. n - 1
      <4>1. x - 1 \in Nat /\ n \in Nat \ {0}
        BY <2>1, <2>4
      <4> HIDE DEF n
      <4> QED BY <4>1, Quotient
    <3>4. i \in Int
      BY <2>4, <3>3
    <3>5. trace[2 * x - 1] = Gen!Touch("L", "pool", 2 * i)
      BY <3>2 DEF MayStand, NodeTouches
    <3>6. Gen!Hops[x] = trace[2 * x - 1].index \div 2
      BY <2>1, <2>2 DEF Gen!Hops
    <3> HIDE DEF i
    <3>7. trace[2 * x - 1].index = 2 * i
      BY <3>4, <3>5, TouchFields DEF Arrays
    <3>8. Gen!Hops[x] = i
      BY <3>4, <3>6, <3>7
    <3> QED BY <3>3, <3>8 DEF i
  <2>6. Gen!Hops[s] = Gen!Hops[t] <=> (s - 1) % n = (t - 1) % n
    BY <2>2, <2>4, <2>5
  <2> HIDE DEF n
  <2>7. (s - 1) % n = (t - 1) % n <=> ((t - 1) - (s - 1)) % n = 0
    <3>1. s - 1 \in Nat /\ t - 1 \in Nat
      BY <2>1, <2>2
    <3> QED BY <2>4, <3>1, SameRemainder
  <2>8. (t - 1) - (s - 1) = t - s
    BY <2>2
  <2> QED BY <2>6, <2>7, <2>8 DEF n
<1> QED BY <1>1, GenInvAlways, PTL

-----------------------------------------------------------------------------
(* The matrix product.                                                     *)

\* Turn s of the three loops is the one of i, j and k.
LoopsAt(n, s, i, j, k) ==
  /\ s \in 0 .. n * n * n - 1
  /\ s \div n = i * n + j /\ s % n = k
  /\ (s \div n) % n = j /\ s \div (n * n) = i

LEMMA LoopTurn ==
  ASSUME NEW n \in Nat \ {0}, NEW i \in 0 .. n - 1, NEW j \in 0 .. n - 1, NEW k \in 0 .. n - 1,
         NEW s, s = (i * n + j) * n + k
  PROVE  LoopsAt(n, s, i, j, k)
<1> DEFINE p == i * n + j
<1>1. p \in 0 .. n * n - 1
  BY PlaceInMatrix
<1>2. p \div n = i /\ p % n = j
  <2>1. p = (i * n) + j
    OBVIOUS
  <2> QED BY <2>1, QuotientIs
<1>0. s = (p * n) + k
  OBVIOUS
<1> HIDE DEF p
<1>3. p \in Nat /\ n * n \in Nat \ {0} /\ (n * n) * n = n * n * n
  BY <1>1
<1>4. s \div n = p /\ s % n = k
  <2>1. ((p * n) + k) \div n = p /\ ((p * n) + k) % n = k
    BY <1>3, QuotientIs
  <2> QED BY <1>0, <2>1
<1>5. s \in 0 .. n * n * n - 1
  <2>1. p * n <= (n * n - 1) * n
    BY <1>1, <1>3
  <2>2. (n * n - 1) * n = n * n * n - n /\ p * n \in Nat
    BY <1>3
  <2> QED BY <1>0, <1>3, <2>1, <2>2
<1>6. s \div (n * n) = (s \div n) \div n
  <2>1. s \in Nat
    BY <1>5
  <2> QED BY <2>1, DivideTwice
<1> QED BY <1>2, <1>4, <1>5, <1>6 DEF p, LoopsAt

\* A finished product: n^3 turns of four touches each.
Product == GenInv /\ Kind = "matmul" /\ stage = "ended" /\ code = "0" /\ command.n > 0

LEMMA ProductTrace ==
  ASSUME Product
  PROVE  LET n == command.n IN
         /\ n \in Nat \ {0} /\ n * n * n \in Nat
         /\ DOMAIN trace = 1 .. 4 * (n * n * n)
         /\ \A s \in 0 .. n * n * n - 1, c \in 1 .. 4 :
              trace[4 * s + c] = LoopTouches(s)[c]
<1> DEFINE n == command.n
<1>1. n \in Nat \ {0}
  BY CommandNumbers DEF Product, GenInv
<1>2. turn = Gen!Turns /\ PerTurn = 4 /\ trace \in Seq(TouchType) /\ Len(trace) = 4 * turn
  BY DEF Product, GenInv, PerTurn
<1>3. Gen!Turns = n * n * n
  BY <1>1 DEF Gen!Turns, Gen!AtLeast0, Product, Kind
<1>4. n * n * n \in Nat
  BY <1>1
<1>5. DOMAIN trace = 1 .. 4 * (n * n * n)
  BY <1>2, <1>3
<1>6. ASSUME NEW s \in 0 .. n * n * n - 1, NEW c \in 1 .. 4
      PROVE  trace[4 * s + c] = LoopTouches(s)[c]
  <2>1. MayStand(s, c, trace[PerTurn * s + c])
    BY <1>2, <1>3 DEF Product, GenInv
  <2> QED BY <1>2, <2>1 DEF MayStand, Product
<1> QED BY <1>1, <1>4, <1>5, <1>6

\* The four touches of the turn of i, j and k.
LEMMA TurnOfProduct ==
  ASSUME Product, NEW i \in 0 .. command.n - 1, NEW j \in 0 .. command.n - 1,
         NEW k \in 0 .. command.n - 1
  PROVE  LET n == command.n
             t == 4 * ((i * n + j) * n + k)
         IN  /\ {t + 1, t + 2, t + 3, t + 4} \subseteq DOMAIN trace
             /\ trace[t + 1] = Gen!Touch("L", "A", i * n + k)
             /\ trace[t + 2] = Gen!Touch("L", "B", k * n + j)
             /\ trace[t + 3] = Gen!Touch("L", "C", i * n + j)
             /\ trace[t + 4] = Gen!Touch("S", "C", i * n + j)
<1> DEFINE n == command.n
           s == (i * n + j) * n + k
<1>1. /\ n \in Nat \ {0} /\ n * n * n \in Nat
      /\ DOMAIN trace = 1 .. 4 * (n * n * n)
      /\ \A x \in 0 .. n * n * n - 1, c \in 1 .. 4 : trace[4 * x + c] = LoopTouches(x)[c]
  BY ProductTrace
<1>2. i \in 0 .. n - 1 /\ j \in 0 .. n - 1 /\ k \in 0 .. n - 1
  OBVIOUS
<1>3. LoopTouches(s) = Gen!MatmulTouches(s \div (n * n), (s \div n) % n, s % n, n)
  BY DEF LoopTouches
<1> HIDE DEF n
<1>4. /\ s \in 0 .. n * n * n - 1 /\ s \div (n * n) = i /\ (s \div n) % n = j /\ s % n = k
  <2>1. n \in Nat \ {0} /\ s = (i * n + j) * n + k
    BY <1>1
  <2> HIDE DEF s
  <2>2. LoopsAt(n, s, i, j, k)
    BY <1>2, <2>1, LoopTurn
  <2> QED BY <2>2 DEF LoopsAt
<1> HIDE DEF s
<1>5. LoopTouches(s) = Gen!MatmulTouches(i, j, k, n)
  BY <1>3, <1>4
<1>6. /\ LoopTouches(s)[1] = Gen!Touch("L", "A", i * n + k)
      /\ LoopTouches(s)[2] = Gen!Touch("L", "B", k * n + j)
      /\ LoopTouches(s)[3] = Gen!Touch("L", "C", i * n + j)
      /\ LoopTouches(s)[4] = Gen!Touch("S", "C", i * n + j)
  BY <1>5 DEF Gen!MatmulTouches
<1> DEFINE m == n * n * n
<1>7. m \in Nat /\ s \in 0 .. m - 1 /\ DOMAIN trace = 1 .. 4 * m
      /\ \A x \in 0 .. m - 1, c \in 1 .. 4 : trace[4 * x + c] = LoopTouches(x)[c]
  BY <1>1, <1>4
<1> HIDE DEF m
<1>8. /\ trace[4 * s + 1] = LoopTouches(s)[1] /\ trace[4 * s + 2] = LoopTouches(s)[2]
      /\ trace[4 * s + 3] = LoopTouches(s)[3] /\ trace[4 * s + 4] = LoopTouches(s)[4]
  <2>1. \A c \in 1 .. 4 : trace[4 * s + c] = LoopTouches(s)[c]
    BY <1>7
  <2>2. 1 \in 1 .. 4 /\ 2 \in 1 .. 4 /\ 3 \in 1 .. 4 /\ 4 \in 1 .. 4
    OBVIOUS
  <2> QED BY <2>1, <2>2, Zenon
<1>9. {4 * s + 1, 4 * s + 2, 4 * s + 3, 4 * s + 4} \subseteq DOMAIN trace
  BY <1>7
<1> QED BY <1>6, <1>8, <1>9 DEF n, s

\* Every position of the trace is in the turn of some i, j and k.
LEMMA TurnOfPosition ==
  ASSUME Product, NEW t \in DOMAIN trace
  PROVE  LET n == command.n IN
         \E i, j, k \in 0 .. n - 1 : \E c \in 1 .. 4 : t = 4 * ((i * n + j) * n + k) + c
<1> DEFINE n == command.n
<1>1. /\ n \in Nat \ {0} /\ n * n * n \in Nat
      /\ DOMAIN trace = 1 .. 4 * (n * n * n)
  BY ProductTrace
<1> HIDE DEF n
<1> DEFINE m == n * n * n
           s == (t - 1) \div 4
           c == ((t - 1) % 4) + 1
<1>2. m \in Nat /\ t \in 1 .. 4 * m
  BY <1>1
<1> HIDE DEF m
<1>3. s \in 0 .. m - 1 /\ c \in 1 .. 4 /\ t = 4 * s + c
  BY <1>2
<1> HIDE DEF s, c
<1>4. s \in 0 .. n * n * n - 1
  BY <1>3 DEF m
<1> DEFINE i == s \div (n * n)
           j == (s \div n) % n
           k == s % n
<1>5. i \in 0 .. n - 1 /\ j \in 0 .. n - 1 /\ k \in 0 .. n - 1 /\ s = (i * n + j) * n + k
  BY <1>1, <1>4, TurnOfLoops
<1> HIDE DEF i, j, k
<1>6. \E a, b, d \in 0 .. n - 1 : \E e \in 1 .. 4 : t = 4 * ((a * n + b) * n + d) + e
  BY <1>3, <1>5
<1> QED BY <1>6 DEF n

\* Touches are equal when they are the same in every part.
LEMMA TouchesDiffer ==
  ASSUME NEW op, NEW array, NEW i, NEW q, NEW other, NEW k,
         Gen!Touch(op, array, i) = Gen!Touch(q, other, k)
  PROVE  op = q /\ array = other /\ i = k
BY DEF Gen!Touch

\* The stores to an element of C are those of the turns of its row and column.
LEMMA StoresOfProduct ==
  ASSUME Product, NEW x \in 0 .. command.n * command.n - 1, NEW t
  PROVE  t \in Gen!Positions("S", "C", x)
           <=> \E k \in 0 .. command.n - 1 : t = 4 * (x * command.n + k) + 4
<1> DEFINE n == command.n
<1>1. n \in Nat \ {0}
  BY ProductTrace
<1>2. ASSUME NEW k \in 0 .. n - 1, t = 4 * (x * n + k) + 4
      PROVE  t \in Gen!Positions("S", "C", x)
  <2> DEFINE i == x \div n
             j == x % n
  <2>1. n \in Nat \ {0} /\ x \in Nat /\ x < n * n /\ k \in 0 .. n - 1
    BY <1>1, <1>2
  <2> HIDE DEF n
  <2>2. i \in 0 .. n - 1 /\ j \in 0 .. n - 1 /\ i * n + j = x
    BY <2>1, Quotient, QuotientBelow
  <2> HIDE DEF i, j
  <2>3. i \in 0 .. command.n - 1 /\ j \in 0 .. command.n - 1 /\ k \in 0 .. command.n - 1
    BY <2>1, <2>2 DEF n
  <2>4. LET z == 4 * ((i * n + j) * n + k)
        IN  z + 4 \in DOMAIN trace /\ trace[z + 4] = Gen!Touch("S", "C", i * n + j)
    BY <2>3, TurnOfProduct DEF n
  <2>5. t \in DOMAIN trace /\ trace[t] = Gen!Touch("S", "C", x)
    BY <1>2, <2>2, <2>4
  <2> QED BY <2>5 DEF Gen!Positions
<1>3. ASSUME t \in Gen!Positions("S", "C", x)
      PROVE  \E k \in 0 .. n - 1 : t = 4 * (x * n + k) + 4
  <2>1. t \in DOMAIN trace /\ trace[t] = Gen!Touch("S", "C", x)
    BY <1>3 DEF Gen!Positions
  <2>2. PICK i \in 0 .. n - 1, j \in 0 .. n - 1, k \in 0 .. n - 1, c \in 1 .. 4 :
          t = 4 * ((i * n + j) * n + k) + c
    BY <2>1, TurnOfPosition
  <2> DEFINE z == 4 * ((i * n + j) * n + k)
  <2>3. /\ trace[z + 1] = Gen!Touch("L", "A", i * n + k)
        /\ trace[z + 2] = Gen!Touch("L", "B", k * n + j)
        /\ trace[z + 3] = Gen!Touch("L", "C", i * n + j)
        /\ trace[z + 4] = Gen!Touch("S", "C", i * n + j)
    BY TurnOfProduct
  <2>4. t = z + c
    BY <2>2
  <2> HIDE DEF z, n
  <2>5. c = 4
    BY <2>1, <2>3, <2>4, TouchesDiffer
  <2>6. x = i * n + j
    BY <2>1, <2>3, <2>4, <2>5, TouchesDiffer
  <2> QED BY <2>4, <2>5, <2>6 DEF z
<1> QED BY <1>2, <1>3

\* The pairs of turns that load the same element of B lie a whole matrix apart.
LEMMA ColumnsReturn ==
  ASSUME Product, NEW x \in 0 .. command.n * command.n - 1,
         NEW t \in Gen!Positions("L", "B", x), NEW u \in Gen!Positions("L", "B", x), t < u
  PROVE  u - t >= 4 * command.n * command.n
<1> DEFINE n == command.n
<1>1. n \in Nat \ {0}
  BY ProductTrace
<1>2. ASSUME NEW y \in Gen!Positions("L", "B", x)
      PROVE  \E i, j, k \in 0 .. n - 1 : x = k * n + j /\ y = 4 * ((i * n + j) * n + k) + 2
  <2>1. y \in DOMAIN trace /\ trace[y] = Gen!Touch("L", "B", x)
    BY DEF Gen!Positions
  <2>2. PICK i \in 0 .. n - 1, j \in 0 .. n - 1, k \in 0 .. n - 1, c \in 1 .. 4 :
          y = 4 * ((i * n + j) * n + k) + c
    BY <2>1, TurnOfPosition
  <2> DEFINE z == 4 * ((i * n + j) * n + k)
  <2>3. /\ trace[z + 1] = Gen!Touch("L", "A", i * n + k)
        /\ trace[z + 2] = Gen!Touch("L", "B", k * n + j)
        /\ trace[z + 3] = Gen!Touch("L", "C", i * n + j)
        /\ trace[z + 4] = Gen!Touch("S", "C", i * n + j)
    BY TurnOfProduct
  <2>4. y = z + c
    BY <2>2
  <2> HIDE DEF z, n
  <2>5. c = 2
    BY <2>1, <2>3, <2>4, TouchesDiffer
  <2>6. x = k * n + j
    BY <2>1, <2>3, <2>4, <2>5, TouchesDiffer
  <2> QED BY <2>4, <2>5, <2>6 DEF z
<1>3. PICK i \in 0 .. n - 1, j \in 0 .. n - 1, k \in 0 .. n - 1 :
        x = k * n + j /\ t = 4 * ((i * n + j) * n + k) + 2
  BY <1>2
<1>4. PICK a \in 0 .. n - 1, b \in 0 .. n - 1, d \in 0 .. n - 1 :
        x = d * n + b /\ u = 4 * ((a * n + b) * n + d) + 2
  BY <1>2
<1> HIDE DEF n
<1>5. k = d /\ j = b
  <2>1. ((k * n) + j) \div n = k /\ ((k * n) + j) % n = j
    BY <1>1, QuotientIs
  <2>2. ((d * n) + b) \div n = d /\ ((d * n) + b) % n = b
    BY <1>1, QuotientIs
  <2> QED BY <1>3, <1>4, <2>1, <2>2
<1>6. /\ (i * n + j) * n = i * (n * n) + j * n /\ (a * n + j) * n = a * (n * n) + j * n
      /\ i * (n * n) \in Nat /\ a * (n * n) \in Nat /\ j * n \in Nat /\ n * n \in Nat
  BY <1>1
<1>7. i < a
  <2>1. CASE a <= i
    <3>1. a * (n * n) <= i * (n * n)
      BY <1>1, <2>1
    <3> QED BY <1>3, <1>4, <1>5, <1>6, <3>1
  <2> QED BY <2>1
<1>8. a * (n * n) >= i * (n * n) + n * n
  <2>1. (i + 1) * (n * n) = i * (n * n) + n * n
    BY <1>1
  <2>2. (i + 1) * (n * n) <= a * (n * n)
    BY <1>1, <1>7
  <2> QED BY <1>6, <2>1, <2>2
<1>9. u - t >= 4 * (n * n)
  BY <1>3, <1>4, <1>5, <1>6, <1>8
<1> QED BY <1>1, <1>9 DEF n

\* The stores to an element of C: n of them, close together.
LEMMA RowsStay ==
  ASSUME Product, NEW x \in 0 .. command.n * command.n - 1
  PROVE  /\ Cardinality(Gen!Positions("S", "C", x)) = command.n
         /\ \A t, u \in Gen!Positions("S", "C", x) : u - t < 4 * command.n
<1> DEFINE n == command.n
           stores == Gen!Positions("S", "C", x)
<1>1. n \in Nat \ {0}
  BY ProductTrace
<1>2. \A t : t \in stores <=> \E k \in 0 .. n - 1 : t = 4 * (x * n + k) + 4
  BY StoresOfProduct
<1> HIDE DEF n, stores
<1>3. x \in Nat /\ x * n \in Nat
  <2>1. x \in Nat
    OBVIOUS
  <2> QED BY <1>1, <2>1
<1> DEFINE f == [k \in 0 .. n - 1 |-> 4 * (x * n + k) + 4]
<1>4. f \in Bijection(0 .. n - 1, stores)
  <2>1. f \in [0 .. n - 1 -> stores]
    BY <1>2
  <2>2. \A k, l \in 0 .. n - 1 : f[k] = f[l] => k = l
    BY <1>1, <1>3
  <2>3. \A t \in stores : \E k \in 0 .. n - 1 : f[k] = t
    BY <1>2
  <2> QED BY <2>1, <2>2, <2>3 DEF Bijection, Injection, Surjection, IsInjective
<1>5. Cardinality(stores) = n
  <2>1. IsFiniteSet(0 .. n - 1) /\ Cardinality(0 .. n - 1) = n
    BY <1>1, FS_Interval
  <2> QED BY <1>4, <2>1, FS_Bijection DEF ExistsBijection
<1>6. ASSUME NEW t \in stores, NEW u \in stores PROVE u - t < 4 * n
  <2>1. PICK k \in 0 .. n - 1 : t = 4 * (x * n + k) + 4
    BY <1>2
  <2>2. PICK l \in 0 .. n - 1 : u = 4 * (x * n + l) + 4
    BY <1>2
  <2> DEFINE m == x * n
  <2>3. m \in Nat /\ t = 4 * (m + k) + 4 /\ u = 4 * (m + l) + 4
    BY <1>3, <2>1, <2>2
  <2> HIDE DEF m
  <2> QED BY <1>1, <2>3
<1> QED BY <1>5, <1>6 DEF n, stores

\* The loads and the store of every turn: each row of A meets each column of B.
LEMMA RowsMeetColumns ==
  ASSUME Product
  PROVE  LET n == command.n
         IN  {<<trace[t].index, trace[t + 1].index, trace[t + 2].index>> :
                t \in {u \in DOMAIN trace : u % 4 = 1}}
               = {<<i * n + k, k * n + j, i * n + j>> : i, j, k \in 0 .. n - 1}
<1> DEFINE n == command.n
           triple(t) == <<trace[t].index, trace[t + 1].index, trace[t + 2].index>>
           cell(i, j, k) == <<i * n + k, k * n + j, i * n + j>>
           turns == {u \in DOMAIN trace : u % 4 = 1}
<1>1. n \in Nat \ {0}
  BY ProductTrace
<1>2. ASSUME NEW i \in 0 .. n - 1, NEW j \in 0 .. n - 1, NEW k \in 0 .. n - 1
      PROVE  LET t == 4 * ((i * n + j) * n + k) + 1
             IN  t \in turns /\ triple(t) = cell(i, j, k)
  <2> DEFINE s == (i * n + j) * n + k
             z == 4 * s
  <2>1. /\ {z + 1, z + 2, z + 3, z + 4} \subseteq DOMAIN trace
        /\ trace[z + 1] = Gen!Touch("L", "A", i * n + k)
        /\ trace[z + 2] = Gen!Touch("L", "B", k * n + j)
        /\ trace[z + 3] = Gen!Touch("L", "C", i * n + j)
    BY TurnOfProduct
  <2>2. s \in Int
    BY <1>1
  <2>3. (z + 1) % 4 = 1 /\ (z + 1) + 1 = z + 2 /\ (z + 1) + 2 = z + 3
    <3> HIDE DEF s
    <3> QED BY <2>2
  <2>4. /\ i * n + k \in Int /\ k * n + j \in Int /\ i * n + j \in Int
    BY <1>1
  <2> HIDE DEF z, n
  <2>5. /\ trace[z + 1].index = i * n + k /\ trace[z + 2].index = k * n + j
        /\ trace[z + 3].index = i * n + j
    BY <2>1, <2>4, TouchFields DEF Arrays
  <2>6. triple(z + 1) = cell(i, j, k) /\ z + 1 \in turns
    BY <2>1, <2>3, <2>5
  <2> QED BY <2>6 DEF z
<1>3. ASSUME NEW t \in turns
      PROVE  \E i, j, k \in 0 .. n - 1 : triple(t) = cell(i, j, k)
  <2>1. PICK i \in 0 .. n - 1, j \in 0 .. n - 1, k \in 0 .. n - 1, c \in 1 .. 4 :
          t = 4 * ((i * n + j) * n + k) + c
    BY TurnOfPosition
  <2> DEFINE s == (i * n + j) * n + k
  <2>2. s \in Int
    BY <1>1
  <2>3. t = 4 * s + c /\ t % 4 = 1
    BY <2>1
  <2>4. c = 1
    <3> HIDE DEF s
    <3> QED BY <2>2, <2>3
  <2>5. t = 4 * ((i * n + j) * n + k) + 1
    BY <2>1, <2>4
  <2> HIDE DEF n, triple, cell, turns, s
  <2>6. triple(t) = cell(i, j, k)
    BY <1>2, <2>5
  <2> QED BY <2>6
<1>4. {triple(t) : t \in turns} = {cell(i, j, k) : i, j, k \in 0 .. n - 1}
  <2>1. ASSUME NEW e \in {triple(t) : t \in turns}
        PROVE  e \in {cell(i, j, k) : i, j, k \in 0 .. n - 1}
    <3>1. PICK t \in turns : e = triple(t)
      OBVIOUS
    <3> HIDE DEF n, triple, cell, turns
    <3>2. PICK i \in 0 .. n - 1, j \in 0 .. n - 1, k \in 0 .. n - 1 : triple(t) = cell(i, j, k)
      BY <1>3
    <3> QED BY <3>1, <3>2
  <2>2. ASSUME NEW e \in {cell(i, j, k) : i, j, k \in 0 .. n - 1}
        PROVE  e \in {triple(t) : t \in turns}
    <3>1. PICK i \in 0 .. n - 1, j \in 0 .. n - 1, k \in 0 .. n - 1 : e = cell(i, j, k)
      OBVIOUS
    <3> HIDE DEF n, triple, cell, turns
    <3> QED BY <1>2, <3>1
  <2> QED BY <2>1, <2>2
<1> QED BY <1>4

\* For a matrix of every size, a finished matmul has met every row of A with
\* every column of B once; it finishes an element of C before it turns to the
\* next, and comes back to an element of B only after all others.
THEOREM MatmulIsLocal == Spec => []MatmulLocality
<1>1. GenInv => MatmulLocality
  <2>0. \A S : Gen!Cardinality(S) = Cardinality(S)
    BY DEF Gen!Cardinality, Cardinality
  <2> SUFFICES ASSUME GenInv, Kind = "matmul", stage = "ended", code = "0", command.n > 0
               PROVE  LET n == command.n IN
                      /\ {<<trace[t].index, trace[t + 1].index, trace[t + 2].index>> :
                            t \in {u \in DOMAIN trace : u % 4 = 1}}
                           = {<<i * n + k, k * n + j, i * n + j>> : i, j, k \in 0 .. n - 1}
                      /\ \A x \in 0 .. n * n - 1 :
                           /\ Cardinality(Gen!Positions("S", "C", x)) = n
                           /\ \A t, u \in Gen!Positions("L", "B", x) :
                                t < u => u - t >= 4 * n * n
                           /\ \A t, u \in Gen!Positions("S", "C", x) : u - t < 4 * n
    BY <2>0 DEF MatmulLocality, Gen!MatmulLocality, Kind
  <2>1. Product
    BY DEF Product
  <2>2. ASSUME NEW x \in 0 .. command.n * command.n - 1
        PROVE  /\ Cardinality(Gen!Positions("S", "C", x)) = command.n
               /\ \A t, u \in Gen!Positions("L", "B", x) :
                    t < u => u - t >= 4 * command.n * command.n
               /\ \A t, u \in Gen!Positions("S", "C", x) : u - t < 4 * command.n
    BY <2>1, RowsStay, ColumnsReturn
  <2> QED BY <2>1, <2>2, RowsMeetColumns
<1> QED BY <1>1, GenInvAlways, PTL

-----------------------------------------------------------------------------
(* A cache of any configuration that is fed the trace.                     *)

\* The block of the last touch is held if the touch was a load.
RunInv ==
  /\ GenInv
  /\ config \in Configs /\ place \in Placements
  /\ Kept(config, cache)
  /\ fed \in 0 .. Len(trace)
  /\ fed > 0 => stage = "ended" /\ code = "0"
  /\ fed > 0 /\ trace[fed].op = "L" =>
       IsHit(config, cache, BlockOf(config, AddressOf(trace[fed])))

\* The element of a touch has an address.
LEMMA TouchAddress ==
  ASSUME GenInv, place \in Placements, NEW t \in DOMAIN trace
  PROVE  AddressOf(trace[t]) \in Nat /\ trace[t] \in TouchType
<1>1. PICK s \in 0 .. turn - 1, c \in 1 .. PerTurn :
        MayStand(s, c, trace[t]) /\ s < Gen!Turns /\ Ready
  BY PlaceOfTouch
<1>2. command \in Commands /\ s \in Nat
  BY <1>1 DEF GenInv
<1>3. trace[t] \in TouchType /\ trace[t].index \in 0 .. Gen!Elements - 1
  BY <1>1, <1>2, TouchesElements
<1>4. trace[t].array \in Arrays /\ trace[t].index \in Nat
  BY <1>3 DEF TouchType
<1>5. place[trace[t].array] \in Nat
  BY <1>4, PlacementsAssumption DEF Arrays
<1> QED BY <1>3, <1>4, <1>5 DEF AddressOf

\* After a load its block is held, under every policy.
LEMMA LoadStays ==
  ASSUME NEW g, Constructible(g), NEW c, Kept(g, c), NEW a \in Nat,
         NEW d \in AfterAccess(g, c, a, FALSE)
  PROVE  IsHit(g, d, BlockOf(g, a))
<1> DEFINE b == BlockOf(g, a)
           load == FALSE
<1>1. /\ b \in Nat /\ CacheType(g, Nat, c) /\ SoundLines(g, c) /\ load \in BOOLEAN
      /\ ~load
  BY BlockOfType, KeptFacts
<1>2. \/ IsHit(g, c, b) /\ d = AfterHit(g, c, a, load)
      \/ /\ ~IsHit(g, c, b) /\ load /\ ~WriteAllocates(g)
         /\ d = AfterWriteAround(g, c, a)
      \/ /\ ~IsHit(g, c, b) /\ (load => WriteAllocates(g))
         /\ \E w \in PickWays(g, c, SetOf(g, b)) : d = AfterFill(g, c, a, load, w)
  <2>1. d \in AfterAccess(g, c, a, load)
    OBVIOUS
  <2> HIDE DEF load
  <2> QED BY <2>1, AccessPaths
<1> HIDE DEF load
<1>3. CASE IsHit(g, c, b) /\ d = AfterHit(g, c, a, load)
  BY <1>1, <1>3, HitHolds
<1>4. CASE /\ ~IsHit(g, c, b)
           /\ \E w \in PickWays(g, c, SetOf(g, b)) : d = AfterFill(g, c, a, load, w)
  <2>1. PICK w \in Ways(g) : d = AfterFill(g, c, a, load, w)
    BY <1>4, PickIsWay
  <2>2. \A x \in Nat :
          IsHit(g, d, x) <=>
            \/ x = BlockOf(g, a)
            \/ IsHit(g, c, x) /\ ~Leaving(g, c.lines[SetOf(g, b)][w], SetOf(g, b), x)
    BY <1>1, <1>4, <2>1, FillHolds
  <2> QED BY <1>1, <2>2
<1> QED BY <1>1, <1>2, <1>3, <1>4

LEMMA InitRunInv ==
  ASSUME Init
  PROVE  RunInv
<1>1. GenInv /\ config \in Configs /\ place \in Placements /\ fed = 0
  BY InitGenInv DEF Init
<1>2. Kept(config, cache)
  BY <1>1, ConfigsAssumption, NewCacheKept DEF Init
<1>3. fed \in 0 .. Len(trace)
  BY <1>1 DEF GenInv
<1> QED BY <1>1, <1>2, <1>3 DEF RunInv

\* The generator runs before the first touch is fed.
LEMMA GenerateKeepsRun ==
  ASSUME RunInv, Generate
  PROVE  RunInv'
<1>1. GenInv'
  BY GeneratorKeeps DEF RunInv, Generate
<1>2. config' = config /\ place' = place /\ cache' = cache /\ fed' = fed /\ Gen!Next
  BY DEF Generate
<1>3. stage # "ended"
  BY <1>2 DEF Gen!Next, Gen!Usage, Gen!TooLong, Gen!NoFirstNode, Gen!Start, Gen!Matmul,
              Gen!Hop, Gen!Scan, Gen!Draw, Gen!WildDraw, Gen!Return, Gen!Running
<1>4. fed = 0
  BY <1>3 DEF RunInv
<1>5. fed' \in 0 .. Len(trace')
  BY <1>1, <1>2, <1>4 DEF GenInv
<1> QED BY <1>1, <1>2, <1>4, <1>5 DEF RunInv

\* One touch is one access of the cache.
LEMMA FeedIsAccess ==
  ASSUME RunInv, Feed
  PROVE  /\ stage = "ended" /\ code = "0" /\ fed' = fed + 1 /\ fed + 1 \in DOMAIN trace
         /\ Constructible(config)
         /\ AddressOf(trace[fed + 1]) \in Nat /\ trace[fed + 1] \in TouchType
         /\ cache' \in AfterAccess(config, cache, AddressOf(trace[fed + 1]),
                                   trace[fed + 1].op = "S")
<1>1. stage = "ended" /\ code = "0" /\ fed' = fed + 1 /\ fed < Len(trace)
  BY DEF Feed
<1>2. fed + 1 \in DOMAIN trace
  BY <1>1 DEF RunInv, GenInv
<1>3. AddressOf(trace[fed + 1]) \in Nat /\ trace[fed + 1] \in TouchType
  BY <1>2, TouchAddress DEF RunInv
<1>4. Constructible(config)
  BY ConfigsAssumption DEF RunInv
<1> QED BY <1>1, <1>2, <1>3, <1>4 DEF Feed

LEMMA FeedKeepsRun ==
  ASSUME RunInv, Feed
  PROVE  RunInv'
<1> DEFINE touch == trace[fed + 1]
           a == AddressOf(touch)
           isWrite == touch.op = "S"
<1>1. /\ stage = "ended" /\ code = "0" /\ fed' = fed + 1 /\ fed + 1 \in DOMAIN trace
      /\ Constructible(config) /\ a \in Nat /\ touch \in TouchType
      /\ cache' \in AfterAccess(config, cache, a, isWrite)
  BY FeedIsAccess
<1>2. UNCHANGED <<genVars, config, place>>
  BY DEF Feed
<1>3. /\ command' = command /\ stage' = stage /\ code' = code /\ order' = order
      /\ node' = node /\ turn' = turn /\ trace' = trace /\ config' = config /\ place' = place
  BY <1>2 DEF genVars
<1>4. GenInv'
  BY <1>2, SameGenerator DEF RunInv
<1>5. isWrite \in BOOLEAN /\ (touch.op = "L" => ~isWrite)
  OBVIOUS
<1> HIDE DEF isWrite, a, touch
<1>6. Kept(config, cache')
  BY <1>1, <1>5, AccessKeeps DEF RunInv
<1>7. touch.op = "L" => IsHit(config, cache', BlockOf(config, a))
  <2>1. ASSUME touch.op = "L" PROVE isWrite = FALSE
    BY <1>5, <2>1
  <2> QED BY <1>1, <2>1, LoadStays DEF RunInv
<1>8. /\ Kept(config, cache)'
      /\ (trace[fed].op = "L" => IsHit(config, cache, BlockOf(config, AddressOf(trace[fed]))))'
  <2>1. AddressOf(trace[fed])' = a /\ trace'[fed'] = touch
    BY <1>1, <1>3 DEF AddressOf, a, touch
  <2> QED BY <1>3, <1>6, <1>7, <2>1
<1>9. fed' \in 0 .. Len(trace')
  BY <1>1, <1>3, <1>4 DEF GenInv
<1> QED BY <1>1, <1>3, <1>4, <1>8, <1>9 DEF RunInv

LEMMA RunInvAlways == Spec => []RunInv
<1>1. Init => RunInv
  BY InitRunInv
<1>2. ASSUME RunInv, [Next]_vars PROVE RunInv'
  <2>1. ASSUME UNCHANGED vars PROVE RunInv'
    <3>1. GenInv'
      BY <1>2, <2>1, SameGenerator DEF RunInv, vars
    <3>2. /\ stage' = stage /\ code' = code /\ trace' = trace /\ config' = config
          /\ place' = place /\ cache' = cache /\ fed' = fed
      BY <2>1 DEF vars, genVars
    <3>3. AddressOf(trace[fed])' = AddressOf(trace[fed])
      BY <3>2 DEF AddressOf
    <3> QED BY <1>2, <3>1, <3>2, <3>3 DEF RunInv
  <2> QED BY <1>2, <2>1, GenerateKeepsRun, FeedKeepsRun DEF Next
<1> QED BY <1>1, <1>2, PTL DEF Spec

\* Two words in one piece of sixteen bytes are in one block of sixteen or more.
LEMMA WordsShareBlock ==
  ASSUME NEW g, Constructible(g), g.blockSize >= 16, NEW p \in Nat, p % 16 = 0, NEW i \in Nat
  PROVE  BlockOf(g, p + 8 * (2 * i)) = BlockOf(g, p + 8 * (2 * i + 1))
<1>1. g.blockSize \in Nat /\ IsPow2(g.blockSize)
  BY GeometryType DEF Constructible
<1>2. IsPow2(16)
  <2>1. \A d \in 1 .. 16 : d \in {1, 2, 3, 4, 5, 6, 7, 8, 9, 10, 11, 12, 13, 14, 15, 16}
    OBVIOUS
  <2> QED BY <2>1 DEF IsPow2
<1>3. PICK k \in Nat \ {0} : g.blockSize = k * 16
  BY <1>1, <1>2, PowersDivide
<1> DEFINE a == p + 8 * (2 * i)
           b == p + 8 * (2 * i + 1)
<1>4. a \in Nat /\ b \in Nat /\ a \div 16 = b \div 16
  OBVIOUS
<1> HIDE DEF a, b
<1>5. a \div (k * 16) = (a \div 16) \div k /\ b \div (k * 16) = (b \div 16) \div k
  BY <1>4, DivideTwice
<1> QED BY <1>3, <1>4, <1>5 DEF BlockOf, a, b

\* The touch before a store, or before a payload, has its block.
LEMMA FirstTouchOfBlock ==
  ASSUME RunInv, NEW t \in DOMAIN trace, Constructible(config),
         \/ trace[t].op = "S"
         \/ Kind = "listwalk" /\ t % 2 = 0 /\ config.blockSize >= 16
  PROVE  /\ t - 1 \in DOMAIN trace /\ trace[t - 1].op = "L"
         /\ BlockOf(config, AddressOf(trace[t])) = BlockOf(config, AddressOf(trace[t - 1]))
<1>1. GenInv /\ place \in Placements
  BY DEF RunInv
<1>2. PICK s \in 0 .. turn - 1, c \in 1 .. PerTurn :
        t = PerTurn * s + c /\ MayStand(s, c, trace[t]) /\ s < Gen!Turns /\ Ready
  BY <1>1, PlaceOfTouch
<1>3. command \in Commands /\ turn \in Nat /\ s \in Nat /\ trace \in Seq(TouchType)
      /\ Len(trace) = PerTurn * turn
  BY <1>1, <1>2 DEF GenInv
<1>4. command.n \in Int /\ Gen!Cells \in Int
  BY <1>2, <1>3, CommandNumbers DEF Ready
<1>5. Kind \in {"matmul", "listwalk", "seqscan", "randscan"}
  BY <1>2 DEF Ready, Gen!Recognised, Kind
\* What stands one place before it in the same turn.
<1>6. ASSUME c > 1 PROVE t - 1 \in DOMAIN trace /\ MayStand(s, c - 1, trace[t - 1])
  <2>1. c - 1 \in 1 .. PerTurn /\ t - 1 = PerTurn * s + (c - 1)
    BY <1>2, <1>3, <1>6 DEF PerTurn
  <2>2. MayStand(s, c - 1, trace[t - 1])
    BY <1>1, <2>1 DEF GenInv
  <2>3. t - 1 \in 1 .. Len(trace)
    BY <1>2, <1>3, <1>6 DEF PerTurn
  <2> QED BY <1>3, <2>2, <2>3
<1>7. CASE Kind = "matmul"
  <2> DEFINE n == command.n
             i == s \div (n * n)
             j == (s \div n) % n
             k == s % n
  <2>1. PerTurn = 4 /\ trace[t] = Gen!MatmulTouches(i, j, k, n)[c] /\ trace[t].op = "S"
    BY <1>2, <1>7 DEF PerTurn, MayStand, LoopTouches
  <2> HIDE DEF n, i, j, k
  <2>2. c = 4
    <3>1. c \in {1, 2, 3, 4}
      BY <1>2, <2>1
    <3> QED BY <2>1, <3>1 DEF Gen!MatmulTouches, Gen!Touch
  <2>3. trace[t] = Gen!Touch("S", "C", i * n + j)
    BY <2>1, <2>2 DEF Gen!MatmulTouches
  <2>4. t - 1 \in DOMAIN trace /\ MayStand(s, 3, trace[t - 1])
    <3>1. c > 1 /\ c - 1 = 3
      BY <2>2
    <3> QED BY <1>6, <3>1
  <2>5. trace[t - 1] = Gen!Touch("L", "C", i * n + j)
    BY <1>7, <2>4 DEF MayStand, LoopTouches, Gen!MatmulTouches, n, i, j
  <2>6. AddressOf(trace[t]) = AddressOf(trace[t - 1]) /\ trace[t - 1].op = "L"
    BY <2>3, <2>5 DEF AddressOf, Gen!Touch
  <2> QED BY <2>4, <2>6
<1>8. CASE Kind = "listwalk"
  <2> DEFINE i == order[s % command.n]
  <2>1. PerTurn = 2 /\ trace[t] = NodeTouches(i)[c]
    BY <1>2, <1>8 DEF PerTurn, MayStand
  <2>2. i \in Nat
    <3>1. command.n \in Nat \ {0} /\ order \in [0 .. command.n - 1 -> 0 .. command.n - 1]
      BY <1>2, <1>4, <1>8 DEF Ready, Gen!Permutations
    <3>2. s % command.n \in 0 .. command.n - 1
      BY <1>3, <3>1, Quotient
    <3> QED BY <3>1, <3>2
  <2> HIDE DEF i
  <2>3. trace[t].op # "S"
    <3>1. c \in {1, 2}
      BY <1>2, <2>1
    <3> QED BY <2>1, <3>1 DEF NodeTouches, Gen!Touch
  <2>4. t % 2 = 0 /\ config.blockSize >= 16
    BY <2>3
  <2>5. c = 2
    BY <1>2, <1>3, <2>1, <2>4
  <2>6. t - 1 \in DOMAIN trace /\ MayStand(s, 1, trace[t - 1])
    <3>1. c > 1 /\ c - 1 = 1
      BY <2>5
    <3> QED BY <1>6, <3>1
  <2>7. /\ trace[t] = Gen!Touch("L", "pool", 2 * i + 1)
        /\ trace[t - 1] = Gen!Touch("L", "pool", 2 * i)
    BY <1>8, <2>1, <2>5, <2>6 DEF NodeTouches, MayStand, i
  <2> DEFINE p == place["pool"]
  <2>8. p \in Nat /\ p % 16 = 0
    BY <1>1, PlacementsAssumption
  <2>9. /\ AddressOf(trace[t]) = p + 8 * (2 * i + 1) /\ AddressOf(trace[t - 1]) = p + 8 * (2 * i)
        /\ trace[t - 1].op = "L"
    BY <2>7 DEF AddressOf, Gen!Touch
  <2> HIDE DEF p
  <2>10. BlockOf(config, p + 8 * (2 * i)) = BlockOf(config, p + 8 * (2 * i + 1))
    BY <2>2, <2>4, <2>8, WordsShareBlock
  <2> QED BY <2>6, <2>9, <2>10
<1>9. CASE Kind \in {"seqscan", "randscan"}
  <2>1. trace[t].op = "S"
    BY <1>9
  <2>2. \E x : trace[t] = Gen!Touch("L", "a", x)
    BY <1>2, <1>9 DEF MayStand
  <2> QED BY <2>1, <2>2 DEF Gen!Touch
<1> QED BY <1>5, <1>7, <1>8, <1>9

\* Under every configuration of the cache, wherever the arrays lie and however
\* the list is shuffled, the stores of matmul and the payloads of listwalk hit:
\* the block their turn has just loaded is never the one Cache::access gives up.
THEOREM StoresAndPayloadsHit == Spec => SecondTouchHits
<1> DEFINE Second ==
      fed' # fed /\ \/ trace[fed'].op = "S"
                    \/ command.kind = "listwalk" /\ fed' % 2 = 0 /\ config.blockSize >= 16
        => cache'.stats["hits"] = cache.stats["hits"] + 1
<1>1. ASSUME RunInv, Feed, fed' # fed,
             \/ trace[fed'].op = "S"
             \/ command.kind = "listwalk" /\ fed' % 2 = 0 /\ config.blockSize >= 16
      PROVE  cache'.stats["hits"] = cache.stats["hits"] + 1
  <2> DEFINE touch == trace[fed + 1]
             a == AddressOf(touch)
             isWrite == touch.op = "S"
  <2>1. /\ stage = "ended" /\ code = "0" /\ fed' = fed + 1 /\ fed + 1 \in DOMAIN trace
        /\ Constructible(config) /\ a \in Nat
        /\ cache' \in AfterAccess(config, cache, a, isWrite)
    BY <1>1, FeedIsAccess
  <2>2. fed \in Nat
    BY <1>1 DEF RunInv, GenInv
  <2>3. /\ fed \in DOMAIN trace /\ trace[fed].op = "L"
        /\ BlockOf(config, a) = BlockOf(config, AddressOf(trace[fed]))
    <3>1. \/ trace[fed + 1].op = "S"
          \/ Kind = "listwalk" /\ (fed + 1) % 2 = 0 /\ config.blockSize >= 16
      BY <1>1, <2>1 DEF Kind, Gen!Kind
    <3>2. (fed + 1) - 1 = fed
      BY <2>2
    <3> QED BY <1>1, <2>1, <3>1, <3>2, FirstTouchOfBlock
  <2>4. fed > 0
    BY <1>1, <2>2, <2>3 DEF RunInv, GenInv
  <2>5. IsHit(config, cache, BlockOf(config, a)) /\ Kept(config, cache)
    BY <1>1, <2>3, <2>4 DEF RunInv
  <2>6. isWrite \in BOOLEAN
    OBVIOUS
  <2> HIDE DEF isWrite, a, touch
  <2>7. cache' = AfterHit(config, cache, a, isWrite)
    BY <2>1, <2>5, AccessPaths
  <2>8. cache'.stats = Count(cache.stats, HitCounters(isWrite))
    BY <2>7 DEF AfterHit
  <2>9. cache.stats \in [Counters -> Nat]
    BY <2>5, KeptFacts
  <2> QED BY <2>6, <2>8, <2>9, HitCounts
<1>2. RunInv /\ [Next]_vars => [Second]_vars
  BY <1>1 DEF Next, Generate, vars
<1>3. Spec => [][Second]_vars
  BY <1>2, RunInvAlways, PTL DEF Spec
<1> QED BY <1>3 DEF SecondTouchHits

-----------------------------------------------------------------------------
(* A load under LRU or FIFO.                                               *)

\* A hit FIFO is not told of moves nothing.
LEMMA QuietHit ==
  ASSUME NEW g, Constructible(g), g.replacement # "LRU", NEW c, Kept(g, c),
         NEW a \in Nat, NEW isWrite \in BOOLEAN, IsHit(g, c, BlockOf(g, a)),
         NEW d, d = AfterHit(g, c, a, isWrite)
  PROVE  /\ d.repl = c.repl
         /\ \A x \in Nat : (IsHit(g, d, x) <=> IsHit(g, c, x)) /\ LastUse(g, d, x) = LastUse(g, c, x)
<1> DEFINE b == BlockOf(g, a)
           s == SetOf(g, b)
           w == First(Matches(g, c, b))
<1>1. b \in Nat
  BY BlockOfType
<1>2. PICK ww : ww \in Matches(g, c, b)
  BY HeldInFrame
<1>3. w \in Ways(g) /\ s \in Sets(g)
  BY <1>1, <1>2, StampAt
<1>4. /\ d.repl = c.repl
      /\ d.lines = [c.lines EXCEPT ![s][w].dirty = @ \/ (isWrite /\ WritesBack(g))]
  BY DEF AfterHit, OnAccess
<1> HIDE DEF w, s, b
<1>5. \A t \in Sets(g), u \in Ways(g) :
        (d.lines[t][u].valid <=> c.lines[t][u].valid) /\ d.lines[t][u].tag = c.lines[t][u].tag
  BY <1>3, <1>4, KeptFacts DEF Line
<1>6. ASSUME NEW x \in Nat PROVE Matches(g, d, x) = Matches(g, c, x)
  BY <1>5, Decomposition DEF Matches
<1> QED BY <1>4, <1>6 DEF IsHit, LastUse

\* After it the block is held; the others keep their places in the order, and
\* if it was a miss the block is the youngest, and another of its set is gone
\* if the set was full, one of the oldest.
Loaded(g, c, d, b) ==
  /\ IsHit(g, d, b) /\ c.repl.clock <= d.repl.clock
  /\ \A x \in Nat \ {b} :
       IsHit(g, d, x) => IsHit(g, c, x) /\ LastUse(g, d, x) = LastUse(g, c, x)
  /\ IF IsHit(g, c, b)
     THEN /\ \A x \in Nat : IsHit(g, c, x) => IsHit(g, d, x)
          /\ LastUse(g, d, b) \in {LastUse(g, c, b), d.repl.clock}
          /\ d.stats["misses"] = c.stats["misses"]
     ELSE /\ LastUse(g, d, b) = d.repl.clock /\ c.repl.clock < d.repl.clock
          /\ d.stats["misses"] = c.stats["misses"] + 1
          /\ \A x \in Nat : IsHit(g, c, x) /\ ~IsHit(g, d, x) =>
               /\ SetOf(g, x) = SetOf(g, b) /\ EmptyWays(g, c, SetOf(g, b)) = {}
               /\ \A y \in Nat : IsHit(g, c, y) /\ SetOf(g, y) = SetOf(g, b) =>
                    LastUse(g, c, x) <= LastUse(g, c, y)

LEMMA LoadLoads ==
  ASSUME NEW g, Constructible(g), g.replacement # "Random", NEW c, Kept(g, c), NEW a \in Nat,
         NEW d \in AfterAccess(g, c, a, FALSE)
  PROVE  Loaded(g, c, d, BlockOf(g, a))
<1> DEFINE b == BlockOf(g, a)
           load == FALSE
<1>1. /\ b \in Nat /\ load \in BOOLEAN /\ ~load /\ Kept(g, d)
      /\ c.stats \in [Counters -> Nat] /\ c.repl.clock \in Nat
  BY BlockOfType, AccessKeeps, KeptFacts DEF PolicyType
<1>2. \/ IsHit(g, c, b) /\ d = AfterHit(g, c, a, load)
      \/ /\ ~IsHit(g, c, b) /\ load /\ ~WriteAllocates(g)
         /\ d = AfterWriteAround(g, c, a)
      \/ /\ ~IsHit(g, c, b) /\ (load => WriteAllocates(g))
         /\ \E w \in PickWays(g, c, SetOf(g, b)) : d = AfterFill(g, c, a, load, w)
  <2>1. d \in AfterAccess(g, c, a, load)
    OBVIOUS
  <2> HIDE DEF load
  <2> QED BY <2>1, AccessPaths
<1> HIDE DEF load
<1>3. CASE IsHit(g, c, b) /\ d = AfterHit(g, c, a, load)
  <2>1. d.stats["misses"] = c.stats["misses"]
    <3>1. d.stats = Count(c.stats, HitCounters(load))
      BY <1>3 DEF AfterHit
    <3> QED BY <1>1, <3>1, HitCounts
  <2>2. CASE g.replacement = "LRU"
    <3>1. Touched(g, c, d, b)
      BY <1>1, <1>3, <2>2, HitTouches
    <3> QED BY <1>1, <1>3, <2>1, <3>1 DEF Touched, Loaded
  <2>3. CASE g.replacement # "LRU"
    <3>1. /\ d.repl = c.repl
          /\ \A x \in Nat :
               (IsHit(g, d, x) <=> IsHit(g, c, x)) /\ LastUse(g, d, x) = LastUse(g, c, x)
      BY <1>1, <1>3, <2>3, QuietHit
    <3> QED BY <1>1, <1>3, <2>1, <3>1 DEF Loaded
  <2> QED BY <2>2, <2>3
<1>4. ASSUME ~IsHit(g, c, b), NEW w \in PickWays(g, c, SetOf(g, b)), d = AfterFill(g, c, a, load, w)
      PROVE  Loaded(g, c, d, b)
  <2>1. Touched(g, c, d, b)
    BY <1>1, <1>4, FillTouches
  <2>2. d.stats["misses"] = c.stats["misses"] + 1
    <3> DEFINE wb == MustWriteBack(g, c.lines[SetOf(g, b)][w])
               ks == FillCounters(g, c, b, load, c.lines[SetOf(g, b)][w])
    <3>1. /\ d.stats = Count(c.stats, ks) /\ wb \in BOOLEAN
          /\ \A k : k \in ks <=> k \in MissCounters(g, c, b, load) \/ (wb /\ k = "writebacks")
      BY <1>4, FillCounts
    <3> HIDE DEF wb, ks
    <3> QED BY <1>1, <3>1, MissCounts
  <2> QED BY <1>1, <1>4, <2>1, <2>2 DEF Touched, Loaded
<1> QED BY <1>1, <1>2, <1>3, <1>4
-----------------------------------------------------------------------------
(* A scan of n words from address p on, again and again.                   *)

WordBlock(g, p, i) == BlockOf(g, p + 8 * i)

\* The block of the touch after u others.
At(g, p, n, u) == WordBlock(g, p, u % n)

\* The touch after u others is the first of its block in its pass.
Begins(g, p, n, u) == u % n = 0 \/ At(g, p, n, u) # At(g, p, n, u - 1)

\* Of the first t touches, one of y comes after all those of x.
Later(g, p, n, t, y, x) ==
  \E u \in 0 .. t - 1 : At(g, p, n, u) = y /\ \A v \in u .. t - 1 : At(g, p, n, v) # x

\* The blocks that compete for set s, and whether they are too many.
Scanned(g, p, n, s) == {b \in {WordBlock(g, p, i) : i \in 0 .. n - 1} : SetOf(g, b) = s}

Crowded(g, p, n, s) == Cardinality(Scanned(g, p, n, s)) > g.associativity

\* A pass visits the blocks in their order.
LEMMA WordsInOrder ==
  ASSUME NEW g, Constructible(g), NEW p \in Nat, NEW i \in Nat, NEW j \in Nat, i <= j
  PROVE  /\ WordBlock(g, p, i) \in Nat /\ WordBlock(g, p, j) \in Nat
         /\ WordBlock(g, p, i) <= WordBlock(g, p, j)
<1> DEFINE a == p + 8 * i
           b == p + 8 * j
<1>1. a \in Nat /\ b \in Nat /\ a <= b
  OBVIOUS
<1> HIDE DEF a, b
<1>2. \A m \in Nat \ {0} : a \div m <= b \div m
  <2> SUFFICES ASSUME NEW m \in Nat \ {0} PROVE a \div m <= b \div m
    OBVIOUS
  <2> DEFINE q == a \div m
             z == b \div m
  <2>1. q \in Nat /\ z \in Nat /\ q * m <= a /\ b < (z + 1) * m
    BY <1>1
  <2> HIDE DEF q, z
  <2>2. ASSUME z + 1 <= q PROVE FALSE
    <3>1. (z + 1) * m <= q * m
      BY <2>1, <2>2
    <3> QED BY <1>1, <2>1, <3>1
  <2> QED BY <2>1, <2>2 DEF q, z
<1>3. BlockOf(g, a) \in Nat /\ BlockOf(g, b) \in Nat
  BY <1>1, BlockOfType
<1> QED BY <1>2, <1>3, GeometryType DEF BlockOf, WordBlock, a, b

\* The touch of word i in any pass.
LEMMA WordOfPass ==
  ASSUME NEW g, NEW p, NEW n \in Nat \ {0}, NEW q \in Int, NEW i \in 0 .. n - 1
  PROVE  (q * n + i) % n = i /\ At(g, p, n, q * n + i) = WordBlock(g, p, i)
<1>1. ((q * n) + i) % n = i
  BY QuotientIs
<1> QED BY <1>1 DEF At

\* In the first pass a block that begins is new.
LEMMA FirstVisit ==
  ASSUME NEW g, Constructible(g), NEW p \in Nat, NEW n \in Nat \ {0},
         NEW t \in 0 .. n - 1, Begins(g, p, n, t), NEW u \in 0 .. t - 1
  PROVE  At(g, p, n, u) # At(g, p, n, t)
<1>1. /\ \A v \in 0 .. n - 1 : v % n = v
      /\ u \in 0 .. n - 1 /\ t - 1 \in 0 .. n - 1 /\ u <= t - 1 /\ t - 1 <= t /\ t # 0
  OBVIOUS
<1>2. /\ At(g, p, n, u) = WordBlock(g, p, u) /\ At(g, p, n, t) = WordBlock(g, p, t)
      /\ At(g, p, n, t - 1) = WordBlock(g, p, t - 1)
  BY <1>1 DEF At
<1>3. WordBlock(g, p, t - 1) # WordBlock(g, p, t)
  BY <1>1, <1>2 DEF Begins
<1>4. u \in Nat /\ t - 1 \in Nat /\ t \in Nat
  BY <1>1
<1>5. /\ WordBlock(g, p, u) <= WordBlock(g, p, t - 1) /\ WordBlock(g, p, u) \in Nat
      /\ WordBlock(g, p, t - 1) <= WordBlock(g, p, t)
      /\ WordBlock(g, p, t - 1) \in Nat /\ WordBlock(g, p, t) \in Nat
  BY <1>1, <1>4, WordsInOrder
<1> QED BY <1>2, <1>3, <1>5

\* When a block begins again, all others have been visited since it was left.
LEMMA OthersVisited ==
  ASSUME NEW g, Constructible(g), NEW p \in Nat, NEW n \in Nat \ {0},
         NEW t \in Nat, t >= n, Begins(g, p, n, t),
         NEW i \in 0 .. n - 1, WordBlock(g, p, i) # At(g, p, n, t)
  PROVE  Later(g, p, n, t, WordBlock(g, p, i), At(g, p, n, t))
<1> DEFINE q == t \div n
           r == t % n
           z == q * n
           y == (q - 1) * n
           Word(k) == WordBlock(g, p, k)
           b == At(g, p, n, t)
<1>1. q \in Nat /\ r \in 0 .. n - 1 /\ t = z + r
  BY Quotient
<1>2. q >= 1
  <2>1. q = 0 => z = 0
    OBVIOUS
  <2> QED BY <1>1, <2>1
<1>3. z \in Nat /\ y \in Nat /\ y = z - n
  <2>1. \A m \in Nat : m * n \in Nat
    OBVIOUS
  <2>2. y = z - n
    BY <1>1
  <2> QED BY <1>1, <1>2, <2>1, <2>2
<1>4. \A k \in 0 .. n - 1 : At(g, p, n, z + k) = Word(k) /\ At(g, p, n, y + k) = Word(k)
  <2>1. q \in Int /\ q - 1 \in Int
    BY <1>1
  <2> HIDE DEF q
  <2> QED BY <2>1, WordOfPass
<1>5. ASSUME NEW k \in 0 .. n - 1, NEW l \in 0 .. n - 1, k <= l
      PROVE  Word(k) \in Nat /\ Word(l) \in Nat /\ Word(k) <= Word(l)
  <2>1. k \in Nat /\ l \in Nat
    OBVIOUS
  <2> QED BY <1>5, <2>1, WordsInOrder
<1>6. b = Word(r)
  BY DEF At
<1>7. r = 0 \/ b # At(g, p, n, t - 1)
  BY DEF Begins
<1> HIDE DEF q, r, z, y, Word, b
<1>8. ASSUME NEW k \in 0 .. r - 1 PROVE Word(k) # b
  <2>1. r - 1 \in 0 .. n - 1 /\ k \in 0 .. n - 1 /\ k <= r - 1 /\ r - 1 <= r /\ t - 1 = z + (r - 1)
        /\ r # 0
    BY <1>1, <1>3
  <2>2. Word(r - 1) # b
    BY <1>4, <1>7, <2>1
  <2>3. Word(k) <= Word(r - 1) /\ Word(r - 1) <= Word(r) /\ Word(k) \in Nat /\ Word(r) \in Nat
        /\ Word(r - 1) \in Nat
    BY <1>1, <1>5, <2>1
  <2> QED BY <1>6, <2>2, <2>3
<1>9. ASSUME NEW v \in z .. t - 1 PROVE At(g, p, n, v) # b
  <2> DEFINE k == v - z
  <2>1. k \in 0 .. r - 1 /\ k \in 0 .. n - 1 /\ v = z + k
    BY <1>1, <1>3
  <2> HIDE DEF k
  <2> QED BY <1>4, <1>8, <2>1
<1>10. Word(i) # b
  BY DEF Word, b
<1>11. CASE i < r
  <2> DEFINE u == z + i
  <2>1. u \in 0 .. t - 1 /\ u \in z .. t - 1 /\ At(g, p, n, u) = Word(i)
    BY <1>1, <1>3, <1>4, <1>11
  <2>2. \A v \in u .. t - 1 : v \in z .. t - 1
    BY <1>3, <2>1
  <2> HIDE DEF u
  <2>3. Later(g, p, n, t, Word(i), b)
    BY <1>9, <2>1, <2>2 DEF Later
  <2> QED BY <2>3 DEF Word, b
<1>12. CASE i > r
  <2> DEFINE u == y + i
  <2>1. u \in 0 .. t - 1 /\ At(g, p, n, u) = Word(i)
    BY <1>1, <1>3, <1>4, <1>12
  <2>2. ASSUME NEW v \in u .. t - 1, v < z PROVE At(g, p, n, v) # b
    <3> DEFINE k == v - y
    <3>1. k \in 0 .. n - 1 /\ i <= k /\ r <= i /\ v = y + k
      BY <1>1, <1>3, <1>12, <2>2
    <3> HIDE DEF k
    <3>2. Word(r) <= Word(i) /\ Word(i) <= Word(k) /\ Word(r) \in Nat /\ Word(i) \in Nat
          /\ Word(k) \in Nat
      BY <1>1, <1>5, <3>1
    <3> QED BY <1>4, <1>6, <1>10, <3>1, <3>2
  <2>3. \A v \in u .. t - 1 : v < z \/ v \in z .. t - 1
    BY <1>3
  <2> HIDE DEF u
  <2>4. Later(g, p, n, t, Word(i), b)
    BY <1>9, <2>1, <2>2, <2>3 DEF Later
  <2> QED BY <2>4 DEF Word, b
<1> QED BY <1>1, <1>6, <1>10, <1>11, <1>12

\* The touches that miss: those that begin a block, in the first pass all and
\* later those of the crowded sets.
Missing(g, p, n, t) ==
  {u \in 0 .. t - 1 :
     Begins(g, p, n, u) /\ (u < n \/ Crowded(g, p, n, SetOf(g, At(g, p, n, u))))}

\* What an LRU or FIFO cache keeps of t touches: only blocks of the scan, every
\* one of a set that is not crowded, and of a crowded set with a block also all
\* those visited after it, as younger ones.
ScanState(g, p, n, t, c) ==
  /\ c.stats["misses"] = Cardinality(Missing(g, p, n, t))
  /\ t > 0 => IsHit(g, c, At(g, p, n, t - 1))
  /\ \A x \in Nat : IsHit(g, c, x) =>
       /\ \E u \in 0 .. t - 1 : At(g, p, n, u) = x
       /\ LastUse(g, c, x) <= c.repl.clock
  /\ \A u \in 0 .. t - 1 :
       ~Crowded(g, p, n, SetOf(g, At(g, p, n, u))) => IsHit(g, c, At(g, p, n, u))
  /\ \A x, y \in Nat :
       /\ IsHit(g, c, x) /\ Crowded(g, p, n, SetOf(g, x)) /\ SetOf(g, y) = SetOf(g, x)
       /\ Later(g, p, n, t, y, x)
       => IsHit(g, c, y) /\ LastUse(g, c, x) < LastUse(g, c, y)

\* The blocks of a scan are finitely many, the block of a touch among them.
LEMMA ScannedFinite ==
  ASSUME NEW g, Constructible(g), NEW p \in Nat, NEW n \in Nat \ {0}, NEW s
  PROVE  /\ IsFiniteSet(Scanned(g, p, n, s)) /\ Cardinality(Scanned(g, p, n, s)) \in Nat
         /\ Scanned(g, p, n, s) \subseteq Nat
         /\ \A u \in Nat : /\ At(g, p, n, u) \in Nat
                           /\ SetOf(g, At(g, p, n, u)) = s => At(g, p, n, u) \in Scanned(g, p, n, s)
<1> DEFINE words == {WordBlock(g, p, i) : i \in 0 .. n - 1}
<1>1. IsFiniteSet(0 .. n - 1)
  BY FS_Interval
<1>2. IsFiniteSet(words)
  <2> DEFINE f == [i \in 0 .. n - 1 |-> WordBlock(g, p, i)]
  <2>1. f \in Surjection(0 .. n - 1, words)
    BY DEF Surjection
  <2> QED BY <1>1, <2>1, FS_Surjection
<1>3. Scanned(g, p, n, s) \subseteq words
  BY DEF Scanned
<1>4. IsFiniteSet(Scanned(g, p, n, s)) /\ Cardinality(Scanned(g, p, n, s)) \in Nat
  BY <1>2, <1>3, FS_Subset, FS_CardinalityType
<1>5. ASSUME NEW i \in 0 .. n - 1 PROVE WordBlock(g, p, i) \in Nat
  <2>1. i \in Nat /\ i <= i
    OBVIOUS
  <2> QED BY <2>1, WordsInOrder
<1>6. \A u \in Nat : At(g, p, n, u) \in words
  BY Quotient DEF At
<1> QED BY <1>3, <1>4, <1>5, <1>6 DEF Scanned

LEMMA MissingGrows ==
  ASSUME NEW g, NEW p, NEW n \in Nat \ {0}, NEW t \in Nat
  PROVE  LET s == SetOf(g, At(g, p, n, t))
             m == Cardinality(Missing(g, p, n, t))
         IN  /\ m \in Nat
             /\ Cardinality(Missing(g, p, n, t + 1)) =
                  IF Begins(g, p, n, t) /\ (t < n \/ Crowded(g, p, n, s)) THEN m + 1 ELSE m
<1> DEFINE miss(u) == Begins(g, p, n, u) /\ (u < n \/ Crowded(g, p, n, SetOf(g, At(g, p, n, u))))
           M == Missing(g, p, n, t)
<1>1. M = {u \in 0 .. t - 1 : miss(u)} /\ Missing(g, p, n, t + 1) = {u \in 0 .. (t + 1) - 1 : miss(u)}
  BY DEF Missing
<1>2. (miss(t) <=> TRUE) \/ (miss(t) <=> FALSE)
  OBVIOUS
<1>3. IsFiniteSet(M)
  <2>1. IsFiniteSet(0 .. t - 1) /\ M \subseteq 0 .. t - 1
    BY <1>1, FS_Interval
  <2> QED BY <2>1, FS_Subset
<1>4. Cardinality(M) \in Nat /\ t \notin M
  BY <1>1, <1>3, FS_CardinalityType
<1> HIDE DEF miss
<1>5. Missing(g, p, n, t + 1) = IF miss(t) THEN M \cup {t} ELSE M
  <2>1. \A u : u \in 0 .. (t + 1) - 1 <=> u \in 0 .. t - 1 \/ u = t
    OBVIOUS
  <2> HIDE DEF M
  <2> QED BY <1>1, <2>1
<1> HIDE DEF M
<1>6. Cardinality(M \cup {t}) = Cardinality(M) + 1
  BY <1>3, <1>4, FS_AddElement
<1> QED BY <1>4, <1>5, <1>6 DEF miss, M

\* A touch misses if and only if it is one of those.
LEMMA ScanMisses ==
  ASSUME NEW g, Constructible(g), NEW p \in Nat, NEW n \in Nat \ {0}, NEW t \in Nat,
         NEW c, Kept(g, c), ScanState(g, p, n, t, c)
  PROVE  LET b == At(g, p, n, t) IN
         ~IsHit(g, c, b) <=> Begins(g, p, n, t) /\ (t < n \/ Crowded(g, p, n, SetOf(g, b)))
<1> DEFINE b == At(g, p, n, t)
           s == SetOf(g, b)
<1>1. b \in Nat /\ s \in Sets(g)
  BY ScannedFinite, Decomposition
<1>2. CASE ~Begins(g, p, n, t)
  <2>1. t # 0 /\ At(g, p, n, t - 1) = b
    BY <1>2 DEF Begins
  <2> QED BY <1>2, <2>1 DEF ScanState
<1>3. CASE Begins(g, p, n, t) /\ t < n
  <2>1. t \in 0 .. n - 1
    BY <1>3
  <2>2. \A u \in 0 .. t - 1 : At(g, p, n, u) # b
    BY <1>3, <2>1, FirstVisit
  <2> QED BY <1>1, <1>3, <2>2 DEF ScanState
<1>4. CASE Begins(g, p, n, t) /\ ~(t < n) /\ ~Crowded(g, p, n, s)
  <2>1. t - n \in 0 .. t - 1 /\ At(g, p, n, t - n) = b
    <3>1. t - n \in Nat /\ t - n \in 0 .. t - 1 /\ (t - n) + n = t
      BY <1>4
    <3>2. \A m \in Nat : (m + n) % n = m % n
      <4> SUFFICES ASSUME NEW m \in Nat PROVE (m + n) % n = m % n
        OBVIOUS
      <4> DEFINE q == m \div n
                 r == m % n
      <4>1. q \in Nat /\ r \in 0 .. n - 1 /\ m = (q * n) + r
        BY Quotient
      <4> HIDE DEF q, r
      <4>2. (q + 1) * n = q * n + n /\ q * n \in Nat /\ q + 1 \in Int
        BY <4>1
      <4>3. m + n = ((q + 1) * n) + r
        BY <4>1, <4>2
      <4>4. (((q + 1) * n) + r) % n = r
        BY <4>1, <4>2, QuotientIs
      <4> QED BY <4>3, <4>4 DEF r
    <3>3. (t - n) % n = t % n
      BY <3>1, <3>2
    <3> QED BY <3>1, <3>3 DEF At
  <2>2. IsHit(g, c, At(g, p, n, t - n))
    BY <1>4, <2>1 DEF ScanState
  <2> QED BY <1>4, <2>1, <2>2
<1>5. CASE Begins(g, p, n, t) /\ ~(t < n) /\ Crowded(g, p, n, s)
  <2> SUFFICES ASSUME IsHit(g, c, b) PROVE FALSE
    BY <1>5
  <2>1. ASSUME NEW y \in Scanned(g, p, n, s) PROVE y \in SetBlocks(g, c, s)
    <3>1. PICK i \in 0 .. n - 1 : y = WordBlock(g, p, i)
      BY DEF Scanned
    <3>2. SetOf(g, y) = s /\ y \in Nat
      BY ScannedFinite DEF Scanned
    <3>3. y # b => Later(g, p, n, t, y, b)
      BY <1>5, <3>1, OthersVisited
    <3>4. y # b => IsHit(g, c, y)
      BY <1>1, <1>5, <3>2, <3>3 DEF ScanState
    <3> QED BY <3>2, <3>4 DEF SetBlocks
  <2>2. IsFiniteSet(SetBlocks(g, c, s)) /\ Cardinality(SetBlocks(g, c, s)) \in Nat
        /\ Cardinality(SetBlocks(g, c, s)) <= g.associativity
    BY <1>1, KeptFacts, BlocksInSet
  <2>3. Cardinality(Scanned(g, p, n, s)) <= Cardinality(SetBlocks(g, c, s))
        /\ Cardinality(Scanned(g, p, n, s)) \in Nat
    BY <2>1, <2>2, ScannedFinite, FS_Subset
  <2> QED BY <1>5, <2>2, <2>3, GeometryType DEF Crowded
<1> QED BY <1>2, <1>3, <1>4, <1>5

\* A touch keeps it.
LEMMA ScanStep ==
  ASSUME NEW g, Constructible(g), NEW p \in Nat, NEW n \in Nat \ {0}, NEW t \in Nat,
         NEW c, Kept(g, c), ScanState(g, p, n, t, c),
         NEW d, Kept(g, d), Loaded(g, c, d, At(g, p, n, t))
  PROVE  ScanState(g, p, n, t + 1, d)
<1> DEFINE b == At(g, p, n, t)
           s == SetOf(g, b)
           Held(x) == IsHit(g, c, x)
           Holds(x) == IsHit(g, d, x)
           Full == Crowded(g, p, n, s)
           Later1(y, x) == Later(g, p, n, t + 1, y, x)
<1>1. b \in Nat /\ s \in Sets(g) /\ c.repl.clock \in Nat /\ d.repl.clock \in Nat
  BY ScannedFinite, Decomposition, KeptFacts DEF PolicyType
<1>2. ~Held(b) <=> Begins(g, p, n, t) /\ (t < n \/ Full)
  BY ScanMisses
<1>3. ASSUME NEW x \in Nat, Held(x)
      PROVE  /\ LastUse(g, c, x) \in Nat /\ LastUse(g, c, x) <= c.repl.clock
             /\ \E u \in 0 .. t - 1 : At(g, p, n, u) = x
  <2>1. LastUse(g, c, x) \in Nat
    BY <1>3, HeldInFrame, StampAt
  <2> QED BY <1>3, <2>1 DEF ScanState
<1>4. \A x \in Nat \ {b} : Holds(x) => Held(x) /\ LastUse(g, d, x) = LastUse(g, c, x)
  BY DEF Loaded
<1>5. Holds(b) /\ c.repl.clock <= d.repl.clock
  BY DEF Loaded
<1>6. IF Held(b)
      THEN /\ \A x \in Nat : Held(x) => Holds(x)
           /\ LastUse(g, d, b) \in {LastUse(g, c, b), d.repl.clock}
           /\ d.stats["misses"] = c.stats["misses"]
      ELSE /\ LastUse(g, d, b) = d.repl.clock /\ c.repl.clock < d.repl.clock
           /\ d.stats["misses"] = c.stats["misses"] + 1
           /\ \A x \in Nat : Held(x) /\ ~Holds(x) =>
                /\ SetOf(g, x) = s /\ EmptyWays(g, c, s) = {}
                /\ \A y \in Nat : Held(y) /\ SetOf(g, y) = s => LastUse(g, c, x) <= LastUse(g, c, y)
  BY DEF Loaded
<1>7. \A u : u \in 0 .. (t + 1) - 1 <=> u \in 0 .. t - 1 \/ u = t
  OBVIOUS
\* The count.
<1>8. d.stats["misses"] = Cardinality(Missing(g, p, n, t + 1))
  BY <1>2, <1>6, MissingGrows DEF ScanState
\* Nothing else comes in.
<1>9. ASSUME NEW x \in Nat, Holds(x)
      PROVE  /\ \E u \in 0 .. (t + 1) - 1 : At(g, p, n, u) = x
             /\ LastUse(g, d, x) <= d.repl.clock
  <2>1. CASE x = b
    <3>1. t \in 0 .. (t + 1) - 1
      OBVIOUS
    <3>2. LastUse(g, d, b) <= d.repl.clock
      BY <1>1, <1>3, <1>5, <1>6
    <3> QED BY <2>1, <3>1, <3>2
  <2>2. CASE x # b
    <3>1. Held(x) /\ LastUse(g, d, x) = LastUse(g, c, x)
      BY <1>4, <1>9, <2>2
    <3>2. LastUse(g, c, x) \in Nat /\ LastUse(g, c, x) <= c.repl.clock
      BY <1>3, <3>1
    <3>3. \E u \in 0 .. t - 1 : At(g, p, n, u) = x
      BY <1>3, <3>1
    <3> QED BY <1>1, <1>5, <1>7, <3>1, <3>2, <3>3
  <2> QED BY <2>1, <2>2
\* A set that is not crowded has room for what it has not seen.
<1>10. ASSUME ~Full, ~Held(b) PROVE EmptyWays(g, c, s) # {}
  <2> DEFINE blocks == SetBlocks(g, c, s)
             rivals == Scanned(g, p, n, s)
  <2>1. IsFiniteSet(rivals) /\ Cardinality(rivals) \in Nat /\ b \in rivals
    BY ScannedFinite
  <2>2. blocks \subseteq rivals \ {b}
    <3>1. ASSUME NEW x \in blocks PROVE x \in rivals \ {b}
      <4>1. x \in Nat /\ Held(x) /\ SetOf(g, x) = s
        BY DEF SetBlocks
      <4>2. PICK u \in 0 .. t - 1 : At(g, p, n, u) = x
        BY <1>3, <4>1
      <4>3. x \in rivals
        BY <4>1, <4>2, ScannedFinite
      <4> QED BY <1>10, <4>1, <4>3
    <3> QED BY <3>1
  <2> HIDE DEF blocks, rivals
  <2>3. IsFiniteSet(rivals \ {b}) /\ Cardinality(rivals \ {b}) = Cardinality(rivals) - 1
    BY <2>1, FS_RemoveElement, FS_Subset
  <2>4. Cardinality(blocks) <= Cardinality(rivals \ {b}) /\ Cardinality(blocks) \in Nat
    BY <2>2, <2>3, FS_Subset, FS_CardinalityType
  <2>5. ~(Cardinality(rivals) > g.associativity)
    BY <1>10 DEF Crowded, rivals
  <2>6. Cardinality(blocks) # g.associativity
    BY <2>1, <2>3, <2>4, <2>5, GeometryType
  <2> QED BY <1>1, <2>6, KeptFacts, BlocksInSet DEF blocks
<1>11. ASSUME NEW u \in 0 .. (t + 1) - 1, ~Crowded(g, p, n, SetOf(g, At(g, p, n, u)))
       PROVE  Holds(At(g, p, n, u))
  <2> DEFINE x == At(g, p, n, u)
  <2>1. x \in Nat
    BY ScannedFinite
  <2>2. u # t => Held(x)
    BY <1>7, <1>11 DEF ScanState
  <2>3. SetOf(g, x) = s => ~Full
    BY <1>11
  <2> HIDE DEF x
  <2>4. u = t => x = b
    BY DEF x
  <2> QED BY <1>5, <1>6, <1>10, <2>1, <2>2, <2>3, <2>4 DEF x
\* The order.
<1>12. ASSUME NEW x \in Nat, NEW y \in Nat, Holds(x), Crowded(g, p, n, SetOf(g, x)),
              SetOf(g, y) = SetOf(g, x), Later1(y, x)
       PROVE  Holds(y) /\ LastUse(g, d, x) < LastUse(g, d, y)
  <2>1. PICK u \in 0 .. (t + 1) - 1 :
          At(g, p, n, u) = y /\ \A v \in u .. (t + 1) - 1 : At(g, p, n, v) # x
    BY <1>12 DEF Later
  <2>2. x # b
    <3>1. t \in u .. (t + 1) - 1
      OBVIOUS
    <3> QED BY <2>1, <3>1
  <2>3. Held(x) /\ LastUse(g, d, x) = LastUse(g, c, x) /\ LastUse(g, c, x) \in Nat
        /\ LastUse(g, c, x) <= c.repl.clock
    BY <1>3, <1>4, <1>12, <2>2
  <2>4. ASSUME Later(g, p, n, t, y, x)
        PROVE  /\ Held(y) /\ LastUse(g, c, x) < LastUse(g, c, y)
               /\ LastUse(g, c, y) \in Nat /\ LastUse(g, c, y) <= c.repl.clock
    <3>1. Held(y) /\ LastUse(g, c, x) < LastUse(g, c, y)
      BY <1>12, <2>3, <2>4 DEF ScanState
    <3> QED BY <1>3, <3>1
  <2>5. CASE y = b
    <3>1. CASE ~Held(b)
      BY <1>1, <1>5, <1>6, <2>3, <2>5, <3>1
    <3>2. CASE Held(b)
      <4>1. ~Begins(g, p, n, t)
        BY <1>2, <1>12, <2>5, <3>2
      <4>2. t # 0 /\ At(g, p, n, t - 1) = b
        BY <4>1 DEF Begins
      <4>3. t - 1 \in 0 .. t - 1 /\ \A v \in t - 1 .. t - 1 : v = t - 1
        BY <4>2
      <4>4. Later(g, p, n, t, y, x)
        BY <2>2, <2>5, <4>2, <4>3 DEF Later
      <4>5. LastUse(g, c, x) < LastUse(g, c, b) /\ LastUse(g, c, b) \in Nat
            /\ LastUse(g, c, b) <= c.repl.clock
        BY <2>4, <2>5, <4>4
      <4> QED BY <1>1, <1>5, <1>6, <2>3, <2>5, <3>2, <4>5
    <3> QED BY <3>1, <3>2
  <2>6. CASE y # b
    <3>1. u # t
      BY <2>1, <2>6
    <3>2. u \in 0 .. t - 1 /\ \A v \in u .. t - 1 : v \in u .. (t + 1) - 1
      BY <1>7, <3>1
    <3>3. Later(g, p, n, t, y, x)
      BY <2>1, <3>2 DEF Later
    <3>4. Held(y) /\ LastUse(g, c, x) < LastUse(g, c, y) /\ LastUse(g, c, y) \in Nat
      BY <2>4, <3>3
    <3>5. Holds(y)
      <4> SUFFICES ASSUME ~Holds(y) PROVE FALSE
        OBVIOUS
      <4>1. ~Held(b) /\ SetOf(g, y) = s
        BY <1>6, <3>4
      <4>2. LastUse(g, c, y) <= LastUse(g, c, x)
        BY <1>6, <1>12, <2>3, <3>4, <4>1
      <4> QED BY <2>3, <3>4, <4>2
    <3>6. LastUse(g, d, y) = LastUse(g, c, y)
      BY <1>4, <2>6, <3>5
    <3> QED BY <2>3, <3>4, <3>5, <3>6
  <2> QED BY <2>5, <2>6
<1>13. t + 1 > 0 => Holds(At(g, p, n, (t + 1) - 1))
  <2>1. (t + 1) - 1 = t
    OBVIOUS
  <2> HIDE DEF Holds
  <2> QED BY <1>5, <2>1
<1> QED BY <1>8, <1>9, <1>11, <1>12, <1>13 DEF ScanState

\* A cache that has been fed nothing.
LEMMA ScanStart ==
  ASSUME NEW g, Constructible(g), NEW p, NEW n
  PROVE  ScanState(g, p, n, 0, NewCache(g))
<1>1. \A x \in Nat : ~IsHit(g, NewCache(g), x)
  BY NewCacheHolds
<1>2. NewCache(g).stats["misses"] = 0
  BY DEF NewCache, Counters
<1>3. Missing(g, p, n, 0) = {} /\ Cardinality({}) = 0
  BY FS_EmptySet DEF Missing
<1> QED BY <1>1, <1>2, <1>3 DEF ScanState

-----------------------------------------------------------------------------
(* The misses of a scan, set by set.                                       *)

\* In k passes the touches that begin a block of set s.
Visits(g, p, n, k, s) ==
  {u \in 0 .. k * n - 1 : Begins(g, p, n, u) /\ SetOf(g, At(g, p, n, u)) = s}

\* A word begins its block in every pass or in none.
LEMMA BeginsInPass ==
  ASSUME NEW g, NEW p, NEW n \in Nat \ {0}, NEW q \in Nat, NEW i \in 0 .. n - 1
  PROVE  /\ At(g, p, n, q * n + i) = WordBlock(g, p, i)
         /\ Begins(g, p, n, q * n + i) <=> i = 0 \/ WordBlock(g, p, i) # WordBlock(g, p, i - 1)
<1>1. q \in Int /\ q * n \in Int
  OBVIOUS
<1>2. (q * n + i) % n = i /\ At(g, p, n, q * n + i) = WordBlock(g, p, i)
  BY <1>1, WordOfPass
<1>3. ASSUME i # 0 PROVE At(g, p, n, (q * n + i) - 1) = WordBlock(g, p, i - 1)
  <2>1. i - 1 \in 0 .. n - 1
    BY <1>3
  <2>2. At(g, p, n, q * n + (i - 1)) = WordBlock(g, p, i - 1)
    BY <1>1, <2>1, WordOfPass
  <2>3. (q * n + i) - 1 = q * n + (i - 1)
    BY <1>1
  <2> QED BY <2>2, <2>3
<1> QED BY <1>2, <1>3 DEF Begins

\* A pass begins each of its blocks at one word.
LEMMA OneBeginning ==
  ASSUME NEW g, Constructible(g), NEW p \in Nat, NEW n \in Nat \ {0}, NEW q \in Nat,
         NEW i \in 0 .. n - 1, NEW j \in 0 .. n - 1,
         Begins(g, p, n, q * n + i), Begins(g, p, n, q * n + j),
         WordBlock(g, p, i) = WordBlock(g, p, j)
  PROVE  i = j
<1> DEFINE Word(k) == WordBlock(g, p, k)
<1>1. ASSUME NEW k \in 0 .. n - 1, NEW l \in 0 .. n - 1, k < l, Begins(g, p, n, q * n + l)
      PROVE  Word(k) # Word(l)
  <2>1. k \in Nat /\ l - 1 \in Nat /\ l \in Nat /\ k <= l - 1 /\ l - 1 <= l /\ l # 0
    BY <1>1
  <2>2. Begins(g, p, n, q * n + l) <=> l = 0 \/ Word(l) # Word(l - 1)
    BY BeginsInPass
  <2>3. /\ Word(k) <= Word(l - 1) /\ Word(l - 1) <= Word(l)
        /\ Word(k) \in Nat /\ Word(l - 1) \in Nat /\ Word(l) \in Nat
    BY <2>1, WordsInOrder
  <2> QED BY <1>1, <2>1, <2>2, <2>3
<1> HIDE DEF Word
<1>2. Word(i) = Word(j)
  BY DEF Word
<1>3. i < j \/ j < i \/ i = j
  OBVIOUS
<1> QED BY <1>1, <1>2, <1>3

\* Word i is the first of the scan in block b.
Opens(g, p, n, i, b) ==
  /\ i \in 0 .. n - 1 /\ WordBlock(g, p, i) = b
  /\ i = 0 \/ WordBlock(g, p, i - 1) # b

LEMMA FirstWord ==
  ASSUME NEW g, NEW p, NEW n \in Nat \ {0}, NEW s, NEW b \in Scanned(g, p, n, s)
  PROVE  \E i : Opens(g, p, n, i, b)
<1> DEFINE W == {k \in 0 .. n - 1 : WordBlock(g, p, k) = b}
           i == First(W)
<1>1. W \in SUBSET Nat /\ W # {}
  BY DEF Scanned
<1>2. i \in W /\ \A k \in W : i <= k
  BY <1>1, FirstIsLeast
<1> HIDE DEF i
<1>3. Opens(g, p, n, i, b)
  BY <1>2 DEF Opens
<1> QED BY <1>3

\* So a pass begins each block of the set once.
LEMMA VisitsCount ==
  ASSUME NEW g, Constructible(g), NEW p \in Nat, NEW n \in Nat \ {0}, NEW k \in Nat, NEW s
  PROVE  Cardinality(Visits(g, p, n, k, s)) = k * Cardinality(Scanned(g, p, n, s))
<1> DEFINE V == Visits(g, p, n, k, s)
           S == Scanned(g, p, n, s)
           P == (0 .. k - 1) \X S
           f == [e \in P |-> CHOOSE u \in V : u \div n = e[1] /\ At(g, p, n, u) = e[2]]
<1>1. ASSUME NEW u \in V
      PROVE  /\ u \div n \in 0 .. k - 1 /\ At(g, p, n, u) \in S
             /\ u % n \in 0 .. n - 1 /\ u = ((u \div n) * n) + (u % n)
  <2>1. u \in Nat /\ u < k * n /\ SetOf(g, At(g, p, n, u)) = s
    BY DEF Visits
  <2>2. u \div n \in 0 .. k - 1
    BY <2>1, QuotientBelow
  <2>3. u % n \in 0 .. n - 1 /\ u = ((u \div n) * n) + (u % n)
    BY <2>1, Quotient
  <2>4. At(g, p, n, u) \in S
    BY <2>1, ScannedFinite
  <2> QED BY <2>2, <2>3, <2>4
<1>2. ASSUME NEW u \in V, NEW v \in V, u \div n = v \div n, At(g, p, n, u) = At(g, p, n, v)
      PROVE  u = v
  <2> DEFINE q == u \div n
             i == u % n
             j == v % n
  <2>1. /\ q \in Nat /\ i \in 0 .. n - 1 /\ j \in 0 .. n - 1
        /\ u = q * n + i /\ v = q * n + j
    BY <1>1, <1>2
  <2>2. /\ Begins(g, p, n, u) /\ Begins(g, p, n, v)
        /\ WordBlock(g, p, i) = WordBlock(g, p, j)
    BY <1>2 DEF Visits, At
  <2> HIDE DEF q, i, j
  <2>3. Begins(g, p, n, q * n + i) /\ Begins(g, p, n, q * n + j)
    BY <2>1, <2>2
  <2>4. i = j
    BY <2>1, <2>2, <2>3, OneBeginning
  <2> QED BY <2>1, <2>4
<1>3. ASSUME NEW e \in P PROVE \E u \in V : u \div n = e[1] /\ At(g, p, n, u) = e[2]
  <2> DEFINE q == e[1]
             b == e[2]
  <2>1. q \in 0 .. k - 1 /\ q \in Nat /\ q \in Int /\ b \in S
    OBVIOUS
  <2>2. SetOf(g, b) = s /\ n \in Nat \ {0}
    BY <2>1 DEF Scanned
  <2>3. PICK i : Opens(g, p, n, i, b)
    BY <2>1, <2>2, FirstWord
  <2> HIDE DEF q, b
  <2>4. i \in 0 .. n - 1 /\ WordBlock(g, p, i) = b /\ Begins(g, p, n, q * n + i)
    <3>1. /\ i \in 0 .. n - 1 /\ WordBlock(g, p, i) = b
          /\ i = 0 \/ WordBlock(g, p, i - 1) # b
      BY <2>3 DEF Opens
    <3>2. Begins(g, p, n, q * n + i)
            <=> i = 0 \/ WordBlock(g, p, i) # WordBlock(g, p, i - 1)
      BY <2>1, <3>1, BeginsInPass
    <3> QED BY <3>1, <3>2
  <2> DEFINE u == q * n + i
  <2>5. ((q * n) + i) \div n = q /\ At(g, p, n, u) = b
    <3>1. ((q * n) + i) \div n = q
      BY <2>1, <2>4, QuotientIs
    <3>2. At(g, p, n, q * n + i) = WordBlock(g, p, i)
      BY <2>1, <2>4, WordOfPass
    <3> QED BY <2>4, <3>1, <3>2
  <2>6. u \in 0 .. k * n - 1
    <3>1. (q + 1) * n <= k * n /\ (q + 1) * n = q * n + n /\ q * n \in Nat /\ k * n \in Nat
      BY <2>1
    <3> QED BY <2>4, <3>1
  <2>7. u \in V
    BY <2>2, <2>4, <2>5, <2>6 DEF Visits
  <2>8. u \div n = q
    BY <2>5
  <2> HIDE DEF u, V
  <2> QED BY <2>5, <2>7, <2>8 DEF q, b
<1> HIDE DEF V, S
<1>4. f \in Bijection(P, V)
  <2>1. ASSUME NEW e \in P
        PROVE  f[e] \in V /\ f[e] \div n = e[1] /\ At(g, p, n, f[e]) = e[2]
    <3>1. f[e] = CHOOSE u \in V : u \div n = e[1] /\ At(g, p, n, u) = e[2]
      OBVIOUS
    <3> HIDE DEF f
    <3> QED BY <1>3, <3>1
  <2>2. ASSUME NEW u \in V PROVE \E e \in P : f[e] = u
    <3> DEFINE e == <<u \div n, At(g, p, n, u)>>
    <3>1. e \in P /\ e[1] = u \div n /\ e[2] = At(g, p, n, u)
      BY <1>1
    <3> HIDE DEF e, f, P
    <3> QED BY <1>2, <2>1, <3>1
  <2>3. \A e, h \in P : f[e] = f[h] => e = h
    <3> SUFFICES ASSUME NEW e \in P, NEW h \in P, f[e] = f[h] PROVE e = h
      OBVIOUS
    <3>1. e[1] = h[1] /\ e[2] = h[2]
      <4> HIDE DEF f, P
      <4> QED BY <2>1
    <3> QED BY <3>1
  <2>4. f \in [P -> V]
    <3> HIDE DEF P
    <3> QED BY <2>1
  <2> HIDE DEF f, P
  <2> QED BY <2>2, <2>3, <2>4 DEF Bijection, Injection, Surjection, IsInjective
<1>5. IsFiniteSet(S) /\ Cardinality(S) \in Nat
  BY ScannedFinite DEF S
<1>6. IsFiniteSet(0 .. k - 1) /\ Cardinality(0 .. k - 1) = k
  BY FS_Interval
<1>7. IsFiniteSet(P) /\ Cardinality(P) = k * Cardinality(S)
  BY <1>5, <1>6, FS_Product
<1> HIDE DEF P, f
<1>8. Cardinality(V) = Cardinality(P)
  BY <1>4, <1>7, FS_Bijection DEF ExistsBijection
<1> QED BY <1>7, <1>8 DEF V, S

\* The sizes of disjoint sets add up.
LEMMA SizesAddUp ==
  ASSUME NEW D, IsFiniteSet(D), NEW F, \A x \in D : IsFiniteSet(F[x]),
         \A x, y \in D : x # y => F[x] \cap F[y] = {}
  PROVE  SumFunction([x \in D |-> Cardinality(F[x])]) = Cardinality(UNION {F[x] : x \in D})
<1> DEFINE f == [x \in D |-> Cardinality(F[x])]
           pick(T) == CHOOSE x \in T : TRUE
           Sums(h) == h = [T \in SUBSET D |->
                             IF T = {} THEN 0 ELSE f[pick(T)] + h[T \ {pick(T)}]]
           All(T) == UNION {F[x] : x \in T}
           sizes == [T \in SUBSET D |-> Cardinality(All(T))]
           h == CHOOSE h : Sums(h)
<1>1. ASSUME NEW T \in SUBSET D PROVE IsFiniteSet(T) /\ IsFiniteSet(All(T))
  <2>1. IsFiniteSet(T)
    BY FS_Subset
  <2> DEFINE R == {F[x] : x \in T}
             e == [x \in T |-> F[x]]
  <2>2. e \in Surjection(T, R)
    BY DEF Surjection
  <2>3. \A A \in R : IsFiniteSet(A)
    OBVIOUS
  <2> HIDE DEF e, R
  <2>4. IsFiniteSet(R)
    BY <2>1, <2>2, FS_Surjection
  <2>5. IsFiniteSet(UNION R)
    BY <2>3, <2>4, FS_UNION
  <2> QED BY <2>1, <2>5 DEF R
<1>2. ASSUME NEW T \in SUBSET D, T # {}
      PROVE  /\ pick(T) \in T /\ T \ {pick(T)} \in SUBSET D
             /\ Cardinality(All(T)) = f[pick(T)] + Cardinality(All(T \ {pick(T)}))
  <2> DEFINE x == pick(T)
             U == T \ {x}
  <2>1. x \in T
    BY <1>2
  <2> HIDE DEF x
  <2>2. U \in SUBSET D /\ x \in D /\ f[x] = Cardinality(F[x]) /\ IsFiniteSet(F[x])
    BY <2>1
  <2>3. All(T) = F[x] \cup All(U) /\ F[x] \cap All(U) = {}
    BY <2>1, <2>2
  <2>4. IsFiniteSet(All(U)) /\ Cardinality(All(U)) \in Nat /\ Cardinality(F[x]) \in Nat
    BY <1>1, <2>2, FS_CardinalityType
  <2> HIDE DEF All, U, f
  <2>5. Cardinality(F[x] \cup All(U)) =
          Cardinality(F[x]) + Cardinality(All(U)) - Cardinality(F[x] \cap All(U))
    BY <2>2, <2>4, FS_Union
  <2>6. Cardinality({}) = 0
    BY FS_EmptySet
  <2>7. Cardinality(F[x] \cap All(U)) = 0
    BY <2>3, <2>6
  <2>8. Cardinality(All(T)) = f[x] + Cardinality(All(U))
    BY <2>2, <2>3, <2>4, <2>5, <2>7
  <2> QED BY <2>1, <2>2, <2>8 DEF x, U
<1>3. All({}) = {} /\ Cardinality({}) = 0
  BY FS_EmptySet
<1> HIDE DEF f, pick, All
<1>4. Sums(sizes)
  <2>1. ASSUME NEW T \in SUBSET D
        PROVE  sizes[T] = IF T = {} THEN 0 ELSE f[pick(T)] + sizes[T \ {pick(T)}]
    BY <1>2, <1>3
  <2> HIDE DEF sizes
  <2>2. sizes = [T \in SUBSET D |-> sizes[T]]
    BY DEF sizes
  <2> QED BY <2>1, <2>2
<1>5. Sums(h)
  <2> HIDE DEF Sums, sizes
  <2> QED BY <1>4
<1> HIDE DEF h
<1>6. ASSUME NEW T \in SUBSET D
      PROVE  h[T] = IF T = {} THEN 0 ELSE f[pick(T)] + h[T \ {pick(T)}]
  BY <1>5
<1>7. ASSUME NEW T \in SUBSET D PROVE h[T] = sizes[T]
  <2> DEFINE wrong == {A \in SUBSET D : h[A] # sizes[A]}
             counts == {Cardinality(A) : A \in wrong}
  <2> SUFFICES ASSUME wrong # {} PROVE FALSE
    OBVIOUS
  <2>1. counts \in SUBSET Nat /\ counts # {}
    BY <1>1, FS_CardinalityType
  <2>2. First(counts) \in counts /\ \A c \in counts : First(counts) <= c
    BY <2>1, FirstIsLeast
  <2>3. PICK A \in wrong : First(counts) = Cardinality(A)
    BY <2>2
  <2>4. IsFiniteSet(A) /\ Cardinality(A) \in Nat /\ h[A] # sizes[A] /\ A \in SUBSET D
    BY <1>1, <2>3, FS_CardinalityType
  <2>5. A # {}
    BY <1>3, <1>6, <2>4
  <2> DEFINE B == A \ {pick(A)}
  <2>6. B \in SUBSET D /\ h[A] = f[pick(A)] + h[B] /\ sizes[A] = f[pick(A)] + sizes[B]
    BY <1>2, <1>6, <2>4, <2>5
  <2>7. Cardinality(B) = Cardinality(A) - 1
    BY <1>2, <2>4, <2>5, FS_RemoveElement
  <2>8. B \in wrong
    BY <2>4, <2>6
  <2>9. Cardinality(B) \in counts
    BY <2>8
  <2> HIDE DEF B, counts, wrong
  <2> QED BY <2>2, <2>3, <2>4, <2>7, <2>9
<1>8. SumFunction(f) = h[D]
  <2>1. D = DOMAIN f
    BY DEF f
  <2>2. SumFunction(f) =
          (CHOOSE iter : iter = [s \in SUBSET D |->
                                   IF s = {} THEN 0
                                   ELSE f[CHOOSE x \in s : TRUE]
                                          + iter[s \ {CHOOSE x \in s : TRUE}]])[D]
    BY <2>1 DEF SumFunction, SumFunctionOnSet, FoldFunctionOnSet, MapThenFoldSet
  <2> QED BY <2>2 DEF h, Sums, pick
<1>9. h[D] = Cardinality(All(D))
  BY <1>7
<1> QED BY <1>8, <1>9 DEF f, All

\* What k passes miss in set s: every block once if the set is not crowded.
Share(g, p, n, k, s) ==
  LET m == Cardinality(Scanned(g, p, n, s))
  IN  IF m <= g.associativity /\ k > 0 THEN m ELSE k * m

LEMMA ShareOfSet ==
  ASSUME NEW g, Constructible(g), NEW p \in Nat, NEW n \in Nat, NEW k \in Nat, NEW s
  PROVE  Cardinality({u \in Missing(g, p, n, k * n) : SetOf(g, At(g, p, n, u)) = s})
           = Share(g, p, n, k, s)
<1> DEFINE M == {u \in Missing(g, p, n, k * n) : SetOf(g, At(g, p, n, u)) = s}
           m == Cardinality(Scanned(g, p, n, s))
<1>1. CASE n = 0
  <2>1. k * n = 0 /\ 0 .. 0 - 1 = {} /\ 0 .. n - 1 = {}
    BY <1>1
  <2>2. M = {} /\ Scanned(g, p, n, s) = {}
    BY <2>1 DEF Missing, Scanned
  <2>3. Cardinality(M) = 0 /\ m = 0 /\ k * 0 = 0
    BY <2>2, FS_EmptySet
  <2> QED BY <2>3 DEF Share
<1>2. CASE n # 0
  <2>1. n \in Nat \ {0} /\ m \in Nat /\ g.associativity \in Nat
    BY <1>2, ScannedFinite, GeometryType
  <2>2. Crowded(g, p, n, s) <=> m > g.associativity
    BY DEF Crowded
  <2>3. M = {u \in 0 .. k * n - 1 : /\ Begins(g, p, n, u) /\ SetOf(g, At(g, p, n, u)) = s
                                    /\ u < n \/ Crowded(g, p, n, s)}
    BY DEF Missing
  <2>4. \A q \in Nat : Cardinality(Visits(g, p, n, q, s)) = q * m
    BY <2>1, VisitsCount
  <2>5. CASE m > g.associativity \/ k = 0
    <3>1. k = 0 => k * n - 1 = -1 /\ 0 .. -1 = {}
      OBVIOUS
    <3>2. M = Visits(g, p, n, k, s)
      BY <2>2, <2>3, <2>5, <3>1 DEF Visits
    <3>3. Share(g, p, n, k, s) = k * m
      BY <2>1, <2>5 DEF Share
    <3> QED BY <2>4, <3>2, <3>3
  <2>6. CASE m <= g.associativity /\ k > 0
    <3>1. n <= k * n
      <4>1. 1 * n <= k * n
        BY <2>1, <2>6
      <4> QED BY <2>1, <4>1
    <3>2. k * n \in Nat /\ 1 * n = n
      BY <2>1
    <3>3. \A u : u \in 0 .. k * n - 1 /\ u < n <=> u \in 0 .. 1 * n - 1
      <4> DEFINE z == k * n
      <4>1. z \in Nat /\ n <= z
        BY <3>1, <3>2
      <4> HIDE DEF z
      <4>2. \A u : u \in 0 .. z - 1 /\ u < n <=> u \in 0 .. n - 1
        BY <2>1, <4>1
      <4> QED BY <3>2, <4>2 DEF z
    <3>4. ~Crowded(g, p, n, s)
      BY <2>1, <2>2, <2>6
    <3>5. M = Visits(g, p, n, 1, s)
      BY <2>3, <3>3, <3>4 DEF Visits
    <3>6. Cardinality(M) = 1 * m
      BY <2>4, <3>5
    <3>7. Share(g, p, n, k, s) = m
      BY <2>6 DEF Share
    <3> QED BY <2>1, <3>6, <3>7
  <2> QED BY <2>1, <2>5, <2>6
<1> QED BY <1>1, <1>2

LEMMA MissingBySets ==
  ASSUME NEW g, Constructible(g), NEW p \in Nat, NEW n \in Nat, NEW k \in Nat
  PROVE  Cardinality(Missing(g, p, n, k * n))
           = SumFunction([s \in Sets(g) |-> Share(g, p, n, k, s)])
<1> DEFINE M == Missing(g, p, n, k * n)
           F == [s \in Sets(g) |-> {u \in M : SetOf(g, At(g, p, n, u)) = s}]
<1>1. IsFiniteSet(Sets(g))
  <2>1. Sets(g) = 0 .. NumSets(g) - 1 /\ NumSets(g) \in Nat
    BY GeometryType DEF Sets
  <2> QED BY <2>1, FS_Interval
<1>2. M \subseteq 0 .. k * n - 1 /\ k * n - 1 \in Int
  BY DEF Missing
<1>3. IsFiniteSet(M)
  <2>1. IsFiniteSet(0 .. k * n - 1)
    BY <1>2, FS_Interval
  <2> QED BY <1>2, <2>1, FS_Subset
<1>4. ASSUME NEW u \in M PROVE SetOf(g, At(g, p, n, u)) \in Sets(g)
  <2>1. n # 0
    <3>1. n = 0 => k * n = 0 /\ 0 .. 0 - 1 = {}
      OBVIOUS
    <3> QED BY <1>2, <3>1
  <2>2. u \in Nat /\ n \in Nat \ {0}
    BY <1>2, <2>1
  <2>3. At(g, p, n, u) \in Nat
    BY <2>2, ScannedFinite
  <2> QED BY <2>3, Decomposition
<1>5. \A s \in Sets(g) : Cardinality(F[s]) = Share(g, p, n, k, s)
  <2> SUFFICES ASSUME NEW s \in Sets(g) PROVE Cardinality(F[s]) = Share(g, p, n, k, s)
    OBVIOUS
  <2> QED BY ShareOfSet
<1> HIDE DEF M
<1>6. \A s \in Sets(g) : IsFiniteSet(F[s])
  <2> SUFFICES ASSUME NEW s \in Sets(g) PROVE IsFiniteSet(F[s])
    OBVIOUS
  <2>1. F[s] \subseteq M
    OBVIOUS
  <2> HIDE DEF F
  <2> QED BY <1>3, <2>1, FS_Subset
<1>7. \A s, t \in Sets(g) : s # t => F[s] \cap F[t] = {}
  OBVIOUS
<1>8. UNION {F[s] : s \in Sets(g)} = M
  BY <1>4
<1> HIDE DEF F
<1>9. SumFunction([s \in Sets(g) |-> Cardinality(F[s])]) = Cardinality(M)
  BY <1>1, <1>6, <1>7, <1>8, SizesAddUp
<1>10. [s \in Sets(g) |-> Cardinality(F[s])] = [s \in Sets(g) |-> Share(g, p, n, k, s)]
  BY <1>5
<1> QED BY <1>9, <1>10 DEF M

-----------------------------------------------------------------------------
(* The scan of seqscan.                                                    *)

Scanning == Kind = "seqscan" /\ config.replacement # "Random"

\* The cache is that of a scan of the array, cut off after the touches fed.
ScanInv == Scanning => ScanState(config, place["a"], Gen!Cells, fed, cache)

\* The touch that is fed next.
LEMMA NextTouch ==
  ASSUME RunInv, Kind = "seqscan", fed + 1 \in DOMAIN trace
  PROVE  /\ Gen!Cells \in Nat \ {0} /\ place["a"] \in Nat /\ fed \in Nat
         /\ trace[fed + 1].op = "L"
         /\ BlockOf(config, AddressOf(trace[fed + 1])) = At(config, place["a"], Gen!Cells, fed)
<1>1. GenInv /\ place \in Placements /\ fed \in 0 .. Len(trace) /\ turn \in Nat
      /\ Len(trace) = turn /\ PerTurn = 1 /\ trace \in Seq(TouchType) /\ command \in Commands
  BY DEF RunInv, GenInv, PerTurn
<1>2. PICK s \in 0 .. turn - 1, c \in 1 .. PerTurn :
        fed + 1 = PerTurn * s + c /\ MayStand(s, c, trace[fed + 1]) /\ s < Gen!Turns /\ Ready
  BY <1>1, PlaceOfTouch
<1>3. s = fed /\ fed \in Nat
  BY <1>1, <1>2
<1>4. trace[fed + 1] = Gen!Touch("L", "a", fed % Gen!Cells)
  BY <1>2, <1>3 DEF MayStand
<1>5. Gen!Cells \in Nat \ {0}
  <2>1. Gen!Cells \in Nat /\ Gen!AtLeast0(command.m) \in Nat
    BY <1>1, <1>2, CommandNumbers DEF Ready, Gen!AtLeast0
  <2>2. Gen!Turns = Gen!AtLeast0(command.m) * Gen!Cells
    BY DEF Gen!Turns, Kind
  <2> QED BY <1>2, <1>3, <2>1, <2>2
<1>6. place["a"] \in Nat
  BY <1>1, PlacementsAssumption
<1>7. AddressOf(trace[fed + 1]) = place["a"] + 8 * (fed % Gen!Cells)
      /\ trace[fed + 1].op = "L"
  BY <1>4 DEF AddressOf, Gen!Touch
<1> QED BY <1>3, <1>5, <1>6, <1>7 DEF At, WordBlock

LEMMA FeedScans ==
  ASSUME RunInv, ScanInv, Feed
  PROVE  ScanInv'
<1> DEFINE touch == trace[fed + 1]
           a == AddressOf(touch)
           p == place["a"]
           n == Gen!Cells
<1>1. /\ fed' = fed + 1 /\ fed + 1 \in DOMAIN trace /\ Constructible(config) /\ a \in Nat
      /\ cache' \in AfterAccess(config, cache, a, touch.op = "S")
      /\ Kept(config, cache)
  BY FeedIsAccess DEF RunInv
<1>2. /\ command' = command /\ config' = config /\ place' = place
  BY DEF Feed, genVars
<1>3. Kind' = Kind /\ Gen!Cells' = n
  BY <1>2 DEF Kind, Gen!Kind, Gen!Cells
<1>4. Kept(config, cache')
  <2>1. RunInv'
    BY FeedKeepsRun
  <2> QED BY <1>2, <2>1 DEF RunInv
<1>5. ASSUME Scanning PROVE ScanState(config, p, n, fed + 1, cache')
  <2>1. Kind = "seqscan" /\ config.replacement # "Random"
        /\ ScanState(config, p, n, fed, cache)
    BY <1>5 DEF Scanning, ScanInv
  <2>2. /\ n \in Nat \ {0} /\ p \in Nat /\ fed \in Nat /\ touch.op = "L"
        /\ BlockOf(config, a) = At(config, p, n, fed)
    BY <1>1, <2>1, NextTouch
  <2>3. (touch.op = "S") = FALSE
    BY <2>2
  <2> HIDE DEF touch, a, p, n
  <2>4. cache' \in AfterAccess(config, cache, a, FALSE)
    BY <1>1, <2>3
  <2>5. Loaded(config, cache, cache', At(config, p, n, fed))
    BY <1>1, <2>1, <2>2, <2>4, LoadLoads
  <2> QED BY <1>1, <1>4, <2>1, <2>2, <2>5, ScanStep
<1> QED BY <1>1, <1>2, <1>3, <1>5 DEF ScanInv, Scanning

LEMMA ScanInvAlways == Spec => [](RunInv /\ ScanInv)
<1>1. ASSUME Init PROVE ScanInv
  <2>1. config \in Configs /\ fed = 0 /\ cache = NewCache(config)
    BY <1>1 DEF Init
  <2>2. Constructible(config)
    BY <2>1, ConfigsAssumption
  <2>3. ScanState(config, place["a"], Gen!Cells, 0, NewCache(config))
    BY <2>2, ScanStart
  <2> QED BY <2>1, <2>3 DEF ScanInv
<1>2. ASSUME RunInv, ScanInv, [Next]_vars PROVE ScanInv'
  <2>1. ASSUME /\ command' = command /\ config' = config /\ place' = place
               /\ cache' = cache /\ fed' = fed
        PROVE  ScanInv'
    <3>1. Kind' = Kind /\ Gen!Cells' = Gen!Cells
      BY <2>1 DEF Kind, Gen!Kind, Gen!Cells
    <3> QED BY <1>2, <2>1, <3>1 DEF ScanInv, Scanning
  <2>2. CASE Generate
    <3>1. command' = command
      BY <2>2 DEF Generate, Gen!Next, Gen!Usage, Gen!TooLong, Gen!NoFirstNode, Gen!Start,
                  Gen!Matmul, Gen!Hop, Gen!Scan, Gen!Draw, Gen!WildDraw, Gen!Return
    <3> QED BY <2>1, <2>2, <3>1 DEF Generate
  <2>3. CASE UNCHANGED vars
    BY <2>1, <2>3 DEF vars, genVars
  <2> QED BY <1>2, <2>2, <2>3, FeedScans DEF Next
<1> QED BY <1>1, <1>2, RunInvAlways, PTL DEF Spec

\* Under LRU and FIFO, for every geometry, every array and wherever it lies, a
\* finished sequential scan has missed each block once if the set it goes to
\* holds all its blocks, and every block in every pass if the set has one more:
\* Cache::access and the victims of lru.h and fifo.h lose a whole set at once.
THEOREM RepeatedScansMissByLaw == Spec => []CyclicScanLaw
<1>1. ASSUME RunInv, ScanInv, AllFed, command.kind = "seqscan", config.replacement # "Random"
      PROVE  cache.stats["misses"] = SumFunction([s \in Sets(config) |-> SetMisses(s)])
  <2> DEFINE p == place["a"]
             n == Gen!Cells
             k == Passes
  <2>1. /\ GenInv /\ Constructible(config) /\ place \in Placements /\ command \in Commands
        /\ fed = Len(trace) /\ stage = "ended" /\ code = "0" /\ Kind = "seqscan"
    BY <1>1, ConfigsAssumption DEF RunInv, AllFed, GenInv, Kind, Gen!Kind
  <2>2. Ready /\ turn = Gen!Turns /\ Len(trace) = 1 * turn /\ turn \in Nat
    BY <2>1 DEF GenInv, PerTurn
  <2>3. n \in Nat /\ k \in Nat
    BY <2>1, <2>2, CommandNumbers DEF Ready, Passes, Gen!AtLeast0
  <2>4. fed = k * n
    BY <2>1, <2>2 DEF Gen!Turns, Passes, Kind
  <2>5. p \in Nat
    BY <2>1, PlacementsAssumption
  <2>6. cache.stats["misses"] = Cardinality(Missing(config, p, n, fed))
    BY <1>1, <2>1 DEF ScanInv, Scanning, ScanState
  <2>7. ASSUME NEW s PROVE SetMisses(s) = Share(config, p, n, k, s)
    <3>1. Rivals(s) = Scanned(config, p, n, s)
      BY DEF Rivals, Scanned, WordBlock
    <3> QED BY <3>1 DEF SetMisses, Share
  <2> HIDE DEF p, n, k
  <2>8. Cardinality(Missing(config, p, n, k * n))
          = SumFunction([s \in Sets(config) |-> Share(config, p, n, k, s)])
    BY <2>1, <2>3, <2>5, MissingBySets
  <2>9. [s \in Sets(config) |-> SetMisses(s)] = [s \in Sets(config) |-> Share(config, p, n, k, s)]
    BY <2>7
  <2> QED BY <2>4, <2>6, <2>8, <2>9
<1>2. RunInv /\ ScanInv => CyclicScanLaw
  BY <1>1 DEF CyclicScanLaw
<1> QED BY <1>2, ScanInvAlways, PTL

-----------------------------------------------------------------------------
(* The sweep, a process of its own that runs the simulator.                *)

Row == [rate : {0} \cup Rates, code : {"0"}]

\* The capacity sweep has a text.
HasText ==
  Of("capacity") # {} =>
    traces["matmul"] # "empty" /\ \E i \in Of("capacity") : rows[i].rate < 10

\* Rows are only kept of runs that ended with 0; files are only opened when
\* there is one for every point and a text of them, the table before the text;
\* and the script ends with 0 when it has closed the second.
SweepInv ==
  /\ rows \in Seq(Row)
  /\ disk \in [{"csv", "md"} -> {"old", "cut", "new"}]
  /\ sweepStage \in {"write", "ended"} \/ disk = [f \in {"csv", "md"} |-> "old"]
  /\ sweepStage = "write" \/ (\E f \in {"csv", "md"} : disk[f] # "old") =>
       Len(rows) = Len(Grid) /\ HasText
  /\ disk["md"] # "old" => disk["csv"] = "new"
  /\ sweepStage # "ended" => exit = "none"
  /\ exit = "0" => disk["csv"] = "new" /\ disk["md"] = "new"

\* Whatever the grid and wherever the sweep fails, a report on disk that is not
\* the old one has a row for every run, each of a run whose self-check passed,
\* and a text that could be put together; a new text is only begun beside the
\* new table, and a sweep that ends with 0 has written both.  The simulator
\* prints a report when its self-check fails too: only run()'s look at the exit
\* code keeps that row out.
THEOREM TablesAreOfWholeSweeps == SweepSpec => []NoBadScience
<1>1. ASSUME SweepInit PROVE SweepInv
  BY <1>1 DEF SweepInit, SweepInv
<1>2. ASSUME SweepInv, [SweepNext]_(sweepVars) PROVE SweepInv'
  <2>1. CASE CheckPrerequisites
    BY <1>2, <2>1 DEF SweepInv, CheckPrerequisites, End
  <2>2. CASE Run
    <3>1. sweepStage = "runs" /\ disk' = disk
      BY <2>2 DEF Run
    <3>2. /\ rows' \in Seq(Row)
          /\ (sweepStage' = "runs" /\ exit' = "none") \/ (sweepStage' = "ended" /\ exit' = "failed")
      <4>1. PICK answer \in Answers :
              IF Taken(answer)
              THEN /\ \E r \in Measured(Grid[Len(rows) + 1].trace) :
                        rows' = Append(rows, [rate |-> r, code |-> answer.code])
                   /\ UNCHANGED <<sweepStage, exit>>
              ELSE End("failed") /\ UNCHANGED rows
        BY <2>2 DEF Run
      <4>2. CASE Taken(answer)
        <5>1. PICK r \in Measured(Grid[Len(rows) + 1].trace) :
                rows' = Append(rows, [rate |-> r, code |-> answer.code])
          BY <4>1, <4>2
        <5>2. r \in {0} \cup Rates /\ answer.code = "0"
          BY <4>2, <5>1 DEF Measured, Taken
        <5>3. [rate |-> r, code |-> answer.code] \in Row
          BY <5>2 DEF Row
        <5>4. sweepStage' = "runs" /\ exit' = "none"
          BY <1>2, <3>1, <4>1, <4>2 DEF SweepInv
        <5> QED BY <1>2, <5>1, <5>3, <5>4 DEF SweepInv
      <4>3. CASE ~Taken(answer)
        BY <1>2, <4>1, <4>3 DEF SweepInv, End
      <4> QED BY <4>2, <4>3
    <3> QED BY <1>2, <3>1, <3>2 DEF SweepInv
  <2>3. CASE Raise
    BY <1>2, <2>3 DEF SweepInv, Raise, End
  <2>4. CASE RunsMade
    <3>1. /\ sweepStage = "runs" /\ Len(rows) = Len(Grid) /\ ~TextFails
          /\ sweepStage' = "write" /\ UNCHANGED <<simulator, traces, exit, rows, disk>>
      BY <2>4 DEF RunsMade
    <3>2. DOMAIN rows = DOMAIN Grid
      <4> DEFINE G == [experiment : STRING, trace : Traces, knob : STRING]
      <4>1. Grid \in Seq(G)
        BY GridAssumption
      <4> HIDE DEF G
      <4>2. DOMAIN Grid = 1 .. Len(Grid) /\ DOMAIN rows = 1 .. Len(rows)
        BY <1>2, <4>1 DEF SweepInv
      <4> QED BY <3>1, <4>2
    <3>3. HasText
      BY <3>1, <3>2 DEF TextFails, CapacityText, HasText, Of
    <3>4. HasText'
      BY <3>1, <3>3 DEF HasText, Of
    <3> QED BY <1>2, <3>1, <3>4 DEF SweepInv
  <2>5. CASE Write
    <3>1. sweepStage = "write" /\ rows' = rows /\ traces' = traces /\ exit = "none"
      BY <1>2, <2>5 DEF Write, SweepInv
    <3>2. PICK i \in 1 .. 2 :
            /\ \A j \in 1 .. i - 1 : disk[Outputs[j]] = "new"
            /\ disk[Outputs[i]] # "new"
            /\ \E new \in {"old", "cut", "new"} :
                 /\ disk' = [disk EXCEPT ![Outputs[i]] = new]
                 /\ exit' = "0" => i = 2 /\ new = "new"
            /\ (sweepStage' = "write" /\ exit' = "none") \/ sweepStage' = "ended"
      BY <2>5, <3>1 DEF Write, Outputs, End
    <3>3. /\ Len(rows') = Len(Grid) /\ rows' \in Seq(Row)
          /\ HasText'
      <4>1. Len(rows) = Len(Grid) /\ rows \in Seq(Row) /\ HasText
        BY <1>2, <3>1 DEF SweepInv
      <4> QED BY <3>1, <4>1 DEF HasText, Of
    <3>4. CASE i = 1
      <4>1. PICK new \in {"old", "cut", "new"} : disk' = [disk EXCEPT !["csv"] = new]
        BY <3>2, <3>4 DEF Outputs
      <4>2. disk["md"] = "old"
        BY <1>2, <3>2, <3>4 DEF SweepInv, Outputs
      <4>3. disk' \in [{"csv", "md"} -> {"old", "cut", "new"}] /\ disk'["md"] = "old"
        BY <1>2, <4>1, <4>2 DEF SweepInv
      <4>4. exit' # "0"
        BY <3>2, <3>4
      <4> QED BY <3>2, <3>3, <4>3, <4>4 DEF SweepInv
    <3>5. CASE i = 2
      <4>1. PICK new \in {"old", "cut", "new"} :
              disk' = [disk EXCEPT !["md"] = new] /\ (exit' = "0" => new = "new")
        BY <3>2, <3>5 DEF Outputs
      <4>2. disk["csv"] = "new"
        BY <3>2, <3>5 DEF Outputs
      <4>3. /\ disk' \in [{"csv", "md"} -> {"old", "cut", "new"}]
            /\ disk'["csv"] = "new" /\ disk'["md"] = new
        BY <1>2, <4>1, <4>2 DEF SweepInv
      <4> QED BY <3>2, <3>3, <4>1, <4>3 DEF SweepInv
    <3> QED BY <3>4, <3>5
  <2>6. CASE UNCHANGED sweepVars
    <3>1. HasText' = HasText
      BY <2>6 DEF sweepVars, HasText, Of
    <3> QED BY <1>2, <2>6, <3>1 DEF SweepInv, sweepVars
  <2> QED BY <1>2, <2>1, <2>2, <2>3, <2>4, <2>5, <2>6 DEF SweepNext
<1>3. ASSUME SweepInv PROVE NoBadScience
  <2>1. \A i \in DOMAIN rows : rows[i].code = "0"
    <3>1. \A i \in DOMAIN rows : rows[i] \in Row
      BY <1>3 DEF SweepInv
    <3> QED BY <3>1 DEF Row
  <2>2. ASSUME NEW f \in {"csv", "md"}, disk[f] # "old"
        PROVE  Len(rows) = Len(Grid) /\ HasText
    BY <1>3, <2>2 DEF SweepInv
  <2> QED BY <1>3, <2>1, <2>2 DEF SweepInv, NoBadScience, HasText
<1> QED BY <1>1, <1>2, <1>3, PTL DEF SweepSpec
=============================================================================
