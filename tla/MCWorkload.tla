----------------------------- MODULE MCWorkload -----------------------------
(***************************************************************************)
(* Small arrays and caches of a few blocks, for TLC.                       *)
(***************************************************************************)
EXTENDS Workload

Command(kind, argc, n, m) == [kind |-> kind, argc |-> argc, n |-> n, m |-> m]

\* Small, zero and negative numbers, and scans of up to ten words, so that up
\* to five blocks compete for a set.
AllCommands ==
  {Command("matmul", 3, n, 0) : n \in -1 .. 3}
    \cup {Command("listwalk", 4, n, m) : n \in -1 .. 4, m \in {-1, 0, 9}}
    \cup {Command("seqscan", 4, n, m) : n \in {-9, -7, 0, 7, 8, 24, 31, 40, 64, 80},
                                       m \in {-1, 0, 1, 3}}
    \cup {Command("randscan", 4, n, m) : n \in {-8, -1, 7, 8, 24}, m \in {-1, 0, 3}}
    \cup {Command("matmul", 4, 2, 2), Command("seqscan", 3, 8, 0),
          Command("quicksort", 3, 8, 0)}

Knobs(block, sets, ways, repl, wp, ap) ==
  [sizeBytes |-> block * sets * ways, blockSize |-> block, associativity |-> ways,
   replacement |-> repl, writePolicy |-> wp, allocPolicy |-> ap,
   classify3C |-> FALSE]

Shapes == {<<16, 1, 2>>, <<16, 2, 1>>, <<16, 2, 2>>, <<32, 2, 1>>, <<32, 1, 2>>}

\* Five shapes under LRU and FIFO; one frame, and every policy, beside them.
SmallCaches ==
  {Knobs(s[1], s[2], s[3], repl, "WriteBack", "WriteAllocate") :
     s \in Shapes, repl \in {"LRU", "FIFO"}}
    \cup {Knobs(16, 1, 1, repl, "WriteThrough", ap) :
            repl \in Replacements, ap \in AllocPolicies}

\* At the start of a block of thirty-two bytes, and in the middle of one.
TwoPlacements ==
  {[array \in {"a", "pool", "A", "B", "C"} |->
      base + (CASE array = "B" -> 80 [] array = "C" -> 160 [] OTHER -> 0)] :
     base \in {64, 80}}
=============================================================================
