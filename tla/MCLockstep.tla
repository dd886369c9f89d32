----------------------------- MODULE MCLockstep -----------------------------
(***************************************************************************)
(* Pairs of caches of blocks of one byte, for TLC.                         *)
(***************************************************************************)
EXTENDS Lockstep

Knobs(sets, ways, repl, wp, ap) ==
  [sizeBytes |-> sets * ways, blockSize |-> 1, associativity |-> ways,
   replacement |-> repl, writePolicy |-> wp, allocPolicy |-> ap,
   classify3C |-> TRUE]

LRU(sets, ways, ap) == Knobs(sets, ways, "LRU", "WriteBack", ap)

\* One way to two, one set to two, both; and two ways to three where stores
\* go around, for which sets must not be split.
GrownPairs ==
  {<<LRU(1, 1, "WriteAllocate"), LRU(1, 2, "WriteAllocate")>>,
   <<LRU(1, 2, "WriteAllocate"), LRU(2, 2, "WriteAllocate")>>,
   <<LRU(1, 1, "WriteAllocate"), LRU(2, 2, "WriteAllocate")>>,
   <<LRU(1, 2, "NoWriteAllocate"), LRU(1, 3, "NoWriteAllocate")>>}

WritePolicyPairs ==
  {<<Knobs(1, 2, repl, "WriteBack", ap), Knobs(1, 2, repl, "WriteThrough", ap)>> :
     repl \in {"LRU", "FIFO"}, ap \in AllocPolicies}

\* FIFO beside LRU, for what no policy may change.
OtherPairs ==
  {<<Knobs(1, 2, "FIFO", "WriteBack", "NoWriteAllocate"),
     Knobs(1, 3, "LRU", "WriteThrough", "WriteAllocate")>>}

AllPairs == GrownPairs \cup WritePolicyPairs \cup OtherPairs
=============================================================================
