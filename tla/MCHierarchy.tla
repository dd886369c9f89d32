---------------------------- MODULE MCHierarchy ----------------------------
(***************************************************************************)
(* Small chains for TLC: an L1 of one line over an L2 of two, and chains   *)
(* of three levels whose blocks grow on the way down.                      *)
(***************************************************************************)
EXTENDS Hierarchy

Knobs(lines, block, ways, repl, wp, ap) ==
  [sizeBytes |-> lines * block, blockSize |-> block, associativity |-> ways,
   replacement |-> repl, writePolicy |-> wp, allocPolicy |-> ap,
   classify3C |-> FALSE]

\* Every pair of write and allocation policies: 16 chains.
PolicyChains ==
  {<<Knobs(1, 2, 1, "LRU", wp1, ap1), Knobs(2, 2, 2, "LRU", wp2, ap2)>> :
     wp1 \in WritePolicies, ap1 \in AllocPolicies,
     wp2 \in WritePolicies, ap2 \in AllocPolicies}

\* Blocks 0, 1 and 2 of two bytes, 0 and 1 of four.
PolicyAddrs == {0, 3, 4}

\* Three levels: random replacement in the middle, larger blocks at the end.
DeepChains ==
  {<<Knobs(1, 2, 1, "LRU", "WriteBack", "WriteAllocate"),
     Knobs(2, 2, 2, "Random", wp, ap),
     Knobs(1, 4, 1, "FIFO", "WriteBack", "WriteAllocate")>> :
     wp \in WritePolicies, ap \in AllocPolicies}

AllChains == PolicyChains \cup DeepChains

\* L1 blocks of two L2 blocks.
ShrinkingChains ==
  {<<Knobs(1, 4, 1, "LRU", "WriteBack", "WriteAllocate"),
     Knobs(4, 2, 2, "LRU", "WriteBack", "WriteAllocate")>>}

\* Both halves of L1 block 0, and L1 block 1.
ShrinkingAddrs == {0, 2, 4}

CycleCosts == <<1, 10, 30>>
=============================================================================
