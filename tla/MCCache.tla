------------------------------ MODULE MCCache ------------------------------
(***************************************************************************)
(* Small instances of Cache: the configurations TLC checks and the traces  *)
(* it drives them with.  Blocks have two bytes throughout, so that an odd  *)
(* address has an offset and a write-back's address differs from it.       *)
(***************************************************************************)
EXTENDS Cache

Knobs(size, ways, repl, wp, ap, shadow) ==
  [sizeBytes |-> size, blockSize |-> 2, associativity |-> ways,
   replacement |-> repl, writePolicy |-> wp, allocPolicy |-> ap,
   classify3C |-> shadow]

\* One set of two ways under every pair of write and allocation policies, by
\* LRU and FIFO, and by Random where stores are deferred and where they are not.
PolicyConfigs ==
  {Knobs(4, 2, r, wp, ap, FALSE) :
     r \in {"LRU", "FIFO"}, wp \in WritePolicies, ap \in AllocPolicies}
    \cup {Knobs(4, 2, "Random", "WriteBack", "WriteAllocate", FALSE),
          Knobs(4, 2, "Random", "WriteThrough", "NoWriteAllocate", FALSE)}

\* Two sets of two ways, with the classifier.
SetConfigs ==
  {Knobs(8, 2, r, "WriteBack", "WriteAllocate", TRUE) : r \in {"LRU", "FIFO"}}

\* With two sets, blocks 1, 3, 5 and 7 in set 1 and block 2 in set 0; all five
\* compete for the frames of one set.
TraceAddrs == {3, 4, 6, 11, 14}

\* Two lines, direct-mapped or fully associative, with the classifier.
ShadowConfigs ==
  {Knobs(4, ways, "LRU", "WriteBack", ap, TRUE) : ways \in {1, 2}, ap \in AllocPolicies}

AllConfigs == PolicyConfigs \cup SetConfigs \cup ShadowConfigs
=============================================================================
