----------------------------- MODULE RefFACache -----------------------------
(***************************************************************************)
(* The shadow model of the 3-C classifier (RefFACache in src/cache.cpp): a *)
(* fully-associative LRU cache of the same number of lines that tracks     *)
(* block numbers only.  It is the function lastUsed_ from the resident     *)
(* blocks to the clock value of their last touch, and that clock.          *)
(***************************************************************************)
EXTENDS CacheGeometry, FiniteSets

NewRefFA == [lastUsed |-> [b \in {} |-> 0], clock |-> 0]

RefBlocks(ref) == DOMAIN ref.lastUsed

RefFAType(ref, blocks) ==
  /\ DOMAIN ref = {"lastUsed", "clock"}
  /\ RefBlocks(ref) \subseteq blocks
  /\ ref.lastUsed \in [RefBlocks(ref) -> Nat]
  /\ ref.clock \in Nat

\* The entry the eviction scan ends on: a smallest stamp.
RefVictim(ref) ==
  CHOOSE b \in RefBlocks(ref) :
    \A x \in RefBlocks(ref) : ref.lastUsed[b] <= ref.lastUsed[x]

\* touch() returns whether the block was resident ...
RefHit(ref, block) == block \in RefBlocks(ref)

\* Mutant: the model evicts one insertion too late.
RefKept_OffByOne(cfg, ref, block) ==
  IF RefHit(ref, block) \/ Cardinality(RefBlocks(ref)) <= TotalLines(cfg)
  THEN RefBlocks(ref)
  ELSE RefBlocks(ref) \ {RefVictim(ref)}

\* ... and what it leaves resident: a full model first drops its LRU block.
RefKept(cfg, ref, block) ==
  IF RefHit(ref, block) \/ Cardinality(RefBlocks(ref)) < TotalLines(cfg)
  THEN RefBlocks(ref)
  ELSE RefBlocks(ref) \ {RefVictim(ref)}

\* Mutant: a resident block keeps its old stamp (FIFO instead of LRU).
RefTouch_NoRefresh(cfg, ref, block) ==
  [lastUsed |-> [b \in RefKept(cfg, ref, block) \cup {block} |->
                   IF RefHit(ref, b) THEN ref.lastUsed[b] ELSE ref.clock + 1],
   clock    |-> ref.clock + 1]

RefTouch(cfg, ref, block) ==
  [lastUsed |-> [b \in RefKept(cfg, ref, block) \cup {block} |->
                   IF b = block THEN ref.clock + 1 ELSE ref.lastUsed[b]],
   clock    |-> ref.clock + 1]
=============================================================================
