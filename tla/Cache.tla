------------------------------- MODULE Cache -------------------------------
(***************************************************************************)
(* A single cache over main memory, driven by an arbitrary stream of loads *)
(* and stores: class Cache of src/cache.cpp with Memory (src/memory.cpp)   *)
(* as its next level.                                                      *)
(*                                                                         *)
(* Cache::access has three ways through it (a hit, a write-around, a fill) *)
(* and each is one action: the whole handler, with every call it makes to  *)
(* the level below.                                                        *)
(***************************************************************************)
EXTENDS CacheLevel

CONSTANTS
  Configs,       \* the configurations the constructor is called with
  Addrs,         \* the byte addresses of the trace
  MaxAccesses    \* bound on the length of the trace

ASSUME ConfigsAssumption     == \A g \in Configs : Constructible(g)
ASSUME AddrsAssumption       == Addrs \subseteq Nat
ASSUME MaxAccessesAssumption == MaxAccesses \in Nat

VARIABLES
  cfg,       \* cfg_: fixed by the constructor
  cache,     \* the Cache object
  mem,       \* the Memory object: reads_ and writes_
  \* History variables: they record what happened and guide no action.
  owed,      \* blocks stored into the cache and not yet written below
  used,      \* used[b]: the access that last named block b (0: none)
  touched,   \* touched[b]: the access that last hit or filled block b
  filled     \* filled[b]: the access that last filled a frame with block b

history == <<owed, used, touched, filled>>
vars    == <<cfg, cache, mem, history>>

Blocks == {BlockOf(cfg, a) : a \in Addrs}

-----------------------------------------------------------------------------
(* Memory::access, and the calls of one Cache::access run through it.      *)

NewMemory == [reads |-> 0, writes |-> 0]

MemAccess(m, call) ==
  IF call.isWrite THEN [m EXCEPT !.writes = @ + 1] ELSE [m EXCEPT !.reads = @ + 1]

\* No access makes more than two calls: a fetch and one store.
Served(m, calls) ==
  CASE Len(calls) = 0 -> m
    [] Len(calls) = 1 -> MemAccess(m, calls[1])
    [] OTHER          -> MemAccess(MemAccess(m, calls[1]), calls[2])

-----------------------------------------------------------------------------
(* History.                                                                *)

Now == cache.stats.accesses + 1

WrittenBelow(calls) ==
  {BlockOf(cfg, calls[i].addr) : i \in {j \in DOMAIN calls : calls[j].isWrite}}

\* A store puts the cache in debt for its block; a write to the level below
\* pays for the block it is addressed to.
Settle(block, isWrite, calls) ==
  owed' = (owed \cup (IF isWrite THEN {block} ELSE {})) \ WrittenBelow(calls)

Mark(f, block) == [f EXCEPT ![block] = Now]

-----------------------------------------------------------------------------
Init ==
  /\ cfg \in Configs
  /\ cache = NewCache(cfg)
  /\ mem = NewMemory
  /\ owed = {}
  /\ used = [b \in Blocks |-> 0]
  /\ touched = [b \in Blocks |-> 0]
  /\ filled = [b \in Blocks |-> 0]

Hit(addr, isWrite) ==
  LET block == BlockOf(cfg, addr)
      calls == HitCalls(cfg, addr, isWrite)
  IN  /\ cache.stats.accesses < MaxAccesses
      /\ IsHit(cfg, cache, block)
      /\ cache' = AfterHit(cfg, cache, addr, isWrite)
      /\ mem' = Served(mem, calls)
      /\ Settle(block, isWrite, calls)
      /\ used' = Mark(used, block)
      /\ touched' = Mark(touched, block)
      /\ UNCHANGED <<cfg, filled>>

WriteAround(addr) ==
  LET block == BlockOf(cfg, addr)
      calls == WriteAroundCalls(addr)
  IN  /\ cache.stats.accesses < MaxAccesses
      /\ ~IsHit(cfg, cache, block)
      /\ ~WriteAllocates(cfg)
      /\ cache' = AfterWriteAround(cfg, cache, addr)
      /\ mem' = Served(mem, calls)
      /\ Settle(block, TRUE, calls)
      /\ used' = Mark(used, block)
      /\ UNCHANGED <<cfg, touched, filled>>

Fill(addr, isWrite) ==
  LET block == BlockOf(cfg, addr)
  IN  /\ cache.stats.accesses < MaxAccesses
      /\ ~IsHit(cfg, cache, block)
      /\ isWrite => WriteAllocates(cfg)
      /\ \E w \in PickWays(cfg, cache, SetOf(cfg, block)) :
           LET calls == FillCalls(cfg, cache, addr, isWrite, w)
           IN  /\ cache' = AfterFill(cfg, cache, addr, isWrite, w)
               /\ mem' = Served(mem, calls)
               /\ Settle(block, isWrite, calls)
      /\ used' = Mark(used, block)
      /\ touched' = Mark(touched, block)
      /\ filled' = Mark(filled, block)
      /\ UNCHANGED cfg

Next ==
  \E addr \in Addrs :
    \/ \E isWrite \in BOOLEAN : Hit(addr, isWrite) \/ Fill(addr, isWrite)
    \/ WriteAround(addr)

Spec == Init /\ [][Next]_vars

-----------------------------------------------------------------------------
(* What the lines of the cache hold.                                       *)

Frames == Sets(cfg) \X Ways(cfg)

LineAt(f)  == cache.lines[f[1]][f[2]]
BlockAt(f) == LineAt(f).tag * NumSets(cfg) + f[1]

ValidFrames == {f \in Frames : LineAt(f).valid}
Resident    == {BlockAt(f) : f \in ValidFrames}
DirtyFrames == {f \in ValidFrames : LineAt(f).dirty}
DirtyBlocks == {BlockAt(f) : f \in DirtyFrames}

-----------------------------------------------------------------------------
(* Properties.                                                             *)

\* The type invariant of the cache, its memory and the history variables.
TypeOK ==
  /\ cfg \in Configs
  /\ CacheType(cfg, Blocks, cache)
  /\ mem \in [reads : Nat, writes : Nat]
  /\ owed \subseteq Blocks
  /\ used \in [Blocks -> Nat]
  /\ touched \in [Blocks -> Nat]
  /\ filled \in [Blocks -> Nat]

\* Two frames never hold the same block, and a valid frame holds a block of
\* the trace: the search of Cache::access finds a resident block wherever a
\* fill put it, so no block is installed a second time.
NoDuplicateBlock ==
  /\ \A f, g \in ValidFrames : BlockAt(f) = BlockAt(g) => f = g
  /\ Resident \subseteq Blocks

\* No store is lost and none is written below twice: the blocks whose newest
\* contents only this cache holds are exactly the blocks of its dirty lines.
\* A dirty victim dropped, written to another block's address or left dirty
\* after its write-back breaks it; under write-through nothing is ever owed.
OwedIsDirty == owed = DirtyBlocks

\* Cache::checkInvariants, the self-check that decides the exit code: it
\* passes after every access, not only at the end of the trace.
SelfCheck == CheckInvariants(cfg, cache)

\* Traffic, per policy.  Every miss makes one call below (a fetch or a
\* write-around) and a write-back cache adds one store per dirty eviction;
\* a write-through cache sends every store below, once, and never writes back;
\* an allocating cache fetches on every miss, the other on load misses only.
TrafficLaw ==
  LET n == cache.stats IN
  /\ IF WritesBack(cfg)
     THEN mem.reads + mem.writes = n["misses"] + n["writebacks"]
     ELSE mem.writes = n["writes"] /\ n["writebacks"] = 0
  /\ IF WriteAllocates(cfg)
     THEN mem.reads = n["misses"]
     ELSE mem.reads <= n["reads"]

\* A store costs memory at most one write, now or later: the writes already
\* made and the dirty blocks still to be written never outnumber the stores.
StoresCoalesce == mem.writes + Cardinality(owed) <= cache.stats["writes"]

-----------------------------------------------------------------------------
(* What all of it promises, with frames, stamps and counters left out.     *)

Abstract == INSTANCE BlockStore WITH
  contents <- Resident, dirty <- DirtyBlocks, reads <- mem.reads, writes <- mem.writes

\* The cache implements the abstract store, whatever its replacement policy:
\* a hit finds every block that was brought in and has not left, nothing
\* leaves a set that has room, one block leaves a full one, and each dirty
\* block that leaves is one write below, in the same step.
ActsAsBlockStore == Abstract!Spec

-----------------------------------------------------------------------------
(* What the policies keep, told by the history of the trace alone.         *)

Age(b) == IF cfg.replacement = "LRU" THEN touched[b] ELSE filled[b]

InSet(s) == {b \in Blocks : SetOf(cfg, b) = s}

\* LRU keeps the blocks of a set that were hit or filled last, FIFO those
\* filled last: a block that was once in the cache and is not any more is
\* older than every block its set holds, and its set is full.
KeepsYoungest ==
  cfg.replacement # "Random" =>
    \A s \in Sets(cfg) : \A gone \in InSet(s) \ Resident :
      Age(gone) > 0 =>
        /\ EmptyWays(cfg, cache, s) = {}
        /\ \A kept \in InSet(s) \cap Resident : Age(gone) < Age(kept)

\* The shadow model never drifts: it holds the most recently used blocks, as
\* many as the cache has lines, whatever the real cache did with them.
RefHoldsMostRecent ==
  cfg.classify3C =>
    /\ Cardinality(RefBlocks(cache.refFA)) <= TotalLines(cfg)
    /\ \A gone \in Blocks \ RefBlocks(cache.refFA) :
         used[gone] > 0 =>
           /\ Cardinality(RefBlocks(cache.refFA)) = TotalLines(cfg)
           /\ \A kept \in RefBlocks(cache.refFA) : used[gone] < used[kept]

\* The 3-C verdict of a miss, told without the shadow model: compulsory for a
\* block never used; otherwise a conflict if fewer distinct blocks were used
\* since its last use than the cache has lines, and a capacity miss if not.
Distance(b) == Cardinality({x \in Blocks : used[x] > used[b]})

Counted(k) == cache'.stats[k] # cache.stats[k]

VerdictByReuseDistance ==
  [][\A b \in Blocks :
       cfg.classify3C /\ used'[b] # used[b] /\ Counted("misses") =>
         /\ Counted("compulsory") <=> used[b] = 0
         /\ Counted("conflict") <=> used[b] > 0 /\ Distance(b) < TotalLines(cfg)
         /\ Counted("capacity") <=> used[b] > 0 /\ Distance(b) >= TotalLines(cfg)]_vars

-----------------------------------------------------------------------------
(* The fully-associative LRU cache and the reference model it is said to be.*)

FullyAssociativeLRU ==
  NumSets(cfg) = 1 /\ cfg.replacement = "LRU" /\ cfg.classify3C

\* An allocating fully-associative LRU cache holds what the reference model
\* holds, so none of its misses is ever blamed on associativity.
FullyAssocIsTheReference ==
  FullyAssociativeLRU /\ WriteAllocates(cfg) =>
    /\ Resident = RefBlocks(cache.refFA)
    /\ cache.stats["conflict"] = 0

\* What docs/phases/phase-5.md says of every fully-associative LRU cache.  It
\* does not hold under no-write-allocate: the store that is written around
\* enters the reference model and not the cache.
FullyAssocNeverConflicts == FullyAssociativeLRU => cache.stats["conflict"] = 0
=============================================================================
