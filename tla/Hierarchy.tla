----------------------------- MODULE Hierarchy -----------------------------
(***************************************************************************)
(* The chain L1 -> L2 -> ... -> Memory that CacheHierarchy (in             *)
(* src/hierarchy.cpp) builds and feeds with the records of a trace.        *)
(*                                                                         *)
(* A Cache calls next_->access in the middle of its own access; the call   *)
(* runs to its end before the next one starts, and nothing ever calls      *)
(* upward.  pending is that call stack, its front the call that runs next: *)
(* serving the front call of a level replaces it by the calls the level    *)
(* makes below.                                                            *)
(***************************************************************************)
EXTENDS CacheLevel

CONSTANTS
  Chains,       \* the level configurations, outermost first
  Addrs,        \* the byte addresses of the trace
  HitTimes,     \* hitTime of L1, L2, ...
  MemTime,      \* memTime_
  MaxRecords    \* bound on the length of the trace

ASSUME ChainsAssumption ==
  \A ch \in Chains :
    ch \in Seq(ConfigType) \ {<<>>} /\ \A l \in DOMAIN ch : Constructible(ch[l])
ASSUME HierarchyAddrsAssumption == Addrs \subseteq Nat
ASSUME TimesAssumption ==
  /\ MemTime \in Nat
  /\ \A ch \in Chains : \A l \in DOMAIN ch : HitTimes[l] \in Nat
ASSUME MaxRecordsAssumption == MaxRecords \in Nat

VARIABLES
  cfgs,       \* the configurations of this chain
  levels,     \* levels_: the Cache objects
  mem,        \* mem_: reads_ and writes_
  pending,    \* the calls of access() still to run, the next one first
  record,     \* op of the record being fed
  fed,        \* records fed so far
  \* History: fresh[l] is the set of bytes for which level l (memory being
  \* the last) has the value stored last.
  fresh

vars == <<cfgs, levels, mem, pending, record, fed, fresh>>

Depth  == Len(cfgs)
Levels == 1 .. Depth

\* The wiring of the constructor: each level calls the next, the deepest
\* calls memory, which is place Depth + 1.

\* Mutant: the deepest level is built before memory is wired.
NextLevel_MemoryUnwired(l) == IF l = Depth THEN l + 2 ELSE l + 1

NextLevel(l) == l + 1

Ops == {"Read", "Write", "Modify", "Instr"}

-----------------------------------------------------------------------------
(* Calls.  A store writes bytes, and has the newest value of some of them. *)

Payload == [bytes : SUBSET Addrs, newest : SUBSET Addrs]
Nothing == [bytes |-> {}, newest |-> {}]

Sent(l, call, data) ==
  [level |-> l, addr |-> call.addr, isWrite |-> call.isWrite,
   data |-> IF call.isWrite THEN data ELSE Nothing]

\* one(): a CPU access is a call of L1; a store writes the byte it names.
CpuAccess(call) == Sent(1, call, [bytes |-> {call.addr}, newest |-> {call.addr}])

\* Mutant: a modify stores before it loads.
Expand_StoreFirst(op, addr) ==
  CASE op = "Read"   -> <<CpuAccess(Load(addr))>>
    [] op = "Write"  -> <<CpuAccess(Store(addr))>>
    [] op = "Modify" -> <<CpuAccess(Store(addr)), CpuAccess(Load(addr))>>
    [] op = "Instr"  -> <<>>

\* Mutant: a modify is one access.
Expand_ModifyOnce(op, addr) ==
  CASE op = "Read" -> <<CpuAccess(Load(addr))>>
    [] op \in {"Write", "Modify"} -> <<CpuAccess(Store(addr))>>
    [] op = "Instr" -> <<>>

Expand(op, addr) ==
  CASE op = "Read"   -> <<CpuAccess(Load(addr))>>
    [] op = "Write"  -> <<CpuAccess(Store(addr))>>
    [] op = "Modify" -> <<CpuAccess(Load(addr)), CpuAccess(Store(addr))>>
    [] op = "Instr"  -> <<>>

Front == Head(pending)

\* The front call returns after the calls it makes below, in their order.
Replace(calls, data) ==
  pending' = [i \in DOMAIN calls |-> Sent(NextLevel(Front.level), calls[i], data)]
               \o Tail(pending)

-----------------------------------------------------------------------------
(* The bytes behind the traffic.  The code moves none; a fetch stands for  *)
(* the block read from below and a store for the bytes written there.      *)

Bytes(l, block) == {a \in Addrs : BlockOf(cfgs[l], a) = block}

Holds(l, a) == l > Depth \/ IsHit(cfgs[l], levels[l], BlockOf(cfgs[l], a))

\* Where a load that passes level l finds byte a.
FoundBelow(l, a) == First({k \in l + 1 .. Depth + 1 : Holds(k, a)})

ReadBelow(l, block) == {a \in Bytes(l, block) : a \in fresh[FoundBelow(l, a)]}

\* A store of the CPU makes every other copy of its byte an old one.
Aged ==
  IF Front.level = 1 THEN [k \in DOMAIN fresh |-> fresh[k] \ Front.data.newest] ELSE fresh

\* The front call arrives where kept are the bytes that are new: what it
\* writes among those of here is as new as the value it has.
Put(kept, here) ==
  (kept \ (Front.data.bytes \cap here)) \cup (Front.data.newest \cap here)

FrameBytes(l, s, frame) ==
  IF frame.valid THEN Bytes(l, frame.tag * NumSets(cfgs[l]) + s) ELSE {}

-----------------------------------------------------------------------------
Init ==
  /\ cfgs \in Chains
  /\ levels = [l \in Levels |-> NewCache(cfgs[l])]
  /\ mem = [reads |-> 0, writes |-> 0]
  /\ pending = <<>>
  /\ record = "Instr"
  /\ fed = 0
  /\ fresh = [l \in 1 .. Depth + 1 |-> IF l > Depth THEN Addrs ELSE {}]

\* The loop of main hands the next record to feed().
Feed(op, addr) ==
  /\ pending = <<>>
  /\ fed < MaxRecords
  /\ fed' = fed + 1
  /\ record' = op
  /\ pending' = Expand(op, addr)
  /\ UNCHANGED <<cfgs, levels, mem, fresh>>

\* Cache::access of a level, its three paths (see CacheLevel).
LevelHit ==
  /\ pending # <<>> /\ Front.level \in Levels
  /\ LET l     == Front.level
         block == BlockOf(cfgs[l], Front.addr)
     IN  /\ IsHit(cfgs[l], levels[l], block)
         /\ levels' = [levels EXCEPT ![l] = AfterHit(cfgs[l], @, Front.addr, Front.isWrite)]
         /\ Replace(HitCalls(cfgs[l], Front.addr, Front.isWrite), Front.data)
         /\ fresh' = [Aged EXCEPT ![l] = Put(@, Bytes(l, block))]
  /\ UNCHANGED <<cfgs, mem, record, fed>>

LevelWriteAround ==
  /\ pending # <<>> /\ Front.level \in Levels
  /\ LET l == Front.level
     IN  /\ ~IsHit(cfgs[l], levels[l], BlockOf(cfgs[l], Front.addr))
         /\ Front.isWrite /\ ~WriteAllocates(cfgs[l])
         /\ levels' = [levels EXCEPT ![l] = AfterWriteAround(cfgs[l], @, Front.addr)]
         /\ Replace(WriteAroundCalls(Front.addr), Front.data)
         /\ fresh' = Aged
  /\ UNCHANGED <<cfgs, mem, record, fed>>

\* The store a fill sends below is the dirty victim's of a write-back level
\* and the arriving one of a write-through level.
LevelFill ==
  /\ pending # <<>> /\ Front.level \in Levels
  /\ LET l     == Front.level
         block == BlockOf(cfgs[l], Front.addr)
         s     == SetOf(cfgs[l], block)
     IN  /\ ~IsHit(cfgs[l], levels[l], block)
         /\ Front.isWrite => WriteAllocates(cfgs[l])
         /\ \E w \in PickWays(cfgs[l], levels[l], s) :
              LET gone == FrameBytes(l, s, levels[l].lines[s][w])
              IN  /\ levels' = [levels EXCEPT
                       ![l] = AfterFill(cfgs[l], @, Front.addr, Front.isWrite, w)]
                  /\ Replace(FillCalls(cfgs[l], levels[l], Front.addr, Front.isWrite, w),
                             IF WritesBack(cfgs[l])
                             THEN [bytes |-> gone, newest |-> gone \cap fresh[l]]
                             ELSE Front.data)
                  /\ fresh' = [Aged EXCEPT ![l] =
                       Put((@ \ gone) \cup ReadBelow(l, block), Bytes(l, block))]
  /\ UNCHANGED <<cfgs, mem, record, fed>>

MemoryAccess ==
  /\ pending # <<>> /\ Front.level = Depth + 1
  /\ mem' = IF Front.isWrite THEN [mem EXCEPT !.writes = @ + 1]
                             ELSE [mem EXCEPT !.reads = @ + 1]
  /\ pending' = Tail(pending)
  /\ fresh' = [fresh EXCEPT ![Depth + 1] = Put(@, Addrs)]
  /\ UNCHANGED <<cfgs, levels, record, fed>>

Serve == LevelHit \/ LevelWriteAround \/ LevelFill \/ MemoryAccess

Next == (\E op \in Ops, addr \in Addrs : Feed(op, addr)) \/ Serve

\* The one thread blocks on nothing between a record and the next, so a call
\* on the stack runs; the trace may end after any record.
Spec == Init /\ [][Next]_vars /\ WF_vars(Serve)

-----------------------------------------------------------------------------
(* Properties.                                                             *)

Idle == pending = <<>>

\* The addresses that reach a level: those of the trace, and the starts of
\* the blocks the levels above write back.
Reach ==
  Addrs \cup {AddrOf(cfgs[l], BlockOf(cfgs[l], a)) : l \in Levels, a \in Addrs}

\* The type invariant of the chain, its stack and its history.
TypeOK ==
  /\ cfgs \in Chains
  /\ DOMAIN levels = Levels
  /\ \A l \in Levels :
       CacheType(cfgs[l], {BlockOf(cfgs[l], a) : a \in Reach}, levels[l])
  /\ mem \in [reads : Nat, writes : Nat]
  /\ pending \in Seq([level : 1 .. Depth + 1, addr : Reach,
                      isWrite : BOOLEAN, data : Payload])
  /\ record \in Ops
  /\ fed \in 0 .. MaxRecords
  /\ fresh \in [1 .. Depth + 1 -> SUBSET Addrs]

BlocksGrow ==
  \A l \in Levels \ {1} : cfgs[l - 1].blockSize <= cfgs[l].blockSize

\* A load is served by the first level that holds its block; the value the
\* program stored last is the one it finds there.
NewestIsFirst == Idle => \A a \in Addrs : a \in fresh[FoundBelow(0, a)]

\* No level above or below hides a newer store, whatever the write and
\* allocation policies of the levels and however their replacement drops
\* blocks (nothing enforces inclusion), as long as no level has larger
\* blocks than the one below it.
NewestStoreFound == BlocksGrow => NewestIsFirst

\* What the comment in Cache::access promises of every eviction ("it is the
\* only copy, so write it back"): it fails when a victim spans several blocks
\* of the next level, of which the write-back names only the first.
OnlyCopyWrittenBack == NewestIsFirst

-----------------------------------------------------------------------------
(* Counters that must agree across levels.                                 *)

Reads(l)  == IF l > Depth THEN mem.reads ELSE levels[l].stats["reads"]
Writes(l) == IF l > Depth THEN mem.writes ELSE levels[l].stats["writes"]

InFlight(l, isWrite) ==
  Cardinality({i \in DOMAIN pending : pending[i].level = l /\ pending[i].isWrite = isWrite})

SentReads(l)  == Reads(l) + InFlight(l, FALSE)
SentWrites(l) == Writes(l) + InFlight(l, TRUE)

\* What a level sends to the next, at every moment of the recursion: one call
\* per miss and one per write-back if it writes back; every store, once, if
\* it writes through; a fetch per miss if it allocates, and if it does not,
\* the rest of its misses go around as stores.
TrafficBetweenLevels ==
  \A l \in Levels :
    LET n == levels[l].stats IN
    /\ IF WritesBack(cfgs[l])
       THEN SentReads(l + 1) + SentWrites(l + 1) = n["misses"] + n["writebacks"]
       ELSE SentWrites(l + 1) = n["writes"] /\ n["writebacks"] = 0
    /\ IF WriteAllocates(cfgs[l])
       THEN SentReads(l + 1) = n["misses"]
       ELSE SentReads(l + 1) <= n["reads"]

DirtyLines(l) ==
  Cardinality({f \in Sets(cfgs[l]) \X Ways(cfgs[l]) : levels[l].lines[f[1]][f[2]].dirty})

\* A store of the CPU costs at most one write at each level below, now or
\* later: the writes a level has sent and the dirty lines it still has to
\* write back never outnumber the stores it was given.
WritesNeverAmplified ==
  \A l \in Levels : SentWrites(l + 1) + DirtyLines(l) <= Writes(l)

\* The store of a modify always hits L1: its load has just brought the block
\* in, whatever the policies, so an M record costs at most one L1 miss.
ModifyStoreHits ==
  [][record = "Modify" /\ levels'[1].stats["writes"] # levels[1].stats["writes"]
       => levels'[1].stats["hits"] # levels[1].stats["hits"]]_vars

\* The recursion ends: a call only makes calls of the level below it and
\* memory makes none, so every record fed is served to its last call.
EveryRecordIsServed == ~Idle ~> Idle

-----------------------------------------------------------------------------
(* What a level promises to its neighbours.                                *)

\* Reach, of every chain: the addresses some level may be asked for.
EverReached ==
  Addrs \cup UNION {{AddrOf(ch[l], BlockOf(ch[l], a)) : l \in DOMAIN ch, a \in Addrs} : ch \in Chains}

HeldBlock(l, f) == levels[l].lines[f[1]][f[2]].tag * NumSets(cfgs[l]) + f[1]

Contents(l) ==
  {HeldBlock(l, f) : f \in {g \in Sets(cfgs[l]) \X Ways(cfgs[l]) : levels[l].lines[g[1]][g[2]].valid}}
DirtyBlocks(l) ==
  {HeldBlock(l, f) : f \in {g \in Sets(cfgs[l]) \X Ways(cfgs[l]) : levels[l].lines[g[1]][g[2]].dirty}}

L1 == INSTANCE BlockStore WITH
  Addrs <- EverReached, cfg <- cfgs[1], contents <- Contents(1), dirty <- DirtyBlocks(1),
  reads <- SentReads(2), writes <- SentWrites(2)

L2 == INSTANCE BlockStore WITH
  Addrs <- EverReached, cfg <- cfgs[2], contents <- Contents(2), dirty <- DirtyBlocks(2),
  reads <- SentReads(3), writes <- SentWrites(3)

\* In a chain each of two levels is still the store it would be over memory
\* alone: the calls it sends count from the moment it makes them, and what
\* the level below does with them, in the middle of its access, disturbs
\* neither what it holds nor what it owes.
LevelsActAsBlockStores == L1!Spec /\ L2!Spec

-----------------------------------------------------------------------------
(* Rates.  A rational number is a pair; the code computes with doubles.    *)

MissRate(n) == IF n["accesses"] = 0 THEN <<0, 1>> ELSE <<n["misses"], n["accesses"]>>

\* Mutant: the classic bug, rates over all CPU accesses.
Amat_GlobalRates ==
  LET penalty[l \in 1 .. Depth + 1] ==
        IF l > Depth THEN <<MemTime, 1>>
        ELSE LET n == levels[l].stats
                 total == levels[1].stats["accesses"]
                 rate == IF total = 0 THEN <<0, 1>> ELSE <<n["misses"], total>>
                 p    == penalty[l + 1]
             IN  <<HitTimes[l] * rate[2] * p[2] + rate[1] * p[1], rate[2] * p[2]>>
  IN  penalty[1]

\* computeAMAT: the penalty of a level is the AMAT of everything below it.
Amat ==
  LET penalty[l \in 1 .. Depth + 1] ==
        IF l > Depth THEN <<MemTime, 1>>
        ELSE LET rate == MissRate(levels[l].stats)
                 p    == penalty[l + 1]
             IN  <<HitTimes[l] * rate[2] * p[2] + rate[1] * p[1], rate[2] * p[2]>>
  IN  penalty[1]

\* The cycles all calls took, each paying its level's time.
Cycles ==
  LET upTo[l \in 0 .. Depth] ==
        IF l = 0 THEN 0 ELSE upTo[l - 1] + HitTimes[l] * (Reads(l) + Writes(l))
  IN  upTo[Depth] + MemTime * (mem.reads + mem.writes)

\* What computeAMAT folds from local rates is the truth it stands for: on a
\* trace without stores it is the mean number of cycles of an access.  (With
\* stores a write-back takes a call below that no access waits for.)
AmatIsMeanLatency ==
  Idle /\ levels[1].stats["writes"] = 0 /\ levels[1].stats["reads"] > 0 =>
    Amat[1] * levels[1].stats["accesses"] = Cycles * Amat[2]
=============================================================================
