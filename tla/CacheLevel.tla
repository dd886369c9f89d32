----------------------------- MODULE CacheLevel -----------------------------
(***************************************************************************)
(* One Cache object of src/cache.cpp, as operators: its state, and what    *)
(* each of the three paths through Cache::access leaves behind and sends   *)
(* to the level below.  Cache.tla turns them into actions.                 *)
(*                                                                         *)
(* Cache::access discards what next_->access returns and reads nothing of  *)
(* the level below, so the calls it makes can be collected in order and    *)
(* handed down after its own state has changed.                            *)
(***************************************************************************)
EXTENDS ReplacementPolicy, RefFACache, Sequences

Line  == [valid : BOOLEAN, dirty : BOOLEAN, tag : Nat]
Empty == [valid |-> FALSE, dirty |-> FALSE, tag |-> 0]

Counters == {"accesses", "hits", "misses", "reads", "writes", "writebacks",
             "compulsory", "capacity", "conflict"}

\* The object the constructor builds.
NewCache(cfg) ==
  [lines |-> [s \in Sets(cfg) |-> [w \in Ways(cfg) |-> Empty]],
   repl  |-> NewPolicy(cfg),
   stats |-> [k \in Counters |-> 0],
   refFA |-> NewRefFA,
   seen  |-> {}]

CacheType(cfg, blocks, c) ==
  /\ DOMAIN c = {"lines", "repl", "stats", "refFA", "seen"}
  /\ c.lines \in [Sets(cfg) -> [Ways(cfg) -> Line]]
  /\ c.repl \in PolicyType(cfg)
  /\ c.stats \in [Counters -> Nat]
  /\ RefFAType(c.refFA, blocks)
  /\ c.seen \subseteq blocks

\* A call of next_->access.
Call    == [addr : Nat, isWrite : BOOLEAN]
Load(a)  == [addr |-> a, isWrite |-> FALSE]
Store(a) == [addr |-> a, isWrite |-> TRUE]

First(ways) == CHOOSE w \in ways : \A u \in ways : w <= u

-----------------------------------------------------------------------------
(* The search of the set, the choice of a frame and the 3-C verdict.       *)

\* Mutant: the search stops one way too early.
Matches_SkipsLastWay(cfg, c, block) ==
  {w \in Ways(cfg) : /\ w < cfg.associativity - 1
                     /\ c.lines[SetOf(cfg, block)][w].valid
                     /\ c.lines[SetOf(cfg, block)][w].tag = TagOf(cfg, block)}

Matches(cfg, c, block) ==
  {w \in Ways(cfg) : /\ c.lines[SetOf(cfg, block)][w].valid
                     /\ c.lines[SetOf(cfg, block)][w].tag = TagOf(cfg, block)}

IsHit(cfg, c, block) == Matches(cfg, c, block) # {}

EmptyWays(cfg, c, s) == {w \in Ways(cfg) : ~c.lines[s][w].valid}

\* Mutant: the policy is asked although frames are empty.
PickWays_IgnoresEmpty(cfg, c, s) == Victims(cfg, c.repl, s)

\* pickWay: the first empty frame, or else a victim of the policy.
PickWays(cfg, c, s) ==
  IF EmptyWays(cfg, c, s) # {}
  THEN {First(EmptyWays(cfg, c, s))}
  ELSE Victims(cfg, c.repl, s)

\* classify: the counter a miss goes to ("hits" is never one of them).
Verdict(c, block) ==
  IF block \notin c.seen THEN "compulsory"
  ELSE IF RefHit(c.refFA, block) THEN "conflict" ELSE "capacity"

\* Mutant: clean victims are written back too.
MustWriteBack_Clean(cfg, frame) == frame.valid /\ WritesBack(cfg)

MustWriteBack(cfg, frame) == frame.valid /\ frame.dirty /\ WritesBack(cfg)

-----------------------------------------------------------------------------
(* Counting.  Count adds one to every counter of a set.                    *)

Count(stats, ks) == [k \in Counters |-> IF k \in ks THEN stats[k] + 1 ELSE stats[k]]

Arrival(isWrite) == {"accesses", IF isWrite THEN "writes" ELSE "reads"}

HitCounters(isWrite) == Arrival(isWrite) \cup {"hits"}

MissCounters(cfg, c, block, isWrite) ==
  Arrival(isWrite) \cup {"misses"}
    \cup (IF cfg.classify3C THEN {Verdict(c, block)} ELSE {})

\* Mutant: the reference model is given the tag instead of the block.
Shadowed_ByTag(cfg, ref, block) ==
  IF cfg.classify3C THEN RefTouch(cfg, ref, TagOf(cfg, block)) ELSE ref

FillCounters(cfg, c, block, isWrite, frame) ==
  MissCounters(cfg, c, block, isWrite)
    \cup (IF MustWriteBack(cfg, frame) THEN {"writebacks"} ELSE {})

\* The reference model is driven by every access, hit or miss.
Shadowed(cfg, ref, block) ==
  IF cfg.classify3C THEN RefTouch(cfg, ref, block) ELSE ref

Noted(cfg, c, block) == IF cfg.classify3C THEN c.seen \cup {block} ELSE c.seen

-----------------------------------------------------------------------------
(* Path 1: a hit.                                                          *)

\* Mutant: a hit does not drive the reference model.
AfterHit_RefNotDriven(cfg, c, addr, isWrite) ==
  LET block == BlockOf(cfg, addr)
      s     == SetOf(cfg, block)
      w     == First(Matches(cfg, c, block))
  IN  [lines |-> [c.lines EXCEPT ![s][w].dirty = @ \/ (isWrite /\ WritesBack(cfg))],
       repl  |-> OnAccess(cfg, c.repl, s, w),
       stats |-> Count(c.stats, HitCounters(isWrite)),
       refFA |-> c.refFA,
       seen  |-> c.seen]

\* Mutant: a store that is forwarded leaves before the policy is told.
AfterHit_ThroughSkipsPolicy(cfg, c, addr, isWrite) ==
  LET block == BlockOf(cfg, addr)
      s     == SetOf(cfg, block)
      w     == First(Matches(cfg, c, block))
  IN  [lines |-> [c.lines EXCEPT ![s][w].dirty = @ \/ (isWrite /\ WritesBack(cfg))],
       repl  |-> IF isWrite /\ ~WritesBack(cfg) THEN c.repl ELSE OnAccess(cfg, c.repl, s, w),
       stats |-> Count(c.stats, HitCounters(isWrite)),
       refFA |-> Shadowed(cfg, c.refFA, block),
       seen  |-> c.seen]

AfterHit(cfg, c, addr, isWrite) ==
  LET block == BlockOf(cfg, addr)
      s     == SetOf(cfg, block)
      w     == First(Matches(cfg, c, block))
  IN  [lines |-> [c.lines EXCEPT ![s][w].dirty = @ \/ (isWrite /\ WritesBack(cfg))],
       repl  |-> OnAccess(cfg, c.repl, s, w),
       stats |-> Count(c.stats, HitCounters(isWrite)),
       refFA |-> Shadowed(cfg, c.refFA, block),
       seen  |-> c.seen]

\* Mutant: a write-through hit is not forwarded.
HitCalls_NotForwarded(cfg, addr, isWrite) == <<>>

HitCalls(cfg, addr, isWrite) ==
  IF isWrite /\ ~WritesBack(cfg) THEN <<Store(addr)>> ELSE <<>>

-----------------------------------------------------------------------------
(* Path 2: a store that misses under no-write-allocate.  No frame changes. *)

\* Mutant: the early return comes before the 3-C verdict.
AfterWriteAround_Unclassified(cfg, c, addr) ==
  [c EXCEPT !.stats = Count(c.stats, Arrival(TRUE) \cup {"misses"})]

AfterWriteAround(cfg, c, addr) ==
  LET block == BlockOf(cfg, addr)
  IN  [lines |-> c.lines,
       repl  |-> c.repl,
       stats |-> Count(c.stats, MissCounters(cfg, c, block, TRUE)),
       refFA |-> Shadowed(cfg, c.refFA, block),
       seen  |-> Noted(cfg, c, block)]

WriteAroundCalls(addr) == <<Store(addr)>>

-----------------------------------------------------------------------------
(* Path 3: the block is fetched into frame w of its set.                   *)

\* Mutant: every fill of a write-back cache starts dirty.
Installed_AlwaysDirty(cfg, block, isWrite) ==
  [valid |-> TRUE, dirty |-> WritesBack(cfg), tag |-> TagOf(cfg, block)]

Installed(cfg, block, isWrite) ==
  [valid |-> TRUE, dirty |-> isWrite /\ WritesBack(cfg), tag |-> TagOf(cfg, block)]

AfterFill(cfg, c, addr, isWrite, w) ==
  LET block == BlockOf(cfg, addr)
      s     == SetOf(cfg, block)
  IN  [lines |-> [c.lines EXCEPT ![s][w] = Installed(cfg, block, isWrite)],
       repl  |-> OnInsert(cfg, c.repl, s, w),
       stats |-> Count(c.stats, FillCounters(cfg, c, block, isWrite, c.lines[s][w])),
       refFA |-> Shadowed(cfg, c.refFA, block),
       seen  |-> Noted(cfg, c, block)]

\* Mutant: the write-back goes to the address of the access.
FillCalls_VictimAtAccess(cfg, c, addr, isWrite, w) ==
  <<Load(addr)>>
    \o (IF MustWriteBack(cfg, c.lines[SetOf(cfg, BlockOf(cfg, addr))][w])
        THEN <<Store(addr)>> ELSE <<>>)
    \o (IF isWrite /\ ~WritesBack(cfg) THEN <<Store(addr)>> ELSE <<>>)

\* Mutant: a store that allocates does not fetch its block.
FillCalls_NoFetchOnStore(cfg, c, addr, isWrite, w) ==
  LET s      == SetOf(cfg, BlockOf(cfg, addr))
      victim == AddrOf(cfg, VictimBlock(cfg, c.lines[s][w].tag, s))
  IN  (IF isWrite THEN <<>> ELSE <<Load(addr)>>)
        \o (IF MustWriteBack(cfg, c.lines[s][w]) THEN <<Store(victim)>> ELSE <<>>)
        \o (IF isWrite /\ ~WritesBack(cfg) THEN <<Store(addr)>> ELSE <<>>)

\* The fetch, then the write-back of a dirty victim at the victim's own
\* address, or the store a write-through cache forwards.
FillCalls(cfg, c, addr, isWrite, w) ==
  LET s     == SetOf(cfg, BlockOf(cfg, addr))
      frame == c.lines[s][w]
      victim == AddrOf(cfg, VictimBlock(cfg, frame.tag, s))
  IN  <<Load(addr)>>
        \o (IF MustWriteBack(cfg, frame) THEN <<Store(victim)>> ELSE <<>>)
        \o (IF isWrite /\ ~WritesBack(cfg) THEN <<Store(addr)>> ELSE <<>>)

-----------------------------------------------------------------------------
\* The three paths together: what an access may leave, one state per victim.
AfterAccess(cfg, c, addr, isWrite) ==
  LET block == BlockOf(cfg, addr)
  IN  IF IsHit(cfg, c, block) THEN {AfterHit(cfg, c, addr, isWrite)}
      ELSE IF isWrite /\ ~WriteAllocates(cfg) THEN {AfterWriteAround(cfg, c, addr)}
      ELSE {AfterFill(cfg, c, addr, isWrite, w) : w \in PickWays(cfg, c, SetOf(cfg, block))}

-----------------------------------------------------------------------------
(* Cache::checkInvariants                                                  *)

CheckInvariants(cfg, c) ==
  LET n == c.stats IN
  /\ n["hits"] + n["misses"] = n["accesses"]
  /\ \A s \in Sets(cfg), w \in Ways(cfg) : c.lines[s][w].dirty => c.lines[s][w].valid
  /\ cfg.classify3C =>
       /\ n["compulsory"] + n["capacity"] + n["conflict"] = n["misses"]
       /\ n["compulsory"] = Cardinality(c.seen)
=============================================================================
