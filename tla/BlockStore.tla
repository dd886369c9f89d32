----------------------------- MODULE BlockStore -----------------------------
(***************************************************************************)
(* What one cache promises to the level below and to whoever reads its     *)
(* counters, without frames, tags, stamps or counters of its own: the      *)
(* blocks it holds, those of them that only it has the newest contents of, *)
(* and the reads and writes it has sent below.                             *)
(*                                                                         *)
(* Which block leaves a full set is open: every replacement policy is an   *)
(* implementation.                                                         *)
(***************************************************************************)
EXTENDS CacheGeometry, FiniteSets

CONSTANT Addrs   \* the byte addresses that may be asked for

VARIABLES
  cfg,        \* the configuration of the cache
  contents,   \* the blocks it holds
  dirty,      \* those it owes the level below
  reads,      \* reads sent below
  writes      \* writes sent below

vars == <<cfg, contents, dirty, reads, writes>>

Peers(b) == {x \in contents : SetOf(cfg, x) = SetOf(cfg, b)}

Init ==
  /\ Constructible(cfg)
  /\ contents = {}
  /\ dirty = {}
  /\ reads = 0
  /\ writes = 0

\* The block is there.  A store stays here, or goes below at once.
Find(b, isWrite) ==
  /\ b \in contents
  /\ IF isWrite /\ WritesBack(cfg) THEN dirty' = dirty \cup {b} ELSE dirty' = dirty
  /\ IF isWrite /\ ~WritesBack(cfg) THEN writes' = writes + 1 ELSE writes' = writes
  /\ UNCHANGED <<cfg, contents, reads>>

\* A store whose block is not there goes by.
PassBy(b) ==
  /\ b \notin contents
  /\ ~WriteAllocates(cfg)
  /\ writes' = writes + 1
  /\ UNCHANGED <<cfg, contents, dirty, reads>>

\* The block is brought in and the blocks of gone leave: an owed one is
\* written below, and the store that asked is kept or sent after it.
Bring(b, isWrite, gone) ==
  /\ b \notin contents
  /\ isWrite => WriteAllocates(cfg)
  /\ contents' = (contents \ gone) \cup {b}
  /\ dirty' = (dirty \ gone) \cup (IF isWrite /\ WritesBack(cfg) THEN {b} ELSE {})
  /\ reads' = reads + 1
  /\ writes' = writes + Cardinality(gone \cap dirty)
                      + (IF isWrite /\ ~WritesBack(cfg) THEN 1 ELSE 0)
  /\ UNCHANGED cfg

\* Nothing leaves while the set has room, and one block of the set when not.
BringToRoom(b, isWrite) ==
  Cardinality(Peers(b)) < cfg.associativity /\ Bring(b, isWrite, {})

BringToFullSet(b, isWrite) ==
  /\ Cardinality(Peers(b)) = cfg.associativity
  /\ \E x \in Peers(b) : Bring(b, isWrite, {x})

Next ==
  \E b \in {BlockOf(cfg, a) : a \in Addrs} :
    \/ \E isWrite \in BOOLEAN :
         Find(b, isWrite) \/ BringToRoom(b, isWrite) \/ BringToFullSet(b, isWrite)
    \/ PassBy(b)

Spec == Init /\ [][Next]_vars
=============================================================================
