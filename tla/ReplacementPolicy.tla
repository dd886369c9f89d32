------------------------- MODULE ReplacementPolicy -------------------------
(***************************************************************************)
(* The replacement policies of src/replacement.cpp behind the three hooks  *)
(* of the ReplacementPolicy interface.  LRU and FIFO keep one stamp per    *)
(* frame and a counter for the whole cache; they differ only in whether a  *)
(* hit stamps the frame.  Random keeps nothing: std::rand() may return any *)
(* way.                                                                    *)
(***************************************************************************)
EXTENDS CacheGeometry

\* The policy object: lastUsed (LRU) or insertTime (FIFO), and clock.
NewPolicy(cfg) ==
  [stamp |-> [s \in Sets(cfg) |-> [w \in Ways(cfg) |-> 0]], clock |-> 0]

PolicyType(cfg) ==
  [stamp : [Sets(cfg) -> [Ways(cfg) -> Nat]], clock : Nat]

\* stamp[s][w] = ++clock
Stamped(repl, s, w) ==
  [stamp |-> [repl.stamp EXCEPT ![s][w] = repl.clock + 1],
   clock |-> repl.clock + 1]

\* Mutant: FIFO reorders on a hit, as LRU does.
OnAccess_FifoReorders(cfg, repl, s, w) ==
  IF cfg.replacement = "Random" THEN repl ELSE Stamped(repl, s, w)

\* Mutant: a hit is not told to the policy.
OnAccess_Forgotten(cfg, repl, s, w) == repl

OnAccess(cfg, repl, s, w) ==
  IF cfg.replacement = "LRU" THEN Stamped(repl, s, w) ELSE repl

OnInsert(cfg, repl, s, w) ==
  IF cfg.replacement = "Random" THEN repl ELSE Stamped(repl, s, w)

\* Mutant: the scan keeps the largest stamp.
Victims_Newest(cfg, repl, s) ==
  IF cfg.replacement = "Random"
  THEN Ways(cfg)
  ELSE {CHOOSE w \in Ways(cfg) : \A u \in Ways(cfg) : repl.stamp[s][w] >= repl.stamp[s][u]}

\* The ways getVictim may return.  The scan keeps the first way that has a
\* strictly smaller stamp than all before it: the lowest of the oldest ways.
Victims(cfg, repl, s) ==
  IF cfg.replacement = "Random"
  THEN Ways(cfg)
  ELSE {w \in Ways(cfg) :
          \A u \in Ways(cfg) :
            IF u < w THEN repl.stamp[s][w] < repl.stamp[s][u]
                     ELSE repl.stamp[s][w] <= repl.stamp[s][u]}
=============================================================================
