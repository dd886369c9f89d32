------------------------------ MODULE MCSweep ------------------------------
(***************************************************************************)
(* A grid with a few points of each kind of experiment, for TLC.           *)
(***************************************************************************)
EXTENDS Sweep

Point(experiment, trace, knob) ==
  [experiment |-> experiment, trace |-> trace, knob |-> knob]

SmallGrid ==
  <<Point("assoc", "matmul", "4"), Point("assoc", "matmul", "8"),
    Point("block", "seqscan", "16"),
    Point("capacity", "matmul", "2048"), Point("capacity", "matmul", "32768"),
    Point("repl", "listwalk", "lru"), Point("locality", "randscan", "none")>>
=============================================================================
