------------------------------ MODULE MCSystem ------------------------------
(***************************************************************************)
(* Whole runs of the program: an L1 of two lines, with and without an L2,  *)
(* on traces of up to three lines, well formed or not.                     *)
(***************************************************************************)
EXTENDS System

Number(n) == [word |-> "number", n |-> n]
Name(w)   == [word |-> w, n |-> 0]

Option(flag, value) == [flag |-> flag, value |-> value]

CommandLine ==
  {Option("--trace", Name("t")),
   Option("--l1-size", Number(4)), Option("--l1-block", Number(2)),
   Option("--l1-alloc", Name("no-allocate")), Option("--classify-3c", Name("on")),
   Option("--l2-size", Number(4)), Option("--l2-block", Number(2)),
   Option("--l1-size", Name("big")), Option("--help", Name("on")),
   Option("unknown", Name("on"))}

TraceLine(op, class, addr, size) ==
  [op |-> op, addr |-> [class |-> class, value |-> addr],
   size |-> [class |-> size, value |-> 0]]

Plain(op, addr) == TraceLine(op, "number", addr, "absent")

\* Blocks 0 and 2 share a line of L1, block 1 does not.  The others fail at the
\* size, when the address is already written, at the address, and not at all.
HalfRead   == TraceLine("M", "number", 6, "word")
TraceLines ==
  {Plain("R", 0), Plain("W", 4), Plain("M", 2), Plain("I", 6), HalfRead,
   TraceLine("S", "word", 0, "absent"), TraceLine("L", "prefix", 4, "absent")}

Traces ==
  UNION {[1 .. k -> TraceLines] : k \in 0 .. 2}
    \cup {<<Plain("W", 4), second, third>> :
            second \in {Plain("R", 0), Plain("M", 2), HalfRead},
            third \in {Plain("R", 0), Plain("W", 4), Plain("W", 0)}}

LongestTrace == 3

TraceAddrs == {0, 2, 4, 6}
CycleCosts == <<1, 10>>

\* main builds the chain.
NoChains == {}
=============================================================================
