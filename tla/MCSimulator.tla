---------------------------- MODULE MCSimulator ----------------------------
(***************************************************************************)
(* Command lines and traces for TLC.                                       *)
(***************************************************************************)
EXTENDS Simulator

Option(flag, value) == [flag |-> flag, value |-> value]
Switch(flag)        == Option(flag, Word("on"))

TraceOption == Option("--trace", Word("t"))

\* Two levels with one good and one bad value of each kind.
CommandLine ==
  {TraceOption, Option("--trace", Word("")), Option("--trace", NoValue),
   Option("--l1-size", Num(8)), Option("--l1-size", Word("big")),
   Option("--l1-block", Num(2)), Option("--l1-block", Num(0)),
   Option("--l1-assoc", Word("full")), Option("--l1-assoc", Word("two")),
   Option("--l2-size", Num(16)),
   Option("--l2-block", Num(4)), Option("--l2-block", Num(3)),
   Option("--l2-assoc", Word("full")), Option("--l2-assoc", Num(0)),
   Option("--l2-hit", Num(9)),
   Option("--l2-write", Word("through")), Option("--l2-write", Word("around")),
   Switch("--json"), Switch("--verbose"), Switch("--help"), Switch("unknown")}

\* A command line that runs, and the two options that print.
PrintingCommandLine ==
  {TraceOption, Option("--l1-size", Num(8)), Option("--l1-block", Num(2)),
   Switch("--json"), Switch("--verbose")}

Line(op, addr, size) == [op |-> op, addr |-> addr, size |-> size]

\* Lines of every kind, those that fail half way between two good ones, the
\* same line twice, and no line at all.
FewTraces ==
  {<<Line("L", Token("number", 7), Token("number", 4)),
     Line("M", Token("number", 6), Token("word", 0)),
     Line("W", Token("number", 9), Absent)>>,
   <<Line("S", Token("word", 0), Absent), Line("I", Token("number", 5), Token("number", 8)),
     Line("R", Token("huge", 0), Absent), Line("M", Token("prefix", 14), Absent)>>,
   <<Line("W", Token("number", 9), Absent), Line("W", Token("number", 9), Absent),
     Line("=", Token("prefix", 3), Absent), Line("S", Absent, Absent)>>,
   <<>>}

\* A trace of one load.
OneLine == {<<Line("L", Token("number", 7), Token("number", 4))>>}
=============================================================================
