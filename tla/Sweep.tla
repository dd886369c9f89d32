------------------------------- MODULE Sweep -------------------------------
(***************************************************************************)
(* scripts/sweep.py: the simulator is run once for every point of a grid,  *)
(* and a table and a text are written from the rows.                       *)
(*                                                                         *)
(* A run of the simulator is what Simulator.tla allows: it ends with 0 and *)
(* a report, with 1 and a report if its self-check fails, or with another  *)
(* code (or a signal) and no report.                                       *)
(***************************************************************************)
EXTENDS Integers, Sequences

CONSTANTS
  Grid,    \* the runs in their order: records [experiment, trace, knob]
  Rates    \* the miss rates a run may measure, in percent

Traces == {"matmul", "listwalk", "seqscan", "randscan"}

ASSUME GridAssumption ==
  Grid \in Seq([experiment : STRING, trace : Traces, knob : STRING])
ASSUME RatesAssumption == Rates \subseteq Nat

VARIABLES
  simulator,   \* whether an executable is found
  traces,      \* what stands under the name of each trace
  sweepStage,  \* "start", "runs", "write" or "ended"
  exit,        \* how the script ended
  rows,        \* one row for every run: its rate and the run's exit code
  disk         \* csv and md: "old", "cut" or "new"

sweepVars == <<simulator, traces, sweepStage, exit, rows, disk>>

\* The shell creates the file before the generator runs, so a generator that
\* fails leaves an empty trace (a cut one measures as a whole one does).
SweepInit ==
  /\ simulator \in BOOLEAN
  /\ traces \in [Traces -> {"absent", "empty", "whole"}]
  /\ sweepStage = "start"
  /\ exit = "none"
  /\ rows = <<>>
  /\ disk = [f \in {"csv", "md"} |-> "old"]

End(code) == sweepStage' = "ended" /\ exit' = code

\* Only the existence of the files is checked.
CheckPrerequisites ==
  /\ sweepStage = "start"
  /\ IF simulator /\ \A t \in Traces : traces[t] # "absent"
     THEN sweepStage' = "runs" /\ UNCHANGED exit
     ELSE End("failed")
  /\ UNCHANGED <<simulator, traces, rows, disk>>

\* What the simulator may answer: its exit code, whether stdout has a report.
Answers ==
  {[code |-> "0", report |-> TRUE], [code |-> "1", report |-> TRUE],
   [code |-> "other", report |-> FALSE]}

\* Mutant: the exit code is not looked at, what can be parsed is taken.
Taken_AnyReport(answer) == answer.report

Taken(answer) == answer.code = "0" /\ answer.report

\* A trace without records measures nothing: zero of zero accesses miss.
Measured(trace) == IF traces[trace] = "empty" THEN {0} ELSE Rates

Of(experiment) == {i \in DOMAIN rows : Grid[i].experiment = experiment}

\* The text of the capacity sweep divides by the accesses of its last row, and
\* by the first size under ten percent, which there may not be.
CapacityText ==
  /\ traces["matmul"] # "empty"
  /\ \E i \in Of("capacity") : rows[i].rate < 10

\* The text of an experiment is put together when its last run has been made.
TextFails ==
  /\ Of("capacity") # {}
  /\ Of("capacity") = {i \in DOMAIN Grid : Grid[i].experiment = "capacity"}
  /\ ~CapacityText

Run ==
  /\ sweepStage = "runs" /\ Len(rows) < Len(Grid) /\ ~TextFails
  /\ \E answer \in Answers :
       IF Taken(answer)
       THEN /\ \E r \in Measured(Grid[Len(rows) + 1].trace) :
                 rows' = Append(rows, [rate |-> r, code |-> answer.code])
            /\ UNCHANGED <<sweepStage, exit>>
       ELSE End("failed") /\ UNCHANGED rows
  /\ UNCHANGED <<simulator, traces, disk>>

Raise ==
  /\ sweepStage = "runs" /\ TextFails
  /\ End("failed")
  /\ UNCHANGED <<simulator, traces, rows, disk>>

RunsMade ==
  /\ sweepStage = "runs" /\ Len(rows) = Len(Grid) /\ ~TextFails
  /\ sweepStage' = "write"
  /\ UNCHANGED <<simulator, traces, exit, rows, disk>>

Outputs == <<"csv", "md">>

\* Opening a file truncates it.
Write ==
  /\ sweepStage = "write"
  /\ \E i \in DOMAIN Outputs :
       /\ \A j \in 1 .. i - 1 : disk[Outputs[j]] = "new"
       /\ disk[Outputs[i]] # "new"
       /\ \/ /\ disk' = [disk EXCEPT ![Outputs[i]] = "new"]
             /\ IF i = Len(Outputs) THEN End("0") ELSE UNCHANGED <<sweepStage, exit>>
          \/ /\ \E left \in {"old", "cut"} : disk' = [disk EXCEPT ![Outputs[i]] = left]
             /\ End("failed")
  /\ UNCHANGED <<simulator, traces, rows>>

SweepNext == CheckPrerequisites \/ Run \/ Raise \/ RunsMade \/ Write

SweepSpec == SweepInit /\ [][SweepNext]_sweepVars

-----------------------------------------------------------------------------
(* Properties.                                                             *)

\* A simulator that found its own invariants violated has printed a report all
\* the same; no such row reaches the disk, nor a text of a capacity that fell
\* below ten percent nowhere: what is written is of a whole sweep of runs that
\* ended with 0.  A text is only begun beside the new table, and a sweep that
\* reports success leaves both of the same runs.
NoBadScience ==
  /\ \A f \in {"csv", "md"} :
       disk[f] # "old" =>
         /\ Len(rows) = Len(Grid)
         /\ \A i \in DOMAIN rows : rows[i].code = "0"
         /\ Of("capacity") # {} =>
              /\ traces["matmul"] # "empty"
              /\ \E i \in Of("capacity") : rows[i].rate < 10
  /\ disk["md"] # "old" => disk["csv"] = "new"
  /\ exit = "0" => \A f \in {"csv", "md"} : disk[f] = "new"

\* What docs/phases/phase-6.md:130 says of the text: a sweep on new traces
\* rewrites the prose to match.  Nothing makes the two files change together:
\* if the text cannot be written, the new table stands beside an old or a cut one.
TextMatchesTable ==
  sweepStage = "ended" /\ disk["csv"] = "new" => disk["md"] = "new"
=============================================================================
