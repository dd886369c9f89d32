------------------------------- MODULE System -------------------------------
(***************************************************************************)
(* The program: main and its reader (Simulator, TraceReader) driving the   *)
(* real chain of caches (Hierarchy) instead of a list of records, and the  *)
(* report main prints of it.                                               *)
(*                                                                         *)
(* The chain is the Hierarchy itself, of which main builds the             *)
(* configurations and whose records come from the reader: its next-state   *)
(* relation is taken apart here into the calls of main.  feed() runs to    *)
(* the end of its recursion before next() is called again, so a step of    *)
(* main waits until no call is pending.                                    *)
(***************************************************************************)
EXTENDS Hierarchy

CONSTANTS Files, SizeValues, Options, MaxOptions   \* see Simulator

VARIABLES
  stage, code, settings, seen, stdout, readable,     \* main; cfgs is the chain's
  file, pos, bad, out, answer, records, from,        \* its reader
  healthy,                                           \* the chain's self-check would pass
  report                                             \* what main printed of it

mainVars   == <<stage, code, settings, seen, cfgs, stdout, readable,
                file, pos, bad, out, answer, records, from>>
chainVars  == <<levels, mem, pending, record, fed, fresh, healthy>>
systemVars == <<mainVars, chainVars, report>>

\* CacheHierarchy::checkInvariants: that of every level.
AllInvariants == \A l \in DOMAIN levels : CheckInvariants(cfgs[l], levels[l])

Main == INSTANCE Simulator WITH fed <- records

\* The traces hold lines, and Addrs the addresses of those that are records.
ASSUME TracesAssumption ==
  \A f \in Files :
    /\ f \in Seq(Main!Lines)
    /\ \A p \in DOMAIN f : Main!Accepts(f[p]) => f[p].addr.value \in Addrs
ASSUME SizesAssumption == SizeValues \in Nat \ {0}

-----------------------------------------------------------------------------
(* reportAll and reportJson: what both print of each level and of memory.  *)

Organization(cfg) ==
  CASE cfg.associativity = 1 -> "direct-mapped"
    [] cfg.associativity # 1 /\ NumSets(cfg) = 1 -> "fully-associative"
    [] OTHER -> "set-associative"

\* Misses over the accesses of the CPU, those of L1.
GlobalRate(l) ==
  LET total == levels[1].stats["accesses"]
  IN  IF total = 0 THEN <<0, 1>> ELSE <<levels[l].stats["misses"], total>>

LevelReport(l) ==
  [organization |-> Organization(cfgs[l]),
   counters     |-> levels[l].stats,
   missRate     |-> MissRate(levels[l].stats),
   globalRate   |-> GlobalRate(l)]

NoReport == [levels |-> <<>>, memory |-> [reads |-> 0, writes |-> 0], amat |-> <<0, 1>>]

FullReport ==
  [levels |-> [l \in DOMAIN levels |-> LevelReport(l)], memory |-> mem, amat |-> Amat]

-----------------------------------------------------------------------------
SystemInit ==
  /\ levels = <<>>
  /\ mem = [reads |-> 0, writes |-> 0]
  /\ pending = <<>>
  /\ record = "Instr"
  /\ fed = 0
  /\ fresh = <<Addrs>>
  /\ report = NoReport
  /\ healthy = TRUE
  /\ Main!Init

\* The command line, its checks, and the trace file.
Prepare ==
  /\ UNCHANGED <<chainVars, report>>
  /\ \/ \E o \in Options : \/ Main!AcceptOption(o) \/ Main!AskHelp(o)
                           \/ Main!RefuseOption(o) \/ Main!ThrowOnOption(o)
     \/ Main!EndOfOptions
     \/ Main!CheckRequired
     \/ Main!Resolve
     \/ Main!OpenTrace

\* The constructor of the hierarchy, if no level throws.
Built == IF \A i \in DOMAIN Main!Chain : Constructible(Main!Chain[i]) THEN Main!Chain ELSE <<>>

Build ==
  /\ stage = "build"
  /\ levels' = [l \in DOMAIN Built |-> NewCache(Built[l])]
  /\ fresh' = [l \in 1 .. Len(Built) + 1 |-> IF l > Len(Built) THEN Addrs ELSE {}]
  /\ UNCHANGED <<mem, pending, record, fed, healthy, report>>
  /\ Main!Build

\* next() reads on, or gives up.
ReadTrace ==
  /\ pending = <<>> /\ answer = "reading"
  /\ UNCHANGED <<chainVars, report>>
  /\ Main!Simulate

\* A record is handed to feed(); ServeCall runs it to its last call.
FeedRecord ==
  /\ answer = "record"
  /\ UNCHANGED <<healthy, report>>
  /\ Main!Simulate
  /\ Feed(out.op, out.addr)

\* The self-check would pass after this step: its answer is only asked for at
\* the end, and kept here at every step.
ServeCall ==
  /\ UNCHANGED <<mainVars, report>>
  /\ Serve
  /\ healthy' = AllInvariants'

Report ==
  /\ pending = <<>> /\ answer = "eof"
  /\ report' = FullReport
  /\ UNCHANGED chainVars
  /\ Main!Report

Verify == UNCHANGED <<chainVars, report>> /\ Main!Verify

SystemNext ==
  Prepare \/ Build \/ ReadTrace \/ FeedRecord \/ ServeCall \/ Report \/ Verify

\* One thread that waits for nothing; no read error is needed to end a run.
SystemSpec ==
  SystemInit /\ [][SystemNext]_systemVars /\ WF_systemVars(SystemNext /\ UNCHANGED bad)

-----------------------------------------------------------------------------
(* Properties.                                                             *)

\* The program is the Simulator, whose self-check never fails: with the real
\* caches below it main goes through the same stages with the same output and
\* exit codes, and the exit for violated invariants is never taken.  What the
\* Simulator keeps is then kept here: no record is lost, repeated or mixed up
\* (FedIsTrace) while the recursion of an earlier one runs.
RefinesMain == Main!Init /\ [][Main!Next]_(Main!vars)

Reported == report # NoReport

Records(ops) == Cardinality({i \in DOMAIN records : records[i].op \in ops})

\* The figures of report r, against the records of the trace and each other.
AddsUp(r) ==
  LET Counted(l) == r.levels[l].counters
      Below(l) == IF l = Len(r.levels) THEN r.memory
                  ELSE [reads |-> Counted(l + 1)["reads"], writes |-> Counted(l + 1)["writes"]]
  IN  /\ Counted(1)["reads"] = Records({"Read", "Modify"})
      /\ Counted(1)["writes"] = Records({"Write", "Modify"})
      /\ \A l \in DOMAIN r.levels :
           LET n == Counted(l) IN
           /\ n["reads"] + n["writes"] = n["hits"] + n["misses"]
           /\ IF WritesBack(cfgs[l])
              THEN Below(l).reads + Below(l).writes = n["misses"] + n["writebacks"]
              ELSE Below(l).writes = n["writes"]
           /\ WriteAllocates(cfgs[l]) => Below(l).reads = n["misses"]
           /\ r.levels[l].missRate[2] > 0 /\ r.levels[l].globalRate[2] > 0
      /\ r.levels[1].missRate = r.levels[1].globalRate
      /\ r.amat[2] > 0

\* The report adds up, from the records of the trace to the traffic of memory,
\* with nothing but its own figures: a modify is a load and a store, fetches
\* are counted nowhere, and every call a level makes is one its neighbour,
\* or memory, has counted; and every rate is a number, of an empty trace and of
\* a level that nothing reached as well.
ReportAddsUp == Reported => AddsUp(report)

\* Every run ends, the recursion of every record included.
EveryRunEnds == <>(stage = "ended")
=============================================================================
