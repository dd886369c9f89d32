----------------------------- MODULE Simulator -----------------------------
(***************************************************************************)
(* main() of src/main.cpp: options, required checks, associativity, trace, *)
(* hierarchy, loop, report, self-check, exit code.                         *)
(*                                                                         *)
(* The command line is chosen token by token as the option loop reads it.  *)
(* settings is the locals the loop assigns, as a function from the flags   *)
(* seen to the last value of each.  The hierarchy is here the list of      *)
(* records it is fed and the answer of its self-check, either of which     *)
(* main must be ready for (that it is always yes is proved of Cache).      *)
(***************************************************************************)
EXTENDS TraceReader, CacheGeometry

CONSTANTS
  Options,      \* the options of command lines: records [flag, value]
  MaxOptions    \* bound on the options of one command line

NumberFlags == {"--l1-size", "--l1-block", "--l2-size", "--l2-block",
                "--l1-hit", "--l2-hit", "--mem-time", "--addr-bits"}
AssocFlags  == {"--l1-assoc", "--l2-assoc"}
ReplFlags   == {"--l1-repl", "--l2-repl"}
WriteFlags  == {"--l1-write", "--l2-write"}
AllocFlags  == {"--l1-alloc", "--l2-alloc"}
Switches    == {"--json", "--verbose", "--classify-3c"}

\* Mutant: --l2-hit does not count as an L2 flag.
L2Flags_HitForgotten ==
  {"--l2-size", "--l2-block", "--l2-assoc", "--l2-repl", "--l2-write", "--l2-alloc"}

\* The flags that set anyL2.
L2Flags == {"--l2-size", "--l2-block", "--l2-assoc", "--l2-repl", "--l2-write",
            "--l2-alloc", "--l2-hit"}

\* A value is a number or some other word; at the end of argv there is none.
\* A word that starts with a number (8K) is read as that number.
Num(n)  == [word |-> "number", n |-> n]
Word(w) == [word |-> w, n |-> 0]
NoValue == Word("end of argv")

\* parseRepl, parseWrite and parseAlloc: the words and what they select.
ReplOf(w)  == CASE w = "lru" -> "LRU" [] w = "fifo" -> "FIFO" [] w = "random" -> "Random"
WriteOf(w) == CASE w = "back" -> "WriteBack" [] w = "through" -> "WriteThrough"
AllocOf(w) == CASE w = "allocate" -> "WriteAllocate" [] w = "no-allocate" -> "NoWriteAllocate"

BadPolicy(o) ==
  \/ o.flag \in ReplFlags  /\ o.value.word \notin {"lru", "fifo", "random"}
  \/ o.flag \in WriteFlags /\ o.value.word \notin {"back", "through"}
  \/ o.flag \in AllocFlags /\ o.value.word \notin {"allocate", "no-allocate"}

NeedsValue(flag) == flag \notin Switches \cup {"--help", "unknown"}

\* The options the loop refuses with exit code 2, and those whose value the
\* number conversion throws on.
Refused(o) ==
  \/ o.flag = "unknown"
  \/ NeedsValue(o.flag) /\ o.value = NoValue
  \/ BadPolicy(o)

Throws(o) ==
  o.flag \in NumberFlags /\ o.value # NoValue /\ o.value.word # "number"

VARIABLES
  stage,      \* where main is
  code,       \* how the process ended: "0", "1", "2" or "abort"
  settings,   \* the values of the flags seen
  seen,       \* number of options taken (bound)
  cfgs,       \* the configurations handed to the hierarchy
  stdout,     \* what has been printed there, one word per print
  readable,   \* the trace file can be opened
  healthy     \* the answer CacheHierarchy::checkInvariants will give

mainVars == <<stage, code, settings, seen, cfgs, stdout, readable, healthy>>
vars     == <<mainVars, readerVars>>

Given(flag) == flag \in DOMAIN settings

\* return from main, or the end of the process in std::terminate or a trap,
\* and the last words on stdout.
Exit(c, words) ==
  /\ stage' = "ended"
  /\ code' = c
  /\ stdout' = stdout \o words
  /\ UNCHANGED <<settings, cfgs>>

GoTo(s) == stage' = s /\ UNCHANGED code

-----------------------------------------------------------------------------
(* The option loop.                                                        *)

Accepted(o) == ~Refused(o) /\ ~Throws(o) /\ o.flag # "--help"

Reading == stage = "options" /\ seen < MaxOptions

AcceptOption(o) ==
  /\ Reading /\ Accepted(o)
  /\ settings' = [f \in DOMAIN settings \cup {o.flag} |->
                    IF f = o.flag THEN o.value ELSE settings[f]]
  /\ seen' = seen + 1
  /\ UNCHANGED <<stage, code, cfgs, stdout, readable, healthy, readerVars>>

AskHelp(o) ==
  /\ Reading /\ o.flag = "--help"
  /\ Exit("0", <<"usage">>)
  /\ UNCHANGED <<seen, readable, healthy, readerVars>>

\* An unknown flag is answered with the usage, a bad or missing value is not.
RefuseOption(o) ==
  /\ Reading /\ Refused(o)
  /\ Exit("2", IF o.flag = "unknown" THEN <<"usage">> ELSE <<>>)
  /\ UNCHANGED <<seen, readable, healthy, readerVars>>

\* Nothing catches what std::stoull and std::stod throw.
ThrowOnOption(o) ==
  /\ Reading /\ Throws(o)
  /\ Exit("abort", <<>>)
  /\ UNCHANGED <<seen, readable, healthy, readerVars>>

EndOfOptions ==
  /\ stage = "options"
  /\ GoTo("check")
  /\ UNCHANGED <<settings, seen, cfgs, stdout, readable, healthy, readerVars>>

\* An empty path counts as none.
HasTrace == Given("--trace") /\ settings["--trace"].word # ""

\* Mutant: --l1-block is not required.
Required_SizeOnly == HasTrace /\ Given("--l1-size")

Required == HasTrace /\ Given("--l1-size") /\ Given("--l1-block")

AnyL2 == \E f \in L2Flags : Given(f)

CheckRequired ==
  /\ stage = "check"
  /\ IF Required /\ (AnyL2 => Given("--l2-size") /\ Given("--l2-block"))
     THEN GoTo("resolve") /\ UNCHANGED <<settings, cfgs, stdout>>
     ELSE Exit("2", IF Required THEN <<>> ELSE <<"usage">>)
  /\ UNCHANGED <<seen, readable, healthy, readerVars>>

-----------------------------------------------------------------------------
(* The configurations.                                                     *)

FlagOf(level, knob) ==
  CASE knob = "size"  -> IF level = 1 THEN "--l1-size"  ELSE "--l2-size"
    [] knob = "block" -> IF level = 1 THEN "--l1-block" ELSE "--l2-block"
    [] knob = "assoc" -> IF level = 1 THEN "--l1-assoc" ELSE "--l2-assoc"
    [] knob = "repl"  -> IF level = 1 THEN "--l1-repl"  ELSE "--l2-repl"
    [] knob = "write" -> IF level = 1 THEN "--l1-write" ELSE "--l2-write"
    [] knob = "alloc" -> IF level = 1 THEN "--l1-alloc" ELSE "--l2-alloc"

ValueOr(flag, default) == IF Given(flag) THEN settings[flag] ELSE default

\* The size and block of a level, 0 if they were never given.
SizeOfLevel(level) == ValueOr(FlagOf(level, "size"), Num(0)).n
BlockOfLevel(level) == ValueOr(FlagOf(level, "block"), Num(0)).n

\* The associativity as it was given; an empty word leaves the default.
AssocWord(level) ==
  LET given == ValueOr(FlagOf(level, "assoc"), Num(1))
  IN  IF given.word = "" THEN Num(1) ELSE given

\* resolveAssoc divides by zero, or throws.
ResolveAborts(level) ==
  \/ AssocWord(level).word = "full" /\ BlockOfLevel(level) = 0
  \/ AssocWord(level).word \notin {"full", "number"}

\* Mutant: "full" takes the size of L1 for every level.
WaysOfLevel_FromL1(level) ==
  IF AssocWord(level).word = "full" THEN SizeOfLevel(1) \div BlockOfLevel(level)
  ELSE AssocWord(level).n

WaysOfLevel(level) ==
  IF AssocWord(level).word = "full" THEN SizeOfLevel(level) \div BlockOfLevel(level)
  ELSE AssocWord(level).n

ConfigOf(level) ==
  [sizeBytes     |-> SizeOfLevel(level),
   blockSize     |-> BlockOfLevel(level),
   associativity |-> WaysOfLevel(level),
   replacement   |-> ReplOf(ValueOr(FlagOf(level, "repl"), Word("lru")).word),
   writePolicy   |-> WriteOf(ValueOr(FlagOf(level, "write"), Word("back")).word),
   allocPolicy   |-> AllocOf(ValueOr(FlagOf(level, "alloc"), Word("allocate")).word),
   classify3C    |-> Given("--classify-3c")]

\* Both levels are resolved before the trace is opened.
Resolve ==
  /\ stage = "resolve"
  /\ IF \E level \in {1, 2} : ResolveAborts(level)
     THEN Exit("abort", <<>>)
     ELSE GoTo("open") /\ UNCHANGED <<settings, cfgs, stdout>>
  /\ UNCHANGED <<seen, readable, healthy, readerVars>>

OpenTrace ==
  /\ stage = "open"
  /\ IF readable THEN GoTo("build") /\ UNCHANGED <<settings, cfgs, stdout>>
                 ELSE Exit("1", <<>>)
  /\ UNCHANGED <<seen, readable, healthy, readerVars>>

\* l2 is pushed if its size was given.
Chain == IF Given("--l2-size") THEN <<ConfigOf(1), ConfigOf(2)>> ELSE <<ConfigOf(1)>>

\* A constructor's exception is caught here and only here.
Build ==
  /\ stage = "build"
  /\ IF \A i \in DOMAIN Chain : Constructible(Chain[i])
     THEN GoTo("simulate") /\ cfgs' = Chain /\ UNCHANGED <<settings, stdout>>
     ELSE Exit("2", <<>>)
  /\ UNCHANGED <<seen, readable, healthy, readerVars>>

-----------------------------------------------------------------------------
(* The simulation, the report and the exit code.                           *)

\* --verbose prints a line for every access a record is expanded to.
Echoes(op) ==
  CASE op \in {"Read", "Write"} -> <<"echo">>
    [] op = "Modify" -> <<"echo", "echo">>
    [] op = "Instr"  -> <<>>

Simulate ==
  /\ stage = "simulate"
  /\ ReaderNext
  /\ stdout' = IF answer = "record" /\ Given("--verbose")
               THEN stdout \o Echoes(out.op) ELSE stdout
  /\ UNCHANGED <<stage, code, settings, seen, cfgs, readable, healthy>>

\* Mutant: both reports are printed.
ReportWords_Both == IF Given("--json") THEN <<"json", "report">> ELSE <<"report">>

ReportWords == IF Given("--json") THEN <<"json">> ELSE <<"report">>

Report ==
  /\ stage = "simulate" /\ answer = "eof"
  /\ GoTo("verify")
  /\ stdout' = stdout \o ReportWords
  /\ UNCHANGED <<settings, seen, cfgs, readable, healthy, readerVars>>

Verdict == IF healthy THEN "0" ELSE "1"

Verify ==
  /\ stage = "verify"
  /\ Exit(Verdict, IF healthy /\ ~Given("--json") THEN <<"invariants: OK">> ELSE <<>>)
  /\ UNCHANGED <<seen, readable, healthy, readerVars>>

Init ==
  /\ stage = "options"
  /\ code = "none"
  /\ settings = [f \in {} |-> NoValue]
  /\ seen = 0
  /\ cfgs = <<>>
  /\ stdout = <<>>
  /\ readable \in BOOLEAN
  /\ healthy \in BOOLEAN
  /\ ReaderInit

Next ==
  \/ \E o \in Options :
       AcceptOption(o) \/ AskHelp(o) \/ RefuseOption(o) \/ ThrowOnOption(o)
  \/ EndOfOptions
  \/ CheckRequired
  \/ Resolve
  \/ OpenTrace
  \/ Build
  \/ Simulate
  \/ Report
  \/ Verify

\* One thread that waits for nothing: argv and the trace are finite.  A read
\* error may happen and never has to.
Spec == Init /\ [][Next]_vars /\ WF_vars(Next /\ UNCHANGED bad)

-----------------------------------------------------------------------------
(* Properties.                                                             *)

Printed(word) == \E i \in DOMAIN stdout : stdout[i] = word

\* A report that ends with exit code 0 can be trusted, as scripts/sweep.py
\* does: it is of every line of a trace that could be read, of a hierarchy
\* whose self-check passed, and of the levels the command line asked for (an
\* L2 flag is never dropped).
TrustedReport ==
  code = "0" /\ (Printed("json") \/ Printed("report")) =>
    /\ healthy
    /\ ~bad => \A p \in DOMAIN file : WellFormed(file[p]) => \E i \in DOMAIN from : from[i] = p
    /\ Len(cfgs) = 1 =>
         ~\E f \in {"--l2-size", "--l2-block", "--l2-assoc", "--l2-repl",
                    "--l2-write", "--l2-alloc", "--l2-hit"} : Given(f)

\* What a script reads under --json, however the run ends: of a trace read to
\* its end the object and nothing else, with an exit code that says whether the
\* self-check passed; of any other run no object.  It holds without --verbose.
JsonAlone ==
  stage = "ended" /\ Given("--json") /\ ~Given("--verbose") =>
    IF answer = "eof" THEN stdout = <<"json">> /\ code = (IF healthy THEN "0" ELSE "1")
                      ELSE stdout \in {<<>>, <<"usage">>}

\* What docs/phases/phase-6.md:108 says of --json, whatever else is given:
\* exactly one machine-readable line, nothing else on stdout.  The loop echoes
\* under --verbose all the same.
OnlyTheObject ==
  code = "0" /\ Given("--json") /\ Printed("json") => stdout = <<"json">>

\* "full" is one set that holds the whole level, of each level by its own size
\* and block, wherever on the command line they were given.
FullIsOneSet ==
  stage \in {"simulate", "verify"} =>
    \A i \in DOMAIN cfgs : AssocWord(i).word = "full" => NumSets(cfgs[i]) = 1

\* main aborts before it has printed anything or read a line of the trace: on
\* an option the conversion of a number throws on or, once the required options
\* are checked, on an associativity the user gave, a word or "full" with a block
\* size that was given as zero.  It never divides by the default zero of an
\* option that is missing.
AbortsOnGivenValues ==
  [][code = "none" /\ code' = "abort" =>
       /\ stdout' = <<>> /\ from = <<>>
       /\ \/ stage = "options"
          \/ /\ stage = "resolve"
             /\ \E l \in {1, 2} :
                  /\ Given(FlagOf(l, "assoc"))
                  /\ settings[FlagOf(l, "assoc")].word = "full" => Given(FlagOf(l, "block"))]_vars

\* Every run ends with an exit code: the loops over options and lines end.
EveryRunEnds == <>(stage = "ended")
=============================================================================
