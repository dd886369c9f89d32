-------------------------- MODULE Simulator_proofs --------------------------
(***************************************************************************)
(* Proofs about main and its reader, for every trace and command line.     *)
(*                                                                         *)
(* The reader's invariant says where the record in out comes from: the     *)
(* caller's record is overwritten by every line, so what is fed is one     *)
(* line's only because the line that made next() return wrote all fields.  *)
(***************************************************************************)
EXTENDS Simulator, SequenceTheorems, TLAPS

Access == [op : {"Read", "Write", "Modify", "Instr"}, addr : Nat, size : Nat]

RecordOf(line) ==
  [op |-> OpOf(line.op), addr |-> line.addr.value, size |-> SizeOf(line)]

\* The state of the reader, and what its parts may be.
ReaderType ==
  /\ file \in Files
  /\ pos \in Nat /\ pos <= Len(file)
  /\ bad \in BOOLEAN
  /\ out \in Access
  /\ answer \in {"reading", "record", "eof"}
  /\ fed \in Seq(Access)
  /\ from \in Seq(Nat)
  /\ Len(fed) = Len(from)

\* The lines fed lie behind the reader, in the order of the file; a record
\* that next() has just returned is the line at pos and not among them yet.
Origins ==
  /\ \A i \in 1 .. Len(from) : from[i] >= 1 /\ from[i] <= pos
  /\ answer = "record" => \A i \in 1 .. Len(from) : from[i] < pos
  /\ \A i, j \in 1 .. Len(from) : i < j => from[i] < from[j]

Records ==
  /\ \A i \in 1 .. Len(fed) : fed[i] = RecordOf(file[from[i]])
  /\ answer = "record" => pos >= 1 /\ Accepts(file[pos]) /\ out = RecordOf(file[pos])

\* Every line read that makes a record has been fed or is the one at hand.
NoneMissed ==
  \A p \in 1 .. pos : Accepts(file[p]) =>
    \/ answer = "record" /\ p = pos
    \/ \E i \in 1 .. Len(from) : from[i] = p

ReaderInv == ReaderType /\ Origins /\ Records /\ NoneMissed

-----------------------------------------------------------------------------
\* A file is a finite sequence of lines: Len and indexing are defined.
LEMMA FileIsSequence ==
  ASSUME NEW f \in Files
  PROVE  /\ Len(f) \in Nat
         /\ \A p \in 1 .. Len(f) : f[p] \in Lines
<1> DEFINE L == Lines
<1>1. f \in Seq(L)
  BY FilesAssumption
<1> HIDE DEF L
<1>2. Len(f) \in Nat /\ \A p \in 1 .. Len(f) : f[p] \in L
  BY <1>1
<1> QED BY <1>2 DEF L

\* What a line leaves behind is an Access, and its own record if it is one:
\* the partial assignments of next() are never all of a record.
LEMMA ScannedLine ==
  ASSUME NEW line \in Lines, out \in Access
  PROVE  /\ Scanned(line) \in Access
         /\ Accepts(line) => Scanned(line) = RecordOf(line)
<1>1. SizeOf(line) \in Nat
  BY SizesAssumption DEF SizeOf, Lines, Tokens
<1>2. line.addr.value \in Nat
  BY DEF Lines, Tokens
<1>3. line.op \in OpLetters => OpOf(line.op) \in {"Read", "Write", "Modify", "Instr"}
  BY DEF OpOf, OpLetters
<1>4. CASE line.op \notin OpLetters \/ line.addr.class = "absent"
  <2>1. Scanned(line) = out
    BY <1>4 DEF Scanned
  <2>2. ~Accepts(line)
    BY <1>4 DEF Accepts, Parses
  <2> QED BY <2>1, <2>2
<1>5. CASE ~(line.op \notin OpLetters \/ line.addr.class = "absent")
  <2>1. Scanned(line) =
          [op   |-> IF Accepts(line) THEN OpOf(line.op) ELSE out.op,
           addr |-> IF Parses(line.addr) THEN line.addr.value ELSE out.addr,
           size |-> IF Parses(line.addr) /\ SizeParses(line) THEN SizeOf(line) ELSE out.size]
    BY <1>5 DEF Scanned
  <2>2. Scanned(line) \in Access
    BY <2>1, <1>1, <1>2, <1>3, <1>5 DEF Access
  <2>3. Accepts(line) => Parses(line.addr) /\ SizeParses(line)
    BY DEF Accepts
  <2>4. Accepts(line) => Scanned(line) = RecordOf(line)
    BY <2>1, <2>3 DEF RecordOf
  <2> QED BY <2>2, <2>4
<1> QED BY <1>4, <1>5

\* One call of next(), or of the body of main's loop, keeps the invariant.
LEMMA ReaderStep ==
  ASSUME ReaderInv, ReaderNext
  PROVE  ReaderInv'
<1> USE DEF ReaderInv
<1>0. Len(file) \in Nat /\ \A p \in 1 .. Len(file) : file[p] \in Lines
  BY FileIsSequence DEF ReaderType
<1>1. CASE SkipLine
  <2>1. /\ pos' = pos + 1 /\ pos + 1 \in 1 .. Len(file)
        /\ answer = "reading" /\ ~Accepts(file[pos + 1])
        /\ out' = Scanned(file[pos + 1])
        /\ UNCHANGED <<file, bad, answer, fed, from>>
    BY <1>0, <1>1 DEF SkipLine, Advance, ReaderType
  <2>2. out' \in Access
    BY <2>1, <1>0, ScannedLine DEF ReaderType
  <2>3. ReaderType'
    BY <2>1, <2>2 DEF ReaderType
  <2>4. Origins' /\ Records'
    BY <2>1, <1>0 DEF Origins, Records, ReaderType
  <2>5. NoneMissed'
    BY <2>1, <1>0 DEF NoneMissed, ReaderType
  <2> QED BY <2>3, <2>4, <2>5
<1>2. CASE ReturnRecord
  <2>1. /\ pos' = pos + 1 /\ pos + 1 \in 1 .. Len(file)
        /\ answer = "reading" /\ answer' = "record" /\ Accepts(file[pos + 1])
        /\ out' = Scanned(file[pos + 1])
        /\ UNCHANGED <<file, bad, fed, from>>
    BY <1>0, <1>2 DEF ReturnRecord, Advance, ReaderType
  <2>2. out' \in Access /\ out' = RecordOf(file[pos + 1])
    BY <2>1, <1>0, ScannedLine DEF ReaderType
  <2>3. ReaderType'
    BY <2>1, <2>2 DEF ReaderType
  <2>4. Origins'
    <3>1. /\ pos \in Nat /\ pos' = pos + 1 /\ from' = from
          /\ \A i \in 1 .. Len(from) : from[i] \in Nat /\ from[i] >= 1 /\ from[i] <= pos
      BY <2>1, <1>0, ElementOfSeq DEF Origins, ReaderType
    <3>2. \A i \in 1 .. Len(from') : from'[i] >= 1 /\ from'[i] <= pos' /\ from'[i] < pos'
      BY <3>1
    <3> QED BY <2>1, <1>0, <3>2 DEF Origins
  <2>5. Records'
    <3>1. \A i \in 1 .. Len(fed') : fed'[i] = RecordOf(file'[from'[i]])
      BY <2>1 DEF Records
    <3>2. pos' >= 1 /\ Accepts(file'[pos']) /\ out' = RecordOf(file'[pos'])
      BY <2>1, <2>2 DEF ReaderType
    <3> QED BY <3>1, <3>2 DEF Records
  <2>6. NoneMissed'
    BY <2>1, <1>0 DEF NoneMissed, ReaderType
  <2> QED BY <2>3, <2>4, <2>5, <2>6
<1>3. CASE ReturnEof
  <2>1. answer = "reading" /\ answer' = "eof" /\ UNCHANGED <<file, pos, bad, out, fed, from>>
    BY <1>3 DEF ReturnEof
  <2> QED BY <2>1 DEF ReaderType, Origins, Records, NoneMissed
<1>4. CASE ReadError
  <2>1. answer = "reading" /\ answer' = "eof" /\ bad' = TRUE
        /\ UNCHANGED <<file, pos, out, fed, from>>
    BY <1>4 DEF ReadError
  <2> QED BY <2>1 DEF ReaderType, Origins, Records, NoneMissed
<1>5. CASE FeedRecord
  <2>1. /\ answer = "record" /\ answer' = "reading"
        /\ fed' = Append(fed, out) /\ from' = Append(from, pos)
        /\ UNCHANGED <<file, pos, bad, out>>
    BY <1>5 DEF FeedRecord
  <2>2. /\ Len(from') = Len(from) + 1 /\ Len(fed') = Len(from) + 1
        /\ from'[Len(from) + 1] = pos /\ fed'[Len(from) + 1] = out
        /\ \A i \in 1 .. Len(from) : from'[i] = from[i] /\ fed'[i] = fed[i]
    BY <2>1 DEF ReaderType
  <2>3. ReaderType'
    BY <2>1, <2>2 DEF ReaderType
  <2>4. Origins'
    BY <2>1, <2>2 DEF Origins, Records, ReaderType
  <2>5. Records'
    <3>1. ASSUME NEW i \in 1 .. Len(fed')
          PROVE  fed'[i] = RecordOf(file[from'[i]])
      <4>1. CASE i = Len(from) + 1
        BY <4>1, <2>1, <2>2 DEF Records
      <4>2. CASE i # Len(from) + 1
        BY <4>2, <2>2 DEF Records, ReaderType
      <4> QED BY <4>1, <4>2
    <3> QED BY <3>1, <2>1 DEF Records
  <2>6. NoneMissed'
    <3> SUFFICES ASSUME NEW p \in 1 .. pos, Accepts(file[p])
                 PROVE  \E i \in 1 .. Len(from') : from'[i] = p
      BY <2>1 DEF NoneMissed
    <3>1. CASE p = pos
      BY <3>1, <2>2 DEF ReaderType
    <3>2. CASE p # pos
      <4>1. PICK i \in 1 .. Len(from) : from[i] = p
        BY <3>2 DEF NoneMissed
      <4> QED BY <4>1, <2>2 DEF ReaderType
    <3> QED BY <3>1, <3>2
  <2> QED BY <2>3, <2>4, <2>5, <2>6
<1> QED BY <1>1, <1>2, <1>3, <1>4, <1>5 DEF ReaderNext

-----------------------------------------------------------------------------
(* The reader under main: only Simulate moves it.                          *)

\* Every step but Simulate leaves the reader alone.
LEMMA OthersLeaveReader ==
  ASSUME Next
  PROVE  UNCHANGED readerVars \/ Simulate
BY DEF Next, AcceptOption, AskHelp, RefuseOption, ThrowOnOption, EndOfOptions,
       CheckRequired, Resolve, OpenTrace, Build, Report, Verify

\* The reader's invariant holds of every run of the program.
LEMMA ReaderInvariant == Spec => []ReaderInv
<1>1. ASSUME Init PROVE ReaderInv
  <2>1. /\ file \in Files /\ pos = 0 /\ bad = FALSE /\ answer = "reading"
        /\ out = [op |-> "Read", addr |-> 0, size |-> 0] /\ fed = <<>> /\ from = <<>>
    BY <1>1 DEF Init, ReaderInit
  <2>2. Len(file) \in Nat
    BY <2>1, FileIsSequence
  <2>3. ReaderType
    <3>1. out \in Access
      BY <2>1 DEF Access
    <3>2. fed \in Seq(Access) /\ from \in Seq(Nat) /\ Len(fed) = Len(from)
      BY <2>1
    <3>3. bad \in BOOLEAN
      BY <2>1
    <3>4. file \in Files /\ pos \in Nat /\ pos <= Len(file) /\ answer \in {"reading", "record", "eof"}
      BY <2>1, <2>2
    <3> QED BY <3>1, <3>2, <3>3, <3>4, Zenon DEF ReaderType
  <2>4. Len(fed) = 0 /\ Len(from) = 0
    BY <2>1
  <2>5. Origins /\ Records /\ NoneMissed
    BY <2>1, <2>4 DEF Origins, Records, NoneMissed
  <2> QED BY <2>3, <2>5 DEF ReaderInv
<1>2. ASSUME ReaderInv, UNCHANGED readerVars PROVE ReaderInv'
  BY <1>2 DEF ReaderInv, readerVars, ReaderType, Origins, Records, NoneMissed
<1>3. ASSUME ReaderInv, [Next]_vars PROVE ReaderInv'
  <2>1. CASE UNCHANGED readerVars
    BY <1>2, <1>3, <2>1
  <2>2. CASE Simulate
    BY <1>3, <2>2, ReaderStep DEF Simulate
  <2> QED BY <1>3, <2>1, <2>2, OthersLeaveReader DEF vars
<1> QED BY <1>1, <1>3, PTL DEF Spec

\* A well-formed line is one that next() turns into a record.
LEMMA WellFormedAccepted ==
  ASSUME NEW line, WellFormed(line)
  PROVE  Accepts(line)
BY DEF WellFormed, Accepts, Parses, SizeParses

\* For every trace, of any length: the hierarchy is fed the records of the
\* lines that parse, each once, whole and in the order of the file.
THEOREM FedIsTraceAlways == Spec => []FedIsTrace
<1>1. ASSUME ReaderInv PROVE FedIsTrace
  <2> USE <1>1 DEF ReaderInv
  <2>1. /\ fed \in Seq(Access) /\ from \in Seq(Nat) /\ Len(fed) = Len(from)
    BY DEF ReaderType
  <2>2. DOMAIN fed = 1 .. Len(fed) /\ DOMAIN from = 1 .. Len(from)
    BY <2>1
  <2>3. \A i \in DOMAIN fed : fed[i] = RecordOf(file[from[i]])
    BY <2>2 DEF Records
  <2>4. \A i, j \in DOMAIN from : i < j => from[i] < from[j]
    BY <2>2 DEF Origins
  <2>5. answer # "record" =>
          \A p \in 1 .. pos : WellFormed(file[p]) => \E i \in DOMAIN from : from[i] = p
    BY <2>2, WellFormedAccepted DEF NoneMissed
  <2> HIDE DEF ReaderInv
  <2> QED BY <2>3, <2>4, <2>5 DEF FedIsTrace, RecordOf
<1> QED BY <1>1, ReaderInvariant, PTL

-----------------------------------------------------------------------------
(* The stages of main.                                                     *)

\* What each stage knows of the flags, the levels, the trace and stdout.
StageInv ==
  /\ stage # "ended" => code = "none"
  /\ stage \in {"options", "check", "resolve", "open", "build"} =>
       stdout = <<>> /\ from = <<>> /\ answer = "reading"
  /\ stage \in {"resolve", "open", "build", "simulate", "verify"} =>
       Required /\ (AnyL2 => Given("--l2-size") /\ Given("--l2-block"))
  /\ stage \in {"simulate", "verify"} => (Len(cfgs) = 1 => ~Given("--l2-size"))
  /\ stage = "verify" => answer = "eof"
  /\ answer = "eof" => bad \/ pos = Len(file)
  /\ code = "0" /\ (Printed("json") \/ Printed("report")) =>
       healthy /\ answer = "eof" /\ (Len(cfgs) = 1 => ~AnyL2)

\* A stage hands on what the next one relies on.
LEMMA StageStep ==
  ASSUME StageInv, [Next]_vars
  PROVE  StageInv'
<1> USE DEF StageInv
<1>1. CASE \E o \in Options : AcceptOption(o)
  BY <1>1 DEF AcceptOption, Exit, GoTo, Reading, readerVars, Required, HasTrace, AnyL2, Given, Printed
<1>2. CASE \E o \in Options : AskHelp(o)
  BY <1>2 DEF AskHelp, Exit, GoTo, Reading, readerVars, Required, HasTrace, AnyL2, Given, Printed
<1>3. CASE \E o \in Options : RefuseOption(o)
  BY <1>3 DEF RefuseOption, Exit, GoTo, Reading, readerVars, Required, HasTrace, AnyL2, Given, Printed
<1>4. CASE \E o \in Options : ThrowOnOption(o)
  BY <1>4 DEF ThrowOnOption, Exit, GoTo, Reading, readerVars, Required, HasTrace, AnyL2, Given, Printed
<1>5. CASE EndOfOptions
  BY <1>5 DEF EndOfOptions, Exit, GoTo, Reading, readerVars, Required, HasTrace, AnyL2, Given, Printed
<1>6. CASE CheckRequired
  BY <1>6 DEF CheckRequired, Exit, GoTo, Reading, readerVars, Required, HasTrace, AnyL2, Given, Printed
<1>7. CASE Resolve
  BY <1>7 DEF Resolve, Exit, GoTo, Reading, readerVars, Required, HasTrace, AnyL2, Given, Printed
<1>8. CASE OpenTrace
  BY <1>8 DEF OpenTrace, Exit, GoTo, Reading, readerVars, Required, HasTrace, AnyL2, Given, Printed
<1>9. CASE Build
  <2>1. /\ stage = "build" /\ stdout = <<>> /\ code = "none"
        /\ UNCHANGED <<settings, answer, from, bad, pos, file, healthy>>
    BY <1>9 DEF Build, Exit, GoTo, readerVars
  <2>2. Required' /\ (AnyL2' => Given("--l2-size")' /\ Given("--l2-block")')
    BY <2>1 DEF Required, HasTrace, AnyL2, Given
  <2>3. CASE code' = "2" /\ stage' = "ended"
    BY <2>1, <2>3
  <2>4. CASE stage' = "simulate" /\ code' = "none" /\ cfgs' = Chain
    <3>1. Len(cfgs') = 1 => ~Given("--l2-size")'
      BY <2>1, <2>4 DEF Chain, Given
    <3> QED BY <2>1, <2>2, <2>4, <3>1
  <2> QED BY <1>9, <2>1, <2>3, <2>4 DEF Build, Exit, GoTo
<1>10. CASE Simulate
  <2>1. /\ stage = "simulate" /\ code = "none"
        /\ UNCHANGED <<stage, code, settings, seen, cfgs, readable, healthy>>
    BY <1>10 DEF Simulate
  <2>2. answer' = "eof" => bad' \/ pos' = Len(file')
    BY <1>10 DEF Simulate, ReaderNext, SkipLine, ReturnRecord, ReturnEof, ReadError, FeedRecord
  <2>3. Required' /\ (AnyL2' => Given("--l2-size")' /\ Given("--l2-block")')
    BY <2>1 DEF Required, HasTrace, AnyL2, Given
  <2>4. Len(cfgs') = 1 => ~Given("--l2-size")'
    BY <2>1 DEF Given
  <2> QED BY <2>1, <2>2, <2>3, <2>4
<1>11. CASE Report
  BY <1>11 DEF Report, Exit, GoTo, Reading, readerVars, Required, HasTrace, AnyL2, Given, Printed
<1>12. CASE Verify
  BY <1>12 DEF Verify, Verdict, Exit, GoTo, Reading, readerVars, Required, HasTrace, AnyL2, Given, Printed
<1>13. CASE UNCHANGED vars
  BY <1>13 DEF vars, mainVars, readerVars, Required, HasTrace, AnyL2, Given, Printed
<1> QED BY <1>1, <1>2, <1>3, <1>4, <1>5, <1>6, <1>7, <1>8, <1>9, <1>10, <1>11, <1>12, <1>13 DEF Next

\* The stages of every run know what they rely on.
LEMMA StageInvariant == Spec => []StageInv
<1>1. Init => StageInv
  BY DEF Init, ReaderInit, StageInv, Printed
<1> QED BY <1>1, StageStep, PTL DEF Spec

\* For every command line and trace: a report with exit code 0 is of every line
\* that could be read, of a chain that passed its self-check, and drops no L2
\* flag.
THEOREM TrustedReportAlways == Spec => []TrustedReport
<1>1. ASSUME ReaderInv, StageInv PROVE TrustedReport
  <2> SUFFICES ASSUME code = "0", Printed("json") \/ Printed("report")
               PROVE  /\ healthy
                      /\ ~bad => \A p \in DOMAIN file :
                           WellFormed(file[p]) => \E i \in DOMAIN from : from[i] = p
                      /\ Len(cfgs) = 1 => ~AnyL2
    BY DEF TrustedReport, AnyL2, L2Flags
  <2>1. healthy /\ answer = "eof" /\ (Len(cfgs) = 1 => ~AnyL2) /\ (bad \/ pos = Len(file))
    BY <1>1 DEF StageInv
  <2>2. DOMAIN file = 1 .. Len(file) /\ DOMAIN from = 1 .. Len(from)
    BY <1>1, FilesAssumption DEF ReaderInv, ReaderType
  <2>3. ASSUME ~bad, NEW p \in DOMAIN file, WellFormed(file[p])
        PROVE  \E i \in DOMAIN from : from[i] = p
    BY <1>1, <2>1, <2>2, <2>3, WellFormedAccepted DEF ReaderInv, NoneMissed
  <2> QED BY <2>1, <2>3
<1> QED BY <1>1, ReaderInvariant, StageInvariant, PTL

\* For every command line: main aborts with nothing printed and nothing read,
\* and past the check of the required options on nothing but an associativity
\* that was given, never on a default zero.
THEOREM AbortsOnGivenValuesAlways == Spec => AbortsOnGivenValues
<1> DEFINE Blamed(l) == /\ Given(FlagOf(l, "assoc"))
                        /\ settings[FlagOf(l, "assoc")].word = "full" =>
                             Given(FlagOf(l, "block"))
           Early == stage = "options" \/ (stage = "resolve" /\ \E l \in {1, 2} : Blamed(l))
<1>1. ASSUME StageInv, [Next]_vars, code = "none", code' = "abort"
      PROVE  (\E o \in Options : ThrowOnOption(o)) \/ (Resolve /\ stage' = "ended")
  BY <1>1 DEF Next, vars, mainVars, AcceptOption, AskHelp, RefuseOption, ThrowOnOption,
              EndOfOptions, CheckRequired, Resolve, OpenTrace, Build, Simulate, Report,
              Verify, Verdict, Exit, GoTo
<1>2. ASSUME StageInv, NEW o \in Options, ThrowOnOption(o)
      PROVE  stdout' = <<>> /\ from = <<>> /\ stage = "options"
  <2>1. stage = "options" /\ stdout' = stdout \o <<>>
    BY <1>2 DEF ThrowOnOption, Reading, Exit
  <2>2. stdout = <<>> /\ from = <<>>
    BY <1>2, <2>1 DEF StageInv
  <2> QED BY <2>1, <2>2
<1>3. ASSUME StageInv, Resolve, stage' = "ended"
      PROVE  stdout' = <<>> /\ from = <<>> /\ stage = "resolve" /\ \E l \in {1, 2} : Blamed(l)
  <2>1. stage = "resolve" /\ \E l \in {1, 2} : ResolveAborts(l)
    BY <1>3 DEF Resolve, GoTo
  <2>2. PICK l \in {1, 2} : ResolveAborts(l)
    BY <2>1
  <2>3. Given(FlagOf(l, "assoc"))
    BY <2>2 DEF ResolveAborts, AssocWord, ValueOr, Num
  <2>4. Given(FlagOf(l, "block"))
    <3>1. Given("--l1-block") /\ (AnyL2 => Given("--l2-block"))
      BY <1>3, <2>1 DEF StageInv, Required
    <3>2. FlagOf(1, "assoc") = "--l1-assoc" /\ FlagOf(2, "assoc") = "--l2-assoc"
          /\ FlagOf(1, "block") = "--l1-block" /\ FlagOf(2, "block") = "--l2-block"
      BY DEF FlagOf
    <3> QED BY <2>3, <3>1, <3>2 DEF AnyL2, L2Flags
  <2>5. stdout = <<>> /\ from = <<>>
    BY <1>3, <2>1 DEF StageInv
  <2>6. stdout' = stdout \o <<>>
    BY <1>3, <2>1 DEF Resolve, Exit
  <2> QED BY <2>1, <2>3, <2>4, <2>5, <2>6
<1>4. ASSUME StageInv, [Next]_vars
      PROVE  [code = "none" /\ code' = "abort" => stdout' = <<>> /\ from = <<>> /\ Early]_vars
  BY <1>1, <1>2, <1>3, <1>4
<1> QED BY <1>4, StageInvariant, PTL DEF Spec, AbortsOnGivenValues

-----------------------------------------------------------------------------
(* What --json prints.                                                     *)

\* What is on stdout before the object, and with it, when nothing is echoed.
OutputInv ==
  /\ stage = "simulate" /\ ~Given("--verbose") => stdout = <<>>
  /\ stage = "verify" /\ Given("--json") /\ ~Given("--verbose") => stdout = <<"json">>
  /\ JsonAlone

\* main returns before the trace is read with the usage on stdout or nothing.
LEMMA EarlyExit ==
  ASSUME stdout = <<>>, answer = "reading", answer' = answer,
         NEW words \in {<<>>, <<"usage">>}, NEW c, Exit(c, words)
  PROVE  OutputInv'
<1>1. stdout' = words
  <2>1. stdout' = stdout \o words
    BY DEF Exit
  <2>2. CASE words = <<>>
    BY <2>1, <2>2
  <2>3. CASE words = <<"usage">>
    BY <2>1, <2>3
  <2> QED BY <2>2, <2>3
<1>2. stage' = "ended" /\ answer' # "eof"
  BY DEF Exit
<1> QED BY <1>1, <1>2 DEF OutputInv, JsonAlone

\* No step of main prints anything else.
LEMMA OutputStep ==
  ASSUME StageInv, OutputInv, [Next]_vars
  PROVE  OutputInv'
<1>1. CASE UNCHANGED vars
  BY <1>1 DEF vars, mainVars, readerVars, OutputInv, JsonAlone, Given
<1>2. CASE /\ stdout = <<>> /\ answer = "reading" /\ answer' = answer
           /\ \E c : \E words \in {<<>>, <<"usage">>} : Exit(c, words)
  BY <1>2, EarlyExit
<1>3. CASE stage' \notin {"simulate", "verify", "ended"}
  BY <1>3 DEF OutputInv, JsonAlone
<1>4. CASE Build
  <2>1. stdout = <<>> /\ answer = "reading" /\ answer' = answer
    BY <1>4 DEF Build, StageInv, readerVars
  <2>2. CASE stage' = "simulate" /\ stdout' = stdout
    BY <2>1, <2>2 DEF OutputInv, JsonAlone
  <2> QED BY <1>2, <1>4, <2>1, <2>2 DEF Build, GoTo
<1>5. CASE Simulate
  BY <1>5 DEF Simulate, OutputInv, JsonAlone, Given
<1>6. CASE Report
  <2>1. stage = "simulate" /\ stage' = "verify" /\ settings' = settings
        /\ stdout' = stdout \o ReportWords
    BY <1>6 DEF Report, GoTo
  <2>2. ASSUME Given("--json"), ~Given("--verbose") PROVE stdout' = <<"json">>
    <3>1. stdout = <<>> /\ ReportWords = <<"json">>
      BY <2>1, <2>2 DEF OutputInv, ReportWords
    <3> QED BY <2>1, <3>1
  <2> QED BY <2>1, <2>2 DEF OutputInv, JsonAlone, Given
<1>7. CASE Verify
  <2>1. /\ stage = "verify" /\ stage' = "ended" /\ answer = "eof" /\ answer' = answer
        /\ settings' = settings /\ healthy' = healthy
        /\ code' = IF healthy THEN "0" ELSE "1"
    BY <1>7 DEF Verify, Verdict, Exit, readerVars, StageInv
  <2>2. ASSUME Given("--json"), ~Given("--verbose") PROVE stdout' = <<"json">>
    <3>1. stdout = <<"json">> /\ stdout' = stdout \o <<>>
      BY <1>7, <2>1, <2>2 DEF OutputInv, Verify, Exit
    <3> QED BY <3>1
  <2> QED BY <2>1, <2>2 DEF OutputInv, JsonAlone, Given
<1> QED
  BY <1>1, <1>2, <1>3, <1>4, <1>5, <1>6, <1>7
  DEF Next, readerVars, StageInv, AcceptOption, AskHelp, RefuseOption,
      ThrowOnOption, EndOfOptions, CheckRequired, Resolve, OpenTrace, Reading, GoTo

\* For every command line and trace: with --json and without --verbose stdout
\* is the object and the exit code the verdict of the self-check, or there is
\* no object because main gave up before the trace was read.
THEOREM JsonAloneAlways == Spec => []JsonAlone
<1>1. Init => OutputInv
  BY DEF Init, OutputInv, JsonAlone
<1>2. OutputInv => JsonAlone
  BY DEF OutputInv
<1> QED BY <1>1, <1>2, OutputStep, StageInvariant, PTL DEF Spec

-----------------------------------------------------------------------------
(* The associativity "full".                                               *)

\* As many ways as there are whole blocks leave one set: the constructor takes
\* no size that is not a multiple of the product.
LEMMA WholeLevelInOneSet ==
  ASSUME NEW cfg, Constructible(cfg), cfg.associativity = cfg.sizeBytes \div cfg.blockSize
  PROVE  NumSets(cfg) = 1
<1> DEFINE size == cfg.sizeBytes  block == cfg.blockSize  ways == cfg.associativity
           product == block * ways
<1>1. size \in Nat /\ size > 0 /\ block \in Nat /\ block > 0 /\ ways \in Nat /\ ways > 0
  BY DEF Constructible, ConfigType
<1>2. product \in Nat /\ product >= block
  BY <1>1
<1>3. product <= size /\ size < product + block
  BY <1>1
<1>4. size % product = 0
  BY DEF Constructible
<1> HIDE DEF size, block, ways, product
<1>5. size % product = size - product * (size \div product) /\ size \div product \in Nat
  BY <1>1, <1>2
<1>6. size \div product = 1
  <2>1. size >= product /\ size < 2 * product /\ product > 0
    BY <1>1, <1>2, <1>3
  <2> QED BY <1>1, <1>2, <2>1
<1> QED BY <1>6 DEF NumSets, size, block, ways, product

\* The levels built are those of the command line, which no longer changes.
LevelsInv ==
  stage \in {"simulate", "verify"} =>
    \A i \in DOMAIN cfgs : i \in {1, 2} /\ cfgs[i] = ConfigOf(i) /\ Constructible(cfgs[i])

LEMMA LevelsStep ==
  ASSUME LevelsInv, [Next]_vars
  PROVE  LevelsInv'
<1>1. CASE UNCHANGED <<settings, cfgs>> /\ stage \in {"simulate", "verify"}
  <2>1. \A i \in {1, 2} : ConfigOf(i)' = ConfigOf(i)
    BY <1>1 DEF ConfigOf, WaysOfLevel, AssocWord, SizeOfLevel, BlockOfLevel, ValueOr, Given
  <2> QED BY <1>1, <2>1 DEF LevelsInv
<1>2. CASE stage' \notin {"simulate", "verify"}
  BY <1>2 DEF LevelsInv
<1>3. CASE Build
  <2>1. CASE cfgs' = Chain /\ UNCHANGED settings /\ \A i \in DOMAIN Chain : Constructible(Chain[i])
    <3>1. \A i \in DOMAIN Chain : i \in {1, 2} /\ Chain[i] = ConfigOf(i)
      BY DEF Chain
    <3>2. \A i \in {1, 2} : ConfigOf(i)' = ConfigOf(i)
      BY <2>1 DEF ConfigOf, WaysOfLevel, AssocWord, SizeOfLevel, BlockOfLevel, ValueOr, Given
    <3> QED BY <2>1, <3>1, <3>2 DEF LevelsInv
  <2> QED BY <1>2, <1>3, <2>1 DEF Build, Exit
<1> QED
  BY <1>1, <1>2, <1>3
  DEF Next, vars, mainVars, AcceptOption, AskHelp, RefuseOption, ThrowOnOption, EndOfOptions,
      CheckRequired, Resolve, OpenTrace, Simulate, Report, Verify, Reading, Exit, GoTo

\* For every command line: "full" makes a level one set that holds all of it.
THEOREM FullIsOneSetAlways == Spec => []FullIsOneSet
<1>1. Init => LevelsInv
  BY DEF Init, LevelsInv
<1>2. ASSUME LevelsInv PROVE FullIsOneSet
  <2> SUFFICES ASSUME stage \in {"simulate", "verify"}, NEW i \in DOMAIN cfgs, AssocWord(i).word = "full"
               PROVE  NumSets(cfgs[i]) = 1
    BY DEF FullIsOneSet
  <2>1. cfgs[i] = ConfigOf(i) /\ Constructible(cfgs[i])
    BY <1>2 DEF LevelsInv
  <2>2. cfgs[i].associativity = cfgs[i].sizeBytes \div cfgs[i].blockSize
    BY <2>1 DEF ConfigOf, WaysOfLevel
  <2> QED BY <2>1, <2>2, WholeLevelInOneSet
<1> QED BY <1>1, <1>2, LevelsStep, PTL DEF Spec
=============================================================================
