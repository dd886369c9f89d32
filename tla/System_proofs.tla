---------------------------- MODULE System_proofs ----------------------------
(***************************************************************************)
(* The whole program, for every command line and every trace: the steps of *)
(* main over the real caches are the steps of the Simulator, its self-     *)
(* check never fails, and the report it prints adds up.                    *)
(***************************************************************************)
EXTENDS System, Hierarchy_proofs

-----------------------------------------------------------------------------
(* The reader.                                                             *)

RecordType == [op : Ops, addr : Nat, size : Nat]

\* What next() leaves in the caller's record is one, and asks for an address
\* of the trace when it is handed on.
ReaderFacts ==
  /\ file \in Files /\ pos \in Nat
  /\ out \in RecordType
  /\ records \in Seq(RecordType)
  /\ answer = "record" => out.addr \in Addrs

\* A line leaves a record behind, its own address if it is accepted.
LEMMA ScannedRecord ==
  ASSUME NEW line \in Main!Lines, out \in RecordType
  PROVE  /\ Main!Scanned(line) \in RecordType
         /\ Main!Accepts(line) => Main!Scanned(line).addr = line.addr.value
<1>1. Main!SizeOf(line) \in Nat /\ line.addr.value \in Nat
  BY SizesAssumption DEF Main!SizeOf, Main!Lines, Main!Tokens
<1>2. line.op \in Main!OpLetters => Main!OpOf(line.op) \in Ops
  BY DEF Main!OpOf, Main!OpLetters, Ops
<1>3. Main!Accepts(line) =>
        line.op \in Main!OpLetters /\ Main!Parses(line.addr) /\ line.addr.class # "absent"
  BY DEF Main!Accepts, Main!Parses
<1>4. CASE line.op \notin Main!OpLetters \/ line.addr.class = "absent"
  BY <1>3, <1>4 DEF Main!Scanned
<1>5. CASE ~(line.op \notin Main!OpLetters \/ line.addr.class = "absent")
  <2>1. Main!Scanned(line) =
          [op   |-> IF Main!Accepts(line) THEN Main!OpOf(line.op) ELSE out.op,
           addr |-> IF Main!Parses(line.addr) THEN line.addr.value ELSE out.addr,
           size |-> IF Main!Parses(line.addr) /\ Main!SizeParses(line)
                    THEN Main!SizeOf(line) ELSE out.size]
    BY <1>5 DEF Main!Scanned
  <2> QED BY <1>1, <1>2, <1>3, <1>5, <2>1 DEF RecordType
<1> QED BY <1>4, <1>5

\* The line the reader is at.
LEMMA LineAtPos ==
  ASSUME file \in Files, pos \in Nat, pos < Len(file)
  PROVE  /\ file[pos + 1] \in Main!Lines
         /\ Main!Accepts(file[pos + 1]) => file[pos + 1].addr.value \in Addrs
<1> DEFINE L == Main!Lines
<1>1. file \in Seq(L) /\ \A p \in DOMAIN file : Main!Accepts(file[p]) => file[p].addr.value \in Addrs
  BY TracesAssumption
<1> HIDE DEF L
<1>2. Len(file) \in Nat /\ DOMAIN file = 1 .. Len(file) /\ \A p \in 1 .. Len(file) : file[p] \in L
  BY <1>1
<1>3. pos + 1 \in 1 .. Len(file)
  BY <1>2
<1> QED BY <1>1, <1>2, <1>3 DEF L

\* A turn of the reader's loop and of main's keeps the reader's facts.
LEMMA ReaderKeepsFacts ==
  ASSUME ReaderFacts, Main!Simulate
  PROVE  ReaderFacts'
<1>1. CASE Main!SkipLine
  <2>1. /\ pos < Len(file) /\ pos' = pos + 1 /\ out' = Main!Scanned(file[pos + 1])
        /\ file' = file /\ records' = records /\ answer' = "reading"
    BY <1>1 DEF Main!SkipLine, Main!Advance
  <2>2. out' \in RecordType
    BY <2>1, LineAtPos, ScannedRecord DEF ReaderFacts
  <2> QED BY <2>1, <2>2 DEF ReaderFacts
<1>2. CASE Main!ReturnRecord
  <2>1. /\ pos < Len(file) /\ pos' = pos + 1 /\ out' = Main!Scanned(file[pos + 1])
        /\ Main!Accepts(file[pos + 1])
        /\ file' = file /\ records' = records
    BY <1>2 DEF Main!ReturnRecord, Main!Advance
  <2>2. out' \in RecordType /\ out'.addr \in Addrs
    BY <2>1, LineAtPos, ScannedRecord DEF ReaderFacts
  <2> QED BY <2>1, <2>2 DEF ReaderFacts
<1>3. CASE Main!ReturnEof \/ Main!ReadError
  <2>1. pos' = pos /\ out' = out /\ file' = file /\ records' = records /\ answer' = "eof"
    BY <1>3 DEF Main!ReturnEof, Main!ReadError
  <2> QED BY <2>1 DEF ReaderFacts
<1>4. CASE Main!FeedRecord
  <2>1. /\ pos' = pos /\ out' = out /\ file' = file /\ records' = Append(records, out)
        /\ answer' = "reading"
    BY <1>4 DEF Main!FeedRecord
  <2>2. records' \in Seq(RecordType)
    BY <2>1, AppendProperties DEF ReaderFacts
  <2> QED BY <2>1, <2>2 DEF ReaderFacts
<1> QED BY <1>1, <1>2, <1>3, <1>4 DEF Main!Simulate, Main!ReaderNext

\* It is not moved by the other steps.
LEMMA SameReader ==
  ASSUME ReaderFacts, UNCHANGED <<file, pos, out, answer, records>>
  PROVE  ReaderFacts'
BY DEF ReaderFacts

\* How many of the records are one of these.
LEMMA RecordsAreNat ==
  ASSUME records \in Seq(RecordType), NEW ops
  PROVE  /\ IsFiniteSet({i \in DOMAIN records : records[i].op \in ops})
         /\ Records(ops) \in Nat
<1>1. IsFiniteSet(DOMAIN records)
  BY FS_Interval, LenProperties
<1> QED BY <1>1, FS_Subset, FS_CardinalityType DEF Records

\* A record that is appended is one more.
LEMMA RecordsGrow ==
  ASSUME records \in Seq(RecordType), NEW x \in RecordType, records' = Append(records, x), NEW ops
  PROVE  Records(ops)' = Records(ops) + One(x.op \in ops)
<1> DEFINE n == Len(records)
           A == {i \in DOMAIN records : records[i].op \in ops}
           B == {i \in DOMAIN records' : records'[i].op \in ops}
<1>1. /\ n \in Nat /\ DOMAIN records = 1 .. n /\ DOMAIN records' = 1 .. n + 1
      /\ records'[n + 1] = x /\ \A i \in 1 .. n : records'[i] = records[i]
  <2>1. n \in Nat /\ DOMAIN records = 1 .. n
    BY LenProperties
  <2>2. /\ records' \in Seq(RecordType) /\ Len(records') = n + 1
        /\ records'[n + 1] = x /\ \A i \in 1 .. n : records'[i] = records[i]
    BY AppendProperties
  <2> QED BY <2>1, <2>2, LenProperties
<1>2. IsFiniteSet(A) /\ Cardinality(A) \in Nat
  BY RecordsAreNat, FS_CardinalityType
<1>3. Records(ops) = Cardinality(A) /\ Records(ops)' = Cardinality(B)
  BY DEF Records
<1>4. n + 1 \notin A
  BY <1>1
<1>5. CASE x.op \in ops
  <2>1. B = A \cup {n + 1}
    BY <1>1, <1>5
  <2> HIDE DEF A, B, n
  <2>2. Cardinality(B) = Cardinality(A) + 1
    BY <1>2, <1>4, <2>1, FS_AddElement
  <2> QED BY <1>3, <1>5, <2>2 DEF One
<1>6. CASE x.op \notin ops
  <2>1. B = A
    BY <1>1, <1>6
  <2> HIDE DEF A, B
  <2> QED BY <1>2, <1>3, <1>6, <2>1 DEF One
<1> QED BY <1>5, <1>6

-----------------------------------------------------------------------------
(* The calls of the CPU, against the records.                              *)

\* What a record asks of L1.
Loads(op)  == One(op \in {"Read", "Modify"})
Stores(op) == One(op \in {"Write", "Modify"})

\* The calls the CPU has under way: those of the record just fed.
LEMMA CpuCallsOfRecord ==
  ASSUME NEW op \in Ops, NEW addr \in Addrs
  PROVE  /\ CountOf(Expand(op, addr), 1, FALSE) = Loads(op)
         /\ CountOf(Expand(op, addr), 1, TRUE) = Stores(op)
<1> DEFINE x == CpuAccess(Load(addr))
           y == CpuAccess(Store(addr))
           calls == Expand(op, addr)
<1>1. /\ x.level = 1 /\ x.isWrite = FALSE /\ x \in PendingCall
      /\ y.level = 1 /\ y.isWrite = TRUE /\ y \in PendingCall
  BY HierarchyAddrsAssumption DEF CpuAccess, Sent, Load, Store, PendingCall, Payload, Nothing
<1>2. \/ op = "Read" /\ calls = <<x>>
      \/ op = "Write" /\ calls = <<y>>
      \/ op = "Modify" /\ calls = <<x, y>>
      \/ op = "Instr" /\ calls = <<>>
  BY DEF Expand, Ops
<1> HIDE DEF x, y, calls
<1>3. /\ CountOf(<<x>>, 1, FALSE) = 1 /\ CountOf(<<x>>, 1, TRUE) = 0
      /\ CountOf(<<y>>, 1, FALSE) = 0 /\ CountOf(<<y>>, 1, TRUE) = 1
  BY <1>1, CountOfLoad, CountOfStore
<1>4. CASE op = "Read" /\ calls = <<x>>
  BY <1>3, <1>4 DEF Loads, Stores, One, calls
<1>5. CASE op = "Write" /\ calls = <<y>>
  BY <1>3, <1>5 DEF Loads, Stores, One, calls
<1>6. CASE op = "Modify" /\ calls = <<x, y>>
  <2> DEFINE h == <<x>>
             t == <<y>>
  <2>1. /\ h \in Seq(PendingCall) /\ t \in Seq(PendingCall)
        /\ calls = h \o t
    <3>1. h \in Seq(PendingCall) /\ t \in Seq(PendingCall)
      BY <1>1, ShortLists, Zenon
    <3>2. calls = h \o t
      BY <1>6, ConcatOne
    <3> QED BY <3>1, <3>2
  <2>2. /\ CountOf(h, 1, FALSE) = 1 /\ CountOf(h, 1, TRUE) = 0
        /\ CountOf(t, 1, FALSE) = 0 /\ CountOf(t, 1, TRUE) = 1
    BY <1>3
  <2> HIDE DEF h, t
  <2> DEFINE load == FALSE
             store == TRUE
  <2>3. /\ CountOf(h, 1, load) = 1 /\ CountOf(h, 1, store) = 0
        /\ CountOf(t, 1, load) = 0 /\ CountOf(t, 1, store) = 1
    BY <2>2
  <2> HIDE DEF load, store
  <2>4. /\ CountOf(h \o t, 1, load) = CountOf(h, 1, load) + CountOf(t, 1, load)
        /\ CountOf(h \o t, 1, store) = CountOf(h, 1, store) + CountOf(t, 1, store)
    BY <2>1, CountOfBoth
  <2>5. CountOf(calls, 1, load) = 1 /\ CountOf(calls, 1, store) = 1
    BY <2>1, <2>3, <2>4
  <2>6. CountOf(calls, 1, FALSE) = 1 /\ CountOf(calls, 1, TRUE) = 1
    BY <2>5 DEF load, store
  <2> QED BY <1>6, <2>6 DEF Loads, Stores, One, calls
<1>7. CASE op = "Instr" /\ calls = <<>>
  BY <1>7, CountOfNone DEF Loads, Stores, One, calls
<1> QED BY <1>2, <1>4, <1>5, <1>6, <1>7

\* Feeding a record adds its calls to those the CPU has made.
LEMMA FeedAddsCalls ==
  ASSUME ChainInv, NEW op \in Ops, NEW addr \in Addrs, Feed(op, addr)
  PROVE  /\ SentReads(1)' = SentReads(1) + Loads(op)
         /\ SentWrites(1)' = SentWrites(1) + Stores(op)
<1>1. /\ pending = <<>> /\ pending' = Expand(op, addr)
      /\ cfgs' = cfgs /\ levels' = levels /\ mem' = mem
  BY DEF Feed
<1>2. Reads(1)' = Reads(1) /\ Writes(1)' = Writes(1)
  BY <1>1 DEF Reads, Writes, Depth
<1> DEFINE load == FALSE
           store == TRUE
<1>3. /\ InFlight(1, load) = 0 /\ InFlight(1, store) = 0
      /\ InFlight(1, load)' = Loads(op) /\ InFlight(1, store)' = Stores(op)
  <2>1. /\ InFlight(1, FALSE) = CountOf(pending, 1, FALSE)
        /\ InFlight(1, TRUE) = CountOf(pending, 1, TRUE)
        /\ InFlight(1, FALSE)' = CountOf(pending', 1, FALSE)
        /\ InFlight(1, TRUE)' = CountOf(pending', 1, TRUE)
    BY InFlightIsCount
  <2>2. CountOf(pending, 1, FALSE) = 0 /\ CountOf(pending, 1, TRUE) = 0
    BY <1>1, CountOfNone
  <2>3. CountOf(pending', 1, FALSE) = Loads(op) /\ CountOf(pending', 1, TRUE) = Stores(op)
    BY <1>1, CpuCallsOfRecord
  <2> QED BY <2>1, <2>2, <2>3
<1>4. /\ SentReads(1) = Reads(1) + InFlight(1, load)
      /\ SentWrites(1) = Writes(1) + InFlight(1, store)
      /\ SentReads(1)' = Reads(1)' + InFlight(1, load)'
      /\ SentWrites(1)' = Writes(1)' + InFlight(1, store)'
  BY DEF SentReads, SentWrites
<1>5. Reads(1) \in Nat /\ Writes(1) \in Nat /\ Loads(op) \in Nat /\ Stores(op) \in Nat
  BY CpuCallsAreNat DEF Loads, Stores, One
<1> HIDE DEF load, store
<1> QED BY <1>2, <1>3, <1>4, <1>5

\* Serving a call keeps the laws of the chain, and adds none of the CPU.
LEMMA ServeKeepsLaws == ASSUME ChainInv, Serve PROVE ChainInv' /\ SameCpuCalls
BY HitKeepsLaws, WriteAroundKeepsLaws, FillKeepsLaws, MemoryKeepsLaws DEF Serve

\* A step of main alone leaves the chain as it is.
LEMMA ChainStays == ASSUME ChainInv, UNCHANGED vars PROVE ChainInv' /\ SameCpuCalls
<1>1. ChainInv'
  BY ChainStep
<1>2. UNCHANGED <<cfgs, levels, mem, pending>>
  BY DEF vars
<1>3. \A k, isWrite : InFlight(k, isWrite)' = InFlight(k, isWrite)
  BY <1>2, InFlightIsCount
<1>4. Reads(1)' = Reads(1) /\ Writes(1)' = Writes(1)
  BY <1>2 DEF Reads, Writes, Depth
<1>5. SameCpuCalls
  BY <1>3, <1>4 DEF SameCpuCalls, SentReads, SentWrites
<1> QED BY <1>1, <1>5

\* With no call under way, the CPU's calls are those L1 has counted.
LEMMA IdleCounts ==
  ASSUME ChainInv, pending = <<>>, NEW k \in 1 .. Depth + 1
  PROVE  SentReads(k) = Reads(k) /\ SentWrites(k) = Writes(k)
<1> DEFINE load == FALSE
           store == TRUE
<1>1. InFlight(k, load) = 0 /\ InFlight(k, store) = 0
  <2>1. \A isWrite : InFlight(k, isWrite) = CountOf(pending, k, isWrite)
    BY InFlightIsCount
  <2> QED BY <2>1, CountOfNone
<1>2. SentReads(k) = Reads(k) + InFlight(k, load) /\ SentWrites(k) = Writes(k) + InFlight(k, store)
  BY DEF SentReads, SentWrites
<1>3. Reads(k) \in Nat /\ Writes(k) \in Nat
  <2>1. mem.reads \in Nat /\ mem.writes \in Nat
    BY DEF ChainInv, MemoryCounts
  <2>2. Depth \in Nat /\ (k > Depth \/ k \in Levels)
    BY ChainOfCaches DEF ChainInv, Levels
  <2>3. k \in Levels => levels[k].stats["reads"] \in Nat /\ levels[k].stats["writes"] \in Nat
    BY CountersAreNat DEF Counters
  <2> QED BY <2>1, <2>2, <2>3 DEF Reads, Writes
<1> HIDE DEF load, store
<1> QED BY <1>1, <1>2, <1>3

-----------------------------------------------------------------------------
(* The stages of main, and the chain it builds.                            *)

EarlyStages == {"options", "check", "resolve", "open", "build"}

\* The chain is not there before Build, keeps its laws after it, and has calls
\* under way in the loop only.
Stages ==
  /\ healthy = TRUE
  /\ stage \in EarlyStages => mem = [reads |-> 0, writes |-> 0] /\ pending = <<>> /\ records = <<>>
  /\ stage \in {"simulate", "verify"} => ChainInv /\ Len(cfgs) \in {1, 2}
  /\ pending # <<>> => stage = "simulate"
  /\ Reported => stage \in {"verify", "ended"}

\* In the loop every record has been turned into its calls, and those alone.
CpuCounts ==
  stage = "simulate" =>
    /\ SentReads(1) = Records({"Read", "Modify"})
    /\ SentWrites(1) = Records({"Write", "Modify"})

\* The chain main hands to the constructor.
LEMMA MainConfigs ==
  /\ \A c : Main!Constructible(c) <=> Constructible(c)
  /\ DOMAIN Main!Chain \subseteq {1, 2} /\ Len(Main!Chain) \in {1, 2}
  /\ (\A i \in DOMAIN Main!Chain : Constructible(Main!Chain[i])) => Proper(Main!Chain)
<1>1. ASSUME NEW c PROVE Main!Constructible(c) <=> Constructible(c)
  BY DEF Main!Constructible, Constructible, Main!IsPow2, IsPow2, Main!NumSets, NumSets,
         Main!ConfigType, ConfigType, Main!Replacements, Replacements,
         Main!WritePolicies, WritePolicies, Main!AllocPolicies, AllocPolicies
<1> DEFINE a == Main!ConfigOf(1)
           b == Main!ConfigOf(2)
<1>2. Main!Chain \in {<<a, b>>, <<a>>}
  BY DEF Main!Chain
<1> HIDE DEF a, b
<1>3. DOMAIN Main!Chain \subseteq {1, 2} /\ Len(Main!Chain) \in {1, 2}
  BY <1>2
<1>4. ASSUME \A i \in DOMAIN Main!Chain : Constructible(Main!Chain[i])
      PROVE  Proper(Main!Chain)
  <2>1. Constructible(a) /\ (Main!Chain = <<a, b>> => Constructible(b))
    BY <1>2, <1>4
  <2>2. a \in ConfigType /\ (Main!Chain = <<a, b>> => b \in ConfigType)
    BY <2>1 DEF Constructible
  <2>3. Main!Chain \in Seq(ConfigType)
    BY <1>2, <2>2, ShortLists, Zenon
  <2>4. Main!Chain # <<>>
    BY <1>2
  <2> QED BY <1>4, <2>3, <2>4 DEF Proper
<1> QED BY <1>1, <1>3, <1>4

\* What Prepare leaves alone, and where it leads.
LEMMA PrepareKeeps ==
  ASSUME Prepare
  PROVE  /\ UNCHANGED <<chainVars, report, cfgs, file, pos, out, answer, records>>
         /\ stage \in EarlyStages /\ stage' \in EarlyStages \cup {"ended"}
BY DEF Prepare, chainVars, EarlyStages, Main!AcceptOption, Main!AskHelp, Main!RefuseOption,
       Main!ThrowOnOption, Main!EndOfOptions, Main!CheckRequired, Main!Resolve, Main!OpenTrace,
       Main!Reading, Main!Exit, Main!GoTo, Main!readerVars

\* A chain that is just built keeps its laws.
LEMMA NewChainNext == NewChain' => (ChainInv /\ SentReads(1) = 0 /\ SentWrites(1) = 0)'
BY NewChainKeepsLaws, PTL

\* The constructor builds a chain or ends the run.
LEMMA BuildStarts ==
  ASSUME ReaderFacts, Stages, Build
  PROVE  ReaderFacts' /\ Stages' /\ CpuCounts' /\ ~Reported'
<1>1. /\ stage = "build" /\ Main!Build /\ UNCHANGED <<mem, pending, record, fed, healthy, report>>
      /\ levels' = [l \in DOMAIN Built |-> NewCache(Built[l])]
  BY DEF Build
<1>2. UNCHANGED <<file, pos, out, answer, records>>
  BY <1>1 DEF Main!Build, Main!readerVars
<1>3. /\ mem' = [reads |-> 0, writes |-> 0] /\ pending' = <<>> /\ records' = <<>>
      /\ healthy' = TRUE /\ ~Reported'
  BY <1>1, <1>2 DEF Stages, EarlyStages, Reported
<1>4. CASE \A i \in DOMAIN Main!Chain : Main!Constructible(Main!Chain[i])
  <2>1. stage' = "simulate" /\ cfgs' = Main!Chain
    BY <1>1, <1>4 DEF Main!Build, Main!GoTo
  <2>2. Proper(cfgs') /\ Len(cfgs') \in {1, 2} /\ Built = cfgs'
    BY <1>4, <2>1, MainConfigs DEF Built
  <2>3. DOMAIN cfgs' = Levels'
    BY <2>2, LenProperties DEF Proper, Levels, Depth
  <2>4. NewChain'
    BY <1>1, <1>3, <2>2, <2>3 DEF NewChain, Proper
  <2>5. ChainInv' /\ SentReads(1)' = 0 /\ SentWrites(1)' = 0
    BY <2>4, NewChainNext
  <2>6. \A ops : Records(ops)' = 0
    BY <1>3, FS_EmptySet DEF Records
  <2>7. CpuCounts'
    BY <2>5, <2>6 DEF CpuCounts
  <2>8. Stages'
    BY <1>3, <2>1, <2>2, <2>5 DEF Stages, EarlyStages
  <2> QED BY <1>2, <1>3, <2>7, <2>8, SameReader
<1>5. CASE ~\A i \in DOMAIN Main!Chain : Main!Constructible(Main!Chain[i])
  <2>1. stage' = "ended"
    BY <1>1, <1>5 DEF Main!Build, Main!Exit
  <2>2. Stages' /\ CpuCounts'
    BY <1>3, <2>1 DEF Stages, EarlyStages, CpuCounts
  <2> QED BY <1>2, <1>3, <2>2, SameReader
<1> QED BY <1>4, <1>5

-----------------------------------------------------------------------------
(* The report.                                                             *)

\* A product of positive numbers is positive.
LEMMA PositiveProduct ==
  ASSUME NEW a \in Nat, NEW b \in Nat, a > 0, b > 0
  PROVE  a * b \in Nat /\ a * b > 0
OBVIOUS

\* No rate is a division by zero.
LEMMA RatesAreNumbers ==
  ASSUME ChainInv, NEW l \in Levels
  PROVE  /\ MissRate(levels[l].stats)[2] \in Nat /\ MissRate(levels[l].stats)[2] > 0
         /\ GlobalRate(l)[2] \in Nat /\ GlobalRate(l)[2] > 0
<1>1. 1 \in Levels
  BY ChainOfCaches DEF ChainInv, Levels
<1>2. levels[l].stats["accesses"] \in Nat /\ levels[1].stats["accesses"] \in Nat
  BY <1>1, CountersAreNat DEF Counters
<1> QED BY <1>2 DEF MissRate, GlobalRate

\* Neither is the mean access time of a chain of one or two levels.
LEMMA AmatIsNumber ==
  ASSUME ChainInv, Depth \in {1, 2}
  PROVE  Amat[2] > 0
<1> DEFINE rate(l) == MissRate(levels[l].stats)
           F(p, l) == IF l > Depth THEN <<MemTime, 1>>
                      ELSE <<HitTimes[l] * rate(l)[2] * p[l + 1][2] + rate(l)[1] * p[l + 1][1],
                             rate(l)[2] * p[l + 1][2]>>
           P == CHOOSE p : p = [l \in 1 .. Depth + 1 |-> F(p, l)]
<1>0. Depth \in Nat
  OBVIOUS
<1>1. Amat = P[1]
  BY DEF Amat
<1>2. \E p : p = [l \in 1 .. Depth + 1 |-> F(p, l)]
  <2> DEFINE last == [l \in 1 .. 3 |-> <<MemTime, 1>>]
             second == [l \in 1 .. 3 |-> IF l = Depth THEN F(last, l) ELSE <<MemTime, 1>>]
             g == [l \in 1 .. Depth + 1 |-> F(second, l)]
  <2>1. ASSUME NEW l \in 1 .. Depth + 1 PROVE F(second, l) = F(g, l)
    <3>1. CASE l > Depth
      BY <3>1
    <3>2. CASE l = Depth
      <4>1. l + 1 \in 1 .. Depth + 1 /\ l + 1 \in 1 .. 3 /\ l + 1 > Depth /\ l + 1 # Depth
        BY <3>2
      <4>2. second[l + 1] = <<MemTime, 1>> /\ g[l + 1] = <<MemTime, 1>>
        BY <4>1
      <4> HIDE DEF second, g
      <4> QED BY <4>2
    <3>3. CASE l < Depth
      <4>1. l + 1 \in 1 .. Depth + 1 /\ l + 1 \in 1 .. 3 /\ l + 1 = Depth
        BY <3>3
      <4>2. second[l + 1] = F(last, l + 1) /\ g[l + 1] = F(second, l + 1)
        BY <4>1
      <4>3. last[(l + 1) + 1] = second[(l + 1) + 1]
        <5>1. (l + 1) + 1 \in 1 .. 3 /\ (l + 1) + 1 # Depth
          BY <3>3, <4>1
        <5> QED BY <5>1
      <4>4. F(last, l + 1) = F(second, l + 1)
        <5> HIDE DEF last, second, rate
        <5> QED BY <4>3
      <4>5. second[l + 1] = g[l + 1]
        BY <4>2, <4>4
      <4> HIDE DEF second, g, rate
      <4> QED BY <4>5
    <3>4. l > Depth \/ l = Depth \/ l < Depth
      BY <1>0
    <3> HIDE DEF F, second, g, last
    <3> QED BY <3>1, <3>2, <3>3, <3>4
  <2>2. g = [l \in 1 .. Depth + 1 |-> F(g, l)]
    <3> HIDE DEF F
    <3> QED BY <2>1
  <2> QED BY <2>2
<1>3. P = [l \in 1 .. Depth + 1 |-> F(P, l)]
  <2> HIDE DEF F
  <2> QED BY <1>2
<1> HIDE DEF P
<1>4. \A l \in Levels : rate(l)[2] \in Nat /\ rate(l)[2] > 0
  BY RatesAreNumbers
<1> HIDE DEF rate
<1>5. P[Depth + 1][2] = 1
  <2>1. P[Depth + 1] = F(P, Depth + 1)
    BY <1>3
  <2> QED BY <2>1
<1>6. ASSUME NEW l \in Levels, P[l + 1][2] \in Nat, P[l + 1][2] > 0
      PROVE  P[l][2] \in Nat /\ P[l][2] > 0
  <2>1. P[l] = F(P, l) /\ ~(l > Depth)
    <3>1. l \in 1 .. Depth + 1 /\ ~(l > Depth)
      BY <1>0 DEF Levels
    <3> HIDE DEF F
    <3> QED BY <1>3, <3>1
  <2>2. P[l][2] = rate(l)[2] * P[l + 1][2]
    BY <2>1
  <2> QED BY <1>4, <1>6, <2>2, PositiveProduct
<1> HIDE DEF F
<1>7. Depth \in Levels /\ P[Depth][2] \in Nat /\ P[Depth][2] > 0
  BY <1>5, <1>6 DEF Levels
<1>8. P[1][2] > 0
  <2>1. CASE Depth = 1
    BY <1>7, <2>1
  <2>2. CASE Depth = 2
    <3>1. 1 \in Levels /\ 1 + 1 = Depth
      BY <2>2 DEF Levels
    <3> QED BY <1>6, <1>7, <3>1
  <2> QED BY <2>1, <2>2
<1> QED BY <1>1, <1>8

\* The report of a chain with no call under way adds up.
LEMMA IdleReportAddsUp ==
  ASSUME ChainInv, pending = <<>>, Depth \in {1, 2},
         SentReads(1) = Records({"Read", "Modify"}), SentWrites(1) = Records({"Write", "Modify"})
  PROVE  AddsUp(FullReport)
<1> DEFINE r == FullReport
           n(l) == levels[l].stats
<1>1. /\ DOMAIN levels = Levels /\ 1 \in Levels /\ Levels = 1 .. Depth
      /\ \A l \in Levels : l \in Nat /\ l <= Depth
  BY ChainOfCaches DEF ChainInv, Levels
<1>2. /\ r.levels = [l \in Levels |-> LevelReport(l)] /\ r.memory = mem /\ r.amat = Amat
  BY <1>1 DEF FullReport
<1> HIDE DEF r
<1>3. DOMAIN r.levels = Levels /\ Len(r.levels) = Depth
  <2> DEFINE S == {LevelReport(l) : l \in Levels}
             f == r.levels
  <2>1. f \in [1 .. Depth -> S] /\ DOMAIN f = 1 .. Depth
    BY <1>1, <1>2
  <2> HIDE DEF S, f
  <2>2. f \in Seq(S)
    BY <2>1
  <2>3. Len(f) = Depth
    BY <2>1, <2>2
  <2> QED BY <1>1, <2>1, <2>3 DEF f
<1>4. ASSUME NEW l \in Levels
      PROVE  /\ r.levels[l].counters = n(l)
             /\ r.levels[l].missRate = MissRate(n(l)) /\ r.levels[l].globalRate = GlobalRate(l)
  BY <1>2 DEF LevelReport
<1>5. ASSUME NEW l \in Levels
      PROVE  LET below == IF l = Len(r.levels) THEN r.memory
                          ELSE [reads |-> r.levels[l + 1].counters["reads"],
                                writes |-> r.levels[l + 1].counters["writes"]]
             IN  below.reads = SentReads(l + 1) /\ below.writes = SentWrites(l + 1)
  <2>1. SentReads(l + 1) = Reads(l + 1) /\ SentWrites(l + 1) = Writes(l + 1)
    <3>1. l + 1 \in 1 .. Depth + 1
      BY <1>1
    <3> QED BY <3>1, IdleCounts
  <2>2. CASE l = Depth
    BY <1>1, <1>2, <1>3, <2>1, <2>2 DEF Reads, Writes
  <2>3. CASE l # Depth
    <3>1. l + 1 \in Levels /\ ~(l + 1 > Depth)
      BY <1>1, <2>3
    <3>2. r.levels[l + 1].counters = n(l + 1)
      BY <1>4, <3>1
    <3> QED BY <1>3, <2>1, <2>3, <3>1, <3>2 DEF Reads, Writes
  <2> QED BY <2>2, <2>3
<1>6. /\ r.levels[1].counters["reads"] = Records({"Read", "Modify"})
      /\ r.levels[1].counters["writes"] = Records({"Write", "Modify"})
  <2>1. SentReads(1) = Reads(1) /\ SentWrites(1) = Writes(1)
    BY <1>1, IdleCounts
  <2>2. Reads(1) = n(1)["reads"] /\ Writes(1) = n(1)["writes"]
    BY <1>1 DEF Reads, Writes
  <2>3. r.levels[1].counters = n(1)
    BY <1>1, <1>4
  <2> QED BY <2>1, <2>2, <2>3
<1>7. ASSUME NEW l \in Levels
      PROVE  /\ n(l)["reads"] + n(l)["writes"] = n(l)["hits"] + n(l)["misses"]
             /\ IF WritesBack(cfgs[l])
                THEN SentReads(l + 1) + SentWrites(l + 1) = n(l)["misses"] + n(l)["writebacks"]
                ELSE SentWrites(l + 1) = n(l)["writes"]
             /\ WriteAllocates(cfgs[l]) => SentReads(l + 1) = n(l)["misses"]
  <2>1. AskedOf(l) /\ LawOf(l) /\ CheckInvariants(cfgs[l], levels[l])
    BY DEF ChainInv, Healthy
  <2> QED BY <2>1 DEF AskedOf, LawOf, Law, CheckInvariants
<1>8. /\ \A l \in Levels : r.levels[l].missRate[2] > 0 /\ r.levels[l].globalRate[2] > 0
      /\ r.levels[1].missRate = r.levels[1].globalRate
      /\ r.amat[2] > 0
  <2>1. MissRate(n(1)) = GlobalRate(1)
    BY DEF MissRate, GlobalRate
  <2> QED BY <1>1, <1>2, <1>4, <2>1, RatesAreNumbers, AmatIsNumber
<1> HIDE DEF n
<1>9. AddsUp(r)
  BY <1>3, <1>4, <1>5, <1>6, <1>7, <1>8 DEF AddsUp
<1> QED BY <1>9 DEF r

-----------------------------------------------------------------------------
(* The steps.                                                              *)

\* The program's invariant: the reader's record, the stage main is in with the
\* chain that goes with it, the calls of the CPU against the records, and the
\* report.
SysInv == ReaderFacts /\ Stages /\ CpuCounts /\ ReportAddsUp

\* The self-check of a chain that keeps its laws passes, after a step as well.
LEMMA ChainPassesCheck == ChainInv => AllInvariants
<1> SUFFICES ASSUME ChainInv PROVE AllInvariants
  OBVIOUS
<1>1. DOMAIN levels = Levels
  BY DEF ChainInv
<1> QED BY <1>1 DEF AllInvariants, ChainInv, Healthy

LEMMA ChainPassesCheckNext == ChainInv' => AllInvariants'
BY ChainPassesCheck, PTL

\* A report stands as long as what it is of.
LEMMA SameReport == ASSUME ReportAddsUp, UNCHANGED <<report, records, cfgs>> PROVE ReportAddsUp'
BY DEF ReportAddsUp, Reported, AddsUp, Records

\* The command line is read before there is a chain.
LEMMA PrepareKeepsInv == ASSUME SysInv, Prepare PROVE SysInv'
<1>1. /\ UNCHANGED <<report, cfgs, file, pos, out, answer, records, mem, pending, healthy>>
      /\ stage \in EarlyStages /\ stage' \in EarlyStages \cup {"ended"}
  BY PrepareKeeps DEF chainVars
<1>2. stage' \notin {"simulate", "verify"}
  BY <1>1 DEF EarlyStages
<1>3. stage \notin {"verify", "ended"}
  BY <1>1 DEF EarlyStages
<1>4. ReaderFacts' /\ ReportAddsUp'
  BY <1>1, SameReader, SameReport DEF SysInv
<1>5. CpuCounts'
  BY <1>2 DEF CpuCounts
<1>6. Stages'
  <2>1. /\ healthy = TRUE /\ mem = [reads |-> 0, writes |-> 0] /\ pending = <<>>
        /\ records = <<>> /\ ~Reported
    BY <1>1, <1>3 DEF SysInv, Stages
  <2> QED BY <1>1, <1>2, <2>1 DEF Stages, Reported
<1> QED BY <1>4, <1>5, <1>6 DEF SysInv

\* In the loop the reader goes on with the chain at rest.
LEMMA ReadTraceKeepsInv == ASSUME SysInv, ReadTrace PROVE SysInv'
<1>1. /\ Main!Simulate /\ stage = "simulate" /\ stage' = "simulate" /\ answer = "reading"
      /\ UNCHANGED <<levels, mem, pending, record, fed, fresh, healthy, report, cfgs>>
  BY DEF ReadTrace, Main!Simulate, chainVars
<1>2. records' = records
  BY <1>1 DEF Main!Simulate, Main!ReaderNext, Main!SkipLine, Main!ReturnRecord,
              Main!ReturnEof, Main!ReadError, Main!FeedRecord
<1>3. ChainInv /\ Len(cfgs) \in {1, 2} /\ healthy = TRUE /\ ~Reported
  BY <1>1 DEF SysInv, Stages
<1>4. ChainInv' /\ SameCpuCalls
  BY <1>1, <1>3, ChainStays DEF vars
<1>5. ReaderFacts' /\ ReportAddsUp'
  BY <1>1, <1>2, ReaderKeepsFacts, SameReport DEF SysInv
<1>6. Stages'
  BY <1>1, <1>3, <1>4 DEF Stages, Reported, EarlyStages
<1>7. \A ops : Records(ops)' = Records(ops)
  BY <1>2 DEF Records
<1>8. CpuCounts'
  BY <1>1, <1>4, <1>7 DEF SysInv, CpuCounts, SameCpuCalls
<1> QED BY <1>5, <1>6, <1>8 DEF SysInv

\* A record is handed to the chain, which is at rest.
LEMMA FeedRecordKeepsInv == ASSUME SysInv, FeedRecord PROVE SysInv'
<1>1. /\ Main!Simulate /\ stage = "simulate" /\ stage' = "simulate" /\ answer = "record"
      /\ UNCHANGED <<healthy, report>> /\ Feed(out.op, out.addr) /\ cfgs' = cfgs
  BY DEF FeedRecord, Main!Simulate
<1>2. records' = Append(records, out)
  BY <1>1 DEF Main!Simulate, Main!ReaderNext, Main!SkipLine, Main!ReturnRecord,
              Main!ReturnEof, Main!ReadError, Main!FeedRecord
<1>3. ChainInv /\ Len(cfgs) \in {1, 2} /\ healthy = TRUE /\ ~Reported
  BY <1>1 DEF SysInv, Stages
<1>4. out \in RecordType /\ records \in Seq(RecordType) /\ out.op \in Ops /\ out.addr \in Addrs
  BY <1>1 DEF SysInv, ReaderFacts, RecordType
<1>5. /\ ChainInv' /\ SentReads(1)' = SentReads(1) + Loads(out.op)
      /\ SentWrites(1)' = SentWrites(1) + Stores(out.op)
  BY <1>1, <1>3, <1>4, FeedKeepsLaws, FeedAddsCalls
<1>6. ReaderFacts'
  BY <1>1, ReaderKeepsFacts DEF SysInv
<1>7. Stages' /\ ReportAddsUp'
  BY <1>1, <1>3, <1>5 DEF Stages, Reported, EarlyStages, ReportAddsUp
<1>8. \A ops : Records(ops)' = Records(ops) + One(out.op \in ops)
  BY <1>2, <1>4, RecordsGrow
<1>9. CpuCounts'
  <2>1. /\ Records({"Read", "Modify"})' = Records({"Read", "Modify"}) + Loads(out.op)
        /\ Records({"Write", "Modify"})' = Records({"Write", "Modify"}) + Stores(out.op)
    BY <1>8 DEF Loads, Stores
  <2>2. /\ SentReads(1) = Records({"Read", "Modify"})
        /\ SentWrites(1) = Records({"Write", "Modify"})
    BY <1>1 DEF SysInv, CpuCounts
  <2> QED BY <1>5, <2>1, <2>2 DEF CpuCounts
<1> QED BY <1>6, <1>7, <1>9 DEF SysInv

\* The chain serves a call, and its self-check would still pass.
LEMMA ServeCallKeepsInv == ASSUME SysInv, ServeCall PROVE SysInv'
<1>1. /\ Serve /\ healthy' = AllInvariants' /\ report' = report
      /\ UNCHANGED <<stage, cfgs, file, pos, out, answer, records>>
  BY DEF ServeCall, mainVars
<1>2. pending # <<>>
  BY <1>1 DEF Serve, LevelHit, LevelWriteAround, LevelFill, MemoryAccess
<1>3. stage = "simulate" /\ ChainInv /\ Len(cfgs) \in {1, 2} /\ ~Reported
  BY <1>2 DEF SysInv, Stages
<1>4. ChainInv' /\ SameCpuCalls
  BY <1>1, <1>3, ServeKeepsLaws
<1>5. healthy' = TRUE
  <2>1. AllInvariants' \in BOOLEAN
    BY DEF AllInvariants
  <2> QED BY <1>1, <1>4, <2>1, ChainPassesCheckNext
<1>6. ReaderFacts' /\ ReportAddsUp'
  BY <1>1, SameReader, SameReport DEF SysInv
<1>7. Stages'
  BY <1>1, <1>3, <1>4, <1>5 DEF Stages, Reported, EarlyStages
<1>8. \A ops : Records(ops)' = Records(ops)
  BY <1>1 DEF Records
<1>9. CpuCounts'
  BY <1>1, <1>3, <1>4, <1>8 DEF SysInv, CpuCounts, SameCpuCalls
<1> QED BY <1>6, <1>7, <1>9 DEF SysInv

\* The report is of a chain at rest, after the last record.
LEMMA ReportKeepsInv == ASSUME SysInv, Report PROVE SysInv'
<1>1. /\ stage = "simulate" /\ stage' = "verify" /\ pending = <<>> /\ report' = FullReport
      /\ UNCHANGED <<levels, mem, pending, record, fed, fresh, healthy>>
      /\ UNCHANGED <<cfgs, file, pos, out, answer, records>>
  BY DEF Report, chainVars, Main!Report, Main!GoTo, Main!readerVars
<1>2. ChainInv /\ Len(cfgs) \in {1, 2} /\ healthy = TRUE
  BY <1>1 DEF SysInv, Stages
<1>3. ChainInv'
  BY <1>1, <1>2, ChainStays DEF vars
<1>4. Depth \in {1, 2}
  BY <1>2 DEF Depth
<1>5. SentReads(1) = Records({"Read", "Modify"}) /\ SentWrites(1) = Records({"Write", "Modify"})
  BY <1>1 DEF SysInv, CpuCounts
<1>6. AddsUp(FullReport)
  BY <1>1, <1>2, <1>4, <1>5, IdleReportAddsUp
<1>7. AddsUp(report)'
  BY <1>1, <1>6 DEF AddsUp, Records
<1>8. ReaderFacts' /\ Stages' /\ CpuCounts'
  <2>1. ReaderFacts'
    BY <1>1, SameReader DEF SysInv
  <2>2. Stages' /\ CpuCounts'
    BY <1>1, <1>2, <1>3 DEF Stages, CpuCounts, EarlyStages
  <2> QED BY <2>1, <2>2
<1> QED BY <1>7, <1>8 DEF SysInv, ReportAddsUp

\* The run ends.
LEMMA VerifyKeepsInv == ASSUME SysInv, Verify PROVE SysInv'
<1>1. /\ stage = "verify" /\ stage' = "ended"
      /\ UNCHANGED <<pending, healthy, report, cfgs, file, pos, out, answer, records>>
  BY DEF Verify, chainVars, Main!Verify, Main!Exit, Main!readerVars
<1>2. ReaderFacts' /\ ReportAddsUp'
  BY <1>1, SameReader, SameReport DEF SysInv
<1>3. Stages' /\ CpuCounts'
  BY <1>1 DEF SysInv, Stages, CpuCounts, EarlyStages
<1> QED BY <1>2, <1>3 DEF SysInv

\* Nothing moves.
LEMMA StutterKeepsInv == ASSUME SysInv, UNCHANGED systemVars PROVE SysInv'
<1>1. /\ UNCHANGED <<levels, mem, pending, record, fed, fresh, healthy, report>>
      /\ UNCHANGED <<stage, cfgs, file, pos, out, answer, records>>
  BY DEF systemVars, mainVars, chainVars
<1>2. ReaderFacts' /\ ReportAddsUp'
  BY <1>1, SameReader, SameReport DEF SysInv
<1>3. ChainInv => ChainInv' /\ SameCpuCalls
  BY <1>1, ChainStays DEF vars
<1>4. Stages'
  BY <1>1, <1>3 DEF SysInv, Stages, Reported
<1>5. \A ops : Records(ops)' = Records(ops)
  BY <1>1 DEF Records
<1>6. CpuCounts'
  BY <1>1, <1>3, <1>5 DEF SysInv, Stages, CpuCounts, SameCpuCalls
<1> QED BY <1>2, <1>4, <1>6 DEF SysInv

LEMMA SysInvInit == SystemInit => SysInv
<1> SUFFICES ASSUME SystemInit PROVE SysInv
  OBVIOUS
<1>1. /\ mem = [reads |-> 0, writes |-> 0] /\ pending = <<>> /\ report = NoReport /\ healthy = TRUE
      /\ stage = "options" /\ file \in Files /\ pos = 0 /\ answer = "reading"
      /\ out = [op |-> "Read", addr |-> 0, size |-> 0] /\ records = <<>>
  BY DEF SystemInit, Main!Init, Main!ReaderInit
<1>2. ReaderFacts
  BY <1>1 DEF ReaderFacts, RecordType, Ops
<1>3. Stages /\ CpuCounts /\ ReportAddsUp
  BY <1>1 DEF Stages, CpuCounts, ReportAddsUp, Reported
<1> QED BY <1>2, <1>3 DEF SysInv

LEMMA SysInvStep == SysInv /\ [SystemNext]_systemVars => SysInv'
<1> SUFFICES ASSUME SysInv, [SystemNext]_systemVars PROVE SysInv'
  OBVIOUS
<1>1. CASE Build
  BY <1>1, BuildStarts DEF SysInv, ReportAddsUp
<1> QED BY <1>1, PrepareKeepsInv, ReadTraceKeepsInv, FeedRecordKeepsInv, ServeCallKeepsInv,
           ReportKeepsInv, VerifyKeepsInv, StutterKeepsInv DEF SystemNext

LEMMA SysInvAlways == SystemSpec => []SysInv
<1> QED BY SysInvInit, SysInvStep, PTL DEF SystemSpec

-----------------------------------------------------------------------------
(* What the program promises.                                              *)

\* Of any command line and any trace, the report that main prints of the
\* caches adds up: L1 has counted every load and store of the records, each
\* level what the one above it sends down, memory what the last level sends,
\* and no rate is a division by zero.
THEOREM ReportAlwaysAddsUp == SystemSpec => []ReportAddsUp
BY SysInvAlways, PTL DEF SysInv

\* CacheHierarchy::checkInvariants would pass after any step, so the exit code
\* for violated invariants is never returned.
THEOREM ProgramPassesSelfCheck == SystemSpec => [](healthy = TRUE)
<1>1. SysInv => healthy = TRUE
  BY DEF SysInv, Stages
<1> QED BY <1>1, SysInvAlways, PTL

\* A step of the program is one of main, or of the recursion below it, which
\* main does not see.
LEMMA MainTakesStep ==
  SysInv /\ SysInv' /\ [SystemNext]_systemVars => [Main!Next]_(Main!vars)
<1> SUFFICES ASSUME SysInv, SysInv', [SystemNext]_systemVars PROVE [Main!Next]_(Main!vars)
  OBVIOUS
<1>1. CASE ServeCall \/ UNCHANGED systemVars
  <2>1. UNCHANGED mainVars
    BY <1>1 DEF ServeCall, systemVars
  <2>2. healthy' = healthy
    BY DEF SysInv, Stages
  <2> QED BY <2>1, <2>2 DEF mainVars, Main!vars, Main!mainVars, Main!readerVars
<1>2. CASE Prepare
  BY <1>2 DEF Prepare, Main!Next
<1>3. CASE Build
  BY <1>3 DEF Build, Main!Next
<1>4. CASE ReadTrace \/ FeedRecord
  BY <1>4 DEF ReadTrace, FeedRecord, Main!Next
<1>5. CASE Report
  BY <1>5 DEF Report, Main!Next
<1>6. CASE Verify
  BY <1>6 DEF Verify, Main!Next
<1> QED BY <1>1, <1>2, <1>3, <1>4, <1>5, <1>6 DEF SystemNext

\* The program over the real caches implements the Simulator, for every trace
\* and command line: whatever depth the recursion of a record has, main sees a
\* hierarchy that takes the record and whose self-check passes.
THEOREM ProgramIsTheSimulator == SystemSpec => RefinesMain
<1>1. SystemInit => Main!Init
  BY DEF SystemInit
<1> QED BY <1>1, SysInvAlways, MainTakesStep, PTL DEF SystemSpec, RefinesMain
=============================================================================
