---------------------------- MODULE TraceReader ----------------------------
(***************************************************************************)
(* TraceReader of src/trace_reader.cpp: a file of lines turned into        *)
(* records, one per call of next().                                        *)
(*                                                                         *)
(* A line is its op letter, its address token and its size token, without  *)
(* the carriage return and the blanks next() strips (an I in column 0 and  *)
(* an indented one lead to the same op).  A token is a class and a value.  *)
(* std::stoull and std::stoul read the longest prefix that is a number, so *)
(* a "prefix" (12zz, or the e of "emory at") parses like a "number"; they  *)
(* throw on a "word" without leading digit and on a "huge" one.            *)
(***************************************************************************)
EXTENDS Integers, Sequences

CONSTANTS
  Files,        \* the traces: sequences of lines
  SizeValues    \* how many values Access::size has: 2^32

TokenClasses == {"absent", "number", "prefix", "word", "huge"}
Token(class, value) == [class |-> class, value |-> value]
Absent == Token("absent", 0)

\* What a line may hold: an op character, an address and a size.
Tokens == [class : TokenClasses, value : Nat]
Lines  == [op : STRING, addr : Tokens, size : Tokens]

ASSUME FilesAssumption == \A f \in Files : f \in Seq(Lines)
ASSUME SizesAssumption == SizeValues \in Nat \ {0}

\* The letters of the two formats; a blank line has none ("").
OpLetters == {"L", "S", "M", "I", "R", "W"}

OpOf(letter) ==
  CASE letter \in {"L", "R"} -> "Read"
    [] letter \in {"S", "W"} -> "Write"
    [] letter = "M"          -> "Modify"
    [] letter = "I"          -> "Instr"

VARIABLES
  file,     \* the lines of the trace
  pos,      \* lines read from in_ so far
  bad,      \* the badbit of in_: a read of the file has failed
  out,      \* the Access the caller passes to next(), by reference
  answer,   \* what next() is at: "reading", or its result "record" or "eof"
  fed,      \* the records handed on to the hierarchy
  from      \* history: the line each of them was read from

readerVars == <<file, pos, bad, out, answer, fed, from>>

-----------------------------------------------------------------------------
Parses(token) == token.class \in {"number", "prefix"}

\* No size after the address, or none after the comma, means 1.  A size is read
\* as a long and cut to 32 bits.
SizeParses(line) == line.size.class = "absent" \/ Parses(line.size)
SizeOf(line) ==
  IF line.size.class = "absent" THEN 1 ELSE line.size.value % SizeValues

\* Mutant: a number that does not parse is caught and the line kept.
Accepts_CatchFallsThrough(line) ==
  line.op \in OpLetters /\ line.addr.class # "absent"

\* The line makes next() return true.
Accepts(line) ==
  line.op \in OpLetters /\ Parses(line.addr) /\ SizeParses(line)

\* What a line leaves in out: the fields are written one by one, the address
\* first, so a line that fails at its size has already changed the address.
Scanned(line) ==
  IF line.op \notin OpLetters \/ line.addr.class = "absent" THEN out
  ELSE [op   |-> IF Accepts(line) THEN OpOf(line.op) ELSE out.op,
        addr |-> IF Parses(line.addr) THEN line.addr.value ELSE out.addr,
        size |-> IF Parses(line.addr) /\ SizeParses(line) THEN SizeOf(line) ELSE out.size]

ReaderInit ==
  /\ file \in Files
  /\ pos = 0
  /\ bad = FALSE
  /\ out = [op |-> "Read", addr |-> 0, size |-> 0]
  /\ answer = "reading"
  /\ fed = <<>>
  /\ from = <<>>

\* Mutant: the loop tests the line again instead of reading the next.
Advance_SameLine == IF Accepts(file[pos + 1]) THEN pos + 1 ELSE pos

Advance == pos + 1

\* One turn of the getline loop.
SkipLine ==
  /\ answer = "reading" /\ pos < Len(file)
  /\ ~Accepts(file[pos + 1])
  /\ pos' = Advance
  /\ out' = Scanned(file[pos + 1])
  /\ UNCHANGED <<file, bad, answer, fed, from>>

ReturnRecord ==
  /\ answer = "reading" /\ pos < Len(file)
  /\ Accepts(file[pos + 1])
  /\ pos' = Advance
  /\ out' = Scanned(file[pos + 1])
  /\ answer' = "record"
  /\ UNCHANGED <<file, bad, fed, from>>

ReturnEof ==
  /\ answer = "reading" /\ pos = Len(file)
  /\ answer' = "eof"
  /\ UNCHANGED <<file, pos, bad, out, fed, from>>

\* getline also gives up when the file cannot be read further (a directory
\* opens and fails at its first read), and next() returns the same false.
ReadError ==
  /\ answer = "reading" /\ pos < Len(file)
  /\ bad' = TRUE
  /\ answer' = "eof"
  /\ UNCHANGED <<file, pos, out, fed, from>>

\* The body of main's loop: feed the record, call next() again.
FeedRecord ==
  /\ answer = "record"
  /\ fed' = Append(fed, out)
  /\ from' = Append(from, pos)
  /\ answer' = "reading"
  /\ UNCHANGED <<file, pos, bad, out>>

ReaderNext == SkipLine \/ ReturnRecord \/ ReturnEof \/ ReadError \/ FeedRecord

-----------------------------------------------------------------------------
(* Properties.                                                             *)

\* A line in one of the formats include/trace_reader.h describes.
WellFormed(line) ==
  /\ line.op \in OpLetters
  /\ line.addr.class = "number"
  /\ line.size.class \in {"absent", "number"}

\* The hierarchy is fed the trace and nothing else: every record is what one
\* line says, never a mix with a line that failed half way; no line is fed
\* twice or out of order, and no well-formed line that was read is missing.
FedIsTrace ==
  /\ \A i \in DOMAIN fed :
       LET line == file[from[i]]
       IN  fed[i] = [op |-> OpOf(line.op), addr |-> line.addr.value, size |-> SizeOf(line)]
  /\ \A i, j \in DOMAIN from : i < j => from[i] < from[j]
  /\ answer # "record" =>
       \A p \in 1 .. pos : WellFormed(file[p]) => \E i \in DOMAIN from : from[i] = p
=============================================================================
