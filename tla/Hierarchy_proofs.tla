-------------------------- MODULE Hierarchy_proofs --------------------------
(***************************************************************************)
(* What the levels of a chain send each other, for chains of every depth   *)
(* and every configuration of each level: at every moment of the recursion *)
(* the traffic law holds between every two neighbours, a level is the      *)
(* store of blocks it would be over memory alone, AMAT is a mean, and a    *)
(* load finds the value the program stored last.                           *)
(***************************************************************************)
EXTENDS Hierarchy, CacheLevel_proofs

-----------------------------------------------------------------------------
(* Counting the calls in a list of them.                                   *)

PendingCall == [level : Nat, addr : Nat, isWrite : BOOLEAN, data : Payload]

Those(s, l, isWrite) == {i \in DOMAIN s : s[i].level = l /\ s[i].isWrite = isWrite}

CountOf(s, l, isWrite) == Cardinality(Those(s, l, isWrite))

\* A list has finitely many of them.
LEMMA CountIsNat ==
  ASSUME NEW S, NEW s \in Seq(S), NEW l, NEW isWrite
  PROVE  IsFiniteSet(Those(s, l, isWrite)) /\ CountOf(s, l, isWrite) \in Nat
<1>1. DOMAIN s = 1 .. Len(s) /\ Len(s) \in Nat
  BY LenProperties
<1>2. IsFiniteSet(1 .. Len(s))
  BY <1>1, FS_Interval
<1> QED
  BY <1>1, <1>2, FS_Subset, FS_CardinalityType DEF Those, CountOf

\* The empty list has none.
LEMMA CountOfNone ==
  ASSUME NEW l, NEW isWrite
  PROVE  CountOf(<<>>, l, isWrite) = 0
<1>1. Those(<<>>, l, isWrite) = {}
  BY DEF Those
<1> QED BY <1>1, FS_EmptySet DEF CountOf

\* Lists one after the other have those of both.
LEMMA CountOfBoth ==
  ASSUME NEW S, NEW s \in Seq(S), NEW t \in Seq(S), NEW l, NEW isWrite
  PROVE  CountOf(s \o t, l, isWrite) = CountOf(s, l, isWrite) + CountOf(t, l, isWrite)
<1> DEFINE A == Those(s, l, isWrite)
           B == Those(t, l, isWrite)
           C == {i \in Len(s) + 1 .. Len(s) + Len(t) : i - Len(s) \in B}
           shift == [i \in B |-> i + Len(s)]
<1>1. /\ Len(s) \in Nat /\ DOMAIN s = 1 .. Len(s)
      /\ Len(t) \in Nat /\ DOMAIN t = 1 .. Len(t)
      /\ DOMAIN (s \o t) = 1 .. Len(s) + Len(t)
      /\ \A i \in 1 .. Len(s) + Len(t) :
           (s \o t)[i] = IF i <= Len(s) THEN s[i] ELSE t[i - Len(s)]
  <2>1. s \o t \in Seq(S) /\ Len(s \o t) = Len(s) + Len(t)
    BY ConcatProperties
  <2>2. DOMAIN (s \o t) = 1 .. Len(s) + Len(t)
    BY <2>1, LenProperties
  <2> QED BY <2>2, LenProperties, ConcatProperties
<1>2. A \subseteq 1 .. Len(s) /\ B \subseteq 1 .. Len(t)
  BY <1>1 DEF Those
<1>3. Those(s \o t, l, isWrite) = A \cup C
  <2>1. ASSUME NEW i \in 1 .. Len(s) PROVE i \in Those(s \o t, l, isWrite) <=> i \in A
    <3>1. i \in DOMAIN (s \o t) /\ (s \o t)[i] = s[i]
      BY <1>1
    <3> QED BY <1>1, <3>1 DEF Those
  <2>2. ASSUME NEW i \in Len(s) + 1 .. Len(s) + Len(t)
        PROVE  i \in Those(s \o t, l, isWrite) <=> i \in C
    <3>1. i \in DOMAIN (s \o t) /\ (s \o t)[i] = t[i - Len(s)] /\ i - Len(s) \in DOMAIN t
      BY <1>1
    <3> QED BY <3>1 DEF Those
  <2>3. Those(s \o t, l, isWrite) \subseteq 1 .. Len(s) + Len(t)
    BY <1>1 DEF Those
  <2> HIDE DEF A, C
  <2>4. A \subseteq 1 .. Len(s) /\ C \subseteq Len(s) + 1 .. Len(s) + Len(t)
    BY <1>2 DEF C
  <2>5. \A i \in 1 .. Len(s) + Len(t) : i \in 1 .. Len(s) \/ i \in Len(s) + 1 .. Len(s) + Len(t)
    BY <1>1
  <2>6. \A i \in 1 .. Len(s) : i \notin Len(s) + 1 .. Len(s) + Len(t)
    BY <1>1
  <2> QED BY <2>1, <2>2, <2>3, <2>4, <2>5, <2>6
<1>4. IsFiniteSet(A) /\ IsFiniteSet(B)
  BY CountIsNat
<1>5. shift \in Bijection(B, C)
  <2>1. shift \in [B -> C]
    BY <1>1, <1>2
  <2>2. \A i, j \in B : shift[i] = shift[j] => i = j
    BY <1>1, <1>2
  <2>3. ASSUME NEW k \in C PROVE \E i \in B : shift[i] = k
    <3>1. k - Len(s) \in B /\ shift[k - Len(s)] = k
      BY <1>1
    <3> QED BY <3>1
  <2> HIDE DEF shift, C, B
  <2> QED BY <2>1, <2>2, <2>3 DEF Bijection, Injection, Surjection, IsInjective
<1> HIDE DEF shift
<1>6. IsFiniteSet(C) /\ Cardinality(C) = Cardinality(B)
  BY <1>4, <1>5, FS_Bijection DEF ExistsBijection
<1>7. A \cap C = {}
  BY <1>1, <1>2
<1> HIDE DEF A, B, C
<1>8. Cardinality(A \cup C) = Cardinality(A) + Cardinality(B)
  <2>1. Cardinality(A \cup C) = Cardinality(A) + Cardinality(C) - Cardinality({})
    BY <1>4, <1>6, <1>7, FS_Union
  <2>2. Cardinality({}) = 0
    BY FS_EmptySet
  <2>3. Cardinality(A) \in Nat /\ Cardinality(C) \in Nat
    BY <1>4, <1>6, FS_CardinalityType
  <2> QED BY <1>6, <2>1, <2>2, <2>3
<1> QED BY <1>3, <1>8 DEF CountOf, A, B

\* A list of one call.
LEMMA CountOfOne ==
  ASSUME NEW x, NEW l, NEW isWrite
  PROVE  CountOf(<<x>>, l, isWrite) = One(x.level = l /\ x.isWrite = isWrite)
<1>1. CASE x.level = l /\ x.isWrite = isWrite
  <2>1. Those(<<x>>, l, isWrite) = {1}
    BY <1>1 DEF Those
  <2> QED BY <1>1, <2>1, FS_Singleton DEF CountOf, One
<1>2. CASE ~(x.level = l /\ x.isWrite = isWrite)
  <2>1. Those(<<x>>, l, isWrite) = {}
    BY <1>2 DEF Those
  <2> QED BY <1>2, <2>1, FS_EmptySet DEF CountOf, One
<1> QED BY <1>1, <1>2

\* A list that is not empty has those of its tail, and its head.
LEMMA CountOfTail ==
  ASSUME NEW S, NEW s \in Seq(S), s # <<>>, NEW l, NEW isWrite
  PROVE  CountOf(s, l, isWrite) =
           CountOf(Tail(s), l, isWrite) + One(Head(s).level = l /\ Head(s).isWrite = isWrite)
<1>1. /\ Head(s) \in S /\ Tail(s) \in Seq(S) /\ Len(Tail(s)) = Len(s) - 1 /\ Len(s) \in Nat \ {0}
      /\ \A i \in 1 .. Len(Tail(s)) : Tail(s)[i] = s[i + 1]
  BY HeadTailProperties, EmptySeq
<1>2. Head(s) = s[1]
  OBVIOUS
<1> DEFINE h == <<Head(s)>>
           r == Tail(s)
<1>3. h \in Seq(S) /\ Len(h) = 1 /\ h[1] = Head(s)
  BY <1>1
<1> HIDE DEF h, r
<1>4. /\ h \o r \in Seq(S) /\ Len(h \o r) = 1 + Len(r)
      /\ \A i \in 1 .. 1 + Len(r) : (h \o r)[i] = IF i <= 1 THEN h[i] ELSE r[i - 1]
  BY SMTT(30), <1>1, <1>3, ConcatProperties DEF r
<1>5. s = h \o r
  <2>1. Len(s) = Len(h \o r) /\ Len(r) = Len(s) - 1 /\ Len(s) \in Nat \ {0}
    BY <1>1, <1>4 DEF r
  <2>2. ASSUME NEW i \in 1 .. Len(s) PROVE s[i] = (h \o r)[i]
    <3>1. CASE i = 1
      BY <1>2, <1>3, <1>4, <2>1, <3>1
    <3>2. CASE i # 1
      <4>1. i - 1 \in 1 .. Len(r) /\ i \in 1 .. 1 + Len(r) /\ ~(i <= 1) /\ (i - 1) + 1 = i
        BY <2>1, <3>2
      <4>2. r[i - 1] = s[(i - 1) + 1]
        BY <1>1, <4>1 DEF r
      <4> QED BY <1>4, <4>1, <4>2
    <3> QED BY <3>1, <3>2
  <2> QED BY <1>4, <2>1, <2>2, SeqEqual
<1>6. CountOf(s, l, isWrite) = CountOf(h, l, isWrite) + CountOf(r, l, isWrite)
  <2>1. r \in Seq(S)
    BY <1>1 DEF r
  <2>2. CountOf(h \o r, l, isWrite) = CountOf(h, l, isWrite) + CountOf(r, l, isWrite)
    BY <1>3, <2>1, CountOfBoth
  <2> QED BY <1>5, <2>2
<1>7. CountOf(h, l, isWrite) = One(Head(s).level = l /\ Head(s).isWrite = isWrite)
  BY CountOfOne DEF h
<1>8. CountOf(h, l, isWrite) \in Nat /\ CountOf(r, l, isWrite) \in Nat
  BY <1>1, <1>3, CountIsNat DEF r
<1> QED BY <1>6, <1>7, <1>8 DEF r

-----------------------------------------------------------------------------
(* The calls one access makes below.                                       *)

Made(k, calls, data) == [i \in DOMAIN calls |-> Sent(k, calls[i], data)]

\* The lists of calls an access can make, with their loads and stores.
Shape(calls, loads, stores) ==
  \/ calls = <<>> /\ loads = 0 /\ stores = 0
  \/ \E a \in Nat : calls = <<Store(a)>> /\ loads = 0 /\ stores = 1
  \/ \E a \in Nat : calls = <<Load(a)>> /\ loads = 1 /\ stores = 0
  \/ \E a, b \in Nat : calls = <<Load(a), Store(b)>> /\ loads = 1 /\ stores = 1

\* A call below carries its address and kind on.
LEMMA SentFields ==
  ASSUME NEW k \in Nat, NEW a \in Nat, NEW data \in Payload
  PROVE  /\ Sent(k, Load(a), data) \in PendingCall /\ Sent(k, Store(a), data) \in PendingCall
         /\ Sent(k, Load(a), data).level = k /\ Sent(k, Load(a), data).isWrite = FALSE
         /\ Sent(k, Store(a), data).level = k /\ Sent(k, Store(a), data).isWrite = TRUE
BY DEF Sent, Load, Store, PendingCall, Payload, Nothing

\* A list of one load.
LEMMA CountOfLoad ==
  ASSUME NEW x, NEW l, x.isWrite = FALSE
  PROVE  /\ CountOf(<<x>>, l, FALSE) = IF x.level = l THEN 1 ELSE 0
         /\ CountOf(<<x>>, l, TRUE) = 0
<1>1. Those(<<x>>, l, TRUE) = {}
  BY DEF Those
<1>2. Those(<<x>>, l, FALSE) = IF x.level = l THEN {1} ELSE {}
  BY DEF Those
<1> QED BY <1>1, <1>2, FS_EmptySet, FS_Singleton DEF CountOf

\* The same of a store.
LEMMA CountOfStore ==
  ASSUME NEW x, NEW l, x.isWrite = TRUE
  PROVE  /\ CountOf(<<x>>, l, FALSE) = 0
         /\ CountOf(<<x>>, l, TRUE) = IF x.level = l THEN 1 ELSE 0
<1>1. Those(<<x>>, l, FALSE) = {}
  BY DEF Those
<1>2. Those(<<x>>, l, TRUE) = IF x.level = l THEN {1} ELSE {}
  BY DEF Those
<1> QED BY <1>1, <1>2, FS_EmptySet, FS_Singleton DEF CountOf

\* They all go to one level, as loads and stores.
LEMMA MadeCounts ==
  ASSUME NEW k \in Nat, NEW data \in Payload, NEW calls, NEW loads, NEW stores,
         Shape(calls, loads, stores)
  PROVE  /\ Made(k, calls, data) \in Seq(PendingCall)
         /\ \A l : /\ CountOf(Made(k, calls, data), l, FALSE) = IF l = k THEN loads ELSE 0
                   /\ CountOf(Made(k, calls, data), l, TRUE) = IF l = k THEN stores ELSE 0
<1> DEFINE Load_(a) == Sent(k, Load(a), data)
           Store_(a) == Sent(k, Store(a), data)
           made == Made(k, calls, data)
<1>1. CASE calls = <<>> /\ loads = 0 /\ stores = 0
  <2>1. made = <<>>
    BY <1>1 DEF Made
  <2> QED BY <1>1, <2>1, CountOfNone, EmptySeq
<1>2. ASSUME NEW a \in Nat
      PROVE  /\ <<Load_(a)>> \in Seq(PendingCall) /\ <<Store_(a)>> \in Seq(PendingCall)
             /\ \A l : /\ CountOf(<<Load_(a)>>, l, FALSE) = IF k = l THEN 1 ELSE 0
                       /\ CountOf(<<Load_(a)>>, l, TRUE) = 0
                       /\ CountOf(<<Store_(a)>>, l, FALSE) = 0
                       /\ CountOf(<<Store_(a)>>, l, TRUE) = IF k = l THEN 1 ELSE 0
  <2>1. /\ Load_(a) \in PendingCall /\ Load_(a).level = k /\ Load_(a).isWrite = FALSE
        /\ Store_(a) \in PendingCall /\ Store_(a).level = k /\ Store_(a).isWrite = TRUE
    BY DEF Sent, Load, Store, PendingCall, Payload, Nothing
  <2> DEFINE x == Load_(a)
             y == Store_(a)
  <2> HIDE DEF Load_, Store_, x, y
  <2>2. /\ x \in PendingCall /\ x.level = k /\ x.isWrite = FALSE
        /\ y \in PendingCall /\ y.level = k /\ y.isWrite = TRUE
    BY <2>1 DEF x, y
  <2>3. <<x>> \in Seq(PendingCall) /\ <<y>> \in Seq(PendingCall)
    BY <2>2
  <2>4. \A l : /\ CountOf(<<x>>, l, FALSE) = IF k = l THEN 1 ELSE 0
               /\ CountOf(<<x>>, l, TRUE) = 0
    BY Zenon, <2>2, CountOfLoad
  <2>5. \A l : /\ CountOf(<<y>>, l, FALSE) = 0
               /\ CountOf(<<y>>, l, TRUE) = IF k = l THEN 1 ELSE 0
    BY Zenon, <2>2, CountOfStore
  <2> QED BY <2>3, <2>4, <2>5 DEF x, y
<1>3. ASSUME NEW a \in Nat, calls = <<Store(a)>>
      PROVE  made = <<Store_(a)>>
  BY <1>3 DEF Made
<1>4. ASSUME NEW a \in Nat, calls = <<Load(a)>>
      PROVE  made = <<Load_(a)>>
  BY <1>4 DEF Made
<1>5. ASSUME NEW a \in Nat, NEW b \in Nat, calls = <<Load(a), Store(b)>>
      PROVE  made = <<Load_(a)>> \o <<Store_(b)>>
  <2>1. made = <<Load_(a), Store_(b)>>
    BY <1>5 DEF Made
  <2> QED BY <2>1, ConcatOne
<1> HIDE DEF Load_, Store_, made
<1>6. ASSUME NEW a \in Nat, NEW b \in Nat, calls = <<Load(a), Store(b)>>
      PROVE  /\ made \in Seq(PendingCall)
             /\ \A l : /\ CountOf(made, l, FALSE) = IF l = k THEN 1 ELSE 0
                       /\ CountOf(made, l, TRUE) = IF l = k THEN 1 ELSE 0
  <2> DEFINE h == <<Load_(a)>>
             t == <<Store_(b)>>
  <2>1. made = h \o t
    BY <1>5, <1>6
  <2>2. /\ h \in Seq(PendingCall) /\ t \in Seq(PendingCall)
        /\ \A l : /\ CountOf(h, l, FALSE) = IF k = l THEN 1 ELSE 0
                  /\ CountOf(h, l, TRUE) = 0
                  /\ CountOf(t, l, FALSE) = 0
                  /\ CountOf(t, l, TRUE) = IF k = l THEN 1 ELSE 0
    BY <1>2
  <2> HIDE DEF h, t
  <2>3. h \o t \in Seq(PendingCall)
    BY <2>2, ConcatProperties
  <2> DEFINE load == FALSE
             store == TRUE
  <2>4. ASSUME NEW l
        PROVE  /\ CountOf(h, l, load) = IF k = l THEN 1 ELSE 0
               /\ CountOf(h, l, store) = 0
               /\ CountOf(t, l, load) = 0
               /\ CountOf(t, l, store) = IF k = l THEN 1 ELSE 0
    BY <2>2
  <2> HIDE DEF load, store
  <2>5. ASSUME NEW l
        PROVE  /\ CountOf(h \o t, l, load) = IF l = k THEN 1 ELSE 0
               /\ CountOf(h \o t, l, store) = IF l = k THEN 1 ELSE 0
    <3>1. /\ CountOf(h \o t, l, load) = CountOf(h, l, load) + CountOf(t, l, load)
          /\ CountOf(h \o t, l, store) = CountOf(h, l, store) + CountOf(t, l, store)
      BY <2>2, CountOfBoth
    <3> QED BY <2>4, <3>1
  <2> QED BY <2>1, <2>3, <2>5 DEF load, store
<1>7. /\ made \in Seq(PendingCall)
      /\ \A l : /\ CountOf(made, l, FALSE) = IF l = k THEN loads ELSE 0
                /\ CountOf(made, l, TRUE) = IF l = k THEN stores ELSE 0
  <2>1. CASE calls = <<>> /\ loads = 0 /\ stores = 0
    BY <1>1, <2>1 DEF made
  <2>2. ASSUME NEW a \in Nat, calls = <<Store(a)>>, loads = 0, stores = 1
        PROVE  /\ made \in Seq(PendingCall)
               /\ \A l : /\ CountOf(made, l, FALSE) = IF l = k THEN loads ELSE 0
                         /\ CountOf(made, l, TRUE) = IF l = k THEN stores ELSE 0
    <3>1. made = <<Store_(a)>>
      BY <1>3, <2>2
    <3> QED BY <1>2, <2>2, <3>1
  <2>3. ASSUME NEW a \in Nat, calls = <<Load(a)>>, loads = 1, stores = 0
        PROVE  /\ made \in Seq(PendingCall)
               /\ \A l : /\ CountOf(made, l, FALSE) = IF l = k THEN loads ELSE 0
                         /\ CountOf(made, l, TRUE) = IF l = k THEN stores ELSE 0
    <3>1. made = <<Load_(a)>>
      BY <1>4, <2>3
    <3> QED BY <1>2, <2>3, <3>1
  <2>4. CASE \E a, b \in Nat : calls = <<Load(a), Store(b)>> /\ loads = 1 /\ stores = 1
    BY <1>6, <2>4
  <2> QED BY <2>1, <2>2, <2>3, <2>4 DEF Shape
<1> QED BY <1>7 DEF made

-----------------------------------------------------------------------------
(* The inductive invariant.                                                *)

MemoryCounts == mem \in [reads : Nat, writes : Nat]

LawOf(l) ==
  /\ Law(cfgs[l], levels[l].stats, SentReads(l + 1), SentWrites(l + 1))
  /\ Fetches(levels[l].stats, SentReads(l + 1))

\* The writes sent and still owed below a level, against the stores it was given.
OwesOf(l) == SentWrites(l + 1) + DirtyLines(l) <= Writes(l)

\* Whatever a level is asked is a load or a store.
AskedOf(l) == levels[l].stats["accesses"] = levels[l].stats["reads"] + levels[l].stats["writes"]

\* A chain the constructor of the hierarchy can build.
Proper(chain) ==
  /\ chain \in Seq(ConfigType) /\ chain # <<>>
  /\ \A l \in DOMAIN chain : Constructible(chain[l])

ChainInv ==
  /\ Proper(cfgs)
  /\ levels = [l \in Levels |-> levels[l]]
  /\ \A l \in Levels : Healthy(cfgs[l], Nat, levels[l])
  /\ MemoryCounts
  /\ pending \in Seq(PendingCall)
  /\ \A l \in Levels : LawOf(l) /\ OwesOf(l) /\ AskedOf(l)

\* What a step inside the chain leaves alone: the calls the CPU has made.
SameCpuCalls == SentReads(1)' = SentReads(1) /\ SentWrites(1)' = SentWrites(1)

\* A chain has at least one level, each of which the constructor accepts.
LEMMA ChainOfCaches ==
  ASSUME Proper(cfgs)
  PROVE  /\ Depth \in Nat \ {0} /\ Levels = DOMAIN cfgs
         /\ \A l \in Levels : l \in Nat /\ Constructible(cfgs[l])
<1>1. cfgs \in Seq(ConfigType) /\ cfgs # <<>> /\ \A l \in DOMAIN cfgs : Constructible(cfgs[l])
  BY DEF Proper
<1>2. Depth \in Nat /\ DOMAIN cfgs = 1 .. Depth
  BY <1>1, LenProperties DEF Depth
<1>3. Depth # 0
  BY <1>1, EmptySeq DEF Depth
<1> QED BY <1>1, <1>2, <1>3 DEF Levels

\* The calls under way, as a count over the stack.
LEMMA InFlightIsCount ==
  ASSUME NEW l, NEW isWrite
  PROVE  /\ InFlight(l, isWrite) = CountOf(pending, l, isWrite)
         /\ InFlight(l, isWrite)' = CountOf(pending', l, isWrite)
BY DEF InFlight, CountOf, Those

\* DirtyLines of Hierarchy counts the dirty frames of a level.
LEMMA DirtyLinesIsCount ==
  ASSUME NEW l
  PROVE  DirtyLines(l) = Cardinality(DirtyIn(cfgs[l], levels[l]))
BY DEF DirtyLines, DirtyIn

\* The counters the laws are about are numbers.
LEMMA CountersAreNat ==
  ASSUME ChainInv, NEW l \in Levels
  PROVE  /\ levels[l].stats \in [Counters -> Nat]
         /\ \A k \in Counters : levels[l].stats[k] \in Nat
         /\ SentReads(l + 1) \in Nat /\ SentWrites(l + 1) \in Nat
         /\ Reads(l + 1) \in Nat /\ Writes(l + 1) \in Nat
         /\ Writes(l) = levels[l].stats["writes"] /\ Writes(l) \in Nat
         /\ DirtyLines(l) \in Nat
<1>1. \A k \in Levels : levels[k].stats \in [Counters -> Nat]
  BY DEF ChainInv, Healthy, CacheType
<1>2. \A k \in Levels : levels[k].stats["reads"] \in Nat /\ levels[k].stats["writes"] \in Nat
  BY <1>1 DEF Counters
<1>3. mem.reads \in Nat /\ mem.writes \in Nat
  BY DEF ChainInv, MemoryCounts
<1>4. Depth \in Nat /\ l \in Nat /\ (l + 1 > Depth \/ l + 1 \in Levels)
  BY ChainOfCaches DEF ChainInv, Levels
<1>5. Reads(l + 1) \in Nat /\ Writes(l + 1) \in Nat
  BY <1>2, <1>3, <1>4 DEF Reads, Writes
<1>6. CountOf(pending, l + 1, FALSE) \in Nat /\ CountOf(pending, l + 1, TRUE) \in Nat
  BY CountIsNat DEF ChainInv
<1>7. InFlight(l + 1, FALSE) \in Nat /\ InFlight(l + 1, TRUE) \in Nat
  BY <1>6, InFlightIsCount
<1> DEFINE load == FALSE
           store == TRUE
<1>8. /\ SentReads(l + 1) = Reads(l + 1) + InFlight(l + 1, load)
      /\ SentWrites(l + 1) = Writes(l + 1) + InFlight(l + 1, store)
      /\ InFlight(l + 1, load) \in Nat /\ InFlight(l + 1, store) \in Nat
  BY <1>7 DEF SentReads, SentWrites
<1> HIDE DEF load, store
<1>9. SentReads(l + 1) \in Nat /\ SentWrites(l + 1) \in Nat
  BY <1>5, <1>8
<1>10. Writes(l) = levels[l].stats["writes"] /\ Writes(l) \in Nat
  BY <1>2, <1>4 DEF Writes, Levels
<1>11. DirtyLines(l) \in Nat
  BY ChainOfCaches, DirtyLinesIsCount, DirtyInFinite DEF ChainInv
<1> QED BY <1>1, <1>5, <1>9, <1>10, <1>11

\* So are the calls of the CPU.
LEMMA CpuCallsAreNat ==
  ASSUME ChainInv
  PROVE  /\ SentReads(1) \in Nat /\ SentWrites(1) \in Nat
         /\ Reads(1) \in Nat /\ Writes(1) \in Nat
         /\ Reads(0 + 1) \in Nat /\ Writes(0 + 1) \in Nat
<1>1. 1 \in Levels /\ ~(1 > Depth)
  BY ChainOfCaches DEF ChainInv, Levels
<1>2. levels[1].stats["reads"] \in Nat /\ levels[1].stats["writes"] \in Nat
  BY <1>1, CountersAreNat DEF Counters
<1>3. Reads(1) \in Nat /\ Writes(1) \in Nat
  BY <1>1, <1>2 DEF Reads, Writes
<1>4. CountOf(pending, 1, FALSE) \in Nat /\ CountOf(pending, 1, TRUE) \in Nat
  BY CountIsNat DEF ChainInv
<1>5. InFlight(1, FALSE) \in Nat /\ InFlight(1, TRUE) \in Nat
  BY <1>4, InFlightIsCount
<1> DEFINE load == FALSE
           store == TRUE
<1>6. /\ SentReads(1) = Reads(1) + InFlight(1, load)
      /\ SentWrites(1) = Writes(1) + InFlight(1, store)
      /\ InFlight(1, load) \in Nat /\ InFlight(1, store) \in Nat
  BY <1>5 DEF SentReads, SentWrites
<1> HIDE DEF load, store
<1> QED BY <1>3, <1>6

\* The chain as it is built, before the first record.
NewChain ==
  /\ Proper(cfgs)
  /\ levels = [l \in Levels |-> NewCache(cfgs[l])]
  /\ mem = [reads |-> 0, writes |-> 0]
  /\ pending = <<>>

\* A new chain has sent nothing, and nothing was asked of it.
LEMMA NewChainKeepsLaws == NewChain => ChainInv /\ SentReads(1) = 0 /\ SentWrites(1) = 0
<1> SUFFICES ASSUME NewChain PROVE ChainInv /\ SentReads(1) = 0 /\ SentWrites(1) = 0
  OBVIOUS
<1>1. /\ Proper(cfgs) /\ levels = [l \in Levels |-> NewCache(cfgs[l])]
      /\ mem = [reads |-> 0, writes |-> 0] /\ pending = <<>>
  BY DEF NewChain
<1>2. levels = [l \in Levels |-> levels[l]] /\ \A l \in Levels : levels[l] = NewCache(cfgs[l])
  BY <1>1
<1>3. \A l \in Levels : Healthy(cfgs[l], Nat, levels[l])
  BY <1>2, NewCacheHealthy
<1>4. ASSUME NEW l \in Levels PROVE LawOf(l) /\ OwesOf(l)
  <2>1. Depth \in Nat /\ l \in Nat /\ (l + 1 > Depth \/ l + 1 \in Levels)
    BY <1>1, ChainOfCaches DEF Levels
  <2>2. \A k \in Levels : levels[k].stats["reads"] = 0 /\ levels[k].stats["writes"] = 0
    BY <1>2 DEF NewCache, Counters
  <2>3. Reads(l + 1) = 0 /\ Writes(l + 1) = 0
    BY <1>1, <2>1, <2>2 DEF Reads, Writes
  <2>4. InFlight(l + 1, FALSE) = 0 /\ InFlight(l + 1, TRUE) = 0
    BY ZenonT(40), <1>1, CountOfNone, InFlightIsCount
  <2> DEFINE load == FALSE
             store == TRUE
  <2>5. /\ SentReads(l + 1) = Reads(l + 1) + InFlight(l + 1, load)
        /\ SentWrites(l + 1) = Writes(l + 1) + InFlight(l + 1, store)
        /\ InFlight(l + 1, load) = 0 /\ InFlight(l + 1, store) = 0
    BY <2>4 DEF SentReads, SentWrites
  <2> HIDE DEF load, store
  <2>6. SentReads(l + 1) = 0 /\ SentWrites(l + 1) = 0
    BY <2>3, <2>5
  <2>7. DirtyLines(l) = 0
    BY <1>2, DirtyLinesIsCount, NewCacheOwesNothing
  <2>8. Writes(l) = 0
    BY <2>1, <2>2 DEF Writes, Levels
  <2>9. Fetches(levels[l].stats, 0)
    BY <1>2 DEF Fetches, NewCache, Counters
  <2>10. LawOf(l)
    BY <1>2, <2>6, <2>9, LawOfNewCache DEF LawOf
  <2> QED BY <2>6, <2>7, <2>8, <2>10 DEF OwesOf
<1>5. \A l \in Levels : AskedOf(l)
  BY <1>2 DEF AskedOf, NewCache, Counters
<1>6. SentReads(1) = 0 /\ SentWrites(1) = 0
  <2>1. 1 \in Levels /\ ~(1 > Depth)
    BY <1>1, ChainOfCaches DEF Levels
  <2>2. Reads(1) = 0 /\ Writes(1) = 0
    BY <1>2, <2>1 DEF Reads, Writes, NewCache, Counters
  <2>3. InFlight(1, FALSE) = 0 /\ InFlight(1, TRUE) = 0
    BY ZenonT(40), <1>1, CountOfNone, InFlightIsCount
  <2> DEFINE load == FALSE
             store == TRUE
  <2>4. /\ SentReads(1) = Reads(1) + InFlight(1, load)
        /\ SentWrites(1) = Writes(1) + InFlight(1, store)
        /\ InFlight(1, load) = 0 /\ InFlight(1, store) = 0
    BY <2>3 DEF SentReads, SentWrites
  <2> HIDE DEF load, store
  <2> QED BY <2>2, <2>4
<1>7. ChainInv
  BY <1>1, <1>2, <1>3, <1>4, <1>5, EmptySeq DEF ChainInv, MemoryCounts
<1> QED BY <1>6, <1>7

\* A new chain is the one a run starts with.
LEMMA ChainInit == Init => ChainInv
<1>1. Init => NewChain
  BY ChainsAssumption DEF Init, NewChain, Proper
<1> QED BY <1>1, NewChainKeepsLaws


-----------------------------------------------------------------------------
(* A level serves the front call.                                          *)

\* The front call is well formed.
LEMMA FrontCall ==
  ASSUME pending \in Seq(PendingCall), pending # <<>>
  PROVE  /\ Front \in PendingCall /\ Tail(pending) \in Seq(PendingCall)
         /\ Front.level \in Nat /\ Front.addr \in Nat
         /\ Front.isWrite \in BOOLEAN /\ Front.data \in Payload
<1>1. Front \in PendingCall /\ Tail(pending) \in Seq(PendingCall)
  BY HeadTailProperties DEF Front
<1> QED BY <1>1 DEF PendingCall

\* The front call is replaced by these calls, among them so many loads and stores.
Serves(calls, data, loads, stores) ==
  /\ pending \in Seq(PendingCall) /\ pending # <<>>
  /\ data \in Payload /\ loads \in Nat /\ stores \in Nat
  /\ Shape(calls, loads, stores)
  /\ Replace(calls, data)

\* What that changes in the calls under way to level k: the front call is no
\* longer one of them, those it makes are.
Moves(k, loads, stores) ==
  /\ CountOf(pending', k, FALSE) + One(Front.level = k /\ ~Front.isWrite)
       = CountOf(pending, k, FALSE) + (IF k = Front.level + 1 THEN loads ELSE 0)
  /\ CountOf(pending', k, TRUE) + One(Front.level = k /\ Front.isWrite)
       = CountOf(pending, k, TRUE) + (IF k = Front.level + 1 THEN stores ELSE 0)

\* Serving the front call replaces it by the calls made for it: the others
\* stay under way.
LEMMA StackAfter ==
  ASSUME NEW data, NEW calls, NEW loads, NEW stores, Serves(calls, data, loads, stores)
  PROVE  pending' \in Seq(PendingCall) /\ \A k : Moves(k, loads, stores)
<1> DEFINE made == Made(Front.level + 1, calls, data)
           rest == Tail(pending)
<1>0. /\ pending \in Seq(PendingCall) /\ pending # <<>>
      /\ data \in Payload /\ loads \in Nat /\ stores \in Nat
      /\ Shape(calls, loads, stores) /\ Replace(calls, data)
  BY DEF Serves
<1>1. /\ rest \in Seq(PendingCall) /\ Front.level \in Nat /\ Front.isWrite \in BOOLEAN
      /\ Front.level + 1 \in Nat
  BY <1>0, FrontCall
<1>2. pending' = made \o rest
  BY <1>0 DEF Replace, Made, NextLevel
<1>3. /\ made \in Seq(PendingCall)
      /\ \A k : /\ CountOf(made, k, FALSE) = IF k = Front.level + 1 THEN loads ELSE 0
                /\ CountOf(made, k, TRUE) = IF k = Front.level + 1 THEN stores ELSE 0
  BY ZenonT(40), <1>0, <1>1, MadeCounts
<1> DEFINE load == FALSE
           store == TRUE
<1>4. ASSUME NEW k
      PROVE  /\ CountOf(made, k, load) = IF k = Front.level + 1 THEN loads ELSE 0
             /\ CountOf(made, k, store) = IF k = Front.level + 1 THEN stores ELSE 0
             /\ CountOf(pending, k, load)
                  = CountOf(rest, k, load) + One(Front.level = k /\ ~Front.isWrite)
             /\ CountOf(pending, k, store)
                  = CountOf(rest, k, store) + One(Front.level = k /\ Front.isWrite)
  <2>1. /\ CountOf(made, k, load) = IF k = Front.level + 1 THEN loads ELSE 0
        /\ CountOf(made, k, store) = IF k = Front.level + 1 THEN stores ELSE 0
    BY <1>3
  <2>2. \A b : CountOf(pending, k, b)
                 = CountOf(rest, k, b) + One(Front.level = k /\ Front.isWrite = b)
    BY <1>0, CountOfTail DEF Front
  <2>3. /\ (Front.isWrite = load) <=> ~Front.isWrite
        /\ (Front.isWrite = store) <=> Front.isWrite
    BY <1>1
  <2>4. /\ One(Front.level = k /\ Front.isWrite = load) = One(Front.level = k /\ ~Front.isWrite)
        /\ One(Front.level = k /\ Front.isWrite = store) = One(Front.level = k /\ Front.isWrite)
    BY <2>3 DEF One
  <2> HIDE DEF load, store, made, rest
  <2>5. /\ CountOf(pending, k, load)
             = CountOf(rest, k, load) + One(Front.level = k /\ Front.isWrite = load)
        /\ CountOf(pending, k, store)
             = CountOf(rest, k, store) + One(Front.level = k /\ Front.isWrite = store)
    BY Zenon, <2>2
  <2> QED BY <2>1, <2>4, <2>5
<1> HIDE DEF load, store, made, rest
<1>5. ASSUME NEW k
      PROVE  /\ CountOf(pending', k, load) + One(Front.level = k /\ ~Front.isWrite)
                  = CountOf(pending, k, load) + (IF k = Front.level + 1 THEN loads ELSE 0)
             /\ CountOf(pending', k, store) + One(Front.level = k /\ Front.isWrite)
                  = CountOf(pending, k, store) + (IF k = Front.level + 1 THEN stores ELSE 0)
  <2>1. /\ CountOf(made \o rest, k, load) = CountOf(made, k, load) + CountOf(rest, k, load)
        /\ CountOf(made \o rest, k, store) = CountOf(made, k, store) + CountOf(rest, k, store)
    BY <1>1, <1>3, CountOfBoth
  <2>2. /\ CountOf(rest, k, load) \in Nat /\ CountOf(rest, k, store) \in Nat
        /\ CountOf(made, k, load) \in Nat /\ CountOf(made, k, store) \in Nat
    BY <1>0, <1>1, <1>3, CountIsNat
  <2> DEFINE x == One(Front.level = k /\ ~Front.isWrite)
             y == One(Front.level = k /\ Front.isWrite)
  <2>3. x \in Nat /\ y \in Nat
    BY DEF One
  <2>4. /\ CountOf(made, k, load) = IF k = Front.level + 1 THEN loads ELSE 0
        /\ CountOf(made, k, store) = IF k = Front.level + 1 THEN stores ELSE 0
        /\ CountOf(pending, k, load) = CountOf(rest, k, load) + x
        /\ CountOf(pending, k, store) = CountOf(rest, k, store) + y
    BY <1>4
  <2> HIDE DEF x, y
  <2>5. /\ CountOf(made \o rest, k, load) + x
             = CountOf(pending, k, load) + (IF k = Front.level + 1 THEN loads ELSE 0)
        /\ CountOf(made \o rest, k, store) + y
             = CountOf(pending, k, store) + (IF k = Front.level + 1 THEN stores ELSE 0)
    BY <2>1, <2>2, <2>3, <2>4
  <2> QED BY <1>2, <2>5 DEF x, y
<1>6. pending' \in Seq(PendingCall)
  BY <1>1, <1>2, <1>3, ConcatProperties
<1> QED BY <1>5, <1>6 DEF load, store, Moves


\* The level of the front call counts it.
Counted(k) ==
  /\ Reads(k)' = Reads(k) + One(Front.level = k /\ ~Front.isWrite)
  /\ Writes(k)' = Writes(k) + One(Front.level = k /\ Front.isWrite)

\* What place k + 1 has been sent grows by what level k has sent it.
Grows(k, loads, stores) ==
  /\ SentReads(k + 1)' = SentReads(k + 1) + (IF k = Front.level THEN loads ELSE 0)
  /\ SentWrites(k + 1)' = SentWrites(k + 1) + (IF k = Front.level THEN stores ELSE 0)

\* Which only the level of the front call has done.
Sends(loads, stores) == \A k \in Levels : Grows(k, loads, stores)

\* What is under way or counted at level k + 1, after level Front.level has
\* served the front call: only the level that served it has sent more.
LEMMA SentAfter ==
  ASSUME NEW data, NEW calls, NEW loads, NEW stores, Serves(calls, data, loads, stores),
         NEW k \in Nat, Reads(k + 1) \in Nat, Writes(k + 1) \in Nat,
         Counted(k + 1)
  PROVE  Grows(k, loads, stores)
<1> DEFINE load == FALSE
           store == TRUE
           x == One(Front.level = k + 1 /\ ~Front.isWrite)
           y == One(Front.level = k + 1 /\ Front.isWrite)
           p == CountOf(pending', k + 1, load)
           q == CountOf(pending', k + 1, store)
           i == CountOf(pending, k + 1, load)
           j == CountOf(pending, k + 1, store)
<1>1. /\ pending' \in Seq(PendingCall)
      /\ p + x = i + (IF k + 1 = Front.level + 1 THEN loads ELSE 0)
      /\ q + y = j + (IF k + 1 = Front.level + 1 THEN stores ELSE 0)
  <2>1. pending' \in Seq(PendingCall) /\ Moves(k + 1, loads, stores)
    BY Zenon, StackAfter
  <2> QED BY <2>1 DEF Moves
<1>2. p \in Nat /\ q \in Nat /\ i \in Nat /\ j \in Nat /\ x \in Nat /\ y \in Nat
  BY <1>1, CountIsNat DEF One, Serves
<1>3. /\ SentReads(k + 1)' = Reads(k + 1)' + p /\ SentReads(k + 1) = Reads(k + 1) + i
      /\ SentWrites(k + 1)' = Writes(k + 1)' + q /\ SentWrites(k + 1) = Writes(k + 1) + j
  BY InFlightIsCount DEF SentReads, SentWrites
<1>4. k + 1 = Front.level + 1 <=> k = Front.level
  BY FrontCall DEF Serves
<1>5. Reads(k + 1)' = Reads(k + 1) + x /\ Writes(k + 1)' = Writes(k + 1) + y
  BY DEF Counted
<1> HIDE DEF load, store, x, y, p, q, i, j
<1>6. ASSUME NEW R \in Nat, NEW W \in Nat, NEW n \in Nat
      PROVE  /\ p + x = i + n => (R + x) + p = (R + i) + n
             /\ q + y = j + n => (W + y) + q = (W + j) + n
  BY <1>2
<1>7. CASE k = Front.level
  <2>1. p + x = i + loads /\ q + y = j + stores
    BY <1>1, <1>4, <1>7
  <2>2. /\ SentReads(k + 1)' = SentReads(k + 1) + loads
        /\ SentWrites(k + 1)' = SentWrites(k + 1) + stores
    BY <1>3, <1>5, <1>6, <2>1 DEF Serves
  <2> QED BY <1>7, <2>2 DEF Grows
<1>8. CASE k # Front.level
  <2>1. p + x = i + 0 /\ q + y = j + 0
    BY <1>1, <1>4, <1>8
  <2>2. /\ SentReads(k + 1)' = SentReads(k + 1) + 0
        /\ SentWrites(k + 1)' = SentWrites(k + 1) + 0
    BY <1>3, <1>5, <1>6, <2>1 DEF Serves
  <2> QED BY <1>8, <2>2 DEF Grows
<1> QED BY <1>7, <1>8

\* A level that counts the call it serves, and sends below what its law
\* allows, keeps every law of the chain: the level above loses a call under
\* way and gains one counted.
LEMMA ServedLevel ==
  ASSUME ChainInv, NEW l \in Levels, l = Front.level,
         NEW d, NEW data, NEW calls, NEW loads, NEW stores, Serves(calls, data, loads, stores),
         levels' = [levels EXCEPT ![l] = d], cfgs' = cfgs, mem' = mem,
         Healthy(cfgs[l], Nat, d),
         Lawful(cfgs[l], levels[l].stats, d.stats, Front.isWrite, loads, stores),
         Coalesces(cfgs[l], levels[l], d, Front.isWrite, stores)
  PROVE  ChainInv' /\ SameCpuCalls /\ Sends(loads, stores)
<1>0. /\ d.stats["accesses"] = levels[l].stats["accesses"] + (One(~Front.isWrite) + One(Front.isWrite))
      /\ d.stats["reads"] = levels[l].stats["reads"] + One(~Front.isWrite)
      /\ d.stats["writes"] = levels[l].stats["writes"] + One(Front.isWrite)
      /\ \A r, w \in Nat : Law(cfgs[l], levels[l].stats, r, w)
                             => Law(cfgs[l], d.stats, r + loads, w + stores)
      /\ \A r \in Nat : Fetches(levels[l].stats, r) => Fetches(d.stats, r + loads)
  BY DEF Lawful
<1>1. /\ Depth' = Depth /\ Levels' = Levels
      /\ levels' = [k \in Levels |-> levels'[k]]
      /\ levels'[l] = d /\ \A k \in Levels \ {l} : levels'[k] = levels[k]
  BY DEF Depth, Levels, ChainInv
<1>2. \A k \in Levels : Healthy(cfgs[k], Nat, levels'[k])
  BY <1>1 DEF ChainInv
<1>3. pending' \in Seq(PendingCall)
  BY Zenon, StackAfter
<1>4. ASSUME NEW k \in Levels \cup {0}
      PROVE  Counted(k + 1)
  <2>1. /\ Depth \in Nat /\ k \in Nat /\ l <= Depth /\ (k + 1 > Depth \/ k + 1 \in Levels)
        /\ Reads(k + 1) \in Nat /\ Writes(k + 1) \in Nat
    <3>1. Reads(k + 1) \in Nat /\ Writes(k + 1) \in Nat
      BY CountersAreNat, CpuCallsAreNat
    <3> QED BY <3>1, ChainOfCaches DEF ChainInv, Levels
  <2>2. CASE k + 1 > Depth
    <3>1. Reads(k + 1)' = Reads(k + 1) /\ Writes(k + 1)' = Writes(k + 1)
      BY <1>1, <2>2 DEF Reads, Writes
    <3>2. /\ One(Front.level = k + 1 /\ ~Front.isWrite) = 0
          /\ One(Front.level = k + 1 /\ Front.isWrite) = 0
      BY <2>1, <2>2 DEF One, Levels
    <3> QED BY <2>1, <3>1, <3>2 DEF Counted
  <2>3. CASE k + 1 <= Depth /\ k + 1 = l
    <3>1. /\ Reads(k + 1)' = d.stats["reads"] /\ Writes(k + 1)' = d.stats["writes"]
          /\ Reads(k + 1) = levels[l].stats["reads"] /\ Writes(k + 1) = levels[l].stats["writes"]
      BY <1>1, <2>1, <2>3 DEF Reads, Writes
    <3>2. /\ One(Front.level = k + 1 /\ ~Front.isWrite) = One(~Front.isWrite)
          /\ One(Front.level = k + 1 /\ Front.isWrite) = One(Front.isWrite)
      BY <2>3 DEF One
    <3> QED BY <1>0, <3>1, <3>2 DEF Counted
  <2>4. CASE k + 1 <= Depth /\ k + 1 # l
    <3>1. k + 1 \in Levels \ {l} /\ ~(k + 1 > Depth)
      BY <2>1, <2>4
    <3>2. Reads(k + 1)' = Reads(k + 1) /\ Writes(k + 1)' = Writes(k + 1)
      BY <1>1, <3>1 DEF Reads, Writes
    <3>3. /\ One(Front.level = k + 1 /\ ~Front.isWrite) = 0
          /\ One(Front.level = k + 1 /\ Front.isWrite) = 0
      BY <2>4 DEF One
    <3> QED BY <2>1, <3>2, <3>3 DEF Counted
  <2> QED BY <2>1, <2>2, <2>3, <2>4
<1>5. ASSUME NEW k \in Levels \cup {0} PROVE Grows(k, loads, stores)
  <2>1. k \in Nat /\ Reads(k + 1) \in Nat /\ Writes(k + 1) \in Nat
    BY ChainOfCaches, CountersAreNat, CpuCallsAreNat DEF ChainInv
  <2> QED BY Zenon, <1>4, <2>1, SentAfter
<1>6. ASSUME NEW k \in Levels PROVE LawOf(k)'
  <2>1. /\ SentReads(k + 1) \in Nat /\ SentWrites(k + 1) \in Nat
        /\ Law(cfgs[k], levels[k].stats, SentReads(k + 1), SentWrites(k + 1))
        /\ Fetches(levels[k].stats, SentReads(k + 1))
    BY CountersAreNat DEF ChainInv, LawOf
  <2>2. CASE k = l
    <3>1. /\ Law(cfgs[l], d.stats, SentReads(l + 1) + loads, SentWrites(l + 1) + stores)
          /\ Fetches(d.stats, SentReads(l + 1) + loads)
      BY <1>0, <2>1, <2>2
    <3>2. SentReads(k + 1)' = SentReads(l + 1) + loads /\ SentWrites(k + 1)' = SentWrites(l + 1) + stores
      BY <1>5, <2>2 DEF Grows
    <3> QED BY <1>1, <2>2, <3>1, <3>2 DEF LawOf
  <2>3. CASE k # l
    <3>1. SentReads(k + 1)' = SentReads(k + 1) /\ SentWrites(k + 1)' = SentWrites(k + 1)
      BY <1>5, <2>1, <2>3 DEF Grows
    <3> QED BY <1>1, <2>1, <2>3, <3>1 DEF LawOf
  <2> QED BY <2>2, <2>3
<1>7. ASSUME NEW k \in Levels PROVE OwesOf(k)'
  <2>1. /\ SentWrites(k + 1) \in Nat /\ Writes(k) \in Nat /\ DirtyLines(k) \in Nat
        /\ Writes(k) = levels[k].stats["writes"]
        /\ SentWrites(k + 1) + DirtyLines(k) <= Writes(k)
    BY CountersAreNat DEF ChainInv, OwesOf
  <2>2. Writes(k)' = levels'[k].stats["writes"]
    BY <1>1, ChainOfCaches DEF ChainInv, Writes, Levels
  <2>3. DirtyLines(k)' = Cardinality(DirtyIn(cfgs[k], levels'[k]))
    BY DEF DirtyLines, DirtyIn
  <2>4. CASE k = l
    <3> DEFINE x == One(Front.isWrite)
               e == Cardinality(DirtyIn(cfgs[l], d))
    <3>1. stores + e <= DirtyLines(l) + x
      BY DirtyLinesIsCount DEF Coalesces
    <3>2. x \in Nat /\ e \in Nat /\ stores \in Nat
      BY <2>4, ChainOfCaches, DirtyInFinite DEF ChainInv, One, Serves
    <3>3. SentWrites(k + 1)' = SentWrites(k + 1) + stores
      BY <1>5, <2>4 DEF Grows
    <3>4. Writes(k)' = Writes(k) + x /\ DirtyLines(k)' = e
      BY <1>0, <1>1, <2>1, <2>2, <2>3, <2>4
    <3> HIDE DEF x, e
    <3>5. (SentWrites(k + 1) + stores) + e <= Writes(k) + x
      BY <2>1, <2>4, <3>1, <3>2
    <3> QED BY <3>3, <3>4, <3>5 DEF OwesOf
  <2>5. CASE k # l
    <3>1. SentWrites(k + 1)' = SentWrites(k + 1)
      BY <1>5, <2>1, <2>5 DEF Grows
    <3>2. Writes(k)' = Writes(k) /\ DirtyLines(k)' = DirtyLines(k)
      BY <1>1, <2>1, <2>2, <2>3, <2>5, DirtyLinesIsCount
    <3> QED BY <2>1, <3>1, <3>2 DEF OwesOf
  <2> QED BY <2>4, <2>5
<1>8. Proper(cfgs') /\ MemoryCounts'
  BY DEF ChainInv, MemoryCounts
<1>9. ASSUME NEW k \in Levels PROVE AskedOf(k)'
  <2>1. AskedOf(k) /\ \A c \in Counters : levels[k].stats[c] \in Nat
    BY CountersAreNat DEF ChainInv
  <2>2. CASE k = l
    <3> DEFINE x == One(Front.isWrite)
               y == One(~Front.isWrite)
    <3>1. x \in Nat /\ y \in Nat
      BY DEF One
    <3>2. /\ d.stats["accesses"] = levels[l].stats["accesses"] + (y + x)
          /\ d.stats["reads"] = levels[l].stats["reads"] + y
          /\ d.stats["writes"] = levels[l].stats["writes"] + x
      BY <1>0
    <3> HIDE DEF x, y
    <3>3. /\ levels[l].stats["accesses"] = levels[l].stats["reads"] + levels[l].stats["writes"]
          /\ levels[l].stats["reads"] \in Nat /\ levels[l].stats["writes"] \in Nat
      BY <2>1, <2>2 DEF AskedOf, Counters
    <3> QED BY <1>1, <2>2, <3>1, <3>2, <3>3 DEF AskedOf
  <2>3. CASE k # l
    BY <1>1, <2>1, <2>3 DEF AskedOf
  <2> QED BY <2>2, <2>3
<1>10. SameCpuCalls
  <2>1. Grows(0, loads, stores) /\ Front.level # 0
    BY <1>5, ChainOfCaches DEF ChainInv, Levels
  <2>2. SentReads(1) \in Nat /\ SentWrites(1) \in Nat
    BY CpuCallsAreNat
  <2>3. SentReads(1)' = SentReads(1) + 0 /\ SentWrites(1)' = SentWrites(1) + 0
    BY <2>1 DEF Grows
  <2> QED BY <2>2, <2>3 DEF SameCpuCalls
<1>11. ChainInv'
  BY <1>1, <1>2, <1>3, <1>6, <1>7, <1>8, <1>9 DEF ChainInv
<1> QED BY <1>5, <1>10, <1>11 DEF Sends


\* A hit keeps the laws, and sends the store it does not keep.
LEMMA HitKeepsLaws ==
  ASSUME ChainInv, LevelHit
  PROVE  /\ ChainInv' /\ SameCpuCalls
         /\ Sends(0, One(Front.isWrite /\ ~WritesBack(cfgs[Front.level])))
<1> DEFINE l == Front.level
           d == AfterHit(cfgs[l], levels[l], Front.addr, Front.isWrite)
           calls == HitCalls(cfgs[l], Front.addr, Front.isWrite)
           stores == One(Front.isWrite /\ ~WritesBack(cfgs[l]))
<1>1. /\ pending # <<>> /\ l \in Levels /\ pending \in Seq(PendingCall)
      /\ IsHit(cfgs[l], levels[l], BlockOf(cfgs[l], Front.addr))
      /\ levels' = [levels EXCEPT ![l] = d]
      /\ Replace(calls, Front.data) /\ cfgs' = cfgs /\ mem' = mem
  BY DEF LevelHit, ChainInv
<1>2. /\ Front.addr \in Nat /\ Front.isWrite \in BOOLEAN /\ Front.data \in Payload
      /\ Constructible(cfgs[l]) /\ Healthy(cfgs[l], Nat, levels[l])
      /\ BlockOf(cfgs[l], Front.addr) \in Nat
  BY <1>1, FrontCall, ChainOfCaches, BlockOfType DEF ChainInv
<1>3. Healthy(cfgs[l], Nat, d)
  BY <1>1, <1>2, HitHealthy
<1>4. Adds(levels[l].stats, d.stats, 0, One(Front.isWrite), One(~Front.isWrite), 0)
  BY <1>1, <1>2, CountersAreNat, HitAdds
<1>5. Lawful(cfgs[l], levels[l].stats, d.stats, Front.isWrite, 0, stores)
  <2>1. \A k \in Counters : levels[l].stats[k] \in Nat
    BY <1>1, CountersAreNat
  <2> HIDE DEF d, l
  <2> QED BY <1>2, <1>4, <2>1, HitLawful
<1>6. Serves(calls, Front.data, 0, stores)
  BY <1>1, <1>2 DEF Serves, HitCalls, Shape, One
<1>7. Coalesces(cfgs[l], levels[l], d, Front.isWrite, stores)
  BY <1>2, HitCoalesces DEF Healthy
<1> HIDE DEF l, d, calls, stores
<1>8. ChainInv' /\ SameCpuCalls /\ Sends(0, stores)
  BY <1>1, <1>3, <1>5, <1>6, <1>7, ServedLevel DEF l
<1> QED
  BY <1>8 DEF stores, l

\* A write-around keeps them, and sends its store.
LEMMA WriteAroundKeepsLaws ==
  ASSUME ChainInv, LevelWriteAround PROVE ChainInv' /\ SameCpuCalls /\ Sends(0, 1)
<1> DEFINE l == Front.level
           d == AfterWriteAround(cfgs[l], levels[l], Front.addr)
           calls == WriteAroundCalls(Front.addr)
<1>1. /\ pending # <<>> /\ l \in Levels /\ pending \in Seq(PendingCall)
      /\ Front.isWrite /\ ~WriteAllocates(cfgs[l])
      /\ levels' = [levels EXCEPT ![l] = d]
      /\ Replace(calls, Front.data) /\ cfgs' = cfgs /\ mem' = mem
  BY DEF LevelWriteAround, ChainInv
<1>2. /\ Front.addr \in Nat /\ Front.isWrite \in BOOLEAN /\ Front.data \in Payload
      /\ Constructible(cfgs[l]) /\ Healthy(cfgs[l], Nat, levels[l])
      /\ BlockOf(cfgs[l], Front.addr) \in Nat
  BY <1>1, FrontCall, ChainOfCaches, BlockOfType DEF ChainInv
<1>3. Healthy(cfgs[l], Nat, d)
  BY <1>1, <1>2, WriteAroundHealthy
<1>4. Adds(levels[l].stats, d.stats, 1, 1, 0, 0)
  BY <1>1, CountersAreNat, WriteAroundAdds
<1>5. Lawful(cfgs[l], levels[l].stats, d.stats, Front.isWrite, 0, 1)
  <2>1. \A k \in Counters : levels[l].stats[k] \in Nat
    BY <1>1, CountersAreNat
  <2> HIDE DEF d, l
  <2> QED BY <1>1, <1>2, <1>4, <2>1, WriteAroundLawful
<1>6. Serves(calls, Front.data, 0, 1)
  BY <1>1, <1>2 DEF Serves, WriteAroundCalls, Shape
<1>7. Coalesces(cfgs[l], levels[l], d, Front.isWrite, 1)
  BY <1>1, <1>2, WriteAroundCoalesces
<1> HIDE DEF l, d, calls
<1> QED
  BY <1>1, <1>3, <1>5, <1>6, <1>7, ServedLevel DEF l

\* The victim's address is one a trace could name.
LEMMA VictimIsAddress ==
  ASSUME NEW g, Constructible(g), NEW c, NEW B, CacheType(g, B, c),
         NEW s \in Sets(g), NEW w \in Ways(g)
  PROVE  AddrOf(g, VictimBlock(g, c.lines[s][w].tag, s)) \in Nat
<1>1. c.lines[s][w].tag \in Nat
  BY DEF CacheType, Line
<1>2. VictimBlock(g, c.lines[s][w].tag, s) \in Nat
  BY <1>1, Recomposition DEF VictimBlock
<1> QED BY <1>2, VictimAddress

\* A fill keeps them, whatever frame it takes: it sends its fetch, and a store
\* if it has to write back or does not keep the one it was given.
LEMMA FillKeepsLaws ==
  ASSUME ChainInv, LevelFill
  PROVE  /\ ChainInv' /\ SameCpuCalls
         /\ LET l == Front.level
                g == cfgs[l]
                s == SetOf(g, BlockOf(g, Front.addr))
            IN  \E w \in PickWays(g, levels[l], s) :
                  /\ levels' = [levels EXCEPT
                                 ![l] = AfterFill(g, levels[l], Front.addr, Front.isWrite, w)]
                  /\ Sends(1, One(\/ MustWriteBack(g, levels[l].lines[s][w])
                                  \/ Front.isWrite /\ ~WritesBack(g)))
<1> DEFINE l == Front.level
           s == SetOf(cfgs[l], BlockOf(cfgs[l], Front.addr))
           gone(w) == FrameBytes(l, s, levels[l].lines[s][w])
           stored(w) == IF WritesBack(cfgs[l])
                        THEN [bytes |-> gone(w), newest |-> gone(w) \cap fresh[l]]
                        ELSE Front.data
<1>1. /\ pending # <<>> /\ l \in Levels /\ pending \in Seq(PendingCall)
      /\ Front.isWrite => WriteAllocates(cfgs[l])
      /\ cfgs' = cfgs /\ mem' = mem
  BY DEF LevelFill, ChainInv
<1>2. /\ Front.addr \in Nat /\ Front.isWrite \in BOOLEAN /\ Front.data \in Payload
      /\ Constructible(cfgs[l]) /\ Healthy(cfgs[l], Nat, levels[l])
      /\ BlockOf(cfgs[l], Front.addr) \in Nat
  BY <1>1, FrontCall, ChainOfCaches, BlockOfType DEF ChainInv
<1>3. PICK w \in Ways(cfgs[l]) :
        /\ w \in PickWays(cfgs[l], levels[l], s)
        /\ levels' = [levels EXCEPT ![l] =
                        AfterFill(cfgs[l], levels[l], Front.addr, Front.isWrite, w)]
        /\ Replace(FillCalls(cfgs[l], levels[l], Front.addr, Front.isWrite, w), stored(w))
  <2>1. PickWays(cfgs[l], levels[l], s) \subseteq Ways(cfgs[l])
    BY <1>2, PickIsWay
  <2> QED BY <2>1 DEF LevelFill
<1> DEFINE d == AfterFill(cfgs[l], levels[l], Front.addr, Front.isWrite, w)
           calls == FillCalls(cfgs[l], levels[l], Front.addr, Front.isWrite, w)
           wb == MustWriteBack(cfgs[l], levels[l].lines[s][w])
           stores == One(wb \/ (Front.isWrite /\ ~WritesBack(cfgs[l])))
<1>4. Healthy(cfgs[l], Nat, d)
  BY <1>2, FillHealthy
<1>5. Adds(levels[l].stats, d.stats, 1, One(Front.isWrite), One(~Front.isWrite), One(wb))
  BY <1>1, <1>2, CountersAreNat, FillAdds
<1>6. wb \in BOOLEAN /\ (wb => WritesBack(cfgs[l]))
  BY FillCounts DEF MustWriteBack
<1>7. Lawful(cfgs[l], levels[l].stats, d.stats, Front.isWrite, 1, stores)
  <2>1. \A k \in Counters : levels[l].stats[k] \in Nat
    BY <1>1, CountersAreNat
  <2> HIDE DEF d, l, wb
  <2> QED BY <1>1, <1>2, <1>5, <1>6, <2>1, FillLawful
<1>8. Shape(calls, 1, stores)
  <2> DEFINE victim == AddrOf(cfgs[l], VictimBlock(cfgs[l], levels[l].lines[s][w].tag, s))
  <2>1. /\ wb => calls = <<Load(Front.addr), Store(victim)>>
        /\ ~wb /\ Front.isWrite /\ ~WritesBack(cfgs[l])
             => calls = <<Load(Front.addr), Store(Front.addr)>>
        /\ ~wb /\ (~Front.isWrite \/ WritesBack(cfgs[l])) => calls = <<Load(Front.addr)>>
    BY SMTT(30), <1>2, FillCallsCases
  <2>2. victim \in Nat
    BY <1>2, Decomposition, VictimIsAddress DEF Healthy
  <2>3. /\ wb => stores = 1
        /\ ~wb /\ Front.isWrite /\ ~WritesBack(cfgs[l]) => stores = 1
        /\ ~wb /\ (~Front.isWrite \/ WritesBack(cfgs[l])) => stores = 0
    BY <1>2, <1>6 DEF One
  <2> HIDE DEF wb, calls, victim, stores
  <2> QED BY <1>2, <1>6, <2>1, <2>2, <2>3 DEF Shape
<1>9. stored(w) \in Payload
  BY <1>2 DEF FrameBytes, Bytes, Payload
<1>10. Serves(calls, stored(w), 1, stores)
  <2> HIDE DEF calls, stored, l
  <2> QED BY <1>1, <1>3, <1>8, <1>9 DEF Serves, One, calls, stored
<1>11. Coalesces(cfgs[l], levels[l], d, Front.isWrite, stores)
  <2>1. CacheType(cfgs[l], Nat, levels[l])
    BY <1>2 DEF Healthy
  <2> HIDE DEF d, l
  <2> QED BY <1>2, <1>6, <2>1, FillCoalesces DEF d
<1>12. ChainInv' /\ SameCpuCalls /\ Sends(1, stores)
  <2> HIDE DEF l, d, calls, stores, stored
  <2> QED
    BY <1>1, <1>3, <1>4, <1>7, <1>10, <1>11, ServedLevel DEF l, d
<1> QED
  BY <1>3, <1>12

-----------------------------------------------------------------------------
(* Memory, the trace, and the theorem.                                     *)

\* A step that changes no level leaves the debt of each as it was.
LEMMA SameDebt ==
  ASSUME ChainInv, cfgs' = cfgs, levels' = levels, NEW k \in Levels,
         SentWrites(k + 1)' = SentWrites(k + 1)
  PROVE  OwesOf(k)'
<1>1. Depth' = Depth /\ k <= Depth /\ k \in Nat /\ Depth \in Nat
  BY ChainOfCaches DEF ChainInv, Depth, Levels
<1>2. Writes(k)' = Writes(k) /\ DirtyLines(k)' = DirtyLines(k)
  BY <1>1 DEF Writes, DirtyLines
<1> QED BY <1>2 DEF ChainInv, OwesOf

\* Memory counts the call and makes none.
LEMMA MemoryKeepsLaws ==
  ASSUME ChainInv, MemoryAccess PROVE ChainInv' /\ SameCpuCalls /\ Sends(0, 0)
<1>1. /\ pending # <<>> /\ pending \in Seq(PendingCall) /\ Front.level = Depth + 1
      /\ mem' = IF Front.isWrite THEN [mem EXCEPT !.writes = @ + 1]
                                 ELSE [mem EXCEPT !.reads = @ + 1]
      /\ pending' = Tail(pending) /\ cfgs' = cfgs /\ levels' = levels
  BY DEF MemoryAccess, ChainInv
<1>2. Front.isWrite \in BOOLEAN /\ Tail(pending) \in Seq(PendingCall)
  BY <1>1, FrontCall
<1>3. Depth \in Nat \ {0} /\ \A k \in Levels \cup {0} : k \in Nat /\ (k + 1 = Depth + 1 \/ k + 1 \in Levels)
  BY ChainOfCaches DEF ChainInv, Levels
<1>4. Depth' = Depth /\ Levels' = Levels
  BY <1>1 DEF Depth, Levels
<1>5. /\ MemoryCounts'
      /\ mem'.reads = mem.reads + One(~Front.isWrite)
      /\ mem'.writes = mem.writes + One(Front.isWrite)
  <2>1. mem \in [reads : Nat, writes : Nat]
    BY DEF ChainInv, MemoryCounts
  <2>2. CASE Front.isWrite
    BY <1>1, <2>1, <2>2 DEF MemoryCounts, One
  <2>3. CASE ~Front.isWrite
    BY <1>1, <2>1, <2>3 DEF MemoryCounts, One
  <2> QED BY <2>2, <2>3
<1>6. ASSUME NEW k \in Levels \cup {0} PROVE Counted(k + 1)
  <2>1. Reads(k + 1) \in Nat /\ Writes(k + 1) \in Nat
    BY CountersAreNat, CpuCallsAreNat
  <2>2. CASE k + 1 = Depth + 1
    <3>1. /\ Reads(k + 1)' = mem'.reads /\ Reads(k + 1) = mem.reads
          /\ Writes(k + 1)' = mem'.writes /\ Writes(k + 1) = mem.writes
      BY <1>3, <1>4, <2>2 DEF Reads, Writes
    <3>2. /\ One(Front.level = k + 1 /\ ~Front.isWrite) = One(~Front.isWrite)
          /\ One(Front.level = k + 1 /\ Front.isWrite) = One(Front.isWrite)
      BY <1>1, <2>2 DEF One
    <3> QED BY <1>5, <3>1, <3>2 DEF Counted
  <2>3. CASE k + 1 # Depth + 1
    <3>1. k + 1 \in Levels /\ ~(k + 1 > Depth)
      BY <1>3, <2>3 DEF Levels
    <3>2. Reads(k + 1)' = Reads(k + 1) /\ Writes(k + 1)' = Writes(k + 1)
      BY <1>1, <1>4, <3>1 DEF Reads, Writes
    <3>3. /\ One(Front.level = k + 1 /\ ~Front.isWrite) = 0
          /\ One(Front.level = k + 1 /\ Front.isWrite) = 0
      BY <1>1, <2>3 DEF One
    <3> QED BY <2>1, <3>2, <3>3 DEF Counted
  <2> QED BY <2>2, <2>3
<1>7. Serves(<<>>, Nothing, 0, 0)
  <2>1. pending' = [i \in DOMAIN <<>> |-> Sent(NextLevel(Front.level), <<>>[i], Nothing)] \o Tail(pending)
    BY <1>1, <1>2
  <2>2. Replace(<<>>, Nothing)
    BY <2>1 DEF Replace
  <2>3. Nothing \in Payload
    BY DEF Nothing, Payload
  <2> QED BY <1>1, <2>2, <2>3 DEF Serves, Shape
<1>8. ASSUME NEW k \in Levels PROVE Grows(k, 0, 0)
  <2>1. Reads(k + 1) \in Nat /\ Writes(k + 1) \in Nat /\ k \in Nat
    BY <1>3, CountersAreNat
  <2> QED
    BY Zenon, <1>6, <1>7, <2>1, SentAfter
<1>9. ASSUME NEW k \in Levels PROVE LawOf(k)' /\ OwesOf(k)' /\ AskedOf(k)'
  <2>1. SentReads(k + 1) \in Nat /\ SentWrites(k + 1) \in Nat
    BY CountersAreNat
  <2>2. Grows(k, 0, 0)
    BY <1>8
  <2>3. SentReads(k + 1)' = SentReads(k + 1) /\ SentWrites(k + 1)' = SentWrites(k + 1)
    BY <2>1, <2>2 DEF Grows
  <2> QED BY <1>1, <1>4, <2>3, SameDebt DEF ChainInv, LawOf, AskedOf
<1>10. SameCpuCalls
  <2>1. Grows(0, 0, 0)
    <3>1. Reads(0 + 1) \in Nat /\ Writes(0 + 1) \in Nat /\ 0 \in Nat /\ Counted(0 + 1)
      BY <1>6, CpuCallsAreNat
    <3> QED BY Zenon, <1>7, <3>1, SentAfter
  <2>2. SentReads(1) \in Nat /\ SentWrites(1) \in Nat
    BY CpuCallsAreNat
  <2> QED BY <2>1, <2>2 DEF Grows, SameCpuCalls
<1>11. ChainInv'
  BY <1>1, <1>2, <1>4, <1>5, <1>9 DEF ChainInv
<1> QED BY <1>10, <1>11, <1>8 DEF Sends

\* The calls of a record go to L1.
LEMMA RecordCalls ==
  ASSUME NEW op \in Ops, NEW addr \in Addrs
  PROVE  /\ Expand(op, addr) \in Seq(PendingCall)
         /\ \A k \in Nat \ {1} : \A isWrite : CountOf(Expand(op, addr), k, isWrite) = 0
<1> DEFINE x == CpuAccess(Load(addr))
           y == CpuAccess(Store(addr))
           calls == Expand(op, addr)
<1>1. x \in PendingCall /\ y \in PendingCall /\ x.level = 1 /\ y.level = 1
  BY HierarchyAddrsAssumption DEF CpuAccess, Sent, Load, Store, PendingCall, Payload, Nothing
<1>2. calls \in {<<x>>, <<y>>, <<x, y>>, <<>>}
  BY DEF Expand, Ops
<1> HIDE DEF x, y, calls
<1>3. calls \in Seq(PendingCall) /\ \A i \in DOMAIN calls : calls[i].level = 1
  <2>1. CASE calls = <<x>>
    BY <1>1, <2>1
  <2>2. CASE calls = <<y>>
    BY <1>1, <2>2
  <2>3. CASE calls = <<x, y>>
    BY <1>1, <2>3
  <2>4. CASE calls = <<>>
    BY <2>4
  <2> QED BY <1>2, <2>1, <2>2, <2>3, <2>4
<1>4. ASSUME NEW k \in Nat \ {1}, NEW isWrite PROVE CountOf(calls, k, isWrite) = 0
  <2>1. Those(calls, k, isWrite) = {}
    BY <1>3 DEF Those
  <2> QED BY <2>1, FS_EmptySet DEF CountOf
<1> QED BY <1>3, <1>4 DEF calls

\* A step that sends no level but L1 anything.
SendsNothing ==
  \A k \in Levels :
    SentReads(k + 1)' = SentReads(k + 1) /\ SentWrites(k + 1)' = SentWrites(k + 1)

\* A record that is fed has sent nothing below L1 yet.
LEMMA FeedKeepsLaws ==
  ASSUME ChainInv, NEW op \in Ops, NEW addr \in Addrs, Feed(op, addr)
  PROVE  ChainInv' /\ SendsNothing
<1>1. /\ pending = <<>> /\ pending' = Expand(op, addr)
      /\ cfgs' = cfgs /\ levels' = levels /\ mem' = mem
  BY DEF Feed
<1>2. Depth' = Depth /\ Levels' = Levels
  BY <1>1 DEF Depth, Levels
<1>3. pending' \in Seq(PendingCall)
  BY <1>1, RecordCalls
<1>4. ASSUME NEW k \in Levels
      PROVE  /\ SentReads(k + 1)' = SentReads(k + 1) /\ SentWrites(k + 1)' = SentWrites(k + 1)
             /\ LawOf(k)' /\ OwesOf(k)' /\ AskedOf(k)'
  <2>1. k + 1 \in Nat \ {1}
    BY ChainOfCaches DEF ChainInv, Levels
  <2>2. \A isWrite : CountOf(pending', k + 1, isWrite) = 0 /\ CountOf(pending, k + 1, isWrite) = 0
    BY <1>1, <2>1, RecordCalls, CountOfNone
  <2>3. Reads(k + 1)' = Reads(k + 1) /\ Writes(k + 1)' = Writes(k + 1)
    BY <1>1, <1>2 DEF Reads, Writes
  <2>4. \A isWrite : InFlight(k + 1, isWrite)' = InFlight(k + 1, isWrite)
    BY <2>2, InFlightIsCount
  <2>5. SentReads(k + 1)' = SentReads(k + 1) /\ SentWrites(k + 1)' = SentWrites(k + 1)
    BY <2>3, <2>4 DEF SentReads, SentWrites
  <2> QED BY <1>1, <2>5, SameDebt DEF ChainInv, LawOf, AskedOf
<1> QED BY <1>1, <1>2, <1>3, <1>4 DEF ChainInv, MemoryCounts, SendsNothing

\* Every step of the chain keeps the laws.
LEMMA ChainStep == ChainInv /\ [Next]_vars => ChainInv'
<1> SUFFICES ASSUME ChainInv, [Next]_vars PROVE ChainInv'
  OBVIOUS
<1>1. CASE UNCHANGED vars
  <2>1. UNCHANGED <<cfgs, levels, mem, pending>>
    BY <1>1 DEF vars
  <2>2. Depth' = Depth /\ Levels' = Levels
    BY <2>1 DEF Depth, Levels
  <2>3. \A k, isWrite : InFlight(k, isWrite)' = InFlight(k, isWrite)
    BY <2>1, InFlightIsCount
  <2>4. \A k : Reads(k)' = Reads(k) /\ Writes(k)' = Writes(k)
    BY <2>1, <2>2 DEF Reads, Writes
  <2>5. \A k : SentReads(k)' = SentReads(k) /\ SentWrites(k)' = SentWrites(k)
    BY <2>3, <2>4 DEF SentReads, SentWrites
  <2>6. \A k \in Levels : LawOf(k)' /\ OwesOf(k)' /\ AskedOf(k)'
    BY <2>1, <2>5, SameDebt DEF ChainInv, LawOf, AskedOf
  <2> QED BY <2>1, <2>2, <2>6 DEF ChainInv, MemoryCounts
<1>2. ASSUME NEW op \in Ops, NEW addr \in Addrs, Feed(op, addr) PROVE ChainInv'
  BY <1>2, FeedKeepsLaws
<1>3. CASE Serve
  BY <1>3, HitKeepsLaws, WriteAroundKeepsLaws, FillKeepsLaws, MemoryKeepsLaws DEF Serve
<1> QED BY <1>1, <1>2, <1>3 DEF Next

\* In a chain of any depth, with any configuration of each level, what a level
\* has sent the next is at every moment of the recursion exactly what its
\* policies promise of the misses, stores and write-backs it has counted.
THEOREM NeighboursAgree == Spec => []TrafficBetweenLevels
<1>1. ChainInv => TrafficBetweenLevels
  <2> SUFFICES ASSUME ChainInv, NEW l \in Levels
               PROVE  /\ IF WritesBack(cfgs[l])
                         THEN SentReads(l + 1) + SentWrites(l + 1)
                                = levels[l].stats["misses"] + levels[l].stats["writebacks"]
                         ELSE /\ SentWrites(l + 1) = levels[l].stats["writes"]
                              /\ levels[l].stats["writebacks"] = 0
                      /\ IF WriteAllocates(cfgs[l])
                         THEN SentReads(l + 1) = levels[l].stats["misses"]
                         ELSE SentReads(l + 1) <= levels[l].stats["reads"]
    BY DEF TrafficBetweenLevels
  <2>1. LawOf(l)
    BY DEF ChainInv
  <2> QED BY <2>1 DEF LawOf, Law
<1> QED
  BY <1>1, ChainInit, ChainStep, PTL DEF Spec

\* Nor does any level turn a store into more than one write below, now or when
\* the line it made dirty leaves.
THEOREM ChainNeverAmplifies == Spec => []WritesNeverAmplified
<1>1. ChainInv => WritesNeverAmplified
  BY DEF ChainInv, WritesNeverAmplified, OwesOf
<1> QED
  BY <1>1, ChainInit, ChainStep, PTL DEF Spec

\* No level of a chain ever fails its self-check, whatever the levels around
\* it send it.
THEOREM EveryLevelHealthy ==
  Spec => [](\A l \in Levels : CheckInvariants(cfgs[l], levels[l]))
<1>1. ChainInv => \A l \in Levels : CheckInvariants(cfgs[l], levels[l])
  BY DEF ChainInv, Healthy
<1> QED
  BY <1>1, ChainInit, ChainStep, PTL DEF Spec
-----------------------------------------------------------------------------
(* The addresses that reach a level.                                       *)

ReachedBlocks(l) == {BlockOf(cfgs[l], a) : a \in Reach}

\* The frames of cache c, in the configuration of level l, hold blocks the
\* level was asked for.
HoldsReached(l, c) ==
  \A s \in Sets(cfgs[l]), w \in Ways(cfgs[l]) :
    c.lines[s][w].valid => VictimBlock(cfgs[l], c.lines[s][w].tag, s) \in ReachedBlocks(l)

ReachInv == ChainInv /\ TypeOK /\ \A l \in Levels : HoldsReached(l, levels[l])

\* The start of a block that contains the start of another block is either.
LEMMA StartOfStart ==
  ASSUME NEW f, NEW g, Constructible(f), Constructible(g), NEW a \in Nat,
         NEW p, p = AddrOf(f, BlockOf(f, a))
  PROVE  AddrOf(g, BlockOf(g, p)) \in {p, AddrOf(g, BlockOf(g, a))}
<1>1. /\ f.blockSize \in Nat \ {0} /\ g.blockSize \in Nat \ {0}
      /\ IsPow2(f.blockSize) /\ IsPow2(g.blockSize)
  BY GeometryType DEF Constructible
<1>2. BlockOf(f, a) \in Nat /\ p \in Nat /\ BlockOf(f, p) = BlockOf(f, a)
  BY BlockOfType, VictimAddress
<1>3. CASE f.blockSize <= g.blockSize
  <2>1. BlockOf(g, p) = BlockOf(g, a)
    BY <1>2, <1>3, BlocksNest
  <2> QED BY <2>1
<1>4. CASE g.blockSize <= f.blockSize
  <2>1. PICK k \in Nat \ {0} : f.blockSize = k * g.blockSize
    BY <1>1, <1>4, PowersDivide
  <2> DEFINE q == BlockOf(f, a) * k
  <2>2. q \in Nat /\ p = AddrOf(g, q)
    <3>1. \A x, y, z \in Nat : x * (y * z) = (x * y) * z /\ x * y \in Nat
      OBVIOUS
    <3> QED BY <1>1, <1>2, <2>1, <3>1 DEF AddrOf
  <2> HIDE DEF q
  <2>3. BlockOf(g, p) = q
    BY <2>2, VictimAddress
  <2> QED BY <2>2, <2>3
<1> QED
  BY <1>1, <1>3, <1>4

\* The addresses that reach some level are numbers, and the start of a block
\* one of them lies in is one of them.
LEMMA ReachIsClosed ==
  ASSUME Proper(cfgs)
  PROVE  /\ Addrs \subseteq Reach /\ Reach \subseteq Nat
         /\ \A l \in Levels : \A b \in ReachedBlocks(l) : b \in Nat /\ AddrOf(cfgs[l], b) \in Reach
<1>1. Addrs \subseteq Nat /\ \A l \in Levels : Constructible(cfgs[l])
  BY ChainOfCaches, HierarchyAddrsAssumption
<1>2. \A l \in Levels, a \in Nat : BlockOf(cfgs[l], a) \in Nat /\ AddrOf(cfgs[l], BlockOf(cfgs[l], a)) \in Nat
  BY <1>1, BlockOfType, VictimAddress
<1>3. Addrs \subseteq Reach /\ Reach \subseteq Nat
  <2>1. \A l \in Levels, a \in Addrs : AddrOf(cfgs[l], BlockOf(cfgs[l], a)) \in Nat
    BY <1>1, <1>2
  <2>2. \A a \in Reach : a \in Addrs
                       \/ \E l \in Levels, x \in Addrs : a = AddrOf(cfgs[l], BlockOf(cfgs[l], x))
    BY DEF Reach
  <2>3. Reach \subseteq Nat
    BY <1>1, <2>1, <2>2
  <2>4. Addrs \subseteq Reach
    BY DEF Reach
  <2> QED BY <2>3, <2>4
<1>4. ASSUME NEW l \in Levels, NEW a \in Reach
      PROVE  BlockOf(cfgs[l], a) \in Nat /\ AddrOf(cfgs[l], BlockOf(cfgs[l], a)) \in Reach
  <2>1. CASE a \in Addrs
    BY <1>2, <1>3, <2>1 DEF Reach
  <2>2. ASSUME NEW k \in Levels, NEW x \in Addrs, a = AddrOf(cfgs[k], BlockOf(cfgs[k], x))
        PROVE  AddrOf(cfgs[l], BlockOf(cfgs[l], a)) \in Reach
    <3>1. AddrOf(cfgs[l], BlockOf(cfgs[l], a)) \in {a, AddrOf(cfgs[l], BlockOf(cfgs[l], x))}
      BY <1>1, <2>2, StartOfStart
    <3>2. AddrOf(cfgs[l], BlockOf(cfgs[l], x)) \in Reach
      BY DEF Reach
    <3> QED BY <3>1, <3>2
  <2> QED BY <1>2, <1>3, <2>1, <2>2 DEF Reach
<1> QED
  BY <1>3, <1>4 DEF ReachedBlocks

ReachedCall == [addr : Reach, isWrite : BOOLEAN]
TypedCall == [level : 1 .. Depth + 1, addr : Reach, isWrite : BOOLEAN, data : Payload]

\* The front call, its block and the values behind it are of their types.
LEMMA FrontReaches ==
  ASSUME ReachInv, pending # <<>>
  PROVE  /\ Front \in TypedCall /\ Tail(pending) \in Seq(TypedCall)
         /\ Aged \in [1 .. Depth + 1 -> SUBSET Addrs]
         /\ \A kept \in SUBSET Addrs : \A here : Put(kept, here) \in SUBSET Addrs
         /\ Front.level \in Levels =>
              /\ Constructible(cfgs[Front.level]) /\ Front.addr \in Nat /\ Front.isWrite \in BOOLEAN
              /\ BlockOf(cfgs[Front.level], Front.addr) \in ReachedBlocks(Front.level)
              /\ CacheType(cfgs[Front.level], ReachedBlocks(Front.level), levels[Front.level])
              /\ HoldsReached(Front.level, levels[Front.level])
<1>1. Proper(cfgs) /\ pending \in Seq(TypedCall) /\ fresh \in [1 .. Depth + 1 -> SUBSET Addrs]
  BY DEF ReachInv, ChainInv, TypeOK, TypedCall
<1>2. Front \in TypedCall /\ Tail(pending) \in Seq(TypedCall)
  BY <1>1, HeadTailProperties DEF Front
<1>3. /\ Front.addr \in Reach /\ Front.isWrite \in BOOLEAN
      /\ Front.data.newest \subseteq Addrs /\ Front.data.bytes \subseteq Addrs
  BY <1>2 DEF TypedCall, Payload
<1>4. Aged \in [1 .. Depth + 1 -> SUBSET Addrs]
  BY <1>1, <1>3 DEF Aged
<1>5. \A kept \in SUBSET Addrs : \A here : Put(kept, here) \in SUBSET Addrs
  BY <1>3 DEF Put
<1>6. ASSUME Front.level \in Levels
      PROVE  /\ Constructible(cfgs[Front.level]) /\ Front.addr \in Nat
             /\ BlockOf(cfgs[Front.level], Front.addr) \in ReachedBlocks(Front.level)
             /\ CacheType(cfgs[Front.level], ReachedBlocks(Front.level), levels[Front.level])
             /\ HoldsReached(Front.level, levels[Front.level])
  BY <1>1, <1>3, <1>6, ChainOfCaches, ReachIsClosed DEF ReachInv, TypeOK, ReachedBlocks
<1> QED
  BY <1>2, <1>3, <1>4, <1>5, <1>6

\* Served levels keep the types, if the new state of the cache and the calls
\* have theirs.
LEMMA ServedReaches ==
  ASSUME ReachInv, pending # <<>>, NEW l \in Levels, l = Front.level,
         cfgs' = cfgs, mem' = mem, record' = record, fed' = fed,
         fresh' \in [1 .. Depth + 1 -> SUBSET Addrs],
         NEW d, levels' = [levels EXCEPT ![l] = d],
         CacheType(cfgs[l], ReachedBlocks(l), d), HoldsReached(l, d),
         NEW calls \in Seq(ReachedCall), NEW data \in Payload, Replace(calls, data)
  PROVE  TypeOK' /\ \A k \in Levels' : HoldsReached(k, levels[k])'
<1>1. /\ Depth' = Depth /\ Levels' = Levels /\ Reach' = Reach
      /\ \A k : ReachedBlocks(k)' = ReachedBlocks(k)
  BY DEF Depth, Levels, Reach, ReachedBlocks
<1>2. /\ DOMAIN levels' = Levels /\ levels'[l] = d /\ \A k \in Levels \ {l} : levels'[k] = levels[k]
  BY DEF ReachInv, TypeOK
<1>3. ASSUME NEW k \in Levels
      PROVE  CacheType(cfgs[k], ReachedBlocks(k), levels'[k]) /\ HoldsReached(k, levels'[k])
  <2>1. CASE k = l
    BY <1>2, <2>1
  <2>2. CASE k # l
    BY <1>2, <2>2 DEF ReachInv, TypeOK, ReachedBlocks
  <2> QED BY <2>1, <2>2
<1>4. pending' \in Seq(TypedCall)
  <2> DEFINE made == [i \in DOMAIN calls |-> Sent(l + 1, calls[i], data)]
  <2>1. l + 1 \in 1 .. Depth + 1
    BY ChainOfCaches DEF ReachInv, ChainInv, TypeOK, Levels
  <2>2. Len(calls) \in Nat /\ DOMAIN calls = 1 .. Len(calls)
    BY LenProperties
  <2>3. ASSUME NEW i \in DOMAIN calls PROVE calls[i].isWrite \in BOOLEAN /\ calls[i].addr \in Reach
    <3>1. calls[i] \in ReachedCall
      BY <2>2, ElementOfSeq
    <3> QED BY <3>1 DEF ReachedCall
  <2>4. \A i \in DOMAIN calls : made[i] \in TypedCall
    BY <2>1, <2>3 DEF Sent, TypedCall, Payload, Nothing
  <2>5. made \in Seq(TypedCall)
    BY <2>2, <2>4
  <2>6. pending' = made \o Tail(pending)
    BY DEF Replace, NextLevel
  <2> HIDE DEF made
  <2> QED BY <2>5, <2>6, FrontReaches, ConcatProperties
<1> HIDE DEF TypedCall
<1>5. pending' \in Seq([level : 1 .. Depth + 1, addr : Reach, isWrite : BOOLEAN, data : Payload])
  BY <1>4 DEF TypedCall
<1>6. TypeOK'
  <2>1. /\ (cfgs \in Chains)' /\ (mem \in [reads : Nat, writes : Nat])'
        /\ (record \in Ops)' /\ (fed \in 0 .. MaxRecords)'
    BY DEF ReachInv, TypeOK
  <2>2. \A k \in Levels : CacheType(cfgs'[k], {BlockOf(cfgs'[k], a) : a \in Reach}, levels'[k])
    BY <1>3 DEF ReachedBlocks
  <2> HIDE DEF TypedCall
  <2> QED BY <1>1, <1>2, <1>5, <2>1, <2>2 DEF TypeOK
<1>7. ASSUME NEW k \in Levels PROVE HoldsReached(k, levels[k])'
  BY <1>1, <1>3 DEF HoldsReached
<1> QED
  BY <1>1, <1>6, <1>7

\* Lists of a few calls.
LEMMA ShortLists ==
  ASSUME NEW S
  PROVE  <<>> \in Seq(S) /\ \A x \in S : <<x>> \in Seq(S) /\ \A y \in S : <<x, y>> \in Seq(S)
OBVIOUS

\* A hit installs nothing and asks below for what it was asked itself.
LEMMA HitReaches ==
  ASSUME ReachInv, LevelHit
  PROVE  TypeOK' /\ \A k \in Levels' : HoldsReached(k, levels[k])'
<1> DEFINE l == Front.level
           g == cfgs[l]
           c == levels[l]
           x == BlockOf(g, Front.addr)
           d == AfterHit(g, c, Front.addr, Front.isWrite)
           calls == HitCalls(g, Front.addr, Front.isWrite)
<1>1. /\ pending # <<>> /\ l \in Levels /\ IsHit(g, c, x)
      /\ levels' = [levels EXCEPT ![l] = d] /\ Replace(calls, Front.data)
      /\ fresh' = [Aged EXCEPT ![l] = Put(@, Bytes(l, x))]
      /\ cfgs' = cfgs /\ mem' = mem /\ record' = record /\ fed' = fed
  BY DEF LevelHit
<1>2. /\ Constructible(g) /\ Front.addr \in Nat /\ Front.isWrite \in BOOLEAN
      /\ x \in ReachedBlocks(l) /\ CacheType(g, ReachedBlocks(l), c) /\ HoldsReached(l, c)
      /\ Front \in TypedCall /\ Aged \in [1 .. Depth + 1 -> SUBSET Addrs]
      /\ \A kept \in SUBSET Addrs : \A here : Put(kept, here) \in SUBSET Addrs
  BY <1>1, FrontReaches
<1>3. Front.addr \in Reach /\ Front.data \in Payload
  BY <1>2 DEF TypedCall
<1>4. CacheType(g, ReachedBlocks(l), d)
  BY <1>1, <1>2, HitType
<1>5. HoldsReached(l, d)
  <2> DEFINE s == SetOf(g, x)
             w == First(Matches(g, c, x))
  <2>1. /\ x \in Nat /\ s \in Sets(g) /\ w \in Ways(g)
        /\ c.lines \in [Sets(g) -> [Ways(g) -> Line]]
        /\ d.lines = [c.lines EXCEPT ![s][w].dirty = @ \/ (Front.isWrite /\ WritesBack(g))]
    <3>1. x \in Nat /\ s \in Sets(g)
      BY <1>2, BlockOfType, Decomposition
    <3>2. w \in Matches(g, c, x)
      BY <1>1, <1>2, MatchIsFrame
    <3>3. w \in Ways(g)
      BY <3>2 DEF Matches
    <3> QED BY <1>2, <3>1, <3>3 DEF CacheType, AfterHit
  <2> HIDE DEF g, x, s, w
  <2>2. \A t \in Sets(g), u \in Ways(g) :
          d.lines[t][u].valid = c.lines[t][u].valid /\ d.lines[t][u].tag = c.lines[t][u].tag
    <3> DEFINE old == c.lines
               new == d.lines
               mark == Front.isWrite /\ WritesBack(g)
    <3>1. /\ s \in Sets(g) /\ w \in Ways(g) /\ old \in [Sets(g) -> [Ways(g) -> Line]]
          /\ new = [old EXCEPT ![s][w].dirty = @ \/ mark]
      BY <2>1
    <3> HIDE DEF old, new, mark
    <3>2. \A t \in Sets(g), u \in Ways(g) :
            new[t][u].valid = old[t][u].valid /\ new[t][u].tag = old[t][u].tag
      BY <3>1 DEF Line
    <3> QED BY <3>2 DEF old, new
  <2>3. HoldsReached(l, c)
    BY <1>2
  <2> HIDE DEF c, d, l
  <2> QED BY <2>2, <2>3 DEF HoldsReached, g
<1>6. calls \in Seq(ReachedCall)
  <2> DEFINE y == Store(Front.addr)
  <2>1. y \in ReachedCall /\ (calls = <<y>> \/ calls = <<>>)
    BY <1>3 DEF HitCalls, Store, ReachedCall
  <2> HIDE DEF y, calls
  <2> QED BY <2>1, ShortLists, Zenon
<1>7. fresh' \in [1 .. Depth + 1 -> SUBSET Addrs]
  BY <1>1, <1>2
<1> HIDE DEF l, g, c, x, d, calls
<1> QED
  BY <1>1, <1>3, <1>4, <1>5, <1>6, <1>7, ServedReaches DEF l, g

\* Neither does a write-around.
LEMMA WriteAroundReaches ==
  ASSUME ReachInv, LevelWriteAround
  PROVE  TypeOK' /\ \A k \in Levels' : HoldsReached(k, levels[k])'
<1> DEFINE l == Front.level
           g == cfgs[l]
           c == levels[l]
           d == AfterWriteAround(g, c, Front.addr)
           calls == WriteAroundCalls(Front.addr)
<1>1. /\ pending # <<>> /\ l \in Levels
      /\ levels' = [levels EXCEPT ![l] = d] /\ Replace(calls, Front.data) /\ fresh' = Aged
      /\ cfgs' = cfgs /\ mem' = mem /\ record' = record /\ fed' = fed
  BY DEF LevelWriteAround
<1>2. /\ Constructible(g) /\ Front.addr \in Nat
      /\ BlockOf(g, Front.addr) \in ReachedBlocks(l)
      /\ CacheType(g, ReachedBlocks(l), c) /\ HoldsReached(l, c)
      /\ Front \in TypedCall /\ Aged \in [1 .. Depth + 1 -> SUBSET Addrs]
  BY <1>1, FrontReaches
<1>3. Front.addr \in Reach /\ Front.data \in Payload
  BY <1>2 DEF TypedCall
<1>4. CacheType(g, ReachedBlocks(l), d)
  BY <1>2, WriteAroundType
<1>5. HoldsReached(l, d)
  <2>1. d.lines = c.lines
    BY DEF AfterWriteAround
  <2> HIDE DEF d, g
  <2> QED BY <1>2, <2>1 DEF HoldsReached, g
<1>6. calls \in Seq(ReachedCall)
  BY <1>3 DEF WriteAroundCalls, Store, ReachedCall
<1> HIDE DEF l, g, c, d, calls
<1> QED
  BY <1>1, <1>2, <1>3, <1>4, <1>5, <1>6, ServedReaches DEF l, g

\* A fill installs the block it was asked for, and writes back one that was
\* installed before.
LEMMA FillReaches ==
  ASSUME ReachInv, LevelFill
  PROVE  TypeOK' /\ \A k \in Levels' : HoldsReached(k, levels[k])'
<1> DEFINE l == Front.level
           g == cfgs[l]
           c == levels[l]
           x == BlockOf(g, Front.addr)
           s == SetOf(g, x)
           gone(w) == FrameBytes(l, s, c.lines[s][w])
           stored(w) == IF WritesBack(g) THEN [bytes |-> gone(w), newest |-> gone(w) \cap fresh[l]]
                        ELSE Front.data
<1>1. /\ pending # <<>> /\ l \in Levels
      /\ cfgs' = cfgs /\ mem' = mem /\ record' = record /\ fed' = fed
  BY DEF LevelFill
<1>2. PICK w \in PickWays(g, c, s) :
        /\ levels' = [levels EXCEPT ![l] = AfterFill(g, @, Front.addr, Front.isWrite, w)]
        /\ Replace(FillCalls(g, c, Front.addr, Front.isWrite, w), stored(w))
        /\ fresh' = [Aged EXCEPT ![l] = Put((@ \ gone(w)) \cup ReadBelow(l, x), Bytes(l, x))]
  BY DEF LevelFill
<1> DEFINE d == AfterFill(g, c, Front.addr, Front.isWrite, w)
           calls == FillCalls(g, c, Front.addr, Front.isWrite, w)
           frame == c.lines[s][w]
           data == stored(w)
<1>3. /\ Constructible(g) /\ Front.addr \in Nat /\ Front.isWrite \in BOOLEAN
      /\ x \in ReachedBlocks(l) /\ CacheType(g, ReachedBlocks(l), c) /\ HoldsReached(l, c)
      /\ Front \in TypedCall /\ Aged \in [1 .. Depth + 1 -> SUBSET Addrs]
      /\ \A kept \in SUBSET Addrs : \A here : Put(kept, here) \in SUBSET Addrs
  BY <1>1, FrontReaches
<1>4. Front.addr \in Reach /\ Front.data \in Payload
  BY <1>3 DEF TypedCall
<1>5. w \in Ways(g) /\ x \in Nat /\ s \in Sets(g) /\ TagOf(g, x) * NumSets(g) + s = x
  BY <1>2, <1>3, PickIsWay, BlockOfType, Decomposition
<1>6. levels' = [levels EXCEPT ![l] = d]
  BY <1>2
<1>7. CacheType(g, ReachedBlocks(l), d)
  BY <1>3, <1>5, FillType
<1>8. HoldsReached(l, d)
  <2>1. /\ c.lines \in [Sets(g) -> [Ways(g) -> Line]]
        /\ d.lines = [c.lines EXCEPT ![s][w] = Installed(g, x, Front.isWrite)]
        /\ VictimBlock(g, Installed(g, x, Front.isWrite).tag, s) = x
    BY <1>3, <1>5, InstalledFields DEF CacheType, AfterFill, VictimBlock
  <2> HIDE DEF g, x, s, d, c
  <2>2. ASSUME NEW t \in Sets(g), NEW u \in Ways(g), d.lines[t][u].valid
        PROVE  VictimBlock(g, d.lines[t][u].tag, t) \in ReachedBlocks(l)
    <3>1. CASE t = s /\ u = w
      BY <1>3, <1>5, <2>1, <3>1
    <3>2. CASE ~(t = s /\ u = w)
      <4>1. d.lines[t][u] = c.lines[t][u]
        BY <1>5, <2>1, <3>2
      <4> QED BY <1>3, <2>2, <4>1 DEF HoldsReached, g
    <3> QED BY <3>1, <3>2
  <2> QED BY <2>2 DEF HoldsReached, g
<1>9. calls \in Seq(ReachedCall)
  <2> DEFINE victim == AddrOf(g, VictimBlock(g, frame.tag, s))
             y == Store(victim)
             z == Store(Front.addr)
             f == Load(Front.addr)
  <2>1. /\ MustWriteBack(g, frame) => calls = <<f, y>>
        /\ ~MustWriteBack(g, frame) /\ Front.isWrite /\ ~WritesBack(g) => calls = <<f, z>>
        /\ ~MustWriteBack(g, frame) /\ (~Front.isWrite \/ WritesBack(g)) => calls = <<f>>
    <3>1. Front.isWrite \in BOOLEAN
      BY <1>3
    <3> HIDE DEF g, c
    <3> QED BY <3>1, FillCallsCases
  <2>2. ASSUME MustWriteBack(g, frame) PROVE victim \in Reach
    <3>1. VictimBlock(g, frame.tag, s) \in ReachedBlocks(l)
      BY <1>3, <1>5, <2>2 DEF HoldsReached, MustWriteBack
    <3> QED BY <1>1, <3>1, ReachIsClosed DEF ReachInv, ChainInv
  <2>3. f \in ReachedCall /\ z \in ReachedCall /\ (MustWriteBack(g, frame) => y \in ReachedCall)
    BY <1>4, <2>2 DEF Load, Store, ReachedCall
  <2> HIDE DEF y, z, f, calls, frame, g
  <2>4. \/ y \in ReachedCall /\ calls = <<f, y>>
        \/ calls = <<f, z>>
        \/ calls = <<f>>
    BY <2>1, <2>3
  <2> QED BY <2>3, <2>4, ShortLists, Zenon
<1>10. data \in Payload /\ gone(w) \subseteq Addrs
  BY <1>4 DEF FrameBytes, Bytes, Payload
<1>11. fresh' \in [1 .. Depth + 1 -> SUBSET Addrs]
  <2>1. ReadBelow(l, x) \subseteq Addrs
    BY DEF ReadBelow, Bytes
  <2> DEFINE kept == (Aged[l] \ gone(w)) \cup ReadBelow(l, x)
  <2>2. l \in 1 .. Depth + 1
    BY <1>3 DEF TypedCall
  <2>3. kept \in SUBSET Addrs
    BY <1>3, <2>1, <2>2
  <2>4. Put(kept, Bytes(l, x)) \in SUBSET Addrs
    BY <1>3, <2>3
  <2>5. fresh' = [Aged EXCEPT ![l] = Put(kept, Bytes(l, x))]
    BY <1>2
  <2> HIDE DEF kept
  <2> QED BY <1>3, <2>4, <2>5
<1>12. Replace(calls, data)
  BY <1>2
<1> HIDE DEF l, g, c, x, s, d, calls, frame, data, gone, stored
<1> QED
  BY <1>1, <1>6, <1>7, <1>8, <1>9, <1>10, <1>11, <1>12, ServedReaches DEF l, g

\* Memory makes no calls.
LEMMA MemoryReaches ==
  ASSUME ReachInv, MemoryAccess
  PROVE  TypeOK' /\ \A k \in Levels' : HoldsReached(k, levels[k])'
<1>1. /\ pending # <<>> /\ Front.level = Depth + 1 /\ pending' = Tail(pending)
      /\ fresh' = [fresh EXCEPT ![Depth + 1] = Put(@, Addrs)]
      /\ cfgs' = cfgs /\ levels' = levels /\ record' = record /\ fed' = fed
  BY DEF MemoryAccess
<1>2. TypeOK /\ \A k \in Levels : HoldsReached(k, levels[k])
  BY DEF ReachInv
<1>3. /\ Depth' = Depth /\ Levels' = Levels /\ Reach' = Reach
      /\ \A k : ReachedBlocks(k)' = ReachedBlocks(k)
  BY <1>1 DEF Depth, Levels, Reach, ReachedBlocks
<1>4. /\ Front \in TypedCall /\ Tail(pending) \in Seq(TypedCall)
      /\ \A kept \in SUBSET Addrs : \A here : Put(kept, here) \in SUBSET Addrs
  BY <1>1, FrontReaches
<1>5. fresh' \in [1 .. Depth + 1 -> SUBSET Addrs]
  <2>1. fresh \in [1 .. Depth + 1 -> SUBSET Addrs] /\ Depth + 1 \in 1 .. Depth + 1
    BY <1>1, <1>2, <1>4 DEF TypeOK, TypedCall
  <2>2. Put(fresh[Depth + 1], Addrs) \in SUBSET Addrs
    BY <1>4, <2>1
  <2> QED BY <1>1, <2>1, <2>2
<1>6. mem' \in [reads : Nat, writes : Nat]
  BY MemoryKeepsLaws DEF ReachInv, ChainInv, MemoryCounts
<1>7. pending' \in Seq([level : 1 .. Depth + 1, addr : Reach, isWrite : BOOLEAN, data : Payload])
  BY <1>1, <1>4 DEF TypedCall
<1>8. /\ (cfgs \in Chains)' /\ (record \in Ops)' /\ (fed \in 0 .. MaxRecords)'
      /\ DOMAIN levels' = Levels
      /\ \A k \in Levels : CacheType(cfgs'[k], {BlockOf(cfgs'[k], a) : a \in Reach}, levels'[k])
  BY <1>1, <1>2 DEF TypeOK
<1>9. TypeOK'
  BY <1>3, <1>5, <1>6, <1>7, <1>8 DEF TypeOK
<1>10. ASSUME NEW k \in Levels PROVE HoldsReached(k, levels[k])'
  BY <1>1, <1>2, <1>3 DEF HoldsReached
<1> QED
  BY <1>3, <1>9, <1>10

\* A record asks L1 for an address of the trace.
LEMMA FeedReaches ==
  ASSUME ReachInv, NEW op \in Ops, NEW addr \in Addrs, Feed(op, addr)
  PROVE  TypeOK' /\ \A k \in Levels' : HoldsReached(k, levels[k])'
<1>1. /\ pending = <<>> /\ pending' = Expand(op, addr) /\ fed < MaxRecords
      /\ fed' = fed + 1 /\ record' = op
      /\ cfgs' = cfgs /\ levels' = levels /\ mem' = mem /\ fresh' = fresh
  BY DEF Feed
<1>2. TypeOK /\ \A k \in Levels : HoldsReached(k, levels[k])
  BY DEF ReachInv
<1>3. /\ Depth' = Depth /\ Levels' = Levels /\ Reach' = Reach
      /\ \A k : ReachedBlocks(k)' = ReachedBlocks(k)
  BY <1>1 DEF Depth, Levels, Reach, ReachedBlocks
<1>4. pending' \in Seq(TypedCall)
  <2> DEFINE x == CpuAccess(Load(addr))
             y == CpuAccess(Store(addr))
  <2>1. 1 \in 1 .. Depth + 1 /\ addr \in Reach
    BY <1>2, ChainOfCaches, ReachIsClosed DEF ReachInv, ChainInv
  <2>2. x \in TypedCall /\ y \in TypedCall
    BY <2>1 DEF TypedCall, CpuAccess, Sent, Load, Store, Payload, Nothing
  <2>3. pending' \in {<<x>>, <<y>>, <<x, y>>, <<>>}
    BY <1>1 DEF Expand, Ops
  <2> HIDE DEF x, y
  <2> QED BY <2>2, <2>3, ShortLists, Zenon
<1>5. pending' \in Seq([level : 1 .. Depth + 1, addr : Reach, isWrite : BOOLEAN, data : Payload])
  BY <1>4 DEF TypedCall
<1>6. (fed \in 0 .. MaxRecords)' /\ (record \in Ops)'
  BY <1>1, <1>2, MaxRecordsAssumption DEF TypeOK
<1>7. /\ (cfgs \in Chains)' /\ DOMAIN levels' = Levels /\ (mem \in [reads : Nat, writes : Nat])'
      /\ fresh' \in [1 .. Depth + 1 -> SUBSET Addrs]
      /\ \A k \in Levels : CacheType(cfgs'[k], {BlockOf(cfgs'[k], a) : a \in Reach}, levels'[k])
  BY <1>1, <1>2 DEF TypeOK
<1>8. TypeOK'
  BY <1>3, <1>5, <1>6, <1>7 DEF TypeOK
<1>9. ASSUME NEW k \in Levels PROVE HoldsReached(k, levels[k])'
  BY <1>1, <1>2, <1>3 DEF HoldsReached
<1> QED
  BY <1>3, <1>8, <1>9

\* Nothing was asked for, and nothing is held.
LEMMA ReachInit == Init => ReachInv
<1> SUFFICES ASSUME Init PROVE ReachInv
  OBVIOUS
<1>1. /\ cfgs \in Chains /\ levels = [l \in Levels |-> NewCache(cfgs[l])]
      /\ mem = [reads |-> 0, writes |-> 0] /\ pending = <<>> /\ record = "Instr" /\ fed = 0
      /\ fresh = [l \in 1 .. Depth + 1 |-> IF l > Depth THEN Addrs ELSE {}]
  BY DEF Init
<1>2. pending \in Seq([level : 1 .. Depth + 1, addr : Reach, isWrite : BOOLEAN, data : Payload])
  BY <1>1
<1>3. \A l \in Levels : /\ levels[l] = NewCache(cfgs[l])
                        /\ CacheType(cfgs[l], {BlockOf(cfgs[l], a) : a \in Reach}, levels[l])
  BY <1>1, NewCacheType
<1>4. fresh \in [1 .. Depth + 1 -> SUBSET Addrs]
  BY <1>1
<1>5. mem \in [reads : Nat, writes : Nat] /\ record \in Ops /\ fed \in 0 .. MaxRecords
  BY <1>1, MaxRecordsAssumption DEF Ops
<1>6. DOMAIN levels = Levels
  BY <1>1
<1>7. TypeOK
  BY <1>1, <1>2, <1>3, <1>4, <1>5, <1>6 DEF TypeOK
<1>8. \A l \in Levels : HoldsReached(l, levels[l])
  <2>1. \A g : \A s \in Sets(g), w \in Ways(g) : ~NewCache(g).lines[s][w].valid
    BY DEF NewCache, Empty
  <2> QED BY <1>3, <2>1 DEF HoldsReached
<1> QED
  BY <1>7, <1>8, ChainInit DEF ReachInv

\* Every step keeps the types, and asks no level for what it may not be asked.
LEMMA ReachStep == ReachInv /\ [Next]_vars => ReachInv'
<1> SUFFICES ASSUME ReachInv, [Next]_vars PROVE ReachInv'
  OBVIOUS
<1>1. ChainInv'
  BY ChainStep DEF ReachInv
<1>2. SUFFICES TypeOK' /\ \A k \in Levels' : HoldsReached(k, levels[k])'
  BY <1>1 DEF ReachInv
<1>3. ASSUME NEW op \in Ops, NEW addr \in Addrs, Feed(op, addr)
      PROVE  TypeOK' /\ \A k \in Levels' : HoldsReached(k, levels[k])'
  BY <1>3, FeedReaches
<1>4. CASE Serve
  BY <1>4, HitReaches, WriteAroundReaches, FillReaches, MemoryReaches DEF Serve
<1>5. CASE UNCHANGED vars
  <2>1. /\ cfgs' = cfgs /\ levels' = levels /\ mem' = mem /\ pending' = pending
        /\ record' = record /\ fed' = fed /\ fresh' = fresh
    BY <1>5 DEF vars
  <2>2. TypeOK /\ \A k \in Levels : HoldsReached(k, levels[k])
    BY DEF ReachInv
  <2>3. Depth' = Depth /\ Levels' = Levels /\ Reach' = Reach
    BY <2>1 DEF Depth, Levels, Reach
  <2>4. TypeOK'
    BY <2>1, <2>2, <2>3 DEF TypeOK
  <2>5. ASSUME NEW k \in Levels PROVE HoldsReached(k, levels[k])'
    <3>1. ReachedBlocks(k)' = ReachedBlocks(k)
      BY <2>1, <2>3 DEF ReachedBlocks
    <3> QED BY <2>1, <2>2, <3>1 DEF HoldsReached
  <2> QED BY <2>3, <2>4, <2>5
<1> QED
  BY <1>3, <1>4, <1>5 DEF Next

\* Every level of a chain stays a cache, and is asked for nothing but the
\* addresses of the trace and the starts of the blocks they lie in, however
\* often a victim's address is rebuilt on the way down.
THEOREM ChainTypes == Spec => []TypeOK
<1>1. ReachInv => TypeOK
  BY DEF ReachInv
<1> QED
  BY <1>1, ReachInit, ReachStep, PTL DEF Spec

-----------------------------------------------------------------------------
(* No level ever holds a block twice.                                      *)

SoundLevels == \A l \in Levels : SoundLines(cfgs[l], levels[l])

\* New caches hold nothing.
LEMMA NewLevelsAreSound == Init => SoundLevels
<1> SUFFICES ASSUME Init, NEW l \in Levels PROVE SoundLines(cfgs[l], levels[l])
  BY DEF SoundLevels
<1>1. Constructible(cfgs[l]) /\ levels[l] = NewCache(cfgs[l])
  BY ChainInit, ChainOfCaches DEF Init, ChainInv
<1> QED
  BY <1>1, NewCacheHolds

\* No access puts a block in two frames of its set, or makes a line dirty that
\* its level would not write back.
LEMMA LevelsStaySound ==
  ASSUME ChainInv, SoundLevels, [Next]_vars
  PROVE  SoundLevels'
<1> DEFINE l == Front.level
           g == cfgs[l]
           c == levels[l]
           x == BlockOf(g, Front.addr)
<1>1. ASSUME cfgs' = cfgs, levels' = levels PROVE SoundLevels'
  BY <1>1 DEF SoundLevels, Levels, Depth
<1>2. ASSUME cfgs' = cfgs, l \in Levels, NEW d, levels' = [levels EXCEPT ![l] = d],
             SoundLines(g, d)
      PROVE  SoundLevels'
  <2>1. /\ Levels' = Levels /\ levels'[l] = d
        /\ \A k \in Levels \ {l} : levels'[k] = levels[k]
    BY <1>2 DEF ChainInv, Levels, Depth
  <2> HIDE DEF l
  <2> QED BY <1>2, <2>1 DEF SoundLevels
<1>3. ASSUME pending # <<>>, l \in Levels
      PROVE  /\ Constructible(g) /\ CacheType(g, Nat, c) /\ SoundLines(g, c)
             /\ Front.addr \in Nat /\ Front.isWrite \in BOOLEAN
  <2>1. Front.addr \in Nat /\ Front.isWrite \in BOOLEAN
    BY <1>3, FrontCall DEF ChainInv
  <2>2. Constructible(g) /\ CacheType(g, Nat, c) /\ SoundLines(g, c)
    BY <1>3, ChainOfCaches DEF ChainInv, Healthy, SoundLevels
  <2> QED BY <2>1, <2>2
<1>4. CASE LevelHit
  <2> DEFINE d == AfterHit(g, c, Front.addr, Front.isWrite)
  <2>1. /\ pending # <<>> /\ l \in Levels /\ IsHit(g, c, x) /\ cfgs' = cfgs
        /\ levels' = [levels EXCEPT ![l] = d]
    BY <1>4 DEF LevelHit
  <2>2. SoundLines(g, d)
    BY <1>3, <2>1, HitHolds
  <2> HIDE DEF d, g, l
  <2> QED BY <1>2, <2>1, <2>2
<1>5. CASE LevelWriteAround
  <2> DEFINE d == AfterWriteAround(g, c, Front.addr)
  <2>1. /\ pending # <<>> /\ l \in Levels /\ cfgs' = cfgs
        /\ levels' = [levels EXCEPT ![l] = d]
    BY <1>5 DEF LevelWriteAround
  <2>2. SoundLines(g, d)
    BY <1>3, <2>1, WriteAroundHolds
  <2> HIDE DEF d, g, l
  <2> QED BY <1>2, <2>1, <2>2
<1>6. CASE LevelFill
  <2>1. PICK w \in PickWays(g, c, SetOf(g, x)) :
          levels' = [levels EXCEPT ![l] = AfterFill(g, @, Front.addr, Front.isWrite, w)]
    BY <1>6 DEF LevelFill
  <2> DEFINE d == AfterFill(g, c, Front.addr, Front.isWrite, w)
  <2>2. /\ pending # <<>> /\ l \in Levels /\ ~IsHit(g, c, x) /\ cfgs' = cfgs
        /\ levels' = [levels EXCEPT ![l] = d]
    BY <1>6, <2>1 DEF LevelFill
  <2>3. w \in Ways(g)
    BY <1>3, <2>2, PickIsWay
  <2>4. SoundLines(g, d)
    BY <1>3, <2>2, <2>3, FillHolds
  <2> HIDE DEF d, g, l
  <2> QED BY <1>2, <2>2, <2>4
<1>7. CASE MemoryAccess
  BY <1>1, <1>7 DEF MemoryAccess
<1>8. CASE \E op \in Ops, addr \in Addrs : Feed(op, addr)
  BY <1>1, <1>8 DEF Feed
<1>9. CASE UNCHANGED vars
  BY <1>1, <1>9 DEF vars
<1> QED
  BY <1>4, <1>5, <1>6, <1>7, <1>8, <1>9 DEF Next, Serve

-----------------------------------------------------------------------------
(* What a level does as a store of blocks.                                 *)

StoresInv == ReachInv /\ SoundLevels

HeldAt(k) == {x \in Nat : IsHit(cfgs[k], levels[k], x)}
OwedAt(k) == {x \in Nat : HasDirty(cfgs[k], levels[k], x)}

\* What a level contains is what its search finds.
LEMMA ContentsAreHeld ==
  ChainInv /\ SoundLevels =>
    \A k \in Levels : Contents(k) = HeldAt(k) /\ DirtyBlocks(k) = OwedAt(k)
<1> SUFFICES ASSUME ChainInv, SoundLevels, NEW k \in Levels
             PROVE  Contents(k) = HeldAt(k) /\ DirtyBlocks(k) = OwedAt(k)
  OBVIOUS
<1> DEFINE g == cfgs[k]
           c == levels[k]
           frames == Sets(g) \X Ways(g)
<1>1. Constructible(g) /\ CacheType(g, Nat, c) /\ SoundLines(g, c)
  BY ChainOfCaches DEF ChainInv, Healthy, SoundLevels
<1>2. /\ {BlockIn(g, c, f) : f \in {h \in frames : c.lines[h[1]][h[2]].valid}}
           = {x \in Nat : IsHit(g, c, x)}
      /\ {BlockIn(g, c, f) : f \in {h \in frames : c.lines[h[1]][h[2]].dirty}}
           = {x \in Nat : HasDirty(g, c, x)}
  <2> HIDE DEF g, c
  <2> QED BY <1>1, FramesHold
<1>3. \A f : HeldBlock(k, f) = BlockIn(g, c, f)
  BY DEF HeldBlock, BlockIn
<1>4. /\ Contents(k) = {BlockIn(g, c, f) : f \in {h \in frames : c.lines[h[1]][h[2]].valid}}
      /\ DirtyBlocks(k) = {BlockIn(g, c, f) : f \in {h \in frames : c.lines[h[1]][h[2]].dirty}}
  BY <1>3 DEF Contents, DirtyBlocks
<1> QED
  BY <1>2, <1>4 DEF HeldAt, OwedAt

PeersAt(k, b) == {x \in HeldAt(k) : SetOf(cfgs[k], x) = SetOf(cfgs[k], b)}

\* The block of a call is found, and a store marks it or is passed on.
FindsAt(k, b, isWrite) ==
  /\ b \in HeldAt(k) /\ HeldAt(k)' = HeldAt(k)
  /\ OwedAt(k)' = OwedAt(k) \cup (IF isWrite /\ WritesBack(cfgs[k]) THEN {b} ELSE {})
  /\ SentReads(k + 1)' = SentReads(k + 1)
  /\ SentWrites(k + 1)' = SentWrites(k + 1) + One(isWrite /\ ~WritesBack(cfgs[k]))

\* A store goes by.
PassesAt(k, b) ==
  /\ b \notin HeldAt(k) /\ ~WriteAllocates(cfgs[k])
  /\ HeldAt(k)' = HeldAt(k) /\ OwedAt(k)' = OwedAt(k)
  /\ SentReads(k + 1)' = SentReads(k + 1)
  /\ SentWrites(k + 1)' = SentWrites(k + 1) + 1

\* The block is brought in and those of gone leave.
BringsAt(k, b, isWrite, gone) ==
  /\ b \notin HeldAt(k) /\ (isWrite => WriteAllocates(cfgs[k]))
  /\ HeldAt(k)' = (HeldAt(k) \ gone) \cup {b}
  /\ OwedAt(k)' = (OwedAt(k) \ gone) \cup (IF isWrite /\ WritesBack(cfgs[k]) THEN {b} ELSE {})
  /\ SentReads(k + 1)' = SentReads(k + 1) + 1
  /\ SentWrites(k + 1)' = SentWrites(k + 1) + Cardinality(gone \cap OwedAt(k))
                                          + One(isWrite /\ ~WritesBack(cfgs[k]))

\* One call of a level, about some block.
StoreStep(k, b, isWrite) ==
  \/ FindsAt(k, b, isWrite)
  \/ PassesAt(k, b)
  \/ Cardinality(PeersAt(k, b)) < cfgs[k].associativity /\ BringsAt(k, b, isWrite, {})
  \/ /\ Cardinality(PeersAt(k, b)) = cfgs[k].associativity
     /\ \E x \in PeersAt(k, b) : BringsAt(k, b, isWrite, {x})

StoreStays(k) ==
  /\ HeldAt(k)' = HeldAt(k) /\ OwedAt(k)' = OwedAt(k)
  /\ SentReads(k + 1)' = SentReads(k + 1) /\ SentWrites(k + 1)' = SentWrites(k + 1)

\* A level that is not called stays as it is.
LEMMA OthersStay ==
  ASSUME ChainInv, NEW l \in Levels, l = Front.level, NEW d,
         levels' = [levels EXCEPT ![l] = d], cfgs' = cfgs,
         NEW loads, NEW stores, Sends(loads, stores)
  PROVE  /\ levels'[l] = d
         /\ SentReads(l + 1)' = SentReads(l + 1) + loads
         /\ SentWrites(l + 1)' = SentWrites(l + 1) + stores
         /\ \A k \in Levels \ {l} : StoreStays(k)
<1>1. levels'[l] = d /\ \A k \in Levels \ {l} : levels'[k] = levels[k]
  BY DEF ChainInv
<1>2. /\ SentReads(l + 1)' = SentReads(l + 1) + loads
      /\ SentWrites(l + 1)' = SentWrites(l + 1) + stores
  BY DEF Sends, Grows
<1>3. ASSUME NEW k \in Levels \ {l} PROVE StoreStays(k)
  <2>1. SentReads(k + 1) \in Nat /\ SentWrites(k + 1) \in Nat
    BY CountersAreNat
  <2>2. SentReads(k + 1)' = SentReads(k + 1) /\ SentWrites(k + 1)' = SentWrites(k + 1)
    BY <2>1 DEF Sends, Grows
  <2>3. HeldAt(k)' = HeldAt(k) /\ OwedAt(k)' = OwedAt(k)
    BY <1>1 DEF HeldAt, OwedAt
  <2> QED BY <2>2, <2>3 DEF StoreStays
<1> QED
  BY <1>1, <1>2, <1>3

\* The level that is called.
LEMMA CalledLevel ==
  ASSUME StoresInv, pending # <<>>, NEW l \in Levels, l = Front.level
  PROVE  LET g == cfgs[l]
             c == levels[l]
         IN  /\ ChainInv /\ Constructible(g) /\ CacheType(g, Nat, c) /\ SoundLines(g, c)
             /\ Front.addr \in Nat /\ Front.isWrite \in BOOLEAN /\ BlockOf(g, Front.addr) \in Nat
             /\ Front.addr \in EverReached
             /\ SentReads(l + 1) \in Nat /\ SentWrites(l + 1) \in Nat
<1>1. ChainInv /\ SoundLevels /\ TypeOK
  BY DEF StoresInv, ReachInv
<1>2. Front \in TypedCall /\ Front.addr \in Nat /\ Front.isWrite \in BOOLEAN
  BY FrontReaches DEF StoresInv
<1>3. Constructible(cfgs[l]) /\ CacheType(cfgs[l], Nat, levels[l]) /\ SoundLines(cfgs[l], levels[l])
  BY <1>1, ChainOfCaches DEF ChainInv, Healthy, SoundLevels
<1>4. Front.addr \in EverReached
  <2>1. Front.addr \in Reach
    BY <1>2 DEF TypedCall
  <2>2. cfgs \in Chains /\ Levels = DOMAIN cfgs
    BY <1>1, ChainOfCaches DEF TypeOK, ChainInv
  <2> QED BY <2>1, <2>2 DEF Reach, EverReached
<1> QED
  BY <1>1, <1>2, <1>3, <1>4, BlockOfType, CountersAreNat

\* A level whose cache is now d holds what d holds.
LEMMA HoldsNow ==
  ASSUME NEW l, cfgs' = cfgs, NEW d, levels'[l] = d
  PROVE  /\ HeldAt(l)' = {x \in Nat : IsHit(cfgs[l], d, x)}
         /\ OwedAt(l)' = {x \in Nat : HasDirty(cfgs[l], d, x)}
BY DEF HeldAt, OwedAt

\* A hit finds the block.
LEMMA HitFinds ==
  ASSUME StoresInv, LevelHit, NEW l, l = Front.level
  PROVE  /\ FindsAt(l, BlockOf(cfgs[l], Front.addr), Front.isWrite)
         /\ \A k \in Levels \ {l} : StoreStays(k)
<1> DEFINE g == cfgs[l]
           c == levels[l]
           b == BlockOf(g, Front.addr)
           d == AfterHit(g, c, Front.addr, Front.isWrite)
           stores == One(Front.isWrite /\ ~WritesBack(g))
<1>1. /\ pending # <<>> /\ l \in Levels /\ IsHit(g, c, b)
      /\ levels' = [levels EXCEPT ![l] = d] /\ cfgs' = cfgs
  BY DEF LevelHit
<1>2. /\ ChainInv /\ Constructible(g) /\ CacheType(g, Nat, c) /\ SoundLines(g, c)
      /\ Front.addr \in Nat /\ Front.isWrite \in BOOLEAN /\ b \in Nat
      /\ SentReads(l + 1) \in Nat
  BY <1>1, CalledLevel
<1>3. Sends(0, stores)
  BY <1>2, HitKeepsLaws
<1>4. \A x \in Nat :
        /\ IsHit(g, d, x) <=> IsHit(g, c, x)
        /\ HasDirty(g, d, x) <=> HasDirty(g, c, x) \/ (x = b /\ Front.isWrite /\ WritesBack(g))
  BY <1>1, <1>2, HitHolds
<1> HIDE DEF d, stores
<1>5. /\ levels'[l] = d
      /\ SentReads(l + 1)' = SentReads(l + 1) + 0
      /\ SentWrites(l + 1)' = SentWrites(l + 1) + stores
      /\ \A k \in Levels \ {l} : StoreStays(k)
  BY <1>1, <1>2, <1>3, OthersStay
<1>6. /\ HeldAt(l)' = {x \in Nat : IsHit(g, d, x)}
      /\ OwedAt(l)' = {x \in Nat : HasDirty(g, d, x)}
  BY <1>1, <1>5, HoldsNow
<1>7. b \in HeldAt(l) /\ HeldAt(l)' = HeldAt(l)
  BY <1>1, <1>2, <1>4, <1>6 DEF HeldAt
<1>8. OwedAt(l)' = OwedAt(l) \cup (IF Front.isWrite /\ WritesBack(g) THEN {b} ELSE {})
  BY <1>2, <1>4, <1>6 DEF OwedAt
<1>9. SentReads(l + 1)' = SentReads(l + 1)
  BY <1>2, <1>5
<1> QED
  BY <1>5, <1>7, <1>8, <1>9 DEF FindsAt, stores

\* A store that goes around passes by.
LEMMA WriteAroundPasses ==
  ASSUME StoresInv, LevelWriteAround, NEW l, l = Front.level
  PROVE  /\ PassesAt(l, BlockOf(cfgs[l], Front.addr))
         /\ \A k \in Levels \ {l} : StoreStays(k)
<1> DEFINE g == cfgs[l]
           c == levels[l]
           b == BlockOf(g, Front.addr)
           d == AfterWriteAround(g, c, Front.addr)
<1>1. /\ pending # <<>> /\ l \in Levels /\ ~IsHit(g, c, b) /\ ~WriteAllocates(g)
      /\ levels' = [levels EXCEPT ![l] = d] /\ cfgs' = cfgs
  BY DEF LevelWriteAround
<1>2. ChainInv /\ SoundLines(g, c) /\ SentReads(l + 1) \in Nat
  BY <1>1, CalledLevel
<1>3. Sends(0, 1)
  BY <1>2, WriteAroundKeepsLaws
<1>4. \A x : (IsHit(g, d, x) <=> IsHit(g, c, x)) /\ (HasDirty(g, d, x) <=> HasDirty(g, c, x))
  BY <1>2, WriteAroundHolds
<1> HIDE DEF d
<1>5. /\ levels'[l] = d
      /\ SentReads(l + 1)' = SentReads(l + 1) + 0
      /\ SentWrites(l + 1)' = SentWrites(l + 1) + 1
      /\ \A k \in Levels \ {l} : StoreStays(k)
  BY <1>1, <1>2, <1>3, OthersStay
<1>6. /\ HeldAt(l)' = {x \in Nat : IsHit(g, d, x)}
      /\ OwedAt(l)' = {x \in Nat : HasDirty(g, d, x)}
  BY <1>1, <1>5, HoldsNow
<1>7. /\ b \notin HeldAt(l) /\ HeldAt(l)' = HeldAt(l) /\ OwedAt(l)' = OwedAt(l)
      /\ SentReads(l + 1)' = SentReads(l + 1)
  BY <1>1, <1>2, <1>4, <1>5, <1>6 DEF HeldAt, OwedAt
<1> QED
  BY <1>1, <1>5, <1>7 DEF PassesAt

\* A fill brings the block in, and with a full set one of its blocks leaves.
LEMMA FillBrings ==
  ASSUME StoresInv, LevelFill, NEW l, l = Front.level
  PROVE  LET b == BlockOf(cfgs[l], Front.addr)
         IN  /\ \/ /\ Cardinality(PeersAt(l, b)) < cfgs[l].associativity
                   /\ BringsAt(l, b, Front.isWrite, {})
                \/ /\ Cardinality(PeersAt(l, b)) = cfgs[l].associativity
                   /\ \E x \in PeersAt(l, b) : BringsAt(l, b, Front.isWrite, {x})
             /\ \A k \in Levels \ {l} : StoreStays(k)
<1> DEFINE g == cfgs[l]
           c == levels[l]
           b == BlockOf(g, Front.addr)
           s == SetOf(g, b)
           marks == Front.isWrite /\ WritesBack(g)
           forwarded == Front.isWrite /\ ~WritesBack(g)
<1>1. /\ pending # <<>> /\ l \in Levels /\ ~IsHit(g, c, b) /\ cfgs' = cfgs
      /\ Front.isWrite => WriteAllocates(g)
  BY DEF LevelFill
<1>2. /\ ChainInv /\ Constructible(g) /\ CacheType(g, Nat, c) /\ SoundLines(g, c)
      /\ Front.addr \in Nat /\ Front.isWrite \in BOOLEAN /\ b \in Nat
      /\ SentReads(l + 1) \in Nat /\ SentWrites(l + 1) \in Nat
  BY <1>1, CalledLevel
<1>3. PICK w \in PickWays(g, c, s) :
        /\ levels' = [levels EXCEPT ![l] = AfterFill(g, c, Front.addr, Front.isWrite, w)]
        /\ Sends(1, One(MustWriteBack(g, c.lines[s][w]) \/ forwarded))
  BY <1>2, FillKeepsLaws
<1> DEFINE d == AfterFill(g, c, Front.addr, Front.isWrite, w)
           frame == c.lines[s][w]
           wb == MustWriteBack(g, frame)
           stores == One(wb \/ forwarded)
           gone == {x \in Nat : Leaving(g, frame, s, x)}
<1>4. /\ w \in Ways(g) /\ s \in Sets(g) /\ frame \in Line
      /\ frame.valid <=> EmptyWays(g, c, s) = {}
  BY <1>2, PickTakesEmpty, Decomposition DEF CacheType
<1>5. \A x \in Nat :
        /\ x \in gone => x # b /\ IsHit(g, c, x) /\ (HasDirty(g, c, x) <=> frame.dirty)
        /\ IsHit(g, d, x) <=> x = b \/ (IsHit(g, c, x) /\ x \notin gone)
        /\ HasDirty(g, d, x) <=> (x = b /\ marks) \/ (HasDirty(g, c, x) /\ x \notin gone)
  <2>1. \A x \in Nat :
          /\ Leaving(g, frame, s, x) =>
               x # b /\ IsHit(g, c, x) /\ (HasDirty(g, c, x) <=> frame.dirty)
          /\ IsHit(g, d, x) <=> x = b \/ (IsHit(g, c, x) /\ ~Leaving(g, frame, s, x))
          /\ HasDirty(g, d, x) <=>
               \/ x = b /\ Front.isWrite /\ WritesBack(g)
               \/ HasDirty(g, c, x) /\ ~Leaving(g, frame, s, x)
    BY <1>1, <1>2, <1>4, FillHolds
  <2> QED BY <2>1
<1>6. frame.dirty => frame.valid /\ WritesBack(g)
  BY <1>4, <1>2 DEF SoundLines
<1>7. /\ frame.valid => \E x \in Nat : gone = {x} /\ SetOf(g, x) = s
      /\ ~frame.valid => gone = {}
  <2>1. frame.tag * NumSets(g) + s \in Nat /\ SetOf(g, frame.tag * NumSets(g) + s) = s
    BY <1>2, <1>4, Recomposition DEF Line
  <2> QED BY <2>1 DEF Leaving
<1>8. SetBlocks(g, c, s) = PeersAt(l, b)
  BY DEF SetBlocks, PeersAt, HeldAt
<1>9. IF frame.valid THEN Cardinality(PeersAt(l, b)) = g.associativity
                     ELSE Cardinality(PeersAt(l, b)) < g.associativity
  <2>1. /\ Cardinality(PeersAt(l, b)) \in Nat /\ Cardinality(PeersAt(l, b)) <= g.associativity
        /\ Cardinality(PeersAt(l, b)) = g.associativity <=> EmptyWays(g, c, s) = {}
    BY <1>2, <1>4, <1>8, BlocksInSet
  <2>2. g.associativity \in Nat
    BY <1>2, GeometryType
  <2> QED BY <1>4, <2>1, <2>2
<1>10. Sends(1, stores) /\ levels' = [levels EXCEPT ![l] = d]
  BY <1>3
<1> HIDE DEF d, stores
<1>11. /\ levels'[l] = d
       /\ SentReads(l + 1)' = SentReads(l + 1) + 1
       /\ SentWrites(l + 1)' = SentWrites(l + 1) + stores
       /\ \A k \in Levels \ {l} : StoreStays(k)
  BY <1>1, <1>2, <1>10, OthersStay
<1>12. /\ HeldAt(l)' = {x \in Nat : IsHit(g, d, x)}
       /\ OwedAt(l)' = {x \in Nat : HasDirty(g, d, x)}
  BY <1>1, <1>11, HoldsNow
<1> HIDE DEF gone, frame, marks
<1>13. b \notin HeldAt(l) /\ HeldAt(l)' = (HeldAt(l) \ gone) \cup {b}
  BY <1>1, <1>2, <1>5, <1>12 DEF HeldAt
<1>14. OwedAt(l)' = (OwedAt(l) \ gone) \cup (IF marks THEN {b} ELSE {})
  BY <1>2, <1>5, <1>12 DEF OwedAt
<1>15. Cardinality(gone \cap OwedAt(l)) = One(frame.dirty)
  <2>1. CASE frame.dirty
    <3>1. PICK x \in Nat : gone = {x}
      BY <1>6, <1>7, <2>1
    <3>2. x \in OwedAt(l)
      BY <1>5, <2>1, <3>1 DEF OwedAt
    <3>3. gone \cap OwedAt(l) = {x}
      BY <3>1, <3>2
    <3> QED BY <2>1, <3>3, FS_Singleton DEF One
  <2>2. CASE ~frame.dirty
    <3>1. gone \cap OwedAt(l) = {}
      BY <1>5, <2>2 DEF OwedAt
    <3> QED BY <2>2, <3>1, FS_EmptySet DEF One
  <2> QED BY <2>1, <2>2
<1>16. stores = One(frame.dirty) + One(forwarded)
  <2>1. wb <=> frame.dirty
    BY <1>4, <1>6 DEF MustWriteBack, Line
  <2>2. frame.dirty => ~forwarded
    BY <1>6
  <2> HIDE DEF wb, forwarded
  <2> QED BY <2>1, <2>2 DEF stores, One
<1>17. SentWrites(l + 1)' = SentWrites(l + 1) + Cardinality(gone \cap OwedAt(l)) + One(forwarded)
  <2>1. One(frame.dirty) \in Nat /\ One(forwarded) \in Nat
    BY DEF One
  <2> HIDE DEF forwarded
  <2> QED BY <1>2, <1>11, <1>15, <1>16, <2>1
<1>18. BringsAt(l, b, Front.isWrite, gone)
  BY <1>1, <1>11, <1>13, <1>14, <1>17 DEF BringsAt, marks
<1>19. CASE frame.valid
  <2>1. PICK x \in Nat : gone = {x} /\ SetOf(g, x) = s
    BY <1>7, <1>19
  <2>2. x \in PeersAt(l, b)
    BY <1>5, <2>1 DEF PeersAt, HeldAt
  <2> QED BY <1>9, <1>11, <1>18, <1>19, <2>1, <2>2
<1>20. CASE ~frame.valid
  <2>1. gone = {}
    BY <1>7, <1>20
  <2> QED BY <1>9, <1>11, <1>18, <1>20, <2>1
<1> QED
  BY <1>19, <1>20

\* Every step of the chain is, at every level, a call of that level or none.
LEMMA LevelSteps ==
  ASSUME StoresInv, Next
  PROVE  /\ cfgs' = cfgs
         /\ \A k \in Levels :
              \/ StoreStays(k)
              \/ \E a \in EverReached, isWrite \in BOOLEAN :
                   StoreStep(k, BlockOf(cfgs[k], a), isWrite)
<1>1. cfgs' = cfgs /\ ChainInv
  BY DEF Next, Serve, Feed, LevelHit, LevelWriteAround, LevelFill, MemoryAccess,
         StoresInv, ReachInv
<1>2. ASSUME levels' = levels, SendsNothing, NEW k \in Levels PROVE StoreStays(k)
  BY <1>1, <1>2 DEF SendsNothing, StoreStays, HeldAt, OwedAt
<1>3. ASSUME NEW op \in Ops, NEW addr \in Addrs, Feed(op, addr)
      PROVE  levels' = levels /\ SendsNothing
  BY <1>1, <1>3, FeedKeepsLaws DEF Feed
<1>4. ASSUME MemoryAccess PROVE levels' = levels /\ SendsNothing
  <2>1. Sends(0, 0) /\ levels' = levels
    BY <1>1, <1>4, MemoryKeepsLaws DEF MemoryAccess
  <2>2. \A k \in Levels : SentReads(k + 1) \in Nat /\ SentWrites(k + 1) \in Nat
    BY <1>1, CountersAreNat
  <2> QED BY <2>1, <2>2 DEF Sends, Grows, SendsNothing
<1>5. ASSUME LevelHit \/ LevelWriteAround \/ LevelFill, NEW k \in Levels, k # Front.level
      PROVE  StoreStays(k)
  BY <1>5, HitFinds, WriteAroundPasses, FillBrings
<1>6. ASSUME LevelHit \/ LevelWriteAround \/ LevelFill, NEW k \in Levels, k = Front.level
      PROVE  \E a \in EverReached, isWrite \in BOOLEAN :
               StoreStep(k, BlockOf(cfgs[k], a), isWrite)
  <2>1. Front.addr \in EverReached /\ Front.isWrite \in BOOLEAN
    <3>1. pending # <<>>
      BY <1>6 DEF LevelHit, LevelWriteAround, LevelFill
    <3> QED BY <1>6, <3>1, CalledLevel
  <2>2. StoreStep(k, BlockOf(cfgs[k], Front.addr), Front.isWrite)
    BY <1>6, HitFinds, WriteAroundPasses, FillBrings DEF StoreStep
  <2> QED BY <2>1, <2>2
<1> QED
  BY <1>1, <1>2, <1>3, <1>4, <1>5, <1>6 DEF Next, Serve

\* Every step keeps what the levels are as stores.
LEMMA StoresStep == StoresInv /\ [Next]_vars => StoresInv'
<1> SUFFICES ASSUME StoresInv, [Next]_vars PROVE StoresInv'
  OBVIOUS
<1> QED
  BY ReachStep, LevelsStaySound DEF StoresInv, ReachInv

-----------------------------------------------------------------------------
(* The first two levels, as the abstract store sees them.                  *)

\* It computes with the same geometry.
LEMMA SameGeometry ==
  ASSUME NEW g, NEW b
  PROVE  /\ L1!SetOf(g, b) = SetOf(g, b) /\ L1!BlockOf(g, b) = BlockOf(g, b)
         /\ L1!WritesBack(g) = WritesBack(g) /\ L1!WriteAllocates(g) = WriteAllocates(g)
         /\ L2!SetOf(g, b) = SetOf(g, b) /\ L2!BlockOf(g, b) = BlockOf(g, b)
         /\ L2!WritesBack(g) = WritesBack(g) /\ L2!WriteAllocates(g) = WriteAllocates(g)
BY DEF L1!SetOf, SetOf, L1!NumSets, NumSets, L1!BlockOf, BlockOf,
       L1!WritesBack, WritesBack, L1!WriteAllocates, WriteAllocates,
       L2!SetOf, L2!NumSets, L2!BlockOf, L2!WritesBack, L2!WriteAllocates

\* It starts from the checks of the constructor.
LEMMA SameConstructible ==
  ASSUME NEW g, Constructible(g)
  PROVE  L1!Constructible(g) /\ L2!Constructible(g)
<1>1. L1!Constructible(g)
  BY DEF Constructible, L1!Constructible, ConfigType, L1!ConfigType,
         IsPow2, L1!IsPow2, NumSets, L1!NumSets, Replacements, L1!Replacements,
         WritePolicies, L1!WritePolicies, AllocPolicies, L1!AllocPolicies
<1>2. L2!Constructible(g)
  BY DEF Constructible, L2!Constructible, ConfigType, L2!ConfigType,
         IsPow2, L2!IsPow2, NumSets, L2!NumSets, Replacements, L2!Replacements,
         WritePolicies, L2!WritePolicies, AllocPolicies, L2!AllocPolicies
<1> QED
  BY <1>1, <1>2

\* It counts as they do.
LEMMA SameCardinality ==
  \A S : L1!Cardinality(S) = Cardinality(S) /\ L2!Cardinality(S) = Cardinality(S)
BY DEF L1!Cardinality, L2!Cardinality, Cardinality

\* A new level is an empty store.
LEMMA NewLevelIsEmpty ==
  ASSUME Init, NEW k \in Levels
  PROVE  /\ Constructible(cfgs[k]) /\ Contents(k) = {} /\ DirtyBlocks(k) = {}
         /\ SentReads(k + 1) = 0 /\ SentWrites(k + 1) = 0
<1>1. ChainInv /\ SoundLevels
  BY ChainInit, NewLevelsAreSound
<1>2. Constructible(cfgs[k]) /\ levels[k] = NewCache(cfgs[k])
  BY <1>1, ChainOfCaches DEF Init, ChainInv
<1>3. HeldAt(k) = {} /\ OwedAt(k) = {}
  BY <1>2, NewCacheHolds DEF HeldAt, OwedAt
<1>4. Contents(k) = {} /\ DirtyBlocks(k) = {}
  BY <1>1, <1>3, ContentsAreHeld
<1>5. SentReads(k + 1) = 0 /\ SentWrites(k + 1) = 0
  <2>1. /\ Depth \in Nat /\ k \in Nat /\ (k + 1 > Depth \/ k + 1 \in Levels)
    BY <1>1, ChainOfCaches DEF ChainInv, Levels
  <2>2. \A l \in Levels : levels[l].stats["reads"] = 0 /\ levels[l].stats["writes"] = 0
    BY DEF Init, NewCache, Counters
  <2>3. Reads(k + 1) = 0 /\ Writes(k + 1) = 0
    BY <2>1, <2>2 DEF Init, Reads, Writes
  <2>4. \A isWrite : InFlight(k + 1, isWrite) = 0
    BY CountOfNone, InFlightIsCount DEF Init
  <2> DEFINE load == FALSE
             store == TRUE
  <2>5. /\ SentReads(k + 1) = Reads(k + 1) + InFlight(k + 1, load)
        /\ SentWrites(k + 1) = Writes(k + 1) + InFlight(k + 1, store)
    BY DEF SentReads, SentWrites
  <2> HIDE DEF load, store
  <2> QED BY <2>3, <2>4, <2>5
<1> QED
  BY <1>2, <1>4, <1>5

\* So it does after a step.
LEMMA ContentsAreHeldNext ==
  (ChainInv /\ SoundLevels)' =>
    (\A k \in Levels : Contents(k) = HeldAt(k) /\ DirtyBlocks(k) = OwedAt(k))'
BY ContentsAreHeld, PTL

\* What the names of the abstract store stand for, before and after a step.
LEMMA ContentsNow ==
  ASSUME StoresInv, [Next]_vars, NEW k \in Levels
  PROVE  /\ Contents(k) = HeldAt(k) /\ DirtyBlocks(k) = OwedAt(k)
         /\ Contents(k)' = HeldAt(k)' /\ DirtyBlocks(k)' = OwedAt(k)'
         /\ SentReads(k + 1) \in Nat /\ SentWrites(k + 1) \in Nat

<1>1. /\ ChainInv /\ SoundLevels /\ ChainInv' /\ SoundLevels'
  BY ChainStep, LevelsStaySound DEF StoresInv, ReachInv
<1>2. Levels' = Levels
  BY LevelSteps DEF Levels, Depth, vars
<1>3. (\A l \in Levels : Contents(l) = HeldAt(l) /\ DirtyBlocks(l) = OwedAt(l))'
  BY <1>1, ContentsAreHeldNext
<1>4. \A l \in Levels : Contents(l)' = HeldAt(l)' /\ DirtyBlocks(l)' = OwedAt(l)'
  BY <1>2, <1>3
<1> QED
  BY <1>1, <1>4, ContentsAreHeld, CountersAreNat

\* One step of the first level is a step of the store it should be.
LEMMA FirstLevelMaps ==
  ASSUME StoresInv, Next, 1 \in Levels
  PROVE  [L1!Next]_(L1!vars)
<1> DEFINE g == cfgs[1]
<1>1. /\ cfgs' = cfgs
      /\ \/ StoreStays(1)
         \/ \E a \in EverReached, isWrite \in BOOLEAN : StoreStep(1, BlockOf(g, a), isWrite)
  BY LevelSteps
<1>2. /\ Contents(1) = HeldAt(1) /\ DirtyBlocks(1) = OwedAt(1)
      /\ Contents(1)' = HeldAt(1)' /\ DirtyBlocks(1)' = OwedAt(1)'
      /\ SentReads(2) \in Nat /\ SentWrites(2) \in Nat
      /\ SentReads(1 + 1) = SentReads(2) /\ SentWrites(1 + 1) = SentWrites(2)
      /\ SentReads(1 + 1)' = SentReads(2)' /\ SentWrites(1 + 1)' = SentWrites(2)'
  BY ContentsNow
<1>3. CASE StoreStays(1)
  BY <1>1, <1>2, <1>3 DEF StoreStays, L1!vars
<1>4. ASSUME NEW a \in EverReached, NEW isWrite \in BOOLEAN, NEW b, b = BlockOf(g, a),
             StoreStep(1, b, isWrite)
      PROVE  L1!Next
  <2>1. b \in {L1!BlockOf(g, x) : x \in EverReached}
    BY <1>4, SameGeometry
  <2>2. L1!Peers(b) = PeersAt(1, b)
    BY <1>2, SameGeometry DEF L1!Peers, PeersAt
  <2>3. ASSUME FindsAt(1, b, isWrite) PROVE L1!Find(b, isWrite)
    <3>1. /\ b \in Contents(1) /\ Contents(1)' = Contents(1)
          /\ SentReads(2)' = SentReads(2)
      BY <1>2, <2>3 DEF FindsAt
    <3>2. DirtyBlocks(1)' = IF isWrite /\ WritesBack(g) THEN DirtyBlocks(1) \cup {b}
                                                       ELSE DirtyBlocks(1)
      BY <1>2, <2>3 DEF FindsAt
    <3>3. SentWrites(2)' = IF isWrite /\ ~WritesBack(g) THEN SentWrites(2) + 1
                                                       ELSE SentWrites(2)
      BY <1>2, <2>3 DEF FindsAt, One
    <3> QED
      BY <1>1, <3>1, <3>2, <3>3, SameGeometry DEF L1!Find
  <2>4. ASSUME PassesAt(1, b) PROVE L1!PassBy(b)
    BY <1>1, <1>2, <2>4, SameGeometry DEF PassesAt, L1!PassBy
  <2>5. ASSUME NEW gone, BringsAt(1, b, isWrite, gone) PROVE L1!Bring(b, isWrite, gone)
    BY <1>1, <1>2, <2>5, SameGeometry, SameCardinality DEF BringsAt, L1!Bring, One
  <2>6. \/ L1!Find(b, isWrite) \/ L1!PassBy(b)
        \/ L1!BringToRoom(b, isWrite) \/ L1!BringToFullSet(b, isWrite)
    BY <1>4, <2>2, <2>3, <2>4, <2>5, SameCardinality
       DEF StoreStep, L1!BringToRoom, L1!BringToFullSet
  <2> QED BY <2>1, <2>6 DEF L1!Next
<1> QED
  BY <1>1, <1>3, <1>4

\* One step of the second level is a step of the store it should be.
LEMMA SecondLevelMaps ==
  ASSUME StoresInv, Next, 2 \in Levels
  PROVE  [L2!Next]_(L2!vars)
<1> DEFINE g == cfgs[2]
<1>1. /\ cfgs' = cfgs
      /\ \/ StoreStays(2)
         \/ \E a \in EverReached, isWrite \in BOOLEAN : StoreStep(2, BlockOf(g, a), isWrite)
  BY LevelSteps
<1>2. /\ Contents(2) = HeldAt(2) /\ DirtyBlocks(2) = OwedAt(2)
      /\ Contents(2)' = HeldAt(2)' /\ DirtyBlocks(2)' = OwedAt(2)'
      /\ SentReads(3) \in Nat /\ SentWrites(3) \in Nat
      /\ SentReads(2 + 1) = SentReads(3) /\ SentWrites(2 + 1) = SentWrites(3)
      /\ SentReads(2 + 1)' = SentReads(3)' /\ SentWrites(2 + 1)' = SentWrites(3)'
  BY ContentsNow
<1>3. CASE StoreStays(2)
  BY <1>1, <1>2, <1>3 DEF StoreStays, L2!vars
<1>4. ASSUME NEW a \in EverReached, NEW isWrite \in BOOLEAN, NEW b, b = BlockOf(g, a),
             StoreStep(2, b, isWrite)
      PROVE  L2!Next
  <2>1. b \in {L2!BlockOf(g, x) : x \in EverReached}
    BY <1>4, SameGeometry
  <2>2. L2!Peers(b) = PeersAt(2, b)
    BY <1>2, SameGeometry DEF L2!Peers, PeersAt
  <2>3. ASSUME FindsAt(2, b, isWrite) PROVE L2!Find(b, isWrite)
    <3>1. /\ b \in Contents(2) /\ Contents(2)' = Contents(2)
          /\ SentReads(3)' = SentReads(3)
      BY <1>2, <2>3 DEF FindsAt
    <3>2. DirtyBlocks(2)' = IF isWrite /\ WritesBack(g) THEN DirtyBlocks(2) \cup {b}
                                                       ELSE DirtyBlocks(2)
      BY <1>2, <2>3 DEF FindsAt
    <3>3. SentWrites(3)' = IF isWrite /\ ~WritesBack(g) THEN SentWrites(3) + 1
                                                       ELSE SentWrites(3)
      BY <1>2, <2>3 DEF FindsAt, One
    <3> QED
      BY <1>1, <3>1, <3>2, <3>3, SameGeometry DEF L2!Find
  <2>4. ASSUME PassesAt(2, b) PROVE L2!PassBy(b)
    BY <1>1, <1>2, <2>4, SameGeometry DEF PassesAt, L2!PassBy
  <2>5. ASSUME NEW gone, BringsAt(2, b, isWrite, gone) PROVE L2!Bring(b, isWrite, gone)
    BY <1>1, <1>2, <2>5, SameGeometry, SameCardinality DEF BringsAt, L2!Bring, One
  <2>6. \/ L2!Find(b, isWrite) \/ L2!PassBy(b)
        \/ L2!BringToRoom(b, isWrite) \/ L2!BringToFullSet(b, isWrite)
    BY <1>4, <2>2, <2>3, <2>4, <2>5, SameCardinality
       DEF StoreStep, L2!BringToRoom, L2!BringToFullSet
  <2> QED BY <2>1, <2>6 DEF L2!Next
<1> QED
  BY <1>1, <1>3, <1>4

\* An initial chain is two empty stores.
LEMMA LevelsBegin ==
  ASSUME Init
  PROVE  (1 \in Levels => L1!Init) /\ (2 \in Levels => L2!Init)
<1>1. SentReads(1 + 1) = SentReads(2) /\ SentWrites(1 + 1) = SentWrites(2)
      /\ SentReads(2 + 1) = SentReads(3) /\ SentWrites(2 + 1) = SentWrites(3)
  OBVIOUS
<1>2. ASSUME 1 \in Levels PROVE L1!Init
  BY <1>1, <1>2, NewLevelIsEmpty, SameConstructible DEF L1!Init
<1>3. ASSUME 2 \in Levels PROVE L2!Init
  BY <1>1, <1>3, NewLevelIsEmpty, SameConstructible DEF L2!Init
<1> QED
  BY <1>2, <1>3

\* A chain of which the second level exists.
LEMMA TwoLevels ==
  ASSUME StoresInv
  PROVE  1 \in Levels /\ ((\A ch \in Chains : Len(ch) >= 2) => 2 \in Levels)
<1>1. Depth \in Nat \ {0} /\ cfgs \in Chains
  BY ChainOfCaches DEF StoresInv, ReachInv, ChainInv, TypeOK
<1> QED
  BY <1>1 DEF Levels, Depth

\* A new chain is one of stores.
LEMMA StoresInit == Init => StoresInv
BY ReachInit, NewLevelsAreSound DEF StoresInv

\* A step of no chain variable is a step of no store.
LEMMA StoresStutter ==
  UNCHANGED vars => UNCHANGED L1!vars /\ UNCHANGED L2!vars
<1> SUFFICES ASSUME UNCHANGED vars PROVE UNCHANGED L1!vars /\ UNCHANGED L2!vars
  OBVIOUS
<1>1. cfgs' = cfgs /\ levels' = levels /\ mem' = mem /\ pending' = pending
  BY DEF vars
<1>2. \A k : Contents(k)' = Contents(k) /\ DirtyBlocks(k)' = DirtyBlocks(k)
  BY <1>1 DEF Contents, DirtyBlocks, HeldBlock
<1>3. \A k : Reads(k)' = Reads(k) /\ Writes(k)' = Writes(k)
  BY <1>1 DEF Reads, Writes, Depth
<1>4. \A k, isWrite : InFlight(k, isWrite)' = InFlight(k, isWrite)
  BY <1>1, InFlightIsCount
<1>5. \A k : SentReads(k)' = SentReads(k) /\ SentWrites(k)' = SentWrites(k)
  BY <1>3, <1>4 DEF SentReads, SentWrites
<1> QED
  BY <1>1, <1>2, <1>5 DEF L1!vars, L2!vars

\* The first level of every chain is, over whatever levels lie below it, the
\* store a cache alone over memory is: the calls it makes count from the moment
\* it makes them, and nothing the levels below do with them, in the middle of
\* its access, changes what it holds or owes.
THEOREM FirstLevelIsStore == Spec => L1!Spec
<1>1. Init => L1!Init
  BY StoresInit, TwoLevels, LevelsBegin
<1>2. StoresInv /\ [Next]_vars => [L1!Next]_(L1!vars)
  <2> SUFFICES ASSUME StoresInv, [Next]_vars PROVE [L1!Next]_(L1!vars)
    OBVIOUS
  <2>1. CASE Next
    BY <2>1, TwoLevels, FirstLevelMaps
  <2>2. CASE UNCHANGED vars
    BY <2>2, StoresStutter
  <2> QED BY <2>1, <2>2
<1> QED
  BY <1>1, <1>2, StoresInit, StoresStep, PTL DEF Spec, L1!Spec

\* So is the second, which is called by the first and not by the trace: it is
\* asked for the addresses of the trace and the starts of victims, loads and
\* stores in an order the first decides, and is the same store of blocks.
THEOREM LevelsAreStores ==
  ASSUME \A ch \in Chains : Len(ch) >= 2
  PROVE  Spec => LevelsActAsBlockStores
<1>1. Init => L2!Init
  BY StoresInit, TwoLevels, LevelsBegin
<1>2. StoresInv /\ [Next]_vars => [L2!Next]_(L2!vars)
  <2> SUFFICES ASSUME StoresInv, [Next]_vars PROVE [L2!Next]_(L2!vars)
    OBVIOUS
  <2>1. CASE Next
    BY <2>1, TwoLevels, SecondLevelMaps
  <2>2. CASE UNCHANGED vars
    BY <2>2, StoresStutter
  <2> QED BY <2>1, <2>2
<1>3. Spec => L2!Spec
  BY <1>1, <1>2, StoresInit, StoresStep, PTL DEF Spec, L2!Spec
<1> QED
  BY <1>3, FirstLevelIsStore DEF LevelsActAsBlockStores
-----------------------------------------------------------------------------
(* The mean latency: the two recursions over the levels, and what they say *)
(* of a trace without stores.                                              *)

\* The values of a recursion that begins with start and takes step[i] at place i.
Steps(n, X) == [1 .. n -> [X -> X]]
Runs(f, n, X, start, step) ==
  f \in [0 .. n -> X] /\ f[0] = start /\ \A i \in 1 .. n : f[i] = step[i][f[i - 1]]

\* There are such values.
LEMMA FoldExists ==
  ASSUME NEW n \in Nat, NEW X, NEW start \in X, NEW step \in Steps(n, X)
  PROVE  \E f : Runs(f, n, X, start, step)
<1> DEFINE Solves(f, m) ==
             f \in [0 .. m -> X] /\ f[0] = start /\ \A i \in 1 .. m : f[i] = step[i][f[i - 1]]
           Unsolved == {m \in 0 .. n : ~\E f : Solves(f, m)}
<1>1. ASSUME Unsolved # {} PROVE FALSE
  <2>1. PICK m \in Unsolved : \A k \in Unsolved : m <= k
    <3>1. Unsolved \in SUBSET Nat
      OBVIOUS
    <3> HIDE DEF Unsolved
    <3> QED BY <1>1, <3>1, FirstIsLeast
  <2>2. Solves([i \in 0 .. 0 |-> start], 0)
    OBVIOUS
  <2>3. m # 0 /\ m \in 1 .. n /\ m - 1 \in 0 .. n /\ m - 1 \notin Unsolved
    <3>1. m \in 0 .. n /\ ~\E f : Solves(f, m)
      OBVIOUS
    <3>2. m # 0
      <4> HIDE DEF Solves
      <4> QED BY <2>2, <3>1
    <3>3. m - 1 \notin Unsolved
      <4> HIDE DEF Unsolved
      <4> QED BY <2>1, <3>1
    <3> HIDE DEF Unsolved, Solves
    <3> QED BY <3>1, <3>2, <3>3
  <2>4. PICK f : Solves(f, m - 1)
    <3> HIDE DEF Solves
    <3> QED BY <2>3
  <2> DEFINE g == [i \in 0 .. m |-> IF i = m THEN step[m][f[m - 1]] ELSE f[i]]
  <2>5. f \in [0 .. m - 1 -> X] /\ f[0] = start /\ \A i \in 1 .. m - 1 : f[i] = step[i][f[i - 1]]
    BY <2>4
  <2>6. step[m][f[m - 1]] \in X
    BY <2>3, <2>5 DEF Steps
  <2>7. g \in [0 .. m -> X] /\ g[0] = start
    BY <2>3, <2>5, <2>6
  <2>8. ASSUME NEW i \in 1 .. m PROVE g[i] = step[i][g[i - 1]]
    <3>1. g[i - 1] = f[i - 1]
      BY <2>3
    <3>2. CASE i = m
      BY <3>1, <3>2
    <3>3. CASE i # m
      <4>1. i \in 1 .. m - 1 /\ g[i] = f[i]
        BY <2>3, <3>3
      <4> HIDE DEF g
      <4> QED BY <2>5, <3>1, <4>1
    <3> QED BY <3>2, <3>3
  <2>9. Solves(g, m)
    <3> HIDE DEF g
    <3> QED BY <2>7, <2>8
  <2> HIDE DEF Solves, g
  <2> QED BY <2>1, <2>9
<1>2. \E f : Solves(f, n)
  <2> HIDE DEF Solves
  <2> QED BY <1>1
<1> QED BY <1>2 DEF Runs

\* The chain of a run has times for its levels.
LEMMA LevelTimes ==
  ASSUME ReachInv PROVE MemTime \in Nat /\ \A l \in Levels : HitTimes[l] \in Nat
BY TimesAssumption, ChainOfCaches DEF ReachInv, ChainInv, TypeOK

\* The step computeAMAT takes at level l, from the penalty p of what lies below it.
Penalty(l, p) ==
  LET rate == MissRate(levels[l].stats)
  IN  <<HitTimes[l] * rate[2] * p[2] + rate[1] * p[1], rate[2] * p[2]>>

\* Penalties and rates are fractions of natural numbers.
LEMMA PenaltyType ==
  ASSUME ReachInv, NEW l \in Levels, NEW p \in Nat \X Nat PROVE Penalty(l, p) \in Nat \X Nat
<1>1. levels[l].stats["misses"] \in Nat /\ levels[l].stats["accesses"] \in Nat
  BY CountersAreNat DEF ReachInv, Counters
<1> DEFINE rate == MissRate(levels[l].stats)
<1>2. rate[1] \in Nat /\ rate[2] \in Nat
  BY <1>1 DEF MissRate
<1>3. HitTimes[l] \in Nat /\ p[1] \in Nat /\ p[2] \in Nat
  BY LevelTimes
<1> HIDE DEF rate
<1>4. HitTimes[l] * rate[2] * p[2] + rate[1] * p[1] \in Nat /\ rate[2] * p[2] \in Nat
  BY <1>2, <1>3
<1> QED BY <1>4 DEF Penalty, rate

\* computeAMAT steps from memory up to L1.
LEMMA AmatSteps ==
  ASSUME ReachInv
  PROVE  \E p : /\ Amat = p[1] /\ p[Depth + 1] = <<MemTime, 1>>
                /\ \A l \in Levels : p[l] = Penalty(l, p[l + 1])
<1> DEFINE F(p, l) == IF l > Depth THEN <<MemTime, 1>> ELSE Penalty(l, p[l + 1])
           P == CHOOSE p : p = [l \in 1 .. Depth + 1 |-> F(p, l)]
<1>1. Depth \in Nat /\ MemTime \in Nat
  BY ChainOfCaches, LevelTimes DEF ReachInv, ChainInv
<1>2. Amat = P[1]
  BY DEF Amat, Penalty
<1>3. \E p : p = [l \in 1 .. Depth + 1 |-> F(p, l)]
  <2> DEFINE up == [i \in 1 .. Depth |-> [q \in Nat \X Nat |-> Penalty(Depth + 1 - i, q)]]
  <2>1. up \in Steps(Depth, Nat \X Nat)
    <3>1. \A i \in 1 .. Depth : Depth + 1 - i \in Levels
      BY <1>1 DEF Levels
    <3> QED BY <3>1, PenaltyType DEF Steps
  <2>2. PICK f : Runs(f, Depth, Nat \X Nat, <<MemTime, 1>>, up)
    <3>1. <<MemTime, 1>> \in Nat \X Nat
      BY <1>1
    <3> HIDE DEF up, F, P
    <3> QED BY <1>1, <2>1, <3>1, FoldExists
  <2> DEFINE g == [l \in 1 .. Depth + 1 |-> f[Depth + 1 - l]]
  <2>3. ASSUME NEW l \in 1 .. Depth + 1 PROVE g[l] = F(g, l)
    <3>1. CASE l > Depth
      <4>1. l = Depth + 1 /\ Depth + 1 - l = 0
        BY <1>1, <3>1
      <4>2. g[l] = f[0]
        BY <4>1
      <4> QED BY <2>2, <3>1, <4>2 DEF Runs
    <3>2. CASE ~(l > Depth)
      <4> DEFINE i == Depth + 1 - l
      <4>1. i \in 1 .. Depth /\ i - 1 \in 0 .. Depth /\ Depth + 1 - i = l
            /\ l + 1 \in 1 .. Depth + 1 /\ Depth + 1 - (l + 1) = i - 1
        BY <1>1, <3>2
      <4>2. g[l] = f[i] /\ g[l + 1] = f[i - 1]
        BY <4>1
      <4>3. f[i - 1] \in Nat \X Nat /\ f[i] = up[i][f[i - 1]]
        <5> HIDE DEF up, i
        <5> QED BY <2>2, <4>1 DEF Runs
      <4> HIDE DEF i, g
      <4>4. up[i][f[i - 1]] = Penalty(Depth + 1 - i, f[i - 1])
        BY <4>1, <4>3
      <4> QED BY <3>2, <4>1, <4>2, <4>3, <4>4
    <3> QED BY <3>1, <3>2
  <2>4. g = [l \in 1 .. Depth + 1 |-> F(g, l)]
    <3> HIDE DEF F
    <3> QED BY <2>3
  <2> QED BY <2>4
<1>4. P = [l \in 1 .. Depth + 1 |-> F(P, l)]
  <2> HIDE DEF F
  <2> QED BY <1>3
<1> HIDE DEF P
<1>5. \A l \in 1 .. Depth + 1 : P[l] = F(P, l)
  <2> HIDE DEF F
  <2> QED BY <1>4
<1>6. P[Depth + 1] = <<MemTime, 1>> /\ \A l \in Levels : P[l] = Penalty(l, P[l + 1])
  BY <1>1, <1>5 DEF Levels
<1> QED BY <1>2, <1>6

\* The cycles spent are a sum from L1 down to memory.
LEMMA CyclesSteps ==
  ASSUME ReachInv
  PROVE  \E u \in [0 .. Depth -> Nat] :
           /\ u[0] = 0
           /\ \A l \in Levels : u[l] = u[l - 1] + HitTimes[l] * (Reads(l) + Writes(l))
           /\ Cycles = u[Depth] + MemTime * (mem.reads + mem.writes)
<1> DEFINE cost(l) == HitTimes[l] * (Reads(l) + Writes(l))
           F(u, l) == IF l = 0 THEN 0 ELSE u[l - 1] + cost(l)
           U == CHOOSE u : u = [l \in 0 .. Depth |-> F(u, l)]
<1>1. Depth \in Nat /\ Levels = 1 .. Depth
  BY ChainOfCaches DEF ReachInv, ChainInv, Levels
<1>2. Cycles = U[Depth] + MemTime * (mem.reads + mem.writes)
  BY DEF Cycles
<1>3. \A l \in Levels : cost(l) \in Nat
  <2> SUFFICES ASSUME NEW l \in Levels PROVE cost(l) \in Nat
    OBVIOUS
  <2>1. Reads(l) \in Nat /\ Writes(l) \in Nat
    <3>1. levels[l].stats["reads"] \in Nat /\ levels[l].stats["writes"] \in Nat
      BY CountersAreNat DEF ReachInv, Counters
    <3> QED BY <1>1, <3>1 DEF Reads, Writes
  <2> QED BY <2>1, LevelTimes
<1> HIDE DEF cost
<1>4. PICK f \in [0 .. Depth -> Nat] : f[0] = 0 /\ \A l \in 1 .. Depth : f[l] = f[l - 1] + cost(l)
  <2> DEFINE down == [l \in 1 .. Depth |-> [x \in Nat |-> x + cost(l)]]
  <2>1. down \in Steps(Depth, Nat)
    BY <1>1, <1>3 DEF Steps
  <2>2. PICK f : Runs(f, Depth, Nat, 0, down)
    <3> HIDE DEF down, F, U
    <3> QED BY <1>1, <2>1, FoldExists
  <2>3. ASSUME NEW l \in 1 .. Depth PROVE f[l] = f[l - 1] + cost(l)
    <3>1. f[l - 1] \in Nat /\ f[l] = down[l][f[l - 1]]
      <4> HIDE DEF down
      <4> QED BY <1>1, <2>2 DEF Runs
    <3> QED BY <3>1
  <2> HIDE DEF down
  <2> QED BY <2>2, <2>3 DEF Runs
<1>5. U = [l \in 0 .. Depth |-> F(U, l)]
  <2>1. f = [l \in 0 .. Depth |-> F(f, l)]
    BY <1>1, <1>4
  <2> HIDE DEF F
  <2> QED BY <2>1
<1> HIDE DEF U
<1>6. U[0] = 0 /\ \A l \in 1 .. Depth : U[l] = U[l - 1] + cost(l)
  <2>1. \A l \in 0 .. Depth : U[l] = F(U, l)
    <3> HIDE DEF F
    <3> QED BY <1>5
  <2> QED BY <1>1, <2>1
<1>7. U = f
  <2> DEFINE Apart == {l \in 0 .. Depth : U[l] # f[l]}
  <2>1. ASSUME Apart # {} PROVE FALSE
    <3>1. PICK m \in Apart : \A k \in Apart : m <= k
      <4>1. Apart \in SUBSET Nat
        OBVIOUS
      <4> HIDE DEF Apart
      <4> QED BY <2>1, <4>1, FirstIsLeast
    <3>2. m \in 1 .. Depth /\ m - 1 \in 0 .. Depth /\ m - 1 \notin Apart
      BY <1>1, <1>4, <1>6, <3>1
    <3>3. U[m - 1] = f[m - 1]
      BY <3>2
    <3> QED BY <1>4, <1>6, <3>2, <3>3
  <2>2. \A l \in 0 .. Depth : U[l] = f[l]
    BY <2>1
  <2>3. U = [l \in 0 .. Depth |-> U[l]]
    <3> HIDE DEF F
    <3>1. DOMAIN U = 0 .. Depth
      BY <1>5
    <3> QED BY <1>5, <3>1
  <2> QED BY <2>2, <2>3
<1> QED BY <1>1, <1>2, <1>4, <1>7 DEF cost

\* Without stores at L1 there are none below: a level fetches for each of its
\* misses and sends nothing else.
LEMMA LoadsOnly ==
  ASSUME ChainInv, Idle, levels[1].stats["writes"] = 0
  PROVE  /\ \A l \in 1 .. Depth + 1 : Writes(l) = 0
         /\ \A l \in Levels : Reads(l + 1) = levels[l].stats["misses"]
<1>1. Depth \in Nat \ {0} /\ Levels = 1 .. Depth
  BY ChainOfCaches DEF ChainInv, Levels
<1>2. ASSUME NEW l \in Levels
      PROVE  SentReads(l + 1) = Reads(l + 1) /\ SentWrites(l + 1) = Writes(l + 1)
  <2> DEFINE load == FALSE
             store == TRUE
  <2>1. SentReads(l + 1) = Reads(l + 1) + InFlight(l + 1, load)
        /\ SentWrites(l + 1) = Writes(l + 1) + InFlight(l + 1, store)
    BY DEF SentReads, SentWrites
  <2> HIDE DEF load, store
  <2>2. InFlight(l + 1, load) = 0 /\ InFlight(l + 1, store) = 0
    BY CountOfNone, InFlightIsCount DEF Idle
  <2> QED BY <2>1, <2>2, CountersAreNat
<1>3. \A l \in 1 .. Depth + 1 : Writes(l) = 0
  <2> DEFINE Stored == {l \in 1 .. Depth + 1 : Writes(l) # 0}
  <2>1. ASSUME Stored # {} PROVE FALSE
    <3>1. PICK m \in Stored : \A k \in Stored : m <= k
      <4>1. Stored \in SUBSET Nat
        BY <1>1
      <4> HIDE DEF Stored
      <4> QED BY <2>1, <4>1, FirstIsLeast
    <3>2. m # 1
      BY <1>1, CountersAreNat DEF Writes
    <3>3. m - 1 \in Levels /\ m - 1 \in 1 .. Depth + 1 /\ m - 1 \notin Stored /\ (m - 1) + 1 = m
      BY <1>1, <3>1, <3>2
    <3> DEFINE k == m - 1
    <3>4. k \in Levels /\ Writes(k) = 0 /\ k + 1 = m
      BY <3>3
    <3> HIDE DEF k
    <3>5. SentWrites(k + 1) + DirtyLines(k) <= Writes(k)
      BY <3>4 DEF ChainInv, OwesOf
    <3>6. SentWrites(k + 1) = 0
      BY <3>4, <3>5, CountersAreNat
    <3>7. Writes(m) = 0
      BY <1>2, <3>4, <3>6
    <3> QED BY <3>7
  <2> QED BY <2>1
<1>4. ASSUME NEW l \in Levels PROVE Reads(l + 1) = levels[l].stats["misses"]
  <2>1. levels[l].stats["writes"] = 0
    BY <1>1, <1>3 DEF Writes
  <2>2. Fetches(levels[l].stats, SentReads(l + 1))
    BY DEF ChainInv, LawOf
  <2>3. levels[l].stats["misses"] \in Nat /\ SentReads(l + 1) \in Nat
    BY CountersAreNat DEF Counters
  <2>4. SentReads(l + 1) = levels[l].stats["misses"]
    BY <2>1, <2>2, <2>3 DEF Fetches
  <2> QED BY <1>2, <2>4
<1> QED BY <1>3, <1>4

\* A level with time h that was asked r times and asked the next q times: if
\* d / e is the mean time of a call of the next, in total x, then the mean of
\* its own is in total h * r more.
LEMMA MeanOfLevel ==
  ASSUME NEW h \in Nat, NEW r \in Nat, NEW q \in Nat, NEW d \in Nat, NEW e \in Nat, NEW x \in Int,
         d * q = x * e
  PROVE  (h * r * e + q * d) * r = (x + h * r) * (r * e)
<1>1. (h * r * e + q * d) * r = (h * r * e) * r + (d * q) * r
  OBVIOUS
<1>2. (x + h * r) * (r * e) = (x * e) * r + (h * r * e) * r
  OBVIOUS
<1> QED BY <1>1, <1>2

\* On a trace without stores AMAT is the mean latency, at every level: the
\* cycles spent at it and below, over the calls it was asked.
THEOREM AmatAveragesLatency == Spec => []AmatIsMeanLatency
<1>1. ReachInv => AmatIsMeanLatency
  <2> SUFFICES ASSUME ReachInv, Idle, levels[1].stats["writes"] = 0
               PROVE  Amat[1] * levels[1].stats["accesses"] = Cycles * Amat[2]
    BY DEF AmatIsMeanLatency
  <2>1. Depth \in Nat \ {0} /\ Levels = 1 .. Depth /\ ChainInv
    BY ChainOfCaches DEF ReachInv, ChainInv, Levels
  <2>2. PICK p : /\ Amat = p[1] /\ p[Depth + 1] = <<MemTime, 1>>
                 /\ \A l \in Levels : p[l] = Penalty(l, p[l + 1])
    BY AmatSteps
  <2>3. PICK u \in [0 .. Depth -> Nat] :
          /\ u[0] = 0
          /\ \A l \in Levels : u[l] = u[l - 1] + HitTimes[l] * (Reads(l) + Writes(l))
          /\ Cycles = u[Depth] + MemTime * (mem.reads + mem.writes)
    BY CyclesSteps
  <2>4. /\ \A l \in 1 .. Depth + 1 : Writes(l) = 0
        /\ \A l \in Levels : Reads(l + 1) = levels[l].stats["misses"]
    BY <2>1, LoadsOnly
  <2>5. mem.reads \in Nat /\ mem.writes = 0 /\ Reads(Depth + 1) = mem.reads /\ MemTime \in Nat
    <3>1. Reads(Depth + 1) = mem.reads /\ Writes(Depth + 1) = mem.writes
      BY <2>1 DEF Reads, Writes
    <3> QED BY <2>1, <2>4, <3>1, LevelTimes DEF ChainInv, MemoryCounts
  <2>6. Cycles \in Nat
    BY <2>1, <2>3, <2>5
  <2> DEFINE Mean(l) == p[l] \in Nat \X Nat /\ p[l][1] * Reads(l) = (Cycles - u[l - 1]) * p[l][2]
             Other == {i \in 0 .. Depth : ~Mean(Depth + 1 - i)}
  <2>7. Mean(Depth + 1)
    <3>1. p[Depth + 1][1] = MemTime /\ p[Depth + 1][2] = 1 /\ p[Depth + 1] \in Nat \X Nat
      BY <2>2, <2>5
    <3>2. (Depth + 1) - 1 = Depth /\ u[Depth] \in Nat
      BY <2>1, <2>3
    <3>3. Cycles - u[Depth] = MemTime * mem.reads
      BY <2>3, <2>5, <3>2
    <3>4. MemTime * mem.reads = (MemTime * mem.reads) * 1
      BY <2>5
    <3> QED BY <2>5, <3>1, <3>2, <3>3, <3>4
  <2>8. ASSUME NEW l \in Levels, Mean(l + 1) PROVE Mean(l)
    <3> DEFINE h == HitTimes[l]
               r == Reads(l)
               q == Reads(l + 1)
               d == p[l + 1][1]
               e == p[l + 1][2]
               x == Cycles - u[l]
               n == levels[l].stats
    <3>1. /\ h \in Nat /\ r \in Nat /\ q \in Nat /\ d \in Nat /\ e \in Nat /\ x \in Int
          /\ d * q = x * e
      <4>1. h \in Nat
        BY LevelTimes
      <4>2. q \in Nat
        BY <2>1, CountersAreNat
      <4>3. r \in Nat
        <5>1. levels[l].stats["reads"] \in Nat
          BY <2>1, CountersAreNat DEF Counters
        <5> QED BY <2>1, <5>1 DEF Reads
      <4>4. (l + 1) - 1 = l /\ l \in 0 .. Depth
        BY <2>1
      <4>5. u[l] \in Nat
        BY <2>3, <4>4
      <4>6. x \in Int
        BY <2>6, <4>5
      <4>7. p[l + 1] \in Nat \X Nat /\ d * q = x * e
        BY <2>8, <4>4
      <4> QED BY <4>1, <4>2, <4>3, <4>6, <4>7
    <3>2. Cycles - u[l - 1] = x + h * r
      <4>1. l \in 1 .. Depth + 1 /\ l - 1 \in 0 .. Depth
        BY <2>1
      <4>2. u[l] = u[l - 1] + h * (r + Writes(l)) /\ Writes(l) = 0
        BY <2>3, <2>4, <4>1
      <4>3. u[l - 1] \in Nat
        BY <2>3, <4>1
      <4> HIDE DEF h, r
      <4>4. u[l] = u[l - 1] + h * r /\ h * r \in Nat
        BY <3>1, <4>2
      <4> QED BY <2>6, <4>3, <4>4
    <3>3. /\ n["misses"] = q /\ n["accesses"] = r
          /\ n["hits"] \in Nat /\ n["hits"] + n["misses"] = n["accesses"]
      <4>1. n["accesses"] = n["reads"] + n["writes"] /\ CheckInvariants(cfgs[l], levels[l])
        BY <2>1 DEF ChainInv, AskedOf, Healthy
      <4>2. n["writes"] = 0 /\ n["reads"] = r
        BY <2>1, <2>4 DEF Reads, Writes
      <4>3. n["hits"] \in Nat
        BY <2>1, CountersAreNat DEF Counters
      <4> HIDE DEF n, r, q
      <4>4. n["hits"] + n["misses"] = n["accesses"]
        BY <4>1 DEF CheckInvariants, n
      <4>5. n["misses"] = q
        BY <2>4 DEF n, q
      <4> QED BY <3>1, <4>1, <4>2, <4>3, <4>4, <4>5
    <3>4. p[l] = Penalty(l, p[l + 1]) /\ p[l] \in Nat \X Nat
      BY <2>2, <2>8, PenaltyType
    <3>5. CASE r # 0
      <4>1. p[l] = <<h * r * e + q * d, r * e>>
        BY <3>3, <3>4, <3>5 DEF Penalty, MissRate
      <4> HIDE DEF h, r, q, d, e, x, n
      <4>2. (h * r * e + q * d) * r = (x + h * r) * (r * e)
        BY <3>1, MeanOfLevel
      <4>3. p[l][1] * r = (Cycles - u[l - 1]) * p[l][2]
        BY <3>2, <4>1, <4>2
      <4> QED BY <3>4, <4>3 DEF r
    <3>6. CASE r = 0
      <4>1. p[l] = <<h * 1 * e + 0 * d, 1 * e>>
        BY <3>3, <3>4, <3>6 DEF Penalty, MissRate
      <4>2. q = 0
        BY <3>1, <3>3, <3>6
      <4> HIDE DEF h, r, q, d, e, x, n
      <4>3. x * e = 0 /\ h * r = 0 /\ x + h * r = x
        BY <3>1, <3>6, <4>2
      <4>4. p[l][2] = e
        BY <3>1, <4>1
      <4>5. p[l][1] * r = 0
        <5>1. p[l][1] \in Nat
          BY <3>4
        <5> QED BY <3>6, <5>1
      <4> QED BY <3>2, <3>4, <4>3, <4>4, <4>5 DEF r
    <3> QED BY <3>5, <3>6
  <2> HIDE DEF Mean
  <2>9. ASSUME Other # {} PROVE FALSE
    <3>1. PICK m \in Other : \A k \in Other : m <= k
      <4>1. Other \in SUBSET Nat
        OBVIOUS
      <4> HIDE DEF Other
      <4> QED BY <2>9, <4>1, FirstIsLeast
    <3>2. m # 0
      BY <2>1, <2>7
    <3>3. m - 1 \in 0 .. Depth /\ m - 1 \notin Other
      <4>1. m \in 0 .. Depth
        OBVIOUS
      <4> HIDE DEF Other
      <4> QED BY <2>1, <3>1, <3>2, <4>1
    <3> DEFINE l == Depth + 1 - m
    <3>4. l \in Levels /\ Depth + 1 - (m - 1) = l + 1
      BY <2>1, <3>2
    <3>5. Mean(l + 1)
      BY <3>3, <3>4
    <3> QED BY <2>8, <3>4, <3>5
  <2>10. Mean(1)
    <3>1. Depth \in 0 .. Depth /\ Depth + 1 - Depth = 1
      BY <2>1
    <3> QED BY <2>9, <3>1
  <2>11. Reads(1) = levels[1].stats["accesses"]
    <3>0. 1 \in Levels /\ 1 \in 1 .. Depth + 1
      BY <2>1
    <3>1. AskedOf(1) /\ Writes(1) = 0
      BY <2>1, <2>4, <3>0 DEF ChainInv
    <3>2. levels[1].stats["reads"] \in Nat
      <4>1. levels[1].stats \in [Counters -> Nat]
        BY <2>1, <3>0, CountersAreNat
      <4>2. "reads" \in Counters
        BY DEF Counters
      <4> QED BY <4>1, <4>2
    <3> QED BY <2>1, <3>1, <3>2 DEF AskedOf, Reads, Writes
  <2>12. (Cycles - u[1 - 1]) = Cycles
    BY <2>3, <2>6
  <2> QED BY <2>2, <2>10, <2>11, <2>12 DEF Mean
<1> QED
  BY <1>1, ReachInit, ReachStep, PTL DEF Spec

-----------------------------------------------------------------------------
(***************************************************************************)
(* Where the newest value of a byte is: in a chain whose blocks do not     *)
(* shrink on the way down, a load always finds the value the program       *)
(* stored last.                                                            *)
(*                                                                         *)
(* The first part is about bytes alone: n levels over memory at place      *)
(* n + 1, H[k] the bytes place k holds, W[k] those it still has to write   *)
(* back, F[k] those of which it has the newest value, and S the stores on  *)
(* their way between two places.  Every access is a sequence of a few      *)
(* moves of bytes, each of which keeps the values in order.  The second    *)
(* part shows what each action of the chain moves.                         *)
(***************************************************************************)

-----------------------------------------------------------------------------
(* Values in order.                                                        *)

Places(n) == 1 .. n + 1

\* Byte b, asked of the places below place l, is found at place k.
Sees(H, l, k, b) == b \in H[k] /\ \A j \in l + 1 .. k - 1 : b \notin H[j]

\* A newer value of b is still above place l, or on its way to place k or
\* some place above k.
Comes(W, S, l, k, b) ==
  \/ \E j \in 1 .. l : b \in W[j]
  \/ \E c \in S : b \in c.data.newest /\ c.level <= k

\* The tables of a chain.
Tables(n, H, W, F, S) ==
  /\ n \in Nat
  /\ H \in [Places(n) -> SUBSET Addrs] /\ H[n + 1] = Addrs
  /\ W \in [Places(n) -> SUBSET Addrs]
  /\ F \in [Places(n) -> SUBSET Addrs]
  /\ \A k \in Places(n) : W[k] \subseteq H[k]
  /\ \A c \in S : /\ c.level \in Places(n)
                  /\ c.data.newest \subseteq c.data.bytes
                  /\ c.data.bytes \subseteq Addrs

\* The first copy a place finds below itself is the newest value, unless that
\* is still to come.
BelowIsNewest(n, H, W, F, S) ==
  \A l \in 0 .. n, k \in Places(n), b \in Addrs :
    l < k /\ Sees(H, l, k, b) => b \in F[k] \/ Comes(W, S, l, k, b)

\* No place holds an older value than a place below it.
NoneOlderAbove(n, H, F) ==
  \A l, k \in Places(n), b \in Addrs : l < k /\ b \in H[l] /\ b \in F[k] => b \in F[l]

\* A store that carries an old value never meets the newest one below it.
OldMeetsOld(n, F, S) ==
  \A c \in S, k \in Places(n) :
    c.level <= k => (c.data.bytes \ c.data.newest) \cap F[k] = {}

\* No store follows another with an older value of the same byte.
InOrder(S) ==
  \A c, e \in S :
    e.level <= c.level => c.data.newest \cap (e.data.bytes \ e.data.newest) = {}

\* Every place a newest value has come past has it, if it holds the byte.
PassedIsNewest(n, H, F, S) ==
  \A c \in S, l \in Places(n) : l < c.level => c.data.newest \cap H[l] \subseteq F[l]

NewestIsHeld(n, H, F) == \A k \in Places(n) : F[k] \subseteq H[k]

Ordered(n, H, W, F, S) ==
  /\ Tables(n, H, W, F, S)
  /\ BelowIsNewest(n, H, W, F, S)
  /\ NoneOlderAbove(n, H, F)
  /\ OldMeetsOld(n, F, S)
  /\ InOrder(S)
  /\ PassedIsNewest(n, H, F, S)
  /\ NewestIsHeld(n, H, F)

-----------------------------------------------------------------------------
(* The moves that keep them in order.                                      *)

\* A store that comes from the CPU makes every copy of its bytes an old one,
\* and has the newest value itself.
LEMMA StoreBegins ==
  ASSUME NEW n, NEW H, NEW W, NEW F, Ordered(n, H, W, F, {}),
         NEW f, f.level = 1, f.data.bytes = f.data.newest, f.data.bytes \subseteq Addrs,
         NEW F2, F2 = [k \in Places(n) |-> F[k] \ f.data.newest]
  PROVE  Ordered(n, H, W, F2, {f})
<1>1. Tables(n, H, W, F2, {f})
  BY DEF Ordered, Tables, Places
<1>2. BelowIsNewest(n, H, W, F2, {f})
  <2> SUFFICES ASSUME NEW l \in 0 .. n, NEW k \in Places(n), NEW b \in Addrs, l < k, Sees(H, l, k, b)
               PROVE  b \in F2[k] \/ Comes(W, {f}, l, k, b)
    BY DEF BelowIsNewest
  <2>1. b \in F[k] \/ Comes(W, {}, l, k, b)
    BY DEF Ordered, BelowIsNewest
  <2> QED
    BY <2>1 DEF Comes, Ordered, Tables, Places
<1>3. NoneOlderAbove(n, H, F2)
  BY DEF Ordered, NoneOlderAbove
<1>4. OldMeetsOld(n, F2, {f}) /\ InOrder({f}) /\ PassedIsNewest(n, H, F2, {f})
  BY DEF OldMeetsOld, InOrder, PassedIsNewest, Places, Ordered, Tables
<1>5. NewestIsHeld(n, H, F2)
  BY DEF Ordered, NewestIsHeld
<1> QED
  BY <1>1, <1>2, <1>3, <1>4, <1>5 DEF Ordered

\* The bytes of B that place t reads from below itself.
Read(n, H, F, t, B) == {b \in B : \E k \in t + 1 .. n + 1 : Sees(H, t, k, b) /\ b \in F[k]}

\* Below any level but memory a byte is found somewhere.
LEMMA SeenSomewhere ==
  ASSUME NEW n, NEW H, NEW W, NEW F, NEW S, Tables(n, H, W, F, S),
         NEW l \in 0 .. n, NEW b \in Addrs
  PROVE  \E k \in l + 1 .. n + 1 : Sees(H, l, k, b)
<1> DEFINE K == {k \in l + 1 .. n + 1 : b \in H[k]}
<1>1. n + 1 \in K /\ K \in SUBSET Nat
  BY DEF Tables
<1>2. First(K) \in K /\ \A u \in K : First(K) <= u
  BY <1>1, FirstIsLeast
<1>3. ASSUME NEW j \in l + 1 .. First(K) - 1 PROVE b \notin H[j]
  BY <1>2 DEF Tables
<1> QED
  BY <1>2, <1>3 DEF Sees

\* A level brings in bytes it does not hold, as new as they are below it, while
\* no store is on its way to a place below it.
LEMMA BytesComeIn ==
  ASSUME NEW n, NEW H, NEW W, NEW F, NEW S, Ordered(n, H, W, F, S),
         NEW t \in 1 .. n, NEW B \in SUBSET Addrs, B \cap H[t] = {},
         \A c \in S : c.level <= t,
         NEW H2, H2 = [H EXCEPT ![t] = @ \cup B],
         NEW F2, F2 = [F EXCEPT ![t] = @ \cup Read(n, H, F, t, B)]
  PROVE  Ordered(n, H2, W, F2, S)
<1> DEFINE R == Read(n, H, F, t, B)
<1>0. /\ Tables(n, H, W, F, S) /\ BelowIsNewest(n, H, W, F, S) /\ NoneOlderAbove(n, H, F)
      /\ OldMeetsOld(n, F, S) /\ InOrder(S) /\ PassedIsNewest(n, H, F, S) /\ NewestIsHeld(n, H, F)
  BY DEF Ordered
<1>1. /\ n \in Nat /\ t \in Places(n) /\ t # n + 1 /\ R \subseteq B
      /\ H2[t] = H[t] \cup B /\ F2[t] = F[t] \cup R
      /\ \A k \in Places(n) \ {t} : H2[k] = H[k] /\ F2[k] = F[k]
  BY <1>0 DEF Tables, Places, Read
<1>2. ASSUME NEW b \in R
      PROVE  b \in Addrs /\ \E k \in t + 1 .. n + 1 : Sees(H, t, k, b) /\ b \in F[k]
  BY DEF Read
<1>3. ASSUME NEW b \in B, NEW k \in Places(n), Sees(H, t, k, b), t < k, b \in F[k]
      PROVE  b \in R
  BY <1>0, <1>3 DEF Read, Tables, Places
<1> HIDE DEF R
<1>4. Tables(n, H2, W, F2, S)
  <2>1. R \subseteq Addrs
    BY <1>1
  <2> QED BY <1>0, <1>1, <2>1 DEF Tables, Places
<1>5. BelowIsNewest(n, H2, W, F2, S)
  <2> SUFFICES ASSUME NEW l \in 0 .. n, NEW k \in Places(n), NEW b \in Addrs, l < k,
                      Sees(H2, l, k, b), ~Comes(W, S, l, k, b)
               PROVE  b \in F2[k]
    BY DEF BelowIsNewest
  <2>1. CASE k = t /\ b \in B
    <3>1. PICK m \in t + 1 .. n + 1 : Sees(H, t, m, b)
      BY <1>0, <2>1, SeenSomewhere DEF Places
    <3>2. l < m /\ m \in Places(n) /\ t < m
      BY <1>0, <2>1, <3>1 DEF Tables, Places
    <3>3. Sees(H, l, m, b)
      <4>1. \A j \in l + 1 .. m - 1 : j \in l + 1 .. k - 1 \/ j = t \/ j \in t + 1 .. m - 1
        BY <1>0, <2>1, <3>1 DEF Tables
      <4>2. ASSUME NEW j \in l + 1 .. k - 1 PROVE b \notin H[j]
        <5>1. j \in Places(n) \ {t}
          BY <1>0, <2>1 DEF Tables, Places
        <5> QED BY <1>1, <5>1 DEF Sees
      <4> QED BY <2>1, <3>1, <4>1, <4>2 DEF Sees
    <3>4. ~Comes(W, S, l, m, b)
      <4>1. \A c \in S : c.level <= k
        BY <2>1
      <4> QED BY <4>1 DEF Comes
    <3>5. b \in F[m]
      BY <1>0, <3>2, <3>3, <3>4 DEF BelowIsNewest
    <3>6. b \in R
      BY <1>3, <2>1, <3>1, <3>2, <3>5
    <3> QED BY <1>1, <2>1, <3>6
  <2>2. CASE ~(k = t /\ b \in B)
    <3>1. b \in H[k]
      BY <1>1, <2>2 DEF Sees
    <3>2. \A j \in l + 1 .. k - 1 : b \notin H[j]
      <4> SUFFICES ASSUME NEW j \in l + 1 .. k - 1 PROVE b \notin H[j]
        OBVIOUS
      <4>1. j \in Places(n)
        BY <1>0 DEF Places, Tables
      <4> QED BY <1>1, <4>1 DEF Sees
    <3>3. b \in F[k]
      BY <1>0, <3>1, <3>2 DEF BelowIsNewest, Sees
    <3> QED BY <1>1, <3>3
  <2> QED BY <2>1, <2>2
<1>6. NoneOlderAbove(n, H2, F2)
  <2> SUFFICES ASSUME NEW l \in Places(n), NEW k \in Places(n), NEW b \in Addrs, l < k,
                      b \in H2[l], b \in F2[k]
               PROVE  b \in F2[l]
    BY DEF NoneOlderAbove
  <2>1. ASSUME b \in F[k], b \in H[l] PROVE b \in F2[l]
    BY <1>0, <1>1, <2>1 DEF NoneOlderAbove
  <2>2. CASE l = t /\ b \in B
    <3>1. k # t /\ b \in F[k] /\ b \in H[k]
      BY <1>0, <1>1, <2>2 DEF Places, NewestIsHeld
    <3>2. PICK m \in t + 1 .. n + 1 : Sees(H, t, m, b)
      BY <1>0, <2>2, SeenSomewhere DEF Places
    <3>3. m <= k /\ m \in Places(n) /\ b \in H[m] /\ t < m
      BY <1>0, <2>2, <3>1, <3>2 DEF Sees, Tables, Places
    <3>4. b \in F[m]
      <4>1. CASE m = k
        BY <3>1, <4>1
      <4>2. CASE m # k
        <5>1. m < k
          BY <1>0, <3>3, <4>2 DEF Tables, Places
        <5> QED BY <1>0, <3>1, <3>3, <5>1 DEF NoneOlderAbove
      <4> QED BY <4>1, <4>2
    <3>5. b \in R
      BY <1>3, <2>2, <3>2, <3>3, <3>4
    <3> QED BY <1>1, <2>2, <3>5
  <2>3. CASE k = t /\ b \in R
    <3>1. PICK m \in t + 1 .. n + 1 : Sees(H, t, m, b) /\ b \in F[m]
      BY <1>2, <2>3
    <3>2. l # t /\ b \in H[l] /\ l < m /\ m \in Places(n)
      BY <1>0, <1>1, <2>3, <3>1 DEF Places, Tables
    <3> QED BY <1>0, <1>1, <3>1, <3>2 DEF NoneOlderAbove
  <2> QED BY <1>1, <2>1, <2>2, <2>3
<1>7. OldMeetsOld(n, F2, S)
  <2> SUFFICES ASSUME NEW c \in S, NEW k \in Places(n), c.level <= k,
                      NEW b \in c.data.bytes \ c.data.newest, b \in F2[k]
               PROVE  FALSE
    BY DEF OldMeetsOld
  <2>1. b \notin F[k]
    BY <1>0 DEF OldMeetsOld
  <2>2. k = t /\ b \in R
    BY <1>1, <2>1
  <2>3. PICK m \in t + 1 .. n + 1 : b \in F[m]
    BY <1>2, <2>2
  <2>4. m \in Places(n) /\ c.level <= m
    BY <1>0, <2>2 DEF Tables, Places
  <2> QED BY <1>0, <2>3, <2>4 DEF OldMeetsOld
<1>8. PassedIsNewest(n, H2, F2, S)
  <2> SUFFICES ASSUME NEW c \in S, NEW l \in Places(n), l < c.level
               PROVE  c.data.newest \cap H2[l] \subseteq F2[l]
    BY DEF PassedIsNewest
  <2>1. l # t
    BY <1>0 DEF Tables, Places
  <2> QED BY <1>0, <1>1, <2>1 DEF PassedIsNewest
<1>9. NewestIsHeld(n, H2, F2)
  BY <1>0, <1>1 DEF NewestIsHeld
<1> QED
  BY <1>0, <1>4, <1>5, <1>6, <1>7, <1>8, <1>9 DEF Ordered

\* The bytes a level does not have to write back leave it.
LEMMA CleanBytesLeave ==
  ASSUME NEW n, NEW H, NEW W, NEW F, NEW S, Ordered(n, H, W, F, S),
         NEW t \in 1 .. n, NEW G \in SUBSET Addrs, G \cap W[t] = {},
         NEW H2, H2 = [H EXCEPT ![t] = @ \ G],
         NEW F2, F2 = [F EXCEPT ![t] = @ \ G]
  PROVE  Ordered(n, H2, W, F2, S)
<1>0. /\ Tables(n, H, W, F, S) /\ BelowIsNewest(n, H, W, F, S) /\ NoneOlderAbove(n, H, F)
      /\ OldMeetsOld(n, F, S) /\ InOrder(S) /\ PassedIsNewest(n, H, F, S) /\ NewestIsHeld(n, H, F)
  BY DEF Ordered
<1>1. /\ n \in Nat /\ t \in Places(n) /\ t # n + 1
      /\ H2[t] = H[t] \ G /\ F2[t] = F[t] \ G
      /\ \A k \in Places(n) \ {t} : H2[k] = H[k] /\ F2[k] = F[k]
  BY <1>0 DEF Tables, Places
<1>2. Tables(n, H2, W, F2, S)
  BY <1>0, <1>1 DEF Tables, Places
<1>3. BelowIsNewest(n, H2, W, F2, S)
  <2> SUFFICES ASSUME NEW l \in 0 .. n, NEW k \in Places(n), NEW b \in Addrs, l < k,
                      Sees(H2, l, k, b), ~Comes(W, S, l, k, b)
               PROVE  b \in F2[k]
    BY DEF BelowIsNewest
  <2>1. b \in H[k] /\ ~(k = t /\ b \in G)
    BY <1>1 DEF Sees
  <2>2. ASSUME NEW j \in l + 1 .. k - 1 PROVE b \notin H[j] \/ (j = t /\ b \in G)
    <3>1. j \in Places(n)
      BY <1>0 DEF Tables, Places
    <3> QED BY <1>1, <3>1 DEF Sees
  <2>3. CASE ~(t \in l + 1 .. k - 1 /\ b \in G)
    <3>1. Sees(H, l, k, b)
      BY <2>1, <2>2, <2>3 DEF Sees
    <3>2. b \in F[k]
      BY <1>0, <3>1 DEF BelowIsNewest
    <3> QED BY <1>1, <2>1, <3>2
  <2>4. CASE t \in l + 1 .. k - 1 /\ b \in G
    <3>1. t < k /\ t \in 0 .. n
      BY <1>0, <2>4 DEF Tables, Places
    <3>2. Sees(H, t, k, b)
      <4> SUFFICES ASSUME NEW j \in t + 1 .. k - 1 PROVE b \notin H[j]
        BY <2>1 DEF Sees
      <4>1. j \in l + 1 .. k - 1 /\ j # t
        BY <1>0, <2>4 DEF Tables, Places
      <4> QED BY <2>2, <4>1
    <3>3. ~Comes(W, S, t, k, b)
      <4>1. ASSUME NEW j \in 1 .. t PROVE b \notin W[j]
        <5>1. CASE j \in 1 .. l
          BY <5>1 DEF Comes
        <5>2. CASE j = t
          BY <2>4, <5>2
        <5>3. CASE j \in l + 1 .. t - 1
          <6>1. j \in l + 1 .. k - 1 /\ j # t /\ j \in Places(n)
            BY <1>0, <2>4, <5>3 DEF Tables, Places
          <6> QED BY <1>0, <2>2, <6>1 DEF Tables
        <5> QED BY <5>1, <5>2, <5>3
      <4> QED BY <4>1 DEF Comes
    <3>4. b \in F[k]
      BY <1>0, <3>1, <3>2, <3>3 DEF BelowIsNewest
    <3> QED BY <1>1, <2>1, <3>4
  <2> QED BY <2>3, <2>4
<1>4. NoneOlderAbove(n, H2, F2)
  BY <1>0, <1>1 DEF NoneOlderAbove
<1>5. OldMeetsOld(n, F2, S)
  BY <1>0, <1>1 DEF OldMeetsOld
<1>6. PassedIsNewest(n, H2, F2, S)
  BY <1>0, <1>1 DEF PassedIsNewest
<1>7. NewestIsHeld(n, H2, F2)
  BY <1>0, <1>1 DEF NewestIsHeld
<1> QED
  BY <1>0, <1>2, <1>3, <1>4, <1>5, <1>6, <1>7 DEF Ordered

\* The bytes a level has to write back leave it, in a store to the next place.
LEMMA DirtyBytesLeave ==
  ASSUME NEW n, NEW H, NEW W, NEW F, NEW S, Ordered(n, H, W, F, S),
         NEW t \in 1 .. n, NEW G \in SUBSET Addrs, G \subseteq H[t],
         \A c \in S : c.level <= t,
         NEW v, v.level = t + 1, v.data.bytes = G, v.data.newest = G \cap F[t],
         NEW H2, H2 = [H EXCEPT ![t] = @ \ G],
         NEW W2, W2 = [W EXCEPT ![t] = @ \ G],
         NEW F2, F2 = [F EXCEPT ![t] = @ \ G]
  PROVE  Ordered(n, H2, W2, F2, S \cup {v})
<1> DEFINE S2 == S \cup {v}
<1>0. /\ Tables(n, H, W, F, S) /\ BelowIsNewest(n, H, W, F, S) /\ NoneOlderAbove(n, H, F)
      /\ OldMeetsOld(n, F, S) /\ InOrder(S) /\ PassedIsNewest(n, H, F, S) /\ NewestIsHeld(n, H, F)
  BY DEF Ordered
<1>1. /\ n \in Nat /\ t \in Places(n) /\ t # n + 1 /\ v.level \in Places(n)
      /\ H2[t] = H[t] \ G /\ F2[t] = F[t] \ G /\ W2[t] = W[t] \ G
      /\ \A k \in Places(n) \ {t} : H2[k] = H[k] /\ F2[k] = F[k] /\ W2[k] = W[k]
  BY <1>0 DEF Tables, Places
<1>2. Tables(n, H2, W2, F2, S2)
  BY <1>0, <1>1 DEF Tables, Places
<1>3. BelowIsNewest(n, H2, W2, F2, S2)
  <2> SUFFICES ASSUME NEW l \in 0 .. n, NEW k \in Places(n), NEW b \in Addrs, l < k,
                      Sees(H2, l, k, b), ~Comes(W2, S2, l, k, b)
               PROVE  b \in F2[k]
    BY DEF BelowIsNewest
  <2>1. b \in H[k] /\ ~(k = t /\ b \in G)
    BY <1>1 DEF Sees
  <2>2. ASSUME NEW j \in l + 1 .. k - 1 PROVE b \notin H[j] \/ (j = t /\ b \in G)
    <3>1. j \in Places(n)
      BY <1>0 DEF Tables, Places
    <3> QED BY <1>1, <3>1 DEF Sees
  <2>3. \A c \in S2 : ~(b \in c.data.newest /\ c.level <= k)
    BY DEF Comes
  <2>4. \A j \in 1 .. l : b \notin W[j] \/ (j = t /\ b \in G)
    <3>1. \A j \in 1 .. l : j \in Places(n) /\ b \notin W2[j]
      BY <1>0 DEF Comes, Tables, Places
    <3> QED BY <1>1, <3>1
  <2>5. CASE b \notin G \/ k < t
    <3>1. Sees(H, l, k, b) /\ \A j \in 1 .. l : b \notin W[j]
      BY <1>0, <2>1, <2>2, <2>4, <2>5 DEF Sees, Tables, Places
    <3>2. ~Comes(W, S, l, k, b)
      BY <2>3, <3>1 DEF Comes
    <3>3. b \in F[k]
      BY <1>0, <3>1, <3>2 DEF BelowIsNewest
    <3> QED BY <1>1, <2>1, <3>3
  <2>6. CASE b \in G /\ t < k
    <3>1. v.level <= k
      BY <1>0, <2>6 DEF Tables, Places
    <3>2. b \notin F[t] /\ b \in H[t]
      BY <2>3, <2>6, <3>1
    <3>3. ASSUME NEW i \in 0 .. t - 1, Sees(H, i, t, b), \A j \in 1 .. i : b \notin W[j]
          PROVE  FALSE
      <4>1. ~Comes(W, S, i, t, b)
        BY <1>0, <2>3, <2>6, <3>3 DEF Comes, Tables, Places
      <4> QED BY <1>0, <1>1, <3>2, <3>3, <4>1 DEF BelowIsNewest, Tables, Places
    <3>4. CASE l < t
      <4>1. Sees(H, l, t, b)
        BY <1>0, <2>2, <2>6, <3>2, <3>4 DEF Sees, Tables, Places
      <4> QED BY <1>0, <2>4, <3>3, <3>4, <4>1 DEF Tables, Places
    <3>5. CASE ~(l < t)
      <4>1. Sees(H, t - 1, t, b) /\ t - 1 \in 0 .. t - 1
        BY <1>0, <3>2 DEF Sees
      <4>2. \A j \in 1 .. t - 1 : b \notin W[j]
        BY <1>0, <2>4, <3>5 DEF Tables
      <4> QED BY <3>3, <4>1, <4>2
    <3> QED BY <3>4, <3>5
  <2> QED BY <1>0, <2>1, <2>5, <2>6 DEF Tables, Places
<1>4. NoneOlderAbove(n, H2, F2)
  BY <1>0, <1>1 DEF NoneOlderAbove
<1>5. OldMeetsOld(n, F2, S2)
  <2> SUFFICES ASSUME NEW c \in S2, NEW k \in Places(n), c.level <= k,
                      NEW b \in c.data.bytes \ c.data.newest, b \in F2[k]
               PROVE  FALSE
    BY DEF OldMeetsOld
  <2>1. b \in F[k]
    BY <1>1
  <2>2. CASE c \in S
    BY <1>0, <2>1, <2>2 DEF OldMeetsOld
  <2>3. CASE c = v
    <3>1. t < k /\ b \in H[t] /\ b \notin F[t] /\ b \in Addrs
      BY <1>0, <2>3 DEF Tables, Places
    <3> QED BY <1>0, <1>1, <2>1, <3>1 DEF NoneOlderAbove
  <2> QED BY <2>2, <2>3
<1>6. InOrder(S2)
  <2> SUFFICES ASSUME NEW c \in S2, NEW e \in S2, e.level <= c.level,
                      NEW b \in c.data.newest, b \in e.data.bytes \ e.data.newest
               PROVE  FALSE
    BY DEF InOrder
  <2>1. CASE c \in S /\ e \in S
    BY <1>0, <2>1 DEF InOrder
  <2>2. CASE c = v /\ e \in S
    <3>1. b \in F[t] /\ e.level <= t
      BY <2>2
    <3> QED BY <1>0, <1>1, <3>1 DEF OldMeetsOld
  <2>3. CASE c \in S /\ e = v
    <3>1. c.level <= t /\ t + 1 <= c.level /\ c.level \in Places(n)
      BY <1>0, <2>3 DEF Tables
    <3> QED BY <1>0, <3>1 DEF Tables, Places
  <2>4. CASE c = v /\ e = v
    BY <2>4
  <2> QED BY <2>1, <2>2, <2>3, <2>4
<1>7. PassedIsNewest(n, H2, F2, S2)
  <2> SUFFICES ASSUME NEW c \in S2, NEW l \in Places(n), l < c.level,
                      NEW b \in c.data.newest, b \in H2[l]
               PROVE  b \in F2[l]
    BY DEF PassedIsNewest
  <2>1. b \in H[l] /\ (l = t => b \notin G)
    BY <1>1
  <2>2. CASE c \in S
    <3>1. b \in F[l]
      BY <1>0, <2>1, <2>2 DEF PassedIsNewest
    <3> QED BY <1>1, <2>1, <3>1
  <2>3. CASE c = v
    <3>1. l < t /\ b \in F[t] /\ b \in Addrs
      BY <1>0, <2>1, <2>3 DEF Tables, Places
    <3> QED BY <1>0, <1>1, <2>1, <3>1 DEF NoneOlderAbove
  <2> QED BY <2>2, <2>3
<1>8. NewestIsHeld(n, H2, F2)
  BY <1>0, <1>1 DEF NewestIsHeld
<1> QED
  BY <1>2, <1>3, <1>4, <1>5, <1>6, <1>7, <1>8 DEF Ordered

\* Stores are taken from S by S2: all but f stay, and none comes but u.
Leaves(S, S2, f) == S \ {f} \subseteq S2 /\ S2 \subseteq S

Replaces(S, S2, f, u) == (S \ {f}) \cup {u} \subseteq S2 /\ S2 \subseteq S \cup {u}

\* The bytes a place has the newest value of, after f wrote those of B there.
Written(Fk, f, B) == (Fk \ (f.data.bytes \cap B)) \cup (f.data.newest \cap B)

\* Writing an old value makes nothing old: whoever has the newest value is not
\* reached by it.
LEMMA OldHidesNothing ==
  ASSUME NEW n, NEW H, NEW W, NEW F, NEW S, Ordered(n, H, W, F, S),
         NEW f \in S, NEW B
  PROVE  /\ f.level \in Places(n)
         /\ Written(F[f.level], f, B) = F[f.level] \cup (f.data.newest \cap B)
<1>1. f.level \in Places(n) /\ n \in Nat
  BY DEF Ordered, Tables
<1>2. (f.data.bytes \ f.data.newest) \cap F[f.level] = {}
  BY <1>1 DEF Ordered, OldMeetsOld, Places
<1> QED
  BY <1>1, <1>2 DEF Written

\* A store comes to its end at a place that holds its bytes: memory, or a level
\* that will write them back.
LEMMA StoreLands ==
  ASSUME NEW n, NEW H, NEW W, NEW F, NEW S, Ordered(n, H, W, F, S),
         NEW f \in S, f.data.bytes \subseteq H[f.level],
         NEW W2 \in [Places(n) -> SUBSET Addrs],
         \A k \in Places(n) : W2[k] \subseteq H[k] /\ W[k] \subseteq W2[k],
         f.level <= n => f.data.newest \subseteq W2[f.level],
         NEW F2, F2 = [F EXCEPT ![f.level] = Written(@, f, H[f.level])],
         NEW S2, Leaves(S, S2, f)
  PROVE  Ordered(n, H, W2, F2, S2)
<1> DEFINE t == f.level
<1>0. /\ Tables(n, H, W, F, S) /\ BelowIsNewest(n, H, W, F, S) /\ NoneOlderAbove(n, H, F)
      /\ OldMeetsOld(n, F, S) /\ InOrder(S) /\ PassedIsNewest(n, H, F, S) /\ NewestIsHeld(n, H, F)
  BY DEF Ordered
<1>1. /\ n \in Nat /\ t \in Places(n) /\ S2 \subseteq S /\ S \ {f} \subseteq S2
      /\ F2[t] = F[t] \cup f.data.newest
      /\ \A k \in Places(n) \ {t} : F2[k] = F[k]
  <2>1. t \in Places(n) /\ Written(F[t], f, H[t]) = F[t] \cup (f.data.newest \cap H[t])
    BY OldHidesNothing
  <2>2. f.data.newest \subseteq H[t]
    BY <1>0 DEF Tables
  <2> QED BY <1>0, <2>1, <2>2 DEF Tables, Leaves
<1> HIDE DEF t
<1>2. Tables(n, H, W2, F2, S2)
  <2>1. f.data.newest \subseteq Addrs
    BY <1>0 DEF Tables
  <2>2. F2 \in [Places(n) -> SUBSET Addrs]
    BY <1>0, <1>1, <2>1 DEF Tables, t
  <2> QED BY <1>0, <1>1, <2>2 DEF Tables
<1>3. BelowIsNewest(n, H, W2, F2, S2)
  <2> SUFFICES ASSUME NEW l \in 0 .. n, NEW k \in Places(n), NEW b \in Addrs, l < k,
                      Sees(H, l, k, b), ~Comes(W2, S2, l, k, b)
               PROVE  b \in F2[k]
    BY DEF BelowIsNewest
  <2>1. \A j \in 1 .. l : b \notin W[j] /\ b \notin W2[j]
    BY <1>0 DEF Comes, Tables, Places
  <2>2. CASE b \in F[k]
    BY <1>1, <2>2
  <2>3. CASE b \notin F[k]
    <3>1. b \in f.data.newest /\ t <= k
      <4>1. \E c \in S : b \in c.data.newest /\ c.level <= k
        BY <1>0, <2>1, <2>3 DEF BelowIsNewest, Comes
      <4> QED BY <1>1, <4>1 DEF Comes, t
    <3>2. ~(t <= l)
      <4>1. t \in 1 .. l => b \in W2[t]
        BY <1>0, <3>1 DEF Tables, t
      <4> QED BY <1>1, <2>1, <4>1 DEF Places
    <3>3. b \in H[t]
      BY <1>0, <3>1 DEF Tables, t
    <3>4. t = k
      BY <1>1, <3>1, <3>2, <3>3 DEF Sees, Places
    <3> QED BY <1>1, <3>1, <3>4
  <2> QED BY <2>2, <2>3
<1>4. NoneOlderAbove(n, H, F2)
  <2> SUFFICES ASSUME NEW l \in Places(n), NEW k \in Places(n), NEW b \in Addrs, l < k,
                      b \in H[l], b \in F2[k]
               PROVE  b \in F2[l]
    BY DEF NoneOlderAbove
  <2>1. CASE b \in F[k]
    BY <1>0, <1>1, <2>1 DEF NoneOlderAbove
  <2>2. CASE b \notin F[k]
    <3>1. k = t /\ b \in f.data.newest
      BY <1>1, <2>2
    <3>2. b \in F[l]
      BY <1>0, <3>1 DEF PassedIsNewest, t
    <3> QED BY <1>1, <3>2
  <2> QED BY <2>1, <2>2
<1>5. OldMeetsOld(n, F2, S2)
  <2> SUFFICES ASSUME NEW c \in S, NEW k \in Places(n), c.level <= k,
                      NEW b \in c.data.bytes \ c.data.newest, b \in F2[k]
               PROVE  FALSE
    BY <1>1 DEF OldMeetsOld
  <2>1. CASE b \in F[k]
    BY <1>0, <2>1 DEF OldMeetsOld
  <2>2. CASE b \notin F[k]
    <3>1. k = t /\ b \in f.data.newest
      BY <1>1, <2>2
    <3> QED BY <1>0, <3>1 DEF InOrder, t
  <2> QED BY <2>1, <2>2
<1>6. InOrder(S2)
  BY <1>0, <1>1 DEF InOrder
<1>7. PassedIsNewest(n, H, F2, S2)
  <2>1. \A k \in Places(n) : F[k] \subseteq F2[k]
    BY <1>1
  <2> QED BY <1>0, <1>1, <2>1 DEF PassedIsNewest
<1>8. NewestIsHeld(n, H, F2)
  BY <1>0, <1>1 DEF NewestIsHeld, Tables, t
<1> QED
  BY <1>2, <1>3, <1>4, <1>5, <1>6, <1>7, <1>8 DEF Ordered

\* A store goes on to the next place, having written what the level holds.
LEMMA StoreGoesOn ==
  ASSUME NEW n, NEW H, NEW W, NEW F, NEW S, Ordered(n, H, W, F, S),
         NEW f \in S, f.level <= n, \A c \in S : c.level <= f.level,
         NEW u, u.level = f.level + 1, u.data = f.data,
         NEW F2, F2 = [F EXCEPT ![f.level] = Written(@, f, H[f.level])],
         NEW S2, Replaces(S, S2, f, u)
  PROVE  Ordered(n, H, W, F2, S2)
<1> DEFINE t == f.level
<1>0. /\ Tables(n, H, W, F, S) /\ BelowIsNewest(n, H, W, F, S) /\ NoneOlderAbove(n, H, F)
      /\ OldMeetsOld(n, F, S) /\ InOrder(S) /\ PassedIsNewest(n, H, F, S) /\ NewestIsHeld(n, H, F)
  BY DEF Ordered
<1>1. /\ n \in Nat /\ t \in Places(n) /\ t <= n /\ S2 \subseteq S \cup {u} /\ S \ {f} \subseteq S2 /\ u \in S2
      /\ F2[t] = F[t] \cup (f.data.newest \cap H[t])
      /\ \A k \in Places(n) \ {t} : F2[k] = F[k]
  <2>1. t \in Places(n) /\ Written(F[t], f, H[t]) = F[t] \cup (f.data.newest \cap H[t])
    BY OldHidesNothing
  <2> QED BY <1>0, <2>1 DEF Tables, Replaces
<1>2. u.level = t + 1 /\ u.level \in Places(n) /\ u.data = f.data
  BY <1>1 DEF Places
<1> HIDE DEF t
<1>3. Tables(n, H, W, F2, S2)
  <2>1. f.data.newest \subseteq Addrs
    BY <1>0 DEF Tables
  <2>2. F2 \in [Places(n) -> SUBSET Addrs]
    BY <1>0, <1>1, <2>1 DEF Tables, t
  <2> QED BY <1>0, <1>1, <1>2, <2>2 DEF Tables
<1>4. BelowIsNewest(n, H, W, F2, S2)
  <2> SUFFICES ASSUME NEW l \in 0 .. n, NEW k \in Places(n), NEW b \in Addrs, l < k,
                      Sees(H, l, k, b), ~Comes(W, S2, l, k, b)
               PROVE  b \in F2[k]
    BY DEF BelowIsNewest
  <2>1. CASE b \in F[k]
    BY <1>1, <2>1
  <2>2. CASE b \notin F[k]
    <3>1. b \in f.data.newest /\ t <= k
      <4>1. \E c \in S : b \in c.data.newest /\ c.level <= k
        BY <1>0, <2>2 DEF BelowIsNewest, Comes
      <4> QED BY <1>1, <4>1 DEF Comes, t
    <3>2. ~(t + 1 <= k)
      BY <1>1, <1>2, <3>1 DEF Comes
    <3>3. t = k /\ b \in H[t]
      BY <1>1, <3>1, <3>2 DEF Sees, Places
    <3> QED BY <1>1, <3>1, <3>3
  <2> QED BY <2>1, <2>2
<1>5. NoneOlderAbove(n, H, F2)
  <2> SUFFICES ASSUME NEW l \in Places(n), NEW k \in Places(n), NEW b \in Addrs, l < k,
                      b \in H[l], b \in F2[k]
               PROVE  b \in F2[l]
    BY DEF NoneOlderAbove
  <2>1. CASE b \in F[k]
    BY <1>0, <1>1, <2>1 DEF NoneOlderAbove
  <2>2. CASE b \notin F[k]
    <3>1. k = t /\ b \in f.data.newest
      BY <1>1, <2>2
    <3>2. b \in F[l]
      BY <1>0, <3>1 DEF PassedIsNewest, t
    <3> QED BY <1>1, <3>2
  <2> QED BY <2>1, <2>2
<1>6. OldMeetsOld(n, F2, S2)
  <2> SUFFICES ASSUME NEW c \in S2, NEW k \in Places(n), c.level <= k,
                      NEW b \in c.data.bytes \ c.data.newest, b \in F2[k]
               PROVE  FALSE
    BY DEF OldMeetsOld
  <2>1. PICK e \in S : e.data = c.data /\ e.level <= k /\ (k = t => e.level <= t)
    BY <1>1, <1>2 DEF Places, t
  <2>2. CASE b \in F[k]
    BY <1>0, <2>1, <2>2 DEF OldMeetsOld
  <2>3. CASE b \notin F[k]
    <3>1. k = t /\ b \in f.data.newest
      BY <1>1, <2>3
    <3> QED BY <1>0, <2>1, <3>1 DEF InOrder, t
  <2> QED BY <2>2, <2>3
<1>7. InOrder(S2)
  <2> SUFFICES ASSUME NEW c \in S2, NEW e \in S2, e.level <= c.level,
                      NEW b \in c.data.newest, b \in e.data.bytes \ e.data.newest
               PROVE  FALSE
    BY DEF InOrder
  <2>1. CASE c = u /\ e = u
    BY <2>1
  <2>2. CASE c = u /\ e \in S
    <3>1. e.level <= t
      BY <2>2 DEF t
    <3> QED BY <1>0, <1>2, <2>2, <3>1 DEF InOrder, t
  <2>3. CASE c \in S /\ e = u
    <3>1. c.level <= t /\ t + 1 <= c.level /\ c.level \in Places(n)
      BY <1>0, <1>2, <2>3 DEF Tables, t
    <3> QED BY <1>1, <3>1 DEF Places
  <2>4. CASE c \in S /\ e \in S
    BY <1>0, <2>4 DEF InOrder
  <2> QED BY <1>1, <2>1, <2>2, <2>3, <2>4
<1>8. PassedIsNewest(n, H, F2, S2)
  <2> SUFFICES ASSUME NEW c \in S2, NEW l \in Places(n), l < c.level
               PROVE  c.data.newest \cap H[l] \subseteq F2[l]
    BY DEF PassedIsNewest
  <2>1. F[l] \subseteq F2[l]
    BY <1>1
  <2>2. CASE c \in S
    BY <1>0, <2>1, <2>2 DEF PassedIsNewest
  <2>3. CASE c = u /\ l < t
    BY <1>0, <1>2, <2>1, <2>3 DEF PassedIsNewest, t
  <2>4. CASE c = u /\ l = t
    BY <1>1, <1>2, <2>4
  <2> QED BY <1>1, <1>2, <2>2, <2>3, <2>4 DEF Places
<1>9. NewestIsHeld(n, H, F2)
  BY <1>0, <1>1 DEF NewestIsHeld
<1> QED
  BY <1>3, <1>4, <1>5, <1>6, <1>7, <1>8, <1>9 DEF Ordered

-----------------------------------------------------------------------------
(* The bytes of the chain.                                                 *)

Held == [k \in Places(Depth) |-> {a \in Addrs : Holds(k, a)}]

Owing ==
  [k \in Places(Depth) |->
     {a \in Addrs : k \in Levels /\ HasDirty(cfgs[k], levels[k], BlockOf(cfgs[k], a))}]

\* The stores under way in a list of calls; those of the CPU have not begun.
StoresOf(calls) ==
  {calls[i] : i \in {j \in DOMAIN calls : calls[j].isWrite /\ calls[j].level # 1}}

Passing == StoresOf(pending)

\* The calls under way go to the levels of the chain, the deepest first.
StackDescends ==
  /\ \A i \in DOMAIN pending : pending[i].level \in Places(Depth)
  /\ \A i, j \in DOMAIN pending : i < j => pending[j].level <= pending[i].level

\* A store writes bytes of one block of each level it may reach, the CPU's
\* with their newest value; a load writes none.
Fits(c) ==
  /\ c.data.newest \subseteq c.data.bytes
  /\ c.level = 1 => c.data.bytes = c.data.newest
  /\ ~c.isWrite => c.data.bytes = {}
  /\ \A l \in Levels : c.level <= l => c.data.bytes \subseteq Bytes(l, BlockOf(cfgs[l], c.addr))

StoresFit == \A i \in DOMAIN pending : Fits(pending[i])

ValueInv == StackDescends /\ StoresFit /\ Ordered(Depth, Held, Owing, fresh, Passing)

ValuesInOrder == ChainInv /\ SoundLevels /\ (BlocksGrow => ValueInv)

-----------------------------------------------------------------------------
(* The stack.                                                              *)

\* No level but memory has smaller blocks than one above it.
LEMMA GrowingBlocks ==
  ASSUME Proper(cfgs), BlocksGrow, NEW i \in Levels, NEW j \in Levels, i <= j
  PROVE  cfgs[i].blockSize <= cfgs[j].blockSize
<1> DEFINE Bad == {k \in Levels : i <= k /\ ~(cfgs[i].blockSize <= cfgs[k].blockSize)}
<1> SUFFICES ASSUME Bad # {} PROVE FALSE
  OBVIOUS
<1>1. Depth \in Nat /\ \A k \in Levels : k \in Nat /\ cfgs[k].blockSize \in Nat
  BY ChainOfCaches, GeometryType
<1> DEFINE m == First(Bad)
<1>2. m \in Bad /\ \A u \in Bad : m <= u
  <2>1. Bad \in SUBSET Nat
    BY <1>1
  <2> HIDE DEF Bad
  <2> QED BY <2>1, FirstIsLeast
<1>3. m \in Levels /\ i <= m /\ ~(cfgs[i].blockSize <= cfgs[m].blockSize)
  BY <1>2
<1> HIDE DEF m
<1>4. m # i
  BY <1>1, <1>3
<1>5. m - 1 \in Levels /\ i <= m - 1 /\ m \in Levels \ {1} /\ ~(m <= m - 1)
  BY <1>1, <1>3, <1>4 DEF Levels
<1>6. cfgs[i].blockSize <= cfgs[m - 1].blockSize
  BY <1>2, <1>5
<1>7. cfgs[m - 1].blockSize <= cfgs[m].blockSize
  BY <1>5 DEF BlocksGrow
<1> QED
  BY <1>1, <1>3, <1>5, <1>6, <1>7

\* The stores of a list that is not empty: its head, if it is one, and those
\* of the tail.
LEMMA StoresOfTail ==
  ASSUME pending \in Seq(PendingCall), pending # <<>>, StackDescends, StoresFit
  PROVE  /\ Front.level \in Places(Depth) /\ Fits(Front)
         /\ \A i \in DOMAIN Tail(pending) :
              /\ Tail(pending)[i].level \in Places(Depth)
              /\ Tail(pending)[i].level <= Front.level
              /\ Fits(Tail(pending)[i])
         /\ \A i, j \in DOMAIN Tail(pending) :
              i < j => Tail(pending)[j].level <= Tail(pending)[i].level
         /\ StoresOf(Tail(pending)) \subseteq Passing
         /\ Passing \subseteq StoresOf(Tail(pending)) \cup {Front}
         /\ Front.isWrite /\ Front.level # 1 => Front \in Passing
         /\ Front \in Passing => Front.isWrite /\ Front.level # 1
         /\ \A c \in Passing : c.level <= Front.level
<1> DEFINE r == Tail(pending)
<1>1. /\ r \in Seq(PendingCall) /\ Len(r) = Len(pending) - 1 /\ Len(pending) \in Nat \ {0}
      /\ \A i \in 1 .. Len(r) : r[i] = pending[i + 1]
      /\ DOMAIN r = 1 .. Len(r) /\ DOMAIN pending = 1 .. Len(pending)
  <2>1. r \in Seq(PendingCall) /\ Len(r) = Len(pending) - 1 /\ Len(pending) \in Nat
        /\ \A i \in 1 .. Len(r) : r[i] = pending[i + 1]
    BY HeadTailProperties
  <2>2. Len(pending) # 0
    BY EmptySeq
  <2> QED BY <2>1, <2>2, LenProperties
<1>2. Front = pending[1] /\ 1 \in DOMAIN pending
  BY <1>1 DEF Front
<1> HIDE DEF r
<1>3. ASSUME NEW i \in DOMAIN r
      PROVE  i + 1 \in DOMAIN pending /\ r[i] = pending[i + 1] /\ 1 < i + 1
  BY <1>1
<1>4. ASSUME NEW i \in DOMAIN pending, i # 1
      PROVE  i - 1 \in DOMAIN r /\ r[i - 1] = pending[i]
  <2>1. i - 1 \in 1 .. Len(r) /\ (i - 1) + 1 = i
    BY <1>1, <1>4
  <2> QED BY <1>1, <2>1
<1>5. Front.level \in Places(Depth) /\ Fits(Front)
  BY <1>2 DEF StackDescends, StoresFit
<1>6. ASSUME NEW i \in DOMAIN r
      PROVE  r[i].level \in Places(Depth) /\ r[i].level <= Front.level /\ Fits(r[i])
  BY <1>2, <1>3 DEF StackDescends, StoresFit
<1>7. ASSUME NEW i \in DOMAIN r, NEW j \in DOMAIN r, i < j
      PROVE  r[j].level <= r[i].level
  <2>1. i + 1 < j + 1
    BY <1>1, <1>7
  <2> QED BY <1>3, <2>1 DEF StackDescends
<1>8. StoresOf(r) \subseteq Passing
  BY <1>3 DEF StoresOf, Passing
<1>9. Passing \subseteq StoresOf(r) \cup {Front}
  <2> SUFFICES ASSUME NEW i \in DOMAIN pending, pending[i].isWrite, pending[i].level # 1
               PROVE  pending[i] \in StoresOf(r) \cup {Front}
    BY DEF StoresOf, Passing
  <2>1. CASE i = 1
    BY <1>2, <2>1
  <2>2. CASE i # 1
    BY <1>4, <2>2 DEF StoresOf
  <2> QED BY <2>1, <2>2
<1>10. Front.isWrite /\ Front.level # 1 => Front \in Passing
  BY <1>2 DEF StoresOf, Passing
<1>11. \A c \in Passing : c.isWrite /\ c.level # 1
  BY DEF StoresOf, Passing
<1>12. \A c \in Passing : c.level <= Front.level
  <2>1. \A c \in StoresOf(r) : c.level <= Front.level
    BY <1>6 DEF StoresOf
  <2>2. Front.level <= Front.level
    <3>1. Front.level \in Nat
      BY FrontCall
    <3> QED BY <3>1
  <2> QED BY <1>9, <2>1, <2>2
<1> QED
  BY <1>5, <1>6, <1>7, <1>8, <1>9, <1>10, <1>11, <1>12 DEF r

\* The front call is replaced by calls to the next place: the stack still
\* descends, and the stores under way are those that were waiting, and theirs.
LEMMA StackStep ==
  ASSUME Proper(cfgs), cfgs' = cfgs, pending \in Seq(PendingCall), pending # <<>>,
         StackDescends, StoresFit,
         NEW calls \in Seq(Call), NEW data, Replace(calls, data),
         calls # <<>> => Front.level \in Levels,
         \A i \in DOMAIN calls : Fits(Sent(Front.level + 1, calls[i], data))
  PROVE  /\ StackDescends' /\ StoresFit'
         /\ Passing' = StoresOf(Tail(pending))
                         \cup {Sent(Front.level + 1, calls[i], data) :
                                 i \in {j \in DOMAIN calls : calls[j].isWrite}}
<1> DEFINE r == Tail(pending)
           u == Front.level + 1
           made == [i \in DOMAIN calls |-> Sent(u, calls[i], data)]
           m == Len(calls)
<1>1. /\ m \in Nat /\ DOMAIN calls = 1 .. m /\ (calls = <<>> <=> m = 0)
      /\ r \in Seq(PendingCall) /\ Len(r) \in Nat /\ DOMAIN r = 1 .. Len(r)
      /\ made \in Seq({made[i] : i \in 1 .. m}) /\ Len(made) = m
  <2>1. m \in Nat /\ DOMAIN calls = 1 .. m /\ (calls = <<>> <=> m = 0)
    BY LenProperties, EmptySeq
  <2>2. r \in Seq(PendingCall)
    BY FrontCall
  <2>3. made \in Seq({made[i] : i \in 1 .. m}) /\ Len(made) = m
    BY <2>1
  <2> QED BY <2>1, <2>2, <2>3, LenProperties
<1>2. pending' = made \o r
  BY DEF Replace, NextLevel
<1>3. \A i \in 1 .. m : /\ made[i] = Sent(u, calls[i], data) /\ made[i].level = u
                        /\ (made[i].isWrite <=> calls[i].isWrite)
  BY <1>1 DEF Sent
<1>4. /\ Front.level \in Places(Depth) /\ Front.level \in Nat /\ Depth \in Nat
      /\ m # 0 => u \in Places(Depth) /\ u # 1
  BY <1>1, StoresOfTail, ChainOfCaches, FrontCall DEF Places, Levels
<1> HIDE DEF made, r, u, m
<1>5. /\ DOMAIN pending' = 1 .. m + Len(r)
      /\ \A i \in 1 .. m + Len(r) : pending'[i] = IF i <= m THEN made[i] ELSE r[i - m]
  <2> DEFINE X == {made[i] : i \in 1 .. m} \cup PendingCall
  <2>1. made \in Seq(X) /\ r \in Seq(X)
    BY <1>1
  <2> HIDE DEF X
  <2>2. made \o r \in Seq(X) /\ Len(made \o r) = m + Len(r)
        /\ \A i \in 1 .. m + Len(r) : (made \o r)[i] = IF i <= m THEN made[i] ELSE r[i - m]
    BY <1>1, <2>1, ConcatProperties
  <2> QED BY <1>2, <2>2, LenProperties
<1>6. ASSUME NEW i \in DOMAIN pending'
      PROVE  \/ i \in 1 .. m /\ pending'[i] = made[i]
             \/ i - m \in DOMAIN r /\ pending'[i] = r[i - m] /\ i \notin 1 .. m
  <2>1. CASE i <= m
    BY <1>1, <1>5, <2>1
  <2>2. CASE ~(i <= m)
    <3>1. i - m \in 1 .. Len(r) /\ i \notin 1 .. m
      BY <1>1, <1>5, <2>2
    <3> QED BY <1>1, <1>5, <2>2, <3>1
  <2> QED BY <2>1, <2>2
<1>7. /\ \A i \in DOMAIN r : r[i].level \in Places(Depth) /\ r[i].level <= Front.level /\ Fits(r[i])
      /\ \A i, j \in DOMAIN r : i < j => r[j].level <= r[i].level
  BY StoresOfTail DEF r
<1>8. Depth' = Depth /\ Levels' = Levels /\ (\A c : Fits(c)' <=> Fits(c))
  BY DEF Depth, Levels, Fits, Bytes
<1>9. StoresFit'
  <2> SUFFICES ASSUME NEW i \in DOMAIN pending' PROVE Fits(pending'[i])
    BY <1>8 DEF StoresFit
  <2>1. CASE i \in 1 .. m /\ pending'[i] = made[i]
    BY <1>1, <1>3, <2>1 DEF u
  <2>2. CASE i - m \in DOMAIN r /\ pending'[i] = r[i - m]
    BY <1>7, <2>2
  <2> QED BY <1>6, <2>1, <2>2
<1>10. StackDescends'
  <2>1. ASSUME NEW i \in DOMAIN pending' PROVE pending'[i].level \in Places(Depth)
    <3>1. CASE i \in 1 .. m /\ pending'[i] = made[i]
      <4>1. m # 0
        BY <1>1, <3>1
      <4> QED BY <1>3, <1>4, <3>1, <4>1
    <3>2. CASE i - m \in DOMAIN r /\ pending'[i] = r[i - m]
      BY <1>7, <3>2
    <3> QED BY <1>6, <3>1, <3>2
  <2>2. ASSUME NEW i \in DOMAIN pending', NEW j \in DOMAIN pending', i < j
        PROVE  pending'[j].level <= pending'[i].level
    <3>0. m \in Nat /\ i \in Nat /\ j \in Nat /\ u = Front.level + 1 /\ Front.level \in Nat
      BY <1>1, <1>4, <1>5 DEF u
    <3>1. CASE i - m \in DOMAIN r /\ pending'[i] = r[i - m] /\ i \notin 1 .. m
      <4>1. j \notin 1 .. m
        BY <1>1, <1>5, <2>2, <3>0, <3>1
      <4>2. j - m \in DOMAIN r /\ pending'[j] = r[j - m]
        BY <1>6, <4>1
      <4>3. i - m < j - m
        BY <2>2, <3>0
      <4> QED BY <1>7, <3>1, <4>2, <4>3
    <3>2. CASE i \in 1 .. m /\ pending'[i] = made[i]
      <4>1. pending'[i].level = u
        BY <1>3, <3>2
      <4>2. CASE j \in 1 .. m /\ pending'[j] = made[j]
        BY <1>3, <3>0, <4>1, <4>2
      <4>3. CASE j - m \in DOMAIN r /\ pending'[j] = r[j - m]
        <5>1. pending'[j].level \in Places(Depth) /\ pending'[j].level <= Front.level
          BY <1>7, <4>3
        <5> QED BY <1>4, <3>0, <4>1, <5>1 DEF Places
      <4> QED BY <1>6, <4>2, <4>3
    <3> QED BY <1>6, <3>1, <3>2
  <2> QED BY <1>8, <2>1, <2>2 DEF StackDescends
<1>11. Passing' = StoresOf(r) \cup {made[i] : i \in {j \in 1 .. m : calls[j].isWrite}}
  <2> DEFINE Q == {made[i] : i \in {j \in 1 .. m : calls[j].isWrite}}
  <2>1. ASSUME NEW c \in Passing' PROVE c \in StoresOf(r) \cup Q
    <3>1. PICK i \in DOMAIN pending' : c = pending'[i] /\ c.isWrite /\ c.level # 1
      BY DEF StoresOf, Passing
    <3>2. CASE i \in 1 .. m /\ pending'[i] = made[i]
      BY <1>3, <3>1, <3>2
    <3>3. CASE i - m \in DOMAIN r /\ pending'[i] = r[i - m]
      BY <3>1, <3>3 DEF StoresOf
    <3> QED BY <1>6, <3>2, <3>3
  <2>2. ASSUME NEW i \in DOMAIN r, r[i].isWrite, r[i].level # 1 PROVE r[i] \in Passing'
    <3>1. i + m \in DOMAIN pending' /\ ~(i + m <= m) /\ (i + m) - m = i
      BY <1>1, <1>5
    <3>2. pending'[i + m] = r[i]
      BY <1>5, <3>1
    <3> QED BY <2>2, <3>1, <3>2 DEF StoresOf, Passing
  <2>3. ASSUME NEW i \in 1 .. m, calls[i].isWrite PROVE made[i] \in Passing'
    <3>1. i \in DOMAIN pending' /\ pending'[i] = made[i] /\ m # 0
      BY <1>1, <1>5
    <3>2. made[i].isWrite /\ made[i].level # 1
      BY <1>3, <1>4, <2>3, <3>1
    <3> QED BY <3>1, <3>2 DEF StoresOf, Passing
  <2> QED BY <2>1, <2>2, <2>3 DEF StoresOf
<1>12. {made[i] : i \in {j \in 1 .. m : calls[j].isWrite}}
         = {Sent(u, calls[i], data) : i \in {j \in DOMAIN calls : calls[j].isWrite}}
  BY <1>1, <1>3
<1> QED
  BY <1>9, <1>10, <1>11, <1>12 DEF r, u

-----------------------------------------------------------------------------
(* What an access of a level moves.                                        *)

\* The blocks of which bytes have a copy at each place.
LEMMA TablesOfChain ==
  ASSUME ChainInv
  PROVE  /\ Depth \in Nat /\ Levels \subseteq Places(Depth) /\ Places(Depth) = Levels \cup {Depth + 1}
         /\ Depth + 1 \notin Levels /\ Depth + 1 \in Places(Depth)
         /\ Held \in [Places(Depth) -> SUBSET Addrs] /\ Owing \in [Places(Depth) -> SUBSET Addrs]
         /\ Held[Depth + 1] = Addrs /\ Owing[Depth + 1] = {}
         /\ \A k \in Levels :
              /\ Held[k] = {a \in Addrs : IsHit(cfgs[k], levels[k], BlockOf(cfgs[k], a))}
              /\ Owing[k] = {a \in Addrs : HasDirty(cfgs[k], levels[k], BlockOf(cfgs[k], a))}
<1>1. Depth \in Nat /\ Depth # 0
  BY ChainOfCaches DEF ChainInv
<1>2. /\ Levels \subseteq Places(Depth) /\ Places(Depth) = Levels \cup {Depth + 1}
      /\ Depth + 1 \notin Levels /\ Depth + 1 \in Places(Depth)
      /\ \A k \in Levels : ~(k > Depth)
      /\ Depth + 1 > Depth
  BY <1>1 DEF Levels, Places
<1>3. /\ Held \in [Places(Depth) -> SUBSET Addrs] /\ Owing \in [Places(Depth) -> SUBSET Addrs]
      /\ \A k \in Places(Depth) :
           /\ Held[k] = {a \in Addrs : Holds(k, a)}
           /\ Owing[k] = {a \in Addrs : k \in Levels /\ HasDirty(cfgs[k], levels[k], BlockOf(cfgs[k], a))}
  BY DEF Held, Owing
<1>4. \A a : /\ Holds(Depth + 1, a)
             /\ \A k \in Levels : Holds(k, a) <=> IsHit(cfgs[k], levels[k], BlockOf(cfgs[k], a))
  BY <1>2 DEF Holds
<1>5. Held[Depth + 1] = Addrs /\ Owing[Depth + 1] = {}
  BY <1>2, <1>3, <1>4
<1>6. ASSUME NEW k \in Levels
      PROVE  /\ Held[k] = {a \in Addrs : IsHit(cfgs[k], levels[k], BlockOf(cfgs[k], a))}
             /\ Owing[k] = {a \in Addrs : HasDirty(cfgs[k], levels[k], BlockOf(cfgs[k], a))}
  BY <1>2, <1>3, <1>4
<1> QED
  BY <1>1, <1>2, <1>3, <1>5, <1>6

\* When one level changes, so do its entries.
LEMMA TablesStep ==
  ASSUME ChainInv, cfgs' = cfgs, NEW l \in Levels, NEW d, levels' = [levels EXCEPT ![l] = d]
  PROVE  /\ Depth' = Depth /\ Levels' = Levels
         /\ Held' = [Held EXCEPT ![l] = {a \in Addrs : IsHit(cfgs[l], d, BlockOf(cfgs[l], a))}]
         /\ Owing' = [Owing EXCEPT ![l] = {a \in Addrs : HasDirty(cfgs[l], d, BlockOf(cfgs[l], a))}]
<1> DEFINE X == {a \in Addrs : IsHit(cfgs[l], d, BlockOf(cfgs[l], a))}
           Y == {a \in Addrs : HasDirty(cfgs[l], d, BlockOf(cfgs[l], a))}
<1>1. Depth' = Depth /\ Levels' = Levels
  BY DEF Depth, Levels
<1>2. /\ l \in Places(Depth) /\ ~(l > Depth) /\ levels'[l] = d
      /\ \A k \in Places(Depth) : (k > Depth \/ k \in Levels) /\ ~(k > Depth /\ k \in Levels)
      /\ \A k \in Levels \ {l} : levels'[k] = levels[k]
  BY ChainOfCaches DEF ChainInv, Levels, Places
<1>3. /\ Held' = [k \in Places(Depth) |->
           {a \in Addrs : k > Depth \/ IsHit(cfgs[k], levels'[k], BlockOf(cfgs[k], a))}]
      /\ Owing' = [k \in Places(Depth) |->
           {a \in Addrs : k \in Levels /\ HasDirty(cfgs[k], levels'[k], BlockOf(cfgs[k], a))}]
  BY <1>1 DEF Held, Owing, Holds
<1>4. /\ Held = [k \in Places(Depth) |->
           {a \in Addrs : k > Depth \/ IsHit(cfgs[k], levels[k], BlockOf(cfgs[k], a))}]
      /\ Owing = [k \in Places(Depth) |->
           {a \in Addrs : k \in Levels /\ HasDirty(cfgs[k], levels[k], BlockOf(cfgs[k], a))}]
  BY DEF Held, Owing, Holds
<1>5. Held'[l] = X /\ Owing'[l] = Y
  BY <1>2, <1>3
<1>6. ASSUME NEW k \in Places(Depth) \ {l} PROVE Held'[k] = Held[k] /\ Owing'[k] = Owing[k]
  <2>1. CASE k > Depth
    <3>1. Held'[k] = Addrs /\ Held[k] = Addrs /\ Owing'[k] = {} /\ Owing[k] = {}
      BY <1>2, <1>3, <1>4, <2>1
    <3> QED BY <3>1
  <2>2. CASE k \in Levels
    <3>1. levels'[k] = levels[k]
      BY <1>2, <2>2
    <3> QED BY <1>3, <1>4, <3>1
  <2> QED BY <1>2, <2>1, <2>2
<1> HIDE DEF X, Y
<1>7. Held' = [Held EXCEPT ![l] = X] /\ Owing' = [Owing EXCEPT ![l] = Y]
  <2>1. DOMAIN Held' = Places(Depth) /\ DOMAIN Owing' = Places(Depth)
        /\ Held' = [k \in Places(Depth) |-> Held'[k]] /\ Owing' = [k \in Places(Depth) |-> Owing'[k]]
    BY <1>3
  <2>2. DOMAIN Held = Places(Depth) /\ DOMAIN Owing = Places(Depth)
    BY <1>4
  <2>3. /\ [Held EXCEPT ![l] = X] = [k \in Places(Depth) |-> IF k = l THEN X ELSE Held[k]]
        /\ [Owing EXCEPT ![l] = Y] = [k \in Places(Depth) |-> IF k = l THEN Y ELSE Owing[k]]
    BY <2>2
  <2>4. \A k \in Places(Depth) :
          Held'[k] = (IF k = l THEN X ELSE Held[k]) /\ Owing'[k] = (IF k = l THEN Y ELSE Owing[k])
    BY <1>5, <1>6
  <2> QED BY <2>1, <2>3, <2>4
<1> QED
  BY <1>1, <1>7 DEF X, Y

\* FoundBelow is where a load that passes a level sees the byte.
LEMMA FoundIsSeen ==
  ASSUME ChainInv, NEW l \in 0 .. Depth, NEW b \in Addrs
  PROVE  /\ FoundBelow(l, b) \in l + 1 .. Depth + 1
         /\ \A k \in l + 1 .. Depth + 1 : Sees(Held, l, k, b) <=> k = FoundBelow(l, b)
<1> DEFINE K == {k \in l + 1 .. Depth + 1 : Holds(k, b)}
           m == First(K)
<1>1. Depth \in Nat /\ l \in Nat /\ \A k \in Places(Depth) : Holds(k, b) <=> b \in Held[k]
  BY TablesOfChain DEF Held
<1>2. K \in SUBSET Nat /\ Depth + 1 \in K
  BY <1>1 DEF Holds
<1> HIDE DEF K
<1>3. m \in K /\ \A u \in K : m <= u
  BY <1>2, FirstIsLeast
<1>4. \A k : k \in K <=> k \in l + 1 .. Depth + 1 /\ b \in Held[k]
  <2>1. \A k \in l + 1 .. Depth + 1 : k \in Places(Depth)
    BY <1>1 DEF Places
  <2> QED BY <1>1, <2>1 DEF K
<1> HIDE DEF m
<1>5. m \in l + 1 .. Depth + 1 /\ b \in Held[m] /\ m \in Nat
  BY <1>1, <1>3, <1>4
<1>6. Sees(Held, l, m, b)
  <2>1. ASSUME NEW j \in l + 1 .. m - 1 PROVE b \notin Held[j]
    <3>1. j \in l + 1 .. Depth + 1 /\ ~(m <= j)
      BY <1>1, <1>5
    <3> QED BY <1>3, <1>4, <3>1
  <2> QED BY <1>5, <2>1 DEF Sees
<1>7. ASSUME NEW k \in l + 1 .. Depth + 1, Sees(Held, l, k, b) PROVE k = m
  <2>1. b \in Held[k] /\ m <= k
    BY <1>3, <1>4, <1>7 DEF Sees
  <2>2. m \notin l + 1 .. k - 1
    BY <1>5, <1>7 DEF Sees
  <2> QED BY <1>1, <1>5, <2>1, <2>2
<1>8. FoundBelow(l, b) = m
  BY DEF FoundBelow, m, K
<1> QED
  BY <1>5, <1>6, <1>7, <1>8

\* The stores under way once the front call is being served.
Begun == IF Front.isWrite /\ Front.level = 1 THEN {Front} ELSE Passing

Begins ==
  /\ Ordered(Depth, Held, Owing, Aged, Begun)
  /\ Front.isWrite <=> Front \in Begun
  /\ \A c \in Begun : c.level <= Front.level
  /\ Leaves(Begun, StoresOf(Tail(pending)), Front)
  /\ \A k \in Places(Depth) : Aged[k] \subseteq fresh[k] /\ fresh[k] \subseteq Aged[k] \cup Front.data.newest

\* Serving a call of the CPU begins its store; before it no store was under way.
LEMMA ServingBegins ==
  ASSUME ChainInv, ValueInv, pending # <<>>
  PROVE  Begins
<1>1. pending \in Seq(PendingCall) /\ StackDescends /\ StoresFit
      /\ Ordered(Depth, Held, Owing, fresh, Passing)
  BY DEF ChainInv, ValueInv
<1> DEFINE rest == StoresOf(Tail(pending))
<1>2. /\ Front.level \in Places(Depth) /\ Fits(Front)
      /\ \A i \in DOMAIN Tail(pending) :
           /\ Tail(pending)[i].level \in Places(Depth)
           /\ Tail(pending)[i].level <= Front.level
      /\ rest \subseteq Passing /\ Passing \subseteq rest \cup {Front}
      /\ Front.isWrite /\ Front.level # 1 => Front \in Passing
      /\ Front \in Passing => Front.isWrite /\ Front.level # 1
      /\ \A c \in Passing : c.level <= Front.level
  BY <1>1, StoresOfTail
<1>3. /\ fresh \in [Places(Depth) -> SUBSET Addrs] /\ Depth \in Nat
      /\ DOMAIN fresh = Places(Depth)
  BY <1>1 DEF Ordered, Tables
<1>4. /\ Front \in PendingCall /\ Front.isWrite \in BOOLEAN /\ Front.data \in Payload
      /\ Front.level \in Nat
  BY <1>1, FrontCall
<1>5. CASE Front.level # 1
  <2>1. Aged = fresh /\ Begun = Passing
    BY <1>5 DEF Aged, Begun
  <2> QED BY <1>1, <1>2, <1>3, <1>5, <2>1 DEF Begins, Leaves
<1>6. CASE Front.level = 1
  <2>1. Passing = {} /\ rest = {}
    <3>1. \A c \in Passing : c.level \in Places(Depth) /\ c.level <= 1 /\ c.level # 1
      BY <1>1, <1>2, <1>6 DEF StackDescends, Passing, StoresOf
    <3>2. \A c \in Passing : FALSE
      BY <1>3, <3>1 DEF Places
    <3> QED BY <1>2, <3>2
  <2>2. Aged = [k \in Places(Depth) |-> fresh[k] \ Front.data.newest]
    BY <1>3, <1>6 DEF Aged
  <2>3. CASE Front.isWrite
    <3>1. Begun = {Front}
      BY <1>6, <2>3 DEF Begun
    <3>2. Front.data.bytes = Front.data.newest /\ Front.data.bytes \subseteq Addrs
      BY <1>2, <1>4, <1>6 DEF Fits, Payload
    <3>3. Ordered(Depth, Held, Owing, Aged, {Front})
      <4>1. Ordered(Depth, Held, Owing, fresh, {})
        BY <1>1, <2>1
      <4> QED BY <1>6, <2>2, <3>2, <4>1, StoreBegins
    <3>4. Front.level <= Front.level
      BY <1>4
    <3> QED BY <2>1, <2>2, <2>3, <3>1, <3>3, <3>4 DEF Begins, Leaves
  <2>4. CASE ~Front.isWrite
    <3>1. Front.data.newest = {} /\ Begun = Passing
      BY <1>2, <2>4 DEF Fits, Begun
    <3>2. Aged = fresh
      BY <1>3, <2>2, <3>1
    <3> QED BY <1>1, <1>2, <2>1, <2>4, <3>1, <3>2 DEF Begins, Leaves
  <2> QED BY <1>4, <2>3, <2>4
<1> QED
  BY <1>5, <1>6

-----------------------------------------------------------------------------
(* What the calls below take on.                                           *)

\* A store that goes on still fits, and a load takes nothing along.
LEMMA CallsFit ==
  ASSUME NEW k \in Nat, k # 0, NEW a, NEW data
  PROVE  /\ Fits(Sent(k + 1, Load(a), data))
         /\ Sent(k + 1, Store(a), data).level = k + 1 /\ Sent(k + 1, Store(a), data).data = data
         /\ Fits(Front) /\ Front.isWrite /\ Front.level = k /\ a = Front.addr /\ data = Front.data
              => Fits(Sent(k + 1, Store(a), data))
<1>1. k + 1 # 1 /\ \A j \in Levels : k + 1 <= j => k <= j
  BY DEF Levels
<1>2. /\ Sent(k + 1, Load(a), data).level = k + 1 /\ Sent(k + 1, Load(a), data).data = Nothing
      /\ Sent(k + 1, Store(a), data).level = k + 1 /\ Sent(k + 1, Store(a), data).data = data
      /\ Sent(k + 1, Store(a), data).addr = a
      /\ Sent(k + 1, Store(a), data).isWrite
  BY DEF Sent, Load, Store
<1>3. Fits(Sent(k + 1, Load(a), data))
  BY <1>1, <1>2 DEF Fits, Nothing
<1>4. ASSUME Fits(Front), Front.isWrite, Front.level = k, a = Front.addr, data = Front.data
      PROVE  Fits(Sent(k + 1, Store(a), data))
  BY <1>1, <1>2, <1>4 DEF Fits
<1> QED
  BY <1>2, <1>3, <1>4

\* The front call leaves no store behind it, or one.
LEMMA StackCases ==
  ASSUME Proper(cfgs), cfgs' = cfgs, pending \in Seq(PendingCall), pending # <<>>,
         StackDescends, StoresFit, Front.level \in Levels,
         NEW calls, NEW data, Replace(calls, data), NEW a \in Nat, NEW b \in Nat
  PROVE  /\ calls = <<>> \/ calls = <<Load(b)>> =>
              StackDescends' /\ StoresFit' /\ Passing' = StoresOf(Tail(pending))
         /\ /\ calls = <<Store(a)>> \/ calls = <<Load(b), Store(a)>>
            /\ Fits(Sent(Front.level + 1, Store(a), data))
            => /\ StackDescends' /\ StoresFit'
               /\ Passing' = StoresOf(Tail(pending)) \cup {Sent(Front.level + 1, Store(a), data)}
<1> DEFINE k == Front.level
           sent == {Sent(k + 1, calls[i], data) : i \in {j \in DOMAIN calls : calls[j].isWrite}}
<1>1. k \in Nat /\ k # 0
  BY ChainOfCaches DEF Levels
<1>2. Fits(Sent(k + 1, Load(b), data)) /\ Load(b).isWrite = FALSE /\ Store(a).isWrite = TRUE
      /\ Load(b) \in Call /\ Store(a) \in Call
  BY <1>1, CallsFit DEF Load, Store, Call
<1>3. ASSUME calls \in Seq(Call), \A i \in DOMAIN calls : Fits(Sent(k + 1, calls[i], data))
      PROVE  StackDescends' /\ StoresFit' /\ Passing' = StoresOf(Tail(pending)) \cup sent
  BY <1>3, StackStep
<1> DEFINE load == Load(b)
           store == Store(a)
<1> HIDE DEF k, load, store
<1>4. Fits(Sent(k + 1, load, data)) /\ load.isWrite = FALSE /\ store.isWrite = TRUE
      /\ load \in Call /\ store \in Call
  BY <1>2 DEF load, store
<1>5. CASE calls = <<>>
  <2>1. calls \in Seq(Call) /\ DOMAIN calls = {} /\ sent = {}
    BY <1>5
  <2> QED BY <1>3, <1>5, <2>1
<1>6. CASE calls = <<load>>
  <2>1. calls \in Seq(Call) /\ DOMAIN calls = {1} /\ calls[1] = load
    BY <1>4, <1>6
  <2>2. sent = {}
    BY <1>4, <2>1
  <2> HIDE DEF sent
  <2>3. calls # <<>> /\ calls # <<store>> /\ calls # <<load, store>>
    BY <1>4, <1>6
  <2> QED BY <1>3, <1>4, <2>1, <2>2, <2>3 DEF store
<1>7. CASE calls = <<store>> /\ Fits(Sent(k + 1, store, data))
  <2>1. calls \in Seq(Call) /\ DOMAIN calls = {1} /\ calls[1] = store
    BY <1>4, <1>7
  <2>2. sent = {Sent(k + 1, store, data)}
    BY <1>4, <2>1
  <2> HIDE DEF sent
  <2>3. calls # <<>> /\ calls # <<load>>
    BY <1>4, <1>7
  <2> QED BY <1>3, <1>7, <2>1, <2>2, <2>3 DEF store, load, k
<1>8. CASE calls = <<load, store>> /\ Fits(Sent(k + 1, store, data))
  <2>1. calls \in Seq(Call) /\ DOMAIN calls = {1, 2} /\ calls[1] = load /\ calls[2] = store
    BY <1>4, <1>8
  <2>2. sent = {Sent(k + 1, store, data)}
    BY <1>4, <2>1
  <2> HIDE DEF sent
  <2>3. calls # <<>> /\ calls # <<load>>
    BY <1>4, <1>8
  <2> QED BY <1>3, <1>4, <1>8, <2>1, <2>2, <2>3 DEF store, load, k
<1> QED
  BY <1>5, <1>6, <1>7, <1>8 DEF load, store, k

-----------------------------------------------------------------------------
(* The accesses of a level.                                                *)

\* What is known of a level whose access comes next.
LevelServed(l, g, c, x) ==
  /\ Begins
  /\ l = Front.level /\ l \in 1 .. Depth /\ l \in Places(Depth) /\ Depth \in Nat
  /\ g = cfgs[l] /\ c = levels[l] /\ x = BlockOf(g, Front.addr)
  /\ Constructible(g) /\ CacheType(g, Nat, c) /\ SoundLines(g, c)
  /\ Front.addr \in Nat /\ Front.isWrite \in BOOLEAN /\ x \in Nat
  /\ Front.data.newest \subseteq Front.data.bytes /\ Front.data.bytes \subseteq Bytes(l, x)
  /\ ~Front.isWrite => Front.data.bytes = {} /\ Front.data.newest = {}
  /\ Bytes(l, x) = {a \in Addrs : BlockOf(g, a) = x}
  /\ \A a \in Addrs : BlockOf(g, a) \in Nat
  /\ Held[l] = {a \in Addrs : IsHit(g, c, BlockOf(g, a))}
  /\ Owing[l] = {a \in Addrs : HasDirty(g, c, BlockOf(g, a))}
  /\ Held \in [Places(Depth) -> SUBSET Addrs] /\ Owing \in [Places(Depth) -> SUBSET Addrs]
  /\ Aged \in [Places(Depth) -> SUBSET Addrs]

LEMMA LevelIsServed ==
  ASSUME ChainInv, SoundLevels, ValueInv, pending # <<>>, Front.level \in Levels
  PROVE  LET l == Front.level
         IN  LevelServed(l, cfgs[l], levels[l], BlockOf(cfgs[l], Front.addr))
<1> DEFINE l == Front.level
           g == cfgs[l]
           c == levels[l]
           x == BlockOf(g, Front.addr)
<1>1. Begins
  BY ServingBegins
<1>2. pending \in Seq(PendingCall) /\ StackDescends /\ StoresFit
  BY DEF ChainInv, ValueInv
<1>3. Fits(Front) /\ Front.addr \in Nat /\ Front.isWrite \in BOOLEAN
  BY <1>2, StoresOfTail, FrontCall
<1>4. /\ Depth \in Nat /\ l \in 1 .. Depth /\ l \in Places(Depth) /\ l \in Levels /\ l <= l
      /\ Held \in [Places(Depth) -> SUBSET Addrs] /\ Owing \in [Places(Depth) -> SUBSET Addrs]
      /\ Held[l] = {a \in Addrs : IsHit(g, c, BlockOf(g, a))}
      /\ Owing[l] = {a \in Addrs : HasDirty(g, c, BlockOf(g, a))}
  BY TablesOfChain DEF Levels
<1>5. Constructible(g) /\ CacheType(g, Nat, c) /\ SoundLines(g, c)
  BY ChainOfCaches DEF ChainInv, Healthy, SoundLevels
<1>6. x \in Nat /\ \A a \in Addrs : BlockOf(g, a) \in Nat
  BY <1>3, <1>5, BlockOfType, HierarchyAddrsAssumption
<1>7. /\ Front.data.newest \subseteq Front.data.bytes /\ Front.data.bytes \subseteq Bytes(l, x)
      /\ ~Front.isWrite => Front.data.bytes = {}
      /\ Bytes(l, x) = {a \in Addrs : BlockOf(g, a) = x}
  BY <1>3, <1>4 DEF Fits, Bytes
<1>8. Aged \in [Places(Depth) -> SUBSET Addrs]
  BY <1>1 DEF Begins, Ordered, Tables
<1> QED
  BY <1>1, <1>3, <1>4, <1>5, <1>6, <1>7, <1>8 DEF LevelServed

\* The values stay in order over a hit.
LEMMA HitValues ==
  ASSUME ChainInv, SoundLevels, ValueInv, LevelHit
  PROVE  ValueInv'
<1> DEFINE l == Front.level
           g == cfgs[l]
           c == levels[l]
           x == BlockOf(g, Front.addr)
           B == Bytes(l, x)
           d == AfterHit(g, c, Front.addr, Front.isWrite)
           calls == HitCalls(g, Front.addr, Front.isWrite)
           u == Sent(l + 1, Store(Front.addr), Front.data)
<1>1. /\ pending # <<>> /\ l \in Levels /\ IsHit(g, c, x) /\ cfgs' = cfgs
      /\ levels' = [levels EXCEPT ![l] = d] /\ Replace(calls, Front.data)
      /\ fresh' = [Aged EXCEPT ![l] = Put(@, B)]
  BY DEF LevelHit
<1>2. LevelServed(l, g, c, x)
  BY <1>1, LevelIsServed
<1>3. \A y \in Nat : /\ IsHit(g, d, y) <=> IsHit(g, c, y)
                     /\ HasDirty(g, d, y) <=>
                          HasDirty(g, c, y) \/ (y = x /\ Front.isWrite /\ WritesBack(g))
  BY <1>1, <1>2, HitHolds DEF LevelServed
<1>4. /\ Depth' = Depth
      /\ Held' = [Held EXCEPT ![l] = {a \in Addrs : IsHit(g, d, BlockOf(g, a))}]
      /\ Owing' = [Owing EXCEPT ![l] = {a \in Addrs : HasDirty(g, d, BlockOf(g, a))}]
  BY <1>1, TablesStep
<1>5. /\ Proper(cfgs) /\ pending \in Seq(PendingCall) /\ StackDescends /\ StoresFit
      /\ Fits(Front) /\ l \in Nat /\ l # 0
  BY <1>1, StoresOfTail, ChainOfCaches DEF ChainInv, ValueInv, Levels
<1>6. u.level = l + 1 /\ u.data = Front.data /\ (Front.isWrite => Fits(u))
  BY <1>5, CallsFit
<1>7. /\ calls = <<>> => StackDescends' /\ StoresFit' /\ Passing' = StoresOf(Tail(pending))
      /\ calls = <<Store(Front.addr)>> /\ Fits(u) =>
           StackDescends' /\ StoresFit' /\ Passing' = StoresOf(Tail(pending)) \cup {u}
  BY <1>1, <1>2, <1>5, StackCases DEF LevelServed
<1> HIDE DEF d, x, c, g, l, u, B
<1>8. calls = IF Front.isWrite /\ ~WritesBack(g) THEN <<Store(Front.addr)>> ELSE <<>>
  BY DEF HitCalls
<1> HIDE DEF calls
<1>9. Held' = Held /\ B \subseteq Held[l]
  BY <1>1, <1>2, <1>3, <1>4 DEF LevelServed, B
<1>10. Owing' = [Owing EXCEPT ![l] = IF Front.isWrite /\ WritesBack(g) THEN @ \cup B ELSE @]
  <2>1. {a \in Addrs : HasDirty(g, d, BlockOf(g, a))}
          = IF Front.isWrite /\ WritesBack(g) THEN Owing[l] \cup B ELSE Owing[l]
    BY <1>2, <1>3 DEF LevelServed, B
  <2> QED BY <1>4, <2>1
<1>11. fresh' = [Aged EXCEPT ![l] = Written(@, Front, Held[l])]
  <2>1. Front.data.newest \subseteq Front.data.bytes /\ Front.data.bytes \subseteq B
    BY <1>2 DEF LevelServed, B
  <2>2. Front.data.bytes \cap B = Front.data.bytes \cap Held[l]
        /\ Front.data.newest \cap B = Front.data.newest \cap Held[l]
    BY <1>9, <2>1
  <2> QED BY <1>1, <2>2 DEF Put, Written
<1>12. /\ Ordered(Depth, Held, Owing, Aged, Begun)
       /\ Front.isWrite <=> Front \in Begun
       /\ \A e \in Begun : e.level <= Front.level
       /\ Leaves(Begun, StoresOf(Tail(pending)), Front)
  BY <1>2 DEF LevelServed, Begins
<1> SUFFICES Ordered(Depth, Held, Owing', fresh', Passing') /\ StackDescends' /\ StoresFit'
  BY <1>4, <1>9 DEF ValueInv
<1>13. CASE ~Front.isWrite
  <2>1. StackDescends' /\ StoresFit' /\ Passing' = Begun
    BY <1>7, <1>8, <1>12, <1>13 DEF Leaves
  <2>2. Owing' = Owing
    BY <1>2, <1>10, <1>13 DEF LevelServed
  <2>3. fresh' = Aged
    <3>1. Front.data.bytes = {} /\ Front.data.newest = {}
      BY <1>2, <1>13 DEF LevelServed
    <3>2. Written(Aged[l], Front, Held[l]) = Aged[l]
      BY <3>1 DEF Written
    <3> QED BY <1>2, <1>11, <3>2 DEF LevelServed
  <2> QED BY <1>12, <2>1, <2>2, <2>3
<1>14. CASE Front.isWrite /\ ~WritesBack(g)
  <2>1. StackDescends' /\ StoresFit' /\ Passing' = StoresOf(Tail(pending)) \cup {u}
    BY <1>6, <1>7, <1>8, <1>14
  <2>2. Owing' = Owing
    BY <1>2, <1>10, <1>14 DEF LevelServed
  <2>3. Replaces(Begun, Passing', Front, u)
    BY <1>12, <2>1 DEF Leaves, Replaces
  <2>4. /\ Front \in Begun /\ Front.level <= Depth /\ u.level = Front.level + 1
        /\ fresh' = [Aged EXCEPT ![Front.level] = Written(@, Front, Held[Front.level])]
    BY <1>2, <1>6, <1>11, <1>12, <1>14 DEF LevelServed
  <2>5. Ordered(Depth, Held, Owing, fresh', Passing')
    BY <1>6, <1>12, <2>3, <2>4, StoreGoesOn
  <2> QED BY <2>1, <2>2, <2>5
<1>15. CASE Front.isWrite /\ WritesBack(g)
  <2>1. StackDescends' /\ StoresFit' /\ Leaves(Begun, Passing', Front)
    BY <1>7, <1>8, <1>12, <1>15
  <2>2. Owing' = [Owing EXCEPT ![l] = @ \cup B]
    BY <1>10, <1>15
  <2>3. Front.data.newest \subseteq Front.data.bytes /\ Front.data.bytes \subseteq B
    BY <1>2 DEF LevelServed, B
  <2>4. /\ Owing' \in [Places(Depth) -> SUBSET Addrs]
        /\ \A k \in Places(Depth) : Owing'[k] \subseteq Held[k] /\ Owing[k] \subseteq Owing'[k]
        /\ Front.data.newest \subseteq Owing'[l]
    <3>1. \A k \in Places(Depth) : Owing[k] \subseteq Held[k]
      BY <1>12 DEF Ordered, Tables
    <3>2. B \subseteq Addrs /\ l \in Places(Depth) /\ Owing \in [Places(Depth) -> SUBSET Addrs]
      BY <1>2 DEF LevelServed, B
    <3> QED BY <1>9, <2>2, <2>3, <3>1, <3>2
  <2>5. Ordered(Depth, Held, Owing', fresh', Passing')
    BY <1>2, <1>9, <1>11, <1>12, <1>15, <2>1, <2>3, <2>4, StoreLands DEF LevelServed, l
  <2> QED BY <2>1, <2>5
<1> QED
  BY <1>13, <1>14, <1>15

\* They stay so over a write-around.
LEMMA WriteAroundValues ==
  ASSUME ChainInv, SoundLevels, ValueInv, LevelWriteAround
  PROVE  ValueInv'
<1> DEFINE l == Front.level
           g == cfgs[l]
           c == levels[l]
           x == BlockOf(g, Front.addr)
           d == AfterWriteAround(g, c, Front.addr)
           u == Sent(l + 1, Store(Front.addr), Front.data)
<1>1. /\ pending # <<>> /\ l \in Levels /\ ~IsHit(g, c, x) /\ cfgs' = cfgs /\ Front.isWrite
      /\ levels' = [levels EXCEPT ![l] = d] /\ Replace(<<Store(Front.addr)>>, Front.data)
      /\ fresh' = Aged
  BY DEF LevelWriteAround, WriteAroundCalls
<1>2. LevelServed(l, g, c, x)
  BY <1>1, LevelIsServed
<1>3. \A y : (IsHit(g, d, y) <=> IsHit(g, c, y)) /\ (HasDirty(g, d, y) <=> HasDirty(g, c, y))
  BY <1>2, WriteAroundHolds DEF LevelServed
<1>4. /\ Depth' = Depth
      /\ Held' = [Held EXCEPT ![l] = {a \in Addrs : IsHit(g, d, BlockOf(g, a))}]
      /\ Owing' = [Owing EXCEPT ![l] = {a \in Addrs : HasDirty(g, d, BlockOf(g, a))}]
  BY <1>1, TablesStep
<1>5. /\ Proper(cfgs) /\ pending \in Seq(PendingCall) /\ StackDescends /\ StoresFit
      /\ Fits(Front) /\ l \in Nat /\ l # 0
  BY <1>1, StoresOfTail, ChainOfCaches DEF ChainInv, ValueInv, Levels
<1>6. u.level = l + 1 /\ u.data = Front.data /\ Fits(u)
  BY <1>1, <1>5, CallsFit
<1>7. StackDescends' /\ StoresFit' /\ Passing' = StoresOf(Tail(pending)) \cup {u}
  BY <1>1, <1>2, <1>5, <1>6, StackCases DEF LevelServed
<1> HIDE DEF d, x, c, g, l, u
<1>8. Held' = Held /\ Owing' = Owing
  <2>1. /\ {a \in Addrs : IsHit(g, d, BlockOf(g, a))} = Held[l]
        /\ {a \in Addrs : HasDirty(g, d, BlockOf(g, a))} = Owing[l]
    BY <1>2, <1>3 DEF LevelServed
  <2> QED BY <1>2, <1>4, <2>1 DEF LevelServed
<1>9. /\ Ordered(Depth, Held, Owing, Aged, Begun)
      /\ Front \in Begun
      /\ \A e \in Begun : e.level <= Front.level
      /\ Leaves(Begun, StoresOf(Tail(pending)), Front)
  BY <1>1, <1>2 DEF LevelServed, Begins
<1>10. fresh' = [Aged EXCEPT ![Front.level] = Written(@, Front, Held[Front.level])]
  <2>1. Front.data.newest \cap Held[l] = {} /\ Front.data.bytes \cap Held[l] = {}
    BY <1>1, <1>2 DEF LevelServed
  <2>2. Written(Aged[l], Front, Held[l]) = Aged[l]
    BY <2>1 DEF Written
  <2> QED BY <1>1, <1>2, <2>2 DEF LevelServed
<1>11. Replaces(Begun, Passing', Front, u)
  BY <1>7, <1>9 DEF Leaves, Replaces
<1>12. Front.level <= Depth /\ u.level = Front.level + 1
  BY <1>2, <1>6 DEF LevelServed
<1>13. Ordered(Depth, Held, Owing, fresh', Passing')
  BY <1>6, <1>9, <1>10, <1>11, <1>12, StoreGoesOn
<1> QED
  BY <1>4, <1>7, <1>8, <1>13 DEF ValueInv

\* They stay so when memory is reached.
LEMMA MemoryValues ==
  ASSUME ChainInv, ValueInv, MemoryAccess
  PROVE  ValueInv'
<1>1. /\ pending # <<>> /\ Front.level = Depth + 1 /\ cfgs' = cfgs /\ levels' = levels
      /\ pending' = Tail(pending) /\ fresh' = [fresh EXCEPT ![Depth + 1] = Put(@, Addrs)]
  BY DEF MemoryAccess
<1>2. Depth' = Depth /\ Held' = Held /\ Owing' = Owing
  BY <1>1 DEF Depth, Held, Owing, Holds, Levels
<1>3. Begins /\ Held[Depth + 1] = Addrs /\ Depth + 1 # 1 /\ Depth \in Nat
  BY <1>1, ServingBegins, TablesOfChain, ChainOfCaches DEF ChainInv
<1>4. /\ Ordered(Depth, Held, Owing, Aged, Begun)
      /\ Front.isWrite <=> Front \in Begun
      /\ Leaves(Begun, StoresOf(Tail(pending)), Front)
  BY <1>3 DEF Begins
<1>5. Aged = fresh /\ fresh' = [Aged EXCEPT ![Front.level] = Written(@, Front, Held[Front.level])]
  BY <1>1, <1>3 DEF Aged, Put, Written
<1>6. Proper(cfgs) /\ pending \in Seq(PendingCall) /\ StackDescends /\ StoresFit /\ Fits(Front)
      /\ Tail(pending) \in Seq(PendingCall)
  BY <1>1, StoresOfTail, FrontCall DEF ChainInv, ValueInv
<1>7. StackDescends' /\ StoresFit' /\ Passing' = StoresOf(Tail(pending))
  <2> DEFINE none == <<>>
             sent == [i \in DOMAIN none |-> Sent(NextLevel(Front.level), none[i], Nothing)]
  <2>1. none \in Seq(Call) /\ DOMAIN none = {} /\ sent = <<>>
    OBVIOUS
  <2>2. sent \o Tail(pending) = Tail(pending)
    BY <1>6, <2>1
  <2>3. Replace(none, Nothing)
    BY <1>1, <2>2 DEF Replace
  <2>4. {Sent(Front.level + 1, none[i], Nothing) : i \in {j \in DOMAIN none : none[j].isWrite}} = {}
    BY <2>1
  <2> HIDE DEF none
  <2>5. none # <<>> => Front.level \in Levels
    BY DEF none
  <2> QED BY <1>1, <1>6, <2>1, <2>3, <2>4, <2>5, StackStep
<1>8. CASE Front.isWrite
  <2>1. Front.data.bytes \subseteq Addrs
    BY <1>4, <1>8 DEF Ordered, Tables
  <2>2. /\ Owing \in [Places(Depth) -> SUBSET Addrs]
        /\ \A k \in Places(Depth) : Owing[k] \subseteq Held[k] /\ Owing[k] \subseteq Owing[k]
    BY <1>4 DEF Ordered, Tables
  <2>3. ~(Front.level <= Depth)
    BY <1>1, <1>3
  <2>4. Ordered(Depth, Held, Owing, fresh', Passing')
    BY ZenonT(40), <1>1, <1>3, <1>4, <1>5, <1>7, <1>8, <2>1, <2>2, <2>3, StoreLands
  <2> QED BY <1>2, <1>7, <2>4 DEF ValueInv
<1>9. CASE ~Front.isWrite
  <2>1. Front.data.bytes = {} /\ Front.data.newest = {}
    BY <1>6, <1>9 DEF Fits
  <2>2. fresh' = fresh
    <3>1. fresh \in [Places(Depth) -> SUBSET Addrs]
      BY <1>4, <1>5 DEF Ordered, Tables
    <3>2. Written(fresh[Depth + 1], Front, Held[Depth + 1]) = fresh[Depth + 1]
      BY <2>1 DEF Written
    <3> QED BY <1>1, <1>5, <3>1, <3>2
  <2>3. Passing' = Begun
    BY <1>4, <1>7, <1>9 DEF Leaves
  <2> QED BY <1>2, <1>4, <1>5, <1>7, <2>2, <2>3 DEF ValueInv
<1> QED
  BY <1>8, <1>9, <1>6, FrontCall

\* A fill brings in one block, as new as it is below, and loses another, which
\* goes into a store if it has to be written back.
LEMMA BlockReplaced ==
  ASSUME NEW n, NEW H, NEW W, NEW F, NEW S, Ordered(n, H, W, F, S),
         NEW t \in 1 .. n, NEW B \in SUBSET Addrs, B \cap H[t] = {},
         \A e \in S : e.level <= t,
         NEW G \in SUBSET Addrs, G \subseteq H[t], G \cap B = {},
         NEW H2, H2 = [H EXCEPT ![t] = (@ \ G) \cup B],
         NEW W2, W2 = [W EXCEPT ![t] = @ \ G],
         NEW F2, F2 = [F EXCEPT ![t] = (@ \ G) \cup Read(n, H, F, t, B)]
  PROVE  /\ G \cap W[t] = {} => Ordered(n, H2, W2, F2, S)
         /\ \A v : v.level = t + 1 /\ v.data.bytes = G /\ v.data.newest = G \cap F[t]
                     => Ordered(n, H2, W2, F2, S \cup {v})
<1> DEFINE R == Read(n, H, F, t, B)
           H1 == [H EXCEPT ![t] = @ \cup B]
           F1 == [F EXCEPT ![t] = @ \cup R]
<1>1. Ordered(n, H1, W, F1, S)
  BY BytesComeIn
<1>2. /\ t \in Places(n) /\ R \subseteq B
      /\ H \in [Places(n) -> SUBSET Addrs] /\ W \in [Places(n) -> SUBSET Addrs]
      /\ F \in [Places(n) -> SUBSET Addrs]
  BY DEF Ordered, Tables, Places, Read
<1> HIDE DEF R
<1>3. /\ H1[t] = H[t] \cup B /\ F1[t] = F[t] \cup R
      /\ H2 = [H1 EXCEPT ![t] = @ \ G] /\ F2 = [F1 EXCEPT ![t] = @ \ G]
  <2>1. (H[t] \cup B) \ G = (H[t] \ G) \cup B /\ (F[t] \cup R) \ G = (F[t] \ G) \cup R
    BY <1>2
  <2>2. H1[t] = H[t] \cup B /\ F1[t] = F[t] \cup R
    BY <1>2
  <2> QED BY <1>2, <2>1, <2>2 DEF R
<1> DEFINE H3 == [H1 EXCEPT ![t] = @ \ G]
           F3 == [F1 EXCEPT ![t] = @ \ G]
           W3 == [W EXCEPT ![t] = @ \ G]
<1> HIDE DEF H1, F1
<1>4. ASSUME G \cap W[t] = {} PROVE Ordered(n, H3, W3, F3, S)
  <2>1. W3 = W
    BY <1>2, <1>4
  <2>2. Ordered(n, H3, W, F3, S)
    BY <1>1, <1>4, CleanBytesLeave
  <2> HIDE DEF H3, F3, W3
  <2> QED BY <2>1, <2>2
<1>5. ASSUME NEW v, v.level = t + 1, v.data.bytes = G, v.data.newest = G \cap F[t]
      PROVE  Ordered(n, H3, W3, F3, S \cup {v})
  <2>1. v.data.newest = G \cap F1[t] /\ G \subseteq H1[t]
    BY <1>2, <1>3, <1>5
  <2> QED BY <1>1, <1>5, <2>1, DirtyBytesLeave
<1>6. H2 = H3 /\ F2 = F3 /\ W2 = W3
  BY <1>3
<1> HIDE DEF H3, F3, W3
<1> QED
  BY <1>4, <1>5, <1>6

\* What a victim's store writes is one block of every level below.
LEMMA VictimFits ==
  ASSUME Proper(cfgs), BlocksGrow, NEW l \in Levels, NEW s \in Sets(cfgs[l]),
         NEW frame, frame.tag \in Nat, NEW newest, newest \subseteq FrameBytes(l, s, frame)
  PROVE  LET victim == AddrOf(cfgs[l], VictimBlock(cfgs[l], frame.tag, s))
         IN  Fits(Sent(l + 1, Store(victim),
                       [bytes |-> FrameBytes(l, s, frame), newest |-> newest]))
<1> DEFINE g == cfgs[l]
           z == VictimBlock(g, frame.tag, s)
           victim == AddrOf(g, z)
           G == FrameBytes(l, s, frame)
           v == Sent(l + 1, Store(victim), [bytes |-> G, newest |-> newest])
<1>1. l \in Nat /\ l # 0 /\ Constructible(g)
  BY ChainOfCaches DEF Levels
<1>2. z \in Nat /\ victim \in Nat /\ BlockOf(g, victim) = z
  BY <1>1, Recomposition, VictimAddress DEF VictimBlock
<1>3. \A a \in G : a \in Addrs /\ a \in Nat /\ BlockOf(g, a) = z
  BY HierarchyAddrsAssumption DEF FrameBytes, Bytes, VictimBlock
<1> HIDE DEF z, victim, G
<1>4. /\ v.level = l + 1 /\ v.addr = victim /\ v.isWrite
      /\ v.data.bytes = G /\ v.data.newest = newest /\ newest \subseteq G
  BY DEF Sent, Store, G
<1>5. ASSUME NEW j \in Levels, l + 1 <= j
      PROVE  G \subseteq Bytes(j, BlockOf(cfgs[j], victim))
  <2>1. l <= j /\ Constructible(cfgs[j])
    BY <1>1, <1>5, ChainOfCaches DEF Levels
  <2>2. g.blockSize <= cfgs[j].blockSize
    BY <2>1, GrowingBlocks
  <2>3. \A a \in G : BlockOf(cfgs[j], a) = BlockOf(cfgs[j], victim)
    BY <1>1, <1>2, <1>3, <2>1, <2>2, BlocksNest
  <2> QED BY <1>3, <2>3 DEF Bytes
<1> HIDE DEF v
<1>6. v.level # 1
  BY <1>1, <1>4
<1>7. Fits(v)
  BY <1>4, <1>5, <1>6 DEF Fits
<1> QED
  BY <1>7 DEF v, G, victim, z, g

\* The bytes that come and go in a fill.
FillMoved(l, x, w) ==
  LET g     == cfgs[l]
      s     == SetOf(g, x)
      frame == levels[l].lines[s][w]
      G     == FrameBytes(l, s, frame)
      B     == Bytes(l, x)
      kept  == Front.isWrite /\ WritesBack(g)
  IN  /\ G \subseteq Held[l] /\ G \cap B = {} /\ G \subseteq Addrs
      /\ B \cap Held[l] = {} /\ B \subseteq Addrs
      /\ frame.tag \in Nat /\ s \in Sets(g)
      /\ MustWriteBack(g, frame) => WritesBack(g)
      /\ ~MustWriteBack(g, frame) => G \cap Owing[l] = {}
      /\ Held' = [Held EXCEPT ![l] = (@ \ G) \cup B]
      /\ Owing' = [Owing EXCEPT ![l] = (@ \ G) \cup (IF kept THEN B ELSE {})]

LEMMA FillMoves ==
  ASSUME ChainInv, SoundLevels, ValueInv, pending # <<>>, Front.level \in Levels,
         cfgs' = cfgs,
         ~IsHit(cfgs[Front.level], levels[Front.level], BlockOf(cfgs[Front.level], Front.addr)),
         NEW w \in PickWays(cfgs[Front.level], levels[Front.level],
                           SetOf(cfgs[Front.level], BlockOf(cfgs[Front.level], Front.addr))),
         levels' = [levels EXCEPT ![Front.level] =
                      AfterFill(cfgs[Front.level], @, Front.addr, Front.isWrite, w)]
  PROVE  FillMoved(Front.level, BlockOf(cfgs[Front.level], Front.addr), w)
<1> DEFINE l == Front.level
           g == cfgs[l]
           c == levels[l]
           x == BlockOf(g, Front.addr)
           d == AfterFill(g, c, Front.addr, Front.isWrite, w)
           s == SetOf(g, x)
           frame == c.lines[s][w]
           B == Bytes(l, x)
           G == FrameBytes(l, s, frame)
           kept == Front.isWrite /\ WritesBack(g)
           X == {a \in Addrs : IsHit(g, d, BlockOf(g, a))}
           Y == {a \in Addrs : HasDirty(g, d, BlockOf(g, a))}
<1>1. LevelServed(l, g, c, x)
  BY LevelIsServed
<1>2. w \in Ways(g) /\ s \in Sets(g) /\ frame \in Line
  <2>1. Constructible(g) /\ CacheType(g, Nat, c) /\ x \in Nat
    BY <1>1 DEF LevelServed
  <2> QED BY <2>1, PickIsWay, Decomposition DEF CacheType
<1>3. \A y \in Nat :
        /\ Leaving(g, frame, s, y) =>
             /\ y # x /\ IsHit(g, c, y) /\ (HasDirty(g, c, y) <=> frame.dirty)
        /\ IsHit(g, d, y) <=> y = x \/ (IsHit(g, c, y) /\ ~Leaving(g, frame, s, y))
        /\ HasDirty(g, d, y) <=> (y = x /\ kept) \/ (HasDirty(g, c, y) /\ ~Leaving(g, frame, s, y))
  <2> DEFINE a == Front.addr
             i == Front.isWrite
  <2>1. /\ Constructible(g) /\ CacheType(g, Nat, c) /\ SoundLines(g, c)
        /\ a \in Nat /\ i \in BOOLEAN
    BY <1>1 DEF LevelServed
  <2>2. ~IsHit(g, c, BlockOf(g, a))
    OBVIOUS
  <2>3. /\ d = AfterFill(g, c, a, i, w) /\ x = BlockOf(g, a) /\ (kept <=> i /\ WritesBack(g))
        /\ s = SetOf(g, BlockOf(g, a)) /\ frame = c.lines[s][w]
    OBVIOUS
  <2> HIDE DEF a, i, d, s, frame, x, kept, g, c, l
  <2>4. \A y \in Nat :
          /\ Leaving(g, frame, s, y) =>
               y # BlockOf(g, a) /\ IsHit(g, c, y) /\ (HasDirty(g, c, y) <=> frame.dirty)
          /\ IsHit(g, d, y) <=> y = BlockOf(g, a) \/ (IsHit(g, c, y) /\ ~Leaving(g, frame, s, y))
          /\ HasDirty(g, d, y) <=>
               \/ y = BlockOf(g, a) /\ i /\ WritesBack(g)
               \/ HasDirty(g, c, y) /\ ~Leaving(g, frame, s, y)
    BY <1>2, <2>1, <2>2, <2>3, FillHolds
  <2> QED BY <2>3, <2>4
<1>4. frame.dirty => frame.valid /\ WritesBack(g)
  <2>1. SoundLines(g, c)
    BY <1>1 DEF LevelServed
  <2> QED BY <1>2, <2>1 DEF SoundLines
<1>5. Held' = [Held EXCEPT ![l] = X] /\ Owing' = [Owing EXCEPT ![l] = Y]
  BY TablesStep
<1>6. G = {a \in Addrs : Leaving(g, frame, s, BlockOf(g, a))}
  BY DEF FrameBytes, Bytes, Leaving
<1>7. /\ \A a \in Addrs : BlockOf(g, a) \in Nat
      /\ B = {a \in Addrs : BlockOf(g, a) = x}
      /\ Held[l] = {a \in Addrs : IsHit(g, c, BlockOf(g, a))}
      /\ Owing[l] = {a \in Addrs : HasDirty(g, c, BlockOf(g, a))}
  BY <1>1 DEF LevelServed
<1>8. MustWriteBack(g, frame) <=> frame.dirty
  BY <1>2, <1>4 DEF MustWriteBack
<1> DEFINE out(a) == Leaving(g, frame, s, BlockOf(g, a))
           old(a) == IsHit(g, c, BlockOf(g, a))
           owed(a) == HasDirty(g, c, BlockOf(g, a))
<1>9. \A a \in Addrs :
        /\ out(a) => a \notin B /\ old(a) /\ (owed(a) <=> frame.dirty)
        /\ a \in X <=> a \in B \/ (old(a) /\ ~out(a))
        /\ a \in Y <=> (a \in B /\ kept) \/ (owed(a) /\ ~out(a))
        /\ a \in G <=> out(a)
        /\ a \in Held[l] <=> old(a)
        /\ a \in Owing[l] <=> owed(a)
  BY <1>3, <1>6, <1>7
<1>10. /\ G \subseteq Addrs /\ B \subseteq Addrs /\ X \subseteq Addrs /\ Y \subseteq Addrs
       /\ Held[l] \subseteq Addrs /\ Owing[l] \subseteq Addrs
  BY <1>6, <1>7
<1>11. B \cap Held[l] = {}
  BY <1>7
<1> HIDE DEF B, X, Y, G, out, old, owed, kept
<1>12. /\ G \subseteq Held[l] /\ G \cap B = {}
       /\ ~frame.dirty => G \cap Owing[l] = {}
       /\ X = (Held[l] \ G) \cup B
       /\ Y = (Owing[l] \ G) \cup (IF kept THEN B ELSE {})
  BY <1>9, <1>10
<1>13. /\ Held' = [Held EXCEPT ![l] = (@ \ G) \cup B]
       /\ Owing' = [Owing EXCEPT ![l] = (@ \ G) \cup (IF kept THEN B ELSE {})]
  BY <1>5, <1>12
<1> QED
  BY <1>2, <1>4, <1>8, <1>10, <1>11, <1>12, <1>13 DEF FillMoved, B, G, kept, Line

\* What a level reads below is as new as Ordered says, but for the bytes the
\* front call is writing.
LEMMA ReadIsBelow ==
  ASSUME ChainInv, NEW l \in Levels, NEW x, l = Front.level, Begins
  PROVE  LET R == Read(Depth, Held, Aged, l, Bytes(l, x))
         IN  /\ R \subseteq ReadBelow(l, x) /\ ReadBelow(l, x) \subseteq R \cup Front.data.newest
             /\ ReadBelow(l, x) \subseteq Bytes(l, x)
<1> DEFINE B == Bytes(l, x)
           R == Read(Depth, Held, Aged, l, B)
<1>1. /\ Depth \in Nat /\ l \in 1 .. Depth /\ l \in 0 .. Depth
      /\ \A k \in l + 1 .. Depth + 1 : k \in Places(Depth)
  BY TablesOfChain DEF Levels, Places
<1>2. \A k \in Places(Depth) : Aged[k] \subseteq fresh[k] /\ fresh[k] \subseteq Aged[k] \cup Front.data.newest
  BY DEF Begins
<1>3. ASSUME NEW b \in B
      PROVE  /\ FoundBelow(l, b) \in Places(Depth)
             /\ b \in R <=> b \in Aged[FoundBelow(l, b)]
  <2>1. b \in Addrs
    BY DEF Bytes
  <2>2. /\ FoundBelow(l, b) \in l + 1 .. Depth + 1
        /\ \A k \in l + 1 .. Depth + 1 : Sees(Held, l, k, b) <=> k = FoundBelow(l, b)
    BY <1>1, <2>1, FoundIsSeen
  <2> HIDE DEF B
  <2> QED BY <1>1, <2>2 DEF Read
<1>4. R \subseteq B
  BY DEF Read
<1>5. ReadBelow(l, x) = {a \in B : a \in fresh[FoundBelow(l, a)]}
  BY DEF ReadBelow
<1> HIDE DEF R, B
<1>6. R \subseteq ReadBelow(l, x) /\ ReadBelow(l, x) \subseteq R \cup Front.data.newest
  BY <1>2, <1>3, <1>4, <1>5
<1> QED
  BY <1>5, <1>6 DEF R, B

\* The values stay in order over a fill.
LEMMA FillValues ==
  ASSUME ChainInv, SoundLevels, BlocksGrow, ValueInv, LevelFill
  PROVE  ValueInv'
<1> DEFINE l == Front.level
           g == cfgs[l]
           c == levels[l]
           x == BlockOf(g, Front.addr)
           s == SetOf(g, x)
           B == Bytes(l, x)
<1>1. PICK w \in PickWays(g, c, s) :
        LET gone == FrameBytes(l, s, c.lines[s][w])
        IN  /\ levels' = [levels EXCEPT ![l] = AfterFill(g, @, Front.addr, Front.isWrite, w)]
            /\ Replace(FillCalls(g, c, Front.addr, Front.isWrite, w),
                       IF WritesBack(g) THEN [bytes |-> gone, newest |-> gone \cap fresh[l]]
                       ELSE Front.data)
            /\ fresh' = [Aged EXCEPT ![l] = Put((@ \ gone) \cup ReadBelow(l, x), B)]
  BY DEF LevelFill
<1> DEFINE frame == c.lines[s][w]
           G == FrameBytes(l, s, frame)
           wb == MustWriteBack(g, frame)
           kept == Front.isWrite /\ WritesBack(g)
           payload == IF WritesBack(g) THEN [bytes |-> G, newest |-> G \cap fresh[l]] ELSE Front.data
           victim == AddrOf(g, VictimBlock(g, frame.tag, s))
           calls == FillCalls(g, c, Front.addr, Front.isWrite, w)
           v == Sent(l + 1, Store(victim), payload)
           u == Sent(l + 1, Store(Front.addr), payload)
           R == Read(Depth, Held, Aged, l, B)
<1>2. /\ pending # <<>> /\ l \in Levels /\ cfgs' = cfgs /\ ~IsHit(g, c, x)
      /\ Replace(calls, payload)
      /\ fresh' = [Aged EXCEPT ![l] = Put((@ \ G) \cup ReadBelow(l, x), B)]
  BY <1>1 DEF LevelFill
<1>3. LevelServed(l, g, c, x)
  BY <1>2, LevelIsServed
<1>4. FillMoved(l, x, w)
  BY <1>1, <1>2, FillMoves
<1>5. /\ G \subseteq Held[l] /\ G \cap B = {} /\ G \subseteq Addrs
      /\ B \cap Held[l] = {} /\ B \subseteq Addrs
      /\ frame.tag \in Nat /\ s \in Sets(g)
      /\ wb => WritesBack(g)
      /\ ~wb => G \cap Owing[l] = {}
      /\ Held' = [Held EXCEPT ![l] = (@ \ G) \cup B]
      /\ Owing' = [Owing EXCEPT ![l] = (@ \ G) \cup (IF kept THEN B ELSE {})]
  BY <1>4 DEF FillMoved
<1>6. /\ Proper(cfgs) /\ pending \in Seq(PendingCall) /\ StackDescends /\ StoresFit
      /\ Fits(Front) /\ l \in Nat /\ l # 0 /\ Depth' = Depth
  <2>1. Depth' = Depth
    BY <1>2 DEF Depth
  <2>2. Proper(cfgs) /\ pending \in Seq(PendingCall) /\ StackDescends /\ StoresFit
    BY DEF ChainInv, ValueInv
  <2>3. Fits(Front)
    <3>1. pending # <<>>
      BY <1>2
    <3> HIDE DEF x, c, g, u, v, B, G, R, frame, s, victim, calls, l, payload
    <3> QED BY <2>2, <3>1, StoresOfTail
  <2>4. l \in Nat /\ l # 0
    <3>1. l \in Levels
      BY <1>2
    <3> HIDE DEF l
    <3> QED BY <2>2, <3>1, ChainOfCaches DEF Levels
  <2> QED BY <2>1, <2>2, <2>3, <2>4
<1>7. victim \in Nat /\ Front.addr \in Nat /\ Front.isWrite \in BOOLEAN
  <2>1. Constructible(g) /\ Front.addr \in Nat /\ Front.isWrite \in BOOLEAN
    BY <1>3 DEF LevelServed
  <2>2. VictimBlock(g, frame.tag, s) \in Nat
    BY <1>5, <2>1, Recomposition DEF VictimBlock
  <2> QED BY <2>1, <2>2, VictimAddress
<1>8. /\ wb => calls = <<Load(Front.addr), Store(victim)>>
      /\ ~wb /\ Front.isWrite /\ ~WritesBack(g) => calls = <<Load(Front.addr), Store(Front.addr)>>
      /\ ~wb /\ (~Front.isWrite \/ WritesBack(g)) => calls = <<Load(Front.addr)>>
  <2> HIDE DEF x, g, c, l
  <2> QED BY <1>7, FillCallsCases DEF x
<1>9. /\ u.level = l + 1 /\ u.data = payload /\ v.level = l + 1 /\ v.data = payload
      /\ Front.isWrite /\ ~WritesBack(g) => Fits(u)
      /\ WritesBack(g) => Fits(v)
  <2>1. u.level = l + 1 /\ u.data = payload /\ v.level = l + 1 /\ v.data = payload
    <3> HIDE DEF payload, victim, l
    <3> QED BY <1>6, CallsFit
  <2>2. ASSUME Front.isWrite, ~WritesBack(g) PROVE Fits(u)
    BY <1>6, <2>2, CallsFit
  <2>3. ASSUME WritesBack(g) PROVE Fits(v)
    <3>1. G \cap fresh[l] \subseteq G
      OBVIOUS
    <3> QED BY <1>2, <1>5, <1>6, <2>3, <3>1, VictimFits
  <2> QED BY <2>1, <2>2, <2>3
<1> DEFINE rest == StoresOf(Tail(pending))
<1>10. /\ calls = <<Load(Front.addr)>> => StackDescends' /\ StoresFit' /\ Passing' = rest
       /\ calls = <<Load(Front.addr), Store(victim)>> /\ Fits(v) =>
            StackDescends' /\ StoresFit' /\ Passing' = rest \cup {v}
       /\ calls = <<Load(Front.addr), Store(Front.addr)>> /\ Fits(u) =>
            StackDescends' /\ StoresFit' /\ Passing' = rest \cup {u}
  BY ZenonT(40), <1>2, <1>6, <1>7, StackCases
<1>11. /\ Ordered(Depth, Held, Owing, Aged, Begun)
       /\ Front.isWrite <=> Front \in Begun
       /\ \A e \in Begun : e.level <= l
       /\ Leaves(Begun, rest, Front)
       /\ \A k \in Places(Depth) : Aged[k] \subseteq fresh[k] /\ fresh[k] \subseteq Aged[k] \cup Front.data.newest
  BY <1>3 DEF LevelServed, Begins
<1>12. R \subseteq ReadBelow(l, x) /\ ReadBelow(l, x) \subseteq R \cup Front.data.newest /\ R \subseteq B
  <2>1. R \subseteq B
    BY DEF Read
  <2>2. Begins
    BY <1>3 DEF LevelServed
  <2> QED BY <1>2, <2>1, <2>2, ReadIsBelow
<1>13. /\ l \in 1 .. Depth /\ l \in Places(Depth) /\ l = Front.level /\ l <= Depth
       /\ Front.data.newest \subseteq Front.data.bytes /\ Front.data.bytes \subseteq B
       /\ ~Front.isWrite => Front.data.bytes = {} /\ Front.data.newest = {}
       /\ Held \in [Places(Depth) -> SUBSET Addrs] /\ Owing \in [Places(Depth) -> SUBSET Addrs]
       /\ Aged \in [Places(Depth) -> SUBSET Addrs]
  BY <1>3 DEF LevelServed
<1> HIDE DEF x, c, g, u, v, B, G, R, frame, s, victim, calls, rest
<1> DEFINE H2 == [Held EXCEPT ![l] = (@ \ G) \cup B]
           W2 == [Owing EXCEPT ![l] = @ \ G]
           F2 == [Aged EXCEPT ![l] = (@ \ G) \cup R]
           S1 == IF wb THEN Begun \cup {v} ELSE Begun
<1>14. Ordered(Depth, H2, W2, F2, S1)
  <2>1. /\ G \cap Owing[l] = {} => Ordered(Depth, H2, W2, F2, Begun)
        /\ \A e : e.level = l + 1 /\ e.data.bytes = G /\ e.data.newest = G \cap Aged[l]
                    => Ordered(Depth, H2, W2, F2, Begun \cup {e})
    <3>0. G \in SUBSET Addrs /\ B \in SUBSET Addrs
      BY <1>5
    <3>1. /\ H2 = [Held EXCEPT ![l] = (@ \ G) \cup B] /\ W2 = [Owing EXCEPT ![l] = @ \ G]
          /\ F2 = [Aged EXCEPT ![l] = (@ \ G) \cup Read(Depth, Held, Aged, l, B)]
      BY DEF R
    <3> HIDE DEF l, H2, W2, F2, S1
    <3>2. /\ Ordered(Depth, Held, Owing, Aged, Begun) /\ l \in 1 .. Depth
          /\ \A e \in Begun : e.level <= l
          /\ B \cap Held[l] = {} /\ G \subseteq Held[l] /\ G \cap B = {}
      BY <1>5, <1>11, <1>13
    <3> QED BY <3>0, <3>1, <3>2, BlockReplaced
  <2>2. ASSUME wb PROVE v.data.bytes = G /\ v.data.newest = G \cap Aged[l]
    <3>1. v.data = [bytes |-> G, newest |-> G \cap fresh[l]]
      BY <1>5, <1>9, <2>2
    <3>2. G \cap fresh[l] = G \cap Aged[l]
      BY <1>5, <1>11, <1>13
    <3> QED BY <3>1, <3>2
  <2> HIDE DEF H2, W2, F2
  <2> QED BY <1>5, <1>9, <2>1, <2>2
<1>15. /\ H2[l] = (Held[l] \ G) \cup B /\ W2[l] = Owing[l] \ G /\ F2[l] = (Aged[l] \ G) \cup R
       /\ H2 \in [Places(Depth) -> SUBSET Addrs] /\ W2 \in [Places(Depth) -> SUBSET Addrs]
       /\ F2 \in [Places(Depth) -> SUBSET Addrs]
       /\ Held' = H2 /\ Front.data.bytes \subseteq H2[l]
  BY <1>5, <1>12, <1>13
<1>16. fresh' = [F2 EXCEPT ![l] = Written(@, Front, H2[l])]
  <2>1. Put((Aged[l] \ G) \cup ReadBelow(l, x), B) = Written(F2[l], Front, H2[l])
    <3>1. /\ Front.data.bytes \cap B = Front.data.bytes /\ Front.data.newest \cap B = Front.data.newest
          /\ Front.data.bytes \cap H2[l] = Front.data.bytes
          /\ Front.data.newest \cap H2[l] = Front.data.newest
      BY <1>13, <1>15
    <3>2. ReadBelow(l, x) \ Front.data.bytes = R \ Front.data.bytes
      BY <1>12, <1>13
    <3> HIDE DEF F2, H2, l
    <3>3. Put((Aged[l] \ G) \cup ReadBelow(l, x), B)
            = ((Aged[l] \ G) \ Front.data.bytes) \cup (ReadBelow(l, x) \ Front.data.bytes)
                \cup Front.data.newest
      BY <3>1 DEF Put
    <3>4. Written(F2[l], Front, H2[l])
            = ((Aged[l] \ G) \ Front.data.bytes) \cup (R \ Front.data.bytes) \cup Front.data.newest
      BY <1>15, <3>1 DEF Written
    <3> QED BY <3>2, <3>3, <3>4
  <2> QED BY <1>2, <1>13, <2>1
<1>17. Owing' = [W2 EXCEPT ![l] = IF kept THEN @ \cup B ELSE @]
  BY <1>5, <1>13
<1> HIDE DEF H2, F2, W2
<1> SUFFICES Ordered(Depth, H2, Owing', fresh', Passing') /\ StackDescends' /\ StoresFit'
  BY <1>6, <1>15 DEF ValueInv
<1>18. CASE ~Front.isWrite
  <2>1. StackDescends' /\ StoresFit' /\ Passing' = S1
    <3>1. rest = Begun
      BY <1>11, <1>18 DEF Leaves
    <3> QED BY <1>5, <1>8, <1>9, <1>10, <1>18, <3>1
  <2>2. Owing' = W2
    BY <1>15, <1>17, <1>18
  <2>3. fresh' = F2
    <3>1. Written(F2[l], Front, H2[l]) = F2[l]
      BY <1>13, <1>18 DEF Written
    <3> QED BY <1>15, <1>16, <3>1
  <2> QED BY <1>14, <2>1, <2>2, <2>3
<1>19. CASE Front.isWrite /\ ~WritesBack(g)
  <2>1. S1 = Begun
    BY <1>5, <1>19
  <2>2. StackDescends' /\ StoresFit' /\ Passing' = rest \cup {u}
    BY <1>5, <1>8, <1>9, <1>10, <1>19
  <2>3. Replaces(Begun, Passing', Front, u)
    BY <1>11, <2>2 DEF Leaves, Replaces
  <2>4. Owing' = W2 /\ u.data = Front.data
    BY <1>9, <1>15, <1>17, <1>19
  <2>5. Ordered(Depth, H2, W2, fresh', Passing')
    BY <1>9, <1>11, <1>13, <1>14, <1>16, <1>19, <2>1, <2>3, <2>4, StoreGoesOn
  <2> QED BY <2>2, <2>4, <2>5
<1>20. CASE Front.isWrite /\ WritesBack(g)
  <2>1. StackDescends' /\ StoresFit' /\ Passing' = IF wb THEN rest \cup {v} ELSE rest
    BY <1>8, <1>9, <1>10, <1>20
  <2>2. Leaves(S1, Passing', Front) /\ Front \in S1
    BY <1>11, <1>20, <2>1 DEF Leaves
  <2>3. Owing' = [W2 EXCEPT ![l] = @ \cup B]
    BY <1>17, <1>20
  <2>4. /\ Owing' \in [Places(Depth) -> SUBSET Addrs]
        /\ \A k \in Places(Depth) : Owing'[k] \subseteq H2[k] /\ W2[k] \subseteq Owing'[k]
        /\ Front.data.newest \subseteq Owing'[l]
    <3>1. \A k \in Places(Depth) : W2[k] \subseteq H2[k]
      BY <1>14 DEF Ordered, Tables
    <3> QED BY <1>5, <1>13, <1>15, <2>3, <3>1
  <2> HIDE DEF S1
  <2>5. Ordered(Depth, H2, Owing', fresh', Passing')
    BY <1>13, <1>14, <1>15, <1>16, <2>2, <2>4, StoreLands
  <2> QED BY <2>1, <2>5
<1> QED
  BY <1>7, <1>18, <1>19, <1>20

\* They are in order in a new chain: memory has every value and nothing else
\* holds any.
LEMMA ValuesInit == Init => ValueInv /\ SoundLevels
<1> SUFFICES ASSUME Init PROVE ValueInv /\ SoundLevels
  OBVIOUS
<1>1. /\ Proper(cfgs) /\ pending = <<>> /\ levels = [l \in Levels |-> NewCache(cfgs[l])]
      /\ fresh = [l \in 1 .. Depth + 1 |-> IF l > Depth THEN Addrs ELSE {}]
  BY ChainInit DEF Init, ChainInv
<1>2. ChainInv /\ Depth \in Nat /\ Depth + 1 > Depth
  BY <1>1, ChainInit, ChainOfCaches
<1>3. ASSUME NEW l \in Levels
      PROVE  /\ l \in Places(Depth) /\ ~(l > Depth) /\ SoundLines(cfgs[l], levels[l])
             /\ Held[l] = {} /\ Owing[l] = {} /\ fresh[l] = {}
  <2>1. Constructible(cfgs[l]) /\ levels[l] = NewCache(cfgs[l])
    BY <1>1, ChainOfCaches
  <2>2. l \in 1 .. Depth + 1 /\ ~(l > Depth)
    BY <1>2 DEF Levels
  <2>3. \A a \in Addrs : BlockOf(cfgs[l], a) \in Nat
    BY <2>1, BlockOfType, HierarchyAddrsAssumption
  <2>4. /\ SoundLines(cfgs[l], levels[l])
        /\ \A x \in Nat : ~IsHit(cfgs[l], levels[l], x) /\ ~HasDirty(cfgs[l], levels[l], x)
    BY <2>1, NewCacheHolds
  <2>5. /\ Held[l] = {a \in Addrs : IsHit(cfgs[l], levels[l], BlockOf(cfgs[l], a))}
        /\ Owing[l] = {a \in Addrs : HasDirty(cfgs[l], levels[l], BlockOf(cfgs[l], a))}
    BY <1>2, TablesOfChain
  <2>6. Held[l] = {} /\ Owing[l] = {}
    BY <2>3, <2>4, <2>5
  <2> QED BY <1>1, <2>2, <2>4, <2>6 DEF Places
<1>4. /\ Held \in [Places(Depth) -> SUBSET Addrs] /\ Owing \in [Places(Depth) -> SUBSET Addrs]
      /\ fresh \in [Places(Depth) -> SUBSET Addrs]
      /\ Held[Depth + 1] = Addrs /\ Owing[Depth + 1] = {} /\ fresh[Depth + 1] = Addrs
      /\ \A k \in Places(Depth) : k = Depth + 1 \/ k \in Levels
  <2>1. /\ Held \in [Places(Depth) -> SUBSET Addrs] /\ Owing \in [Places(Depth) -> SUBSET Addrs]
        /\ Held[Depth + 1] = Addrs /\ Owing[Depth + 1] = {}
        /\ \A k \in Places(Depth) : k = Depth + 1 \/ k \in Levels
    BY <1>2, TablesOfChain
  <2>2. fresh \in [Places(Depth) -> SUBSET Addrs] /\ fresh[Depth + 1] = Addrs
    BY <1>1, <1>2 DEF Places
  <2> QED BY <2>1, <2>2
<1>5. Passing = {} /\ StackDescends /\ StoresFit
  <2>1. DOMAIN pending = {}
    BY <1>1
  <2> QED BY <2>1 DEF Passing, StoresOf, StackDescends, StoresFit
<1>6. \A k \in Places(Depth), b \in Addrs : b \in Held[k] => k = Depth + 1
  BY <1>3, <1>4
<1>7. Tables(Depth, Held, Owing, fresh, {})
  <2>1. \A k \in Places(Depth) : Owing[k] = {}
    BY <1>3, <1>4
  <2> QED BY <1>2, <1>4, <2>1 DEF Tables
<1>8. BelowIsNewest(Depth, Held, Owing, fresh, {})
  BY <1>4, <1>6 DEF BelowIsNewest, Sees
<1>9. NoneOlderAbove(Depth, Held, fresh)
  BY <1>2, <1>6 DEF NoneOlderAbove, Places
<1>10. OldMeetsOld(Depth, fresh, {}) /\ InOrder({}) /\ PassedIsNewest(Depth, Held, fresh, {})
  BY DEF OldMeetsOld, InOrder, PassedIsNewest
<1>11. NewestIsHeld(Depth, Held, fresh)
  BY <1>3, <1>4 DEF NewestIsHeld
<1> QED
  BY <1>3, <1>5, <1>7, <1>8, <1>9, <1>10, <1>11 DEF ValueInv, Ordered, SoundLevels

\* A record that is fed has begun no store.
LEMMA FeedValues ==
  ASSUME ChainInv, ValueInv, NEW op \in Ops, NEW addr \in Addrs, Feed(op, addr)
  PROVE  ValueInv'
<1> DEFINE x == CpuAccess(Load(addr))
           y == CpuAccess(Store(addr))
<1>1. /\ pending = <<>> /\ pending' = Expand(op, addr)
      /\ cfgs' = cfgs /\ levels' = levels /\ fresh' = fresh
  BY DEF Feed
<1>2. Depth' = Depth /\ Held' = Held /\ Owing' = Owing /\ (\A c : Fits(c)' <=> Fits(c))
  BY <1>1 DEF Depth, Held, Owing, Holds, Levels, Fits, Bytes
<1>3. x.level = 1 /\ y.level = 1 /\ Fits(x) /\ Fits(y)
  <2>1. /\ x.level = 1 /\ x.isWrite = FALSE /\ x.data = Nothing
        /\ y.level = 1 /\ y.isWrite = TRUE /\ y.addr = addr
        /\ y.data = [bytes |-> {addr}, newest |-> {addr}]
    BY DEF CpuAccess, Sent, Load, Store
  <2> HIDE DEF x, y
  <2>2. Fits(x)
    BY <2>1 DEF Fits, Nothing
  <2>3. Fits(y)
    BY <2>1 DEF Fits, Bytes
  <2> QED BY <2>1, <2>2, <2>3
<1>4. pending' \in {<<x>>, <<y>>, <<x, y>>, <<>>}
  BY <1>1 DEF Expand, Ops
<1> HIDE DEF x, y
<1>5. \A i \in DOMAIN pending' : pending'[i] = x \/ pending'[i] = y
  <2>1. CASE pending' = <<x>>
    BY <2>1
  <2>2. CASE pending' = <<y>>
    BY <2>2
  <2>3. CASE pending' = <<x, y>>
    BY <2>3
  <2>4. CASE pending' = <<>>
    BY <2>4
  <2> QED BY <1>4, <2>1, <2>2, <2>3, <2>4
<1>6. \A i \in DOMAIN pending' : pending'[i].level = 1 /\ Fits(pending'[i])
  BY <1>3, <1>5
<1>7. StoresFit'
  BY <1>2, <1>6 DEF StoresFit
<1>8. StackDescends'
  <2>1. 1 \in Places(Depth) /\ 1 <= 1
    BY TablesOfChain DEF Places
  <2> QED BY <1>2, <1>6, <2>1 DEF StackDescends
<1>9. Passing = {} /\ Passing' = {}
  <2>1. Passing' = {}
    BY <1>6 DEF Passing, StoresOf
  <2>2. DOMAIN pending = {}
    BY <1>1
  <2> QED BY <2>1, <2>2 DEF Passing, StoresOf
<1> QED
  BY <1>1, <1>2, <1>7, <1>8, <1>9 DEF ValueInv

LEMMA ValuesStep == ValuesInOrder /\ [Next]_vars => ValuesInOrder'
<1> SUFFICES ASSUME ValuesInOrder, [Next]_vars PROVE ValuesInOrder'
  OBVIOUS
<1>1. ChainInv /\ SoundLevels /\ ChainInv' /\ SoundLevels'
  BY ChainStep, LevelsStaySound DEF ValuesInOrder
<1>2. cfgs' = cfgs
  BY DEF Next, vars, Feed, Serve, LevelHit, LevelWriteAround, LevelFill, MemoryAccess
<1>3. SUFFICES ASSUME BlocksGrow PROVE ValueInv'
  BY <1>1, <1>2 DEF ValuesInOrder, BlocksGrow, Levels, Depth
<1>4. ValueInv
  BY <1>3 DEF ValuesInOrder
<1>5. ASSUME NEW op \in Ops, NEW addr \in Addrs, Feed(op, addr) PROVE ValueInv'
  BY <1>1, <1>4, <1>5, FeedValues
<1>6. CASE Serve
  BY <1>1, <1>3, <1>4, <1>6, HitValues, WriteAroundValues, FillValues, MemoryValues DEF Serve
<1>7. CASE UNCHANGED vars
  <2>1. cfgs' = cfgs /\ levels' = levels /\ pending' = pending /\ fresh' = fresh
    BY <1>7 DEF vars
  <2>2. Depth' = Depth /\ Held' = Held /\ Owing' = Owing /\ (\A c : Fits(c)' <=> Fits(c))
    BY <2>1 DEF Depth, Held, Owing, Holds, Levels, Fits, Bytes
  <2>3. Passing' = Passing /\ (StackDescends' <=> StackDescends) /\ (StoresFit' <=> StoresFit)
    BY <2>1, <2>2 DEF Passing, StoresOf, StackDescends, StoresFit
  <2> QED BY <1>4, <2>1, <2>2, <2>3 DEF ValueInv
<1> QED
  BY <1>5, <1>6, <1>7 DEF Next

\* However deep the chain and whatever the policies of its levels, as long as
\* blocks do not shrink on the way down, the first copy of a byte a load meets
\* is the value the program stored last: no write-back or forwarded store comes
\* late, none is lost, and none overwrites a newer value.
THEOREM LoadsFindNewestStore == Spec => []NewestStoreFound
<1>1. Init => ValuesInOrder
  BY ChainInit, ValuesInit DEF ValuesInOrder
<1>2. ValuesInOrder => NewestStoreFound
  <2> SUFFICES ASSUME ValuesInOrder, BlocksGrow, Idle, NEW a \in Addrs
               PROVE  a \in fresh[FoundBelow(0, a)]
    BY DEF NewestStoreFound, NewestIsFirst
  <2>1. ChainInv /\ Ordered(Depth, Held, Owing, fresh, Passing)
    BY DEF ValuesInOrder, ValueInv
  <2>2. Passing = {}
    <3>1. DOMAIN pending = {}
      BY DEF Idle
    <3> QED BY <3>1 DEF Passing, StoresOf
  <2>3. Depth \in Nat /\ 0 \in 0 .. Depth
    BY <2>1, TablesOfChain
  <2>4. /\ FoundBelow(0, a) \in 0 + 1 .. Depth + 1
        /\ \A k \in 0 + 1 .. Depth + 1 : Sees(Held, 0, k, a) <=> k = FoundBelow(0, a)
    BY <2>1, <2>3, FoundIsSeen
  <2> DEFINE k == FoundBelow(0, a)
  <2> HIDE DEF k
  <2>5. k \in Places(Depth) /\ 0 < k /\ Sees(Held, 0, k, a)
    BY <2>3, <2>4 DEF k, Places
  <2>6. ~Comes(Owing, {}, 0, k, a)
    BY DEF Comes
  <2>7. a \in fresh[k]
    BY <2>1, <2>2, <2>3, <2>5, <2>6 DEF Ordered, BelowIsNewest
  <2> QED BY <2>7 DEF k
<1> QED
  BY <1>1, <1>2, ValuesStep, PTL DEF Spec
-----------------------------------------------------------------------------
(* The store of a modify.                                                  *)

\* It waits last on the stack: first behind the load of its own address, then
\* behind calls of the levels below, while L1 holds its block.
StoreWaits ==
  record = "Modify" =>
    \A i \in DOMAIN pending :
      pending[i].level = 1 =>
        \/ /\ pending[i].isWrite /\ i = Len(pending)
           /\ \A j \in DOMAIN pending : pending[j].level = 1 => j = i
           /\ IsHit(cfgs[1], levels[1], BlockOf(cfgs[1], pending[i].addr))
        \/ /\ Len(pending) = 2
           /\ ~pending[1].isWrite /\ pending[2].isWrite
           /\ pending[1].level = 1 /\ pending[2].level = 1
           /\ pending[1].addr = pending[2].addr

\* The front call has made way for m calls to the next place.
MadeWay(m) ==
  /\ m \in Nat /\ Len(pending') = Len(pending) + m - 1
  /\ DOMAIN pending' = 1 .. Len(pending')
  /\ \A i \in DOMAIN pending' :
       \/ i <= m /\ pending'[i].level = Front.level + 1
       \/ i > m /\ i - m + 1 \in 2 .. Len(pending) /\ pending'[i] = pending[i - m + 1]

LEMMA CallsMakeWay ==
  ASSUME pending \in Seq(PendingCall), pending # <<>>,
         NEW S, NEW calls \in Seq(S), NEW data, Replace(calls, data)
  PROVE  MadeWay(Len(calls))
<1> DEFINE r == Tail(pending)
           u == Front.level + 1
           made == [i \in DOMAIN calls |-> Sent(u, calls[i], data)]
           m == Len(calls)
           X == {made[i] : i \in 1 .. m} \cup PendingCall
<1>1. m \in Nat /\ DOMAIN calls = 1 .. m
  BY LenProperties
<1>2. /\ r \in Seq(PendingCall) /\ Len(r) = Len(pending) - 1 /\ Len(pending) \in Nat
      /\ \A i \in 1 .. Len(r) : r[i] = pending[i + 1]
  BY HeadTailProperties
<1>3. pending' = made \o r
  BY DEF Replace, NextLevel
<1>4. /\ made \in Seq({made[i] : i \in 1 .. m}) /\ Len(made) = m
      /\ \A i \in 1 .. m : made[i].level = u
  BY <1>1 DEF Sent
<1>5. Len(pending) # 0
  BY EmptySeq
<1> HIDE DEF made, r, u, m
<1>6. made \in Seq(X) /\ r \in Seq(X) /\ Len(r) \in Nat
  BY <1>2, <1>4, <1>5
<1> HIDE DEF X
<1>7. /\ pending' \in Seq(X) /\ Len(pending') = m + Len(r)
      /\ \A i \in 1 .. m + Len(r) : pending'[i] = IF i <= m THEN made[i] ELSE r[i - m]
  BY <1>1, <1>3, <1>4, <1>6, ConcatProperties
<1>8. DOMAIN pending' = 1 .. m + Len(r) /\ Len(pending') = Len(pending) + m - 1
  BY <1>1, <1>2, <1>7, LenProperties
<1>9. ASSUME NEW i \in 1 .. m + Len(r)
      PROVE  \/ i <= m /\ pending'[i].level = u
             \/ i > m /\ i - m + 1 \in 2 .. Len(pending) /\ pending'[i] = pending[i - m + 1]
  <2>1. CASE i <= m
    <3>1. i \in 1 .. m
      BY <1>1, <2>1
    <3> QED BY <1>4, <1>7, <2>1, <3>1
  <2>2. CASE i > m
    <3>1. i - m \in 1 .. Len(r) /\ ~(i <= m) /\ i - m + 1 \in 2 .. Len(pending)
      BY <1>1, <1>2, <1>6, <2>2
    <3> QED BY <1>2, <1>7, <2>2, <3>1
  <2> QED BY <1>1, <1>6, <2>1, <2>2
<1> QED
  BY <1>1, <1>7, <1>8, <1>9 DEF MadeWay, m, u

\* Serving makes way, and leaves L1 alone if the call is for a place below it.
\* A load leaves its block in L1; a store that finds its block there is a hit.
Served(m) ==
  /\ MadeWay(m) /\ cfgs' = cfgs /\ record' = record
  /\ Front.level \in Nat /\ Front.level # 0
  /\ Front.level # 1 => levels'[1] = levels[1]
  /\ Front.level = 1 /\ ~Front.isWrite =>
       /\ IsHit(cfgs[1], levels'[1], BlockOf(cfgs[1], Front.addr))
       /\ levels'[1].stats["writes"] = levels[1].stats["writes"]
  /\ Front.level = 1 /\ IsHit(cfgs[1], levels[1], BlockOf(cfgs[1], Front.addr)) =>
       levels'[1].stats["hits"] = levels[1].stats["hits"] + 1

LEMMA ServedAtLevel ==
  ASSUME ChainInv, SoundLevels, pending # <<>>, Front.level \in Levels
  PROVE  LET l == Front.level
             g == cfgs[l]
             c == levels[l]
             a == Front.addr
         IN  /\ pending \in Seq(PendingCall) /\ 1 \in Levels /\ l \in Nat
             /\ Constructible(g) /\ CacheType(g, Nat, c) /\ SoundLines(g, c)
             /\ c.stats \in [Counters -> Nat]
             /\ a \in Nat /\ Front.isWrite \in BOOLEAN /\ BlockOf(g, a) \in Nat
             /\ \A d : levels' = [levels EXCEPT ![l] = d] =>
                         levels'[l] = d /\ (l # 1 => levels'[1] = levels[1])
<1>1. /\ pending \in Seq(PendingCall) /\ Proper(cfgs)
      /\ levels = [l \in Levels |-> levels[l]]
      /\ Healthy(cfgs[Front.level], Nat, levels[Front.level])
  BY DEF ChainInv
<1>2. /\ 1 \in Levels /\ Front.level \in Nat /\ Constructible(cfgs[Front.level])
  BY <1>1, ChainOfCaches DEF Levels
<1>3. Front.addr \in Nat /\ Front.isWrite \in BOOLEAN
  BY <1>1, FrontCall
<1>4. BlockOf(cfgs[Front.level], Front.addr) \in Nat
  BY <1>2, <1>3, BlockOfType
<1>5. /\ CacheType(cfgs[Front.level], Nat, levels[Front.level])
      /\ levels[Front.level].stats \in [Counters -> Nat]
      /\ SoundLines(cfgs[Front.level], levels[Front.level])
  BY <1>1 DEF Healthy, CacheType, SoundLevels
<1>6. \A d : levels' = [levels EXCEPT ![Front.level] = d] =>
               levels'[Front.level] = d /\ (Front.level # 1 => levels'[1] = levels[1])
  BY <1>1, <1>2
<1> QED
  BY <1>1, <1>2, <1>3, <1>4, <1>5, <1>6

LEMMA HitServes == ASSUME ChainInv, SoundLevels, LevelHit PROVE \E m : Served(m)
<1> DEFINE l == Front.level
           g == cfgs[l]
           c == levels[l]
           x == BlockOf(g, Front.addr)
           d == AfterHit(g, c, Front.addr, Front.isWrite)
           calls == HitCalls(g, Front.addr, Front.isWrite)
<1>1. /\ pending # <<>> /\ l \in Levels /\ IsHit(g, c, x)
      /\ levels' = [levels EXCEPT ![l] = d] /\ Replace(calls, Front.data)
      /\ cfgs' = cfgs /\ record' = record
  BY DEF LevelHit
<1>2. /\ pending \in Seq(PendingCall) /\ l \in Nat /\ l # 0
      /\ Constructible(g) /\ CacheType(g, Nat, c) /\ SoundLines(g, c)
      /\ c.stats \in [Counters -> Nat] /\ Front.addr \in Nat /\ Front.isWrite \in BOOLEAN
      /\ x \in Nat /\ levels'[l] = d /\ (l # 1 => levels'[1] = levels[1])
  <2>1. /\ pending \in Seq(PendingCall) /\ l \in Nat
        /\ Constructible(g) /\ CacheType(g, Nat, c) /\ SoundLines(g, c)
        /\ c.stats \in [Counters -> Nat] /\ Front.addr \in Nat /\ Front.isWrite \in BOOLEAN
        /\ x \in Nat
        /\ \A e : levels' = [levels EXCEPT ![l] = e] =>
                    levels'[l] = e /\ (l # 1 => levels'[1] = levels[1])
    BY <1>1, ServedAtLevel
  <2>2. l # 0
    BY <1>1, <2>1 DEF Levels
  <2> HIDE DEF d
  <2> QED BY <1>1, <2>1, <2>2
<1>3. IsHit(g, d, x)
  BY <1>1, <1>2, HitHolds
<1>4. /\ d.stats["hits"] = c.stats["hits"] + 1
      /\ ~Front.isWrite => d.stats["writes"] = c.stats["writes"]
  <2>1. d.stats = Count(c.stats, HitCounters(Front.isWrite))
    BY DEF AfterHit
  <2> QED BY <1>2, <2>1, HitCounts
<1>5. calls \in Seq(Call)
  <2> DEFINE y == Store(Front.addr)
  <2>1. y \in Call /\ (calls = <<y>> \/ calls = <<>>)
    BY <1>2 DEF HitCalls, Store, Call
  <2> HIDE DEF y, calls
  <2> QED BY <2>1, ShortLists, Zenon
<1> HIDE DEF calls, d
<1>6. MadeWay(Len(calls))
  BY <1>1, <1>2, <1>5, CallsMakeWay
<1> QED
  BY <1>1, <1>2, <1>3, <1>4, <1>6 DEF Served

LEMMA WriteAroundServes == ASSUME ChainInv, SoundLevels, LevelWriteAround PROVE \E m : Served(m)
<1> DEFINE l == Front.level
           g == cfgs[l]
           c == levels[l]
           x == BlockOf(g, Front.addr)
           d == AfterWriteAround(g, c, Front.addr)
           calls == WriteAroundCalls(Front.addr)
<1>1. /\ pending # <<>> /\ l \in Levels /\ ~IsHit(g, c, x) /\ Front.isWrite
      /\ levels' = [levels EXCEPT ![l] = d] /\ Replace(calls, Front.data)
      /\ cfgs' = cfgs /\ record' = record
  BY DEF LevelWriteAround
<1>2. /\ pending \in Seq(PendingCall) /\ l \in Nat /\ l # 0 /\ Front.addr \in Nat
      /\ (l # 1 => levels'[1] = levels[1])
  BY <1>1, ServedAtLevel DEF Levels
<1>3. calls \in Seq(Call)
  BY <1>2 DEF WriteAroundCalls, Store, Call
<1> HIDE DEF calls, d
<1>4. MadeWay(Len(calls))
  BY <1>1, <1>2, <1>3, CallsMakeWay
<1> QED
  BY <1>1, <1>2, <1>4 DEF Served

LEMMA FillServes == ASSUME ChainInv, SoundLevels, LevelFill PROVE \E m : Served(m)
<1> DEFINE l == Front.level
           g == cfgs[l]
           c == levels[l]
           x == BlockOf(g, Front.addr)
           s == SetOf(g, x)
<1>1. /\ pending # <<>> /\ l \in Levels /\ ~IsHit(g, c, x)
      /\ cfgs' = cfgs /\ record' = record
  BY DEF LevelFill
<1>2. PICK w \in PickWays(g, c, s) :
        /\ levels' = [levels EXCEPT ![l] = AfterFill(g, @, Front.addr, Front.isWrite, w)]
        /\ \E data : Replace(FillCalls(g, c, Front.addr, Front.isWrite, w), data)
  BY DEF LevelFill
<1>2a. PICK data : Replace(FillCalls(g, c, Front.addr, Front.isWrite, w), data)
  BY <1>2
<1> DEFINE d == AfterFill(g, c, Front.addr, Front.isWrite, w)
           calls == FillCalls(g, c, Front.addr, Front.isWrite, w)
           frame == c.lines[s][w]
           wb == MustWriteBack(g, frame)
<1>3. levels' = [levels EXCEPT ![l] = d] /\ Replace(calls, data)
  BY <1>2, <1>2a
<1>4. /\ pending \in Seq(PendingCall) /\ l \in Nat /\ l # 0
      /\ Constructible(g) /\ CacheType(g, Nat, c) /\ SoundLines(g, c)
      /\ c.stats \in [Counters -> Nat] /\ Front.addr \in Nat /\ Front.isWrite \in BOOLEAN
      /\ x \in Nat /\ levels'[l] = d /\ (l # 1 => levels'[1] = levels[1])
  <2>1. /\ pending \in Seq(PendingCall) /\ l \in Nat
        /\ Constructible(g) /\ CacheType(g, Nat, c) /\ SoundLines(g, c)
        /\ c.stats \in [Counters -> Nat] /\ Front.addr \in Nat /\ Front.isWrite \in BOOLEAN
        /\ x \in Nat
        /\ \A e : levels' = [levels EXCEPT ![l] = e] =>
                    levels'[l] = e /\ (l # 1 => levels'[1] = levels[1])
    BY <1>1, ServedAtLevel
  <2>2. l # 0
    BY <1>1, <2>1 DEF Levels
  <2> HIDE DEF d
  <2> QED BY <1>1, <1>3, <2>1, <2>2
<1>5. w \in Ways(g) /\ s \in Sets(g)
  BY <1>2, <1>4, PickIsWay, Decomposition
<1>6. IsHit(g, d, x)
  BY <1>1, <1>4, <1>5, FillHolds
<1>7. ~Front.isWrite => d.stats["writes"] = c.stats["writes"]
  <2>1. Adds(c.stats, d.stats, 1, One(Front.isWrite), One(~Front.isWrite), One(wb))
    BY <1>4, FillAdds
  <2>2. c.stats["writes"] \in Nat
    BY <1>4 DEF Counters
  <2> HIDE DEF d, c, wb
  <2> QED BY <2>1, <2>2 DEF Adds, One
<1>8. calls \in Seq(Call)
  <2> DEFINE victim == AddrOf(g, VictimBlock(g, frame.tag, s))
             y == Store(victim)
             z == Store(Front.addr)
             f == Load(Front.addr)
  <2>1. /\ wb => calls = <<f, y>>
        /\ ~wb /\ Front.isWrite /\ ~WritesBack(g) => calls = <<f, z>>
        /\ ~wb /\ (~Front.isWrite \/ WritesBack(g)) => calls = <<f>>
    <3>1. Front.isWrite \in BOOLEAN
      BY <1>4
    <3> HIDE DEF g, c
    <3> QED BY <3>1, FillCallsCases
  <2>2. victim \in Nat
    BY <1>4, <1>5, VictimIsAddress
  <2>3. f \in Call /\ z \in Call /\ y \in Call
    BY <1>4, <2>2 DEF Load, Store, Call
  <2> HIDE DEF y, z, f, calls, wb
  <2>4. calls = <<f, y>> \/ calls = <<f, z>> \/ calls = <<f>>
    BY <1>4, <2>1
  <2> QED BY <2>3, <2>4, ShortLists, Zenon
<1> HIDE DEF calls, d
<1>9. MadeWay(Len(calls))
  BY <1>1, <1>3, <1>4, <1>8, CallsMakeWay
<1> QED
  BY <1>1, <1>4, <1>6, <1>7, <1>9 DEF Served

LEMMA MemoryServes == ASSUME ChainInv, MemoryAccess PROVE \E m : Served(m)
<1>1. /\ pending # <<>> /\ Front.level = Depth + 1 /\ pending' = Tail(pending)
      /\ cfgs' = cfgs /\ levels' = levels /\ record' = record /\ pending \in Seq(PendingCall)
  BY DEF MemoryAccess, ChainInv
<1>2. Depth \in Nat /\ Depth # 0
  BY ChainOfCaches DEF ChainInv
<1>3. MadeWay(0)
  <2>1. /\ pending' \in Seq(PendingCall) /\ Len(pending') = Len(pending) - 1
        /\ \A i \in 1 .. Len(pending') : pending'[i] = pending[i + 1]
        /\ Len(pending) \in Nat /\ Len(pending') \in Nat
    BY <1>1, HeadTailProperties, LenProperties
  <2>2. DOMAIN pending' = 1 .. Len(pending')
    BY <2>1, LenProperties
  <2>3. \A i \in 1 .. Len(pending') : i > 0 /\ i - 0 + 1 = i + 1 /\ i + 1 \in 2 .. Len(pending)
    BY <2>1
  <2> QED BY <2>1, <2>2, <2>3 DEF MadeWay
<1> QED
  BY <1>1, <1>2, <1>3 DEF Served

\* The store of a modify waits as it should, whatever is served before it.
LEMMA ServedWaits ==
  ASSUME pending \in Seq(PendingCall), pending # <<>>, StoreWaits, NEW m, Served(m)
  PROVE  StoreWaits'
<1>1. /\ m \in Nat /\ Len(pending) \in Nat /\ Len(pending') = Len(pending) + m - 1
      /\ DOMAIN pending' = 1 .. Len(pending') /\ DOMAIN pending = 1 .. Len(pending)
      /\ Front = pending[1] /\ 1 \in DOMAIN pending
  <2>1. Len(pending) # 0 /\ Len(pending) \in Nat /\ DOMAIN pending = 1 .. Len(pending)
    BY EmptySeq, LenProperties
  <2> QED BY <2>1 DEF Served, MadeWay, Front
<1>2. ASSUME NEW i \in DOMAIN pending', pending'[i].level = 1
      PROVE  i > m /\ i - m + 1 \in 2 .. Len(pending) /\ pending'[i] = pending[i - m + 1]
             /\ i - m + 1 \in DOMAIN pending
  <2>1. Front.level + 1 # 1
    BY DEF Served
  <2>2. i > m /\ i - m + 1 \in 2 .. Len(pending) /\ pending'[i] = pending[i - m + 1]
    BY <1>2, <2>1 DEF Served, MadeWay
  <2> QED BY <1>1, <2>2
<1> SUFFICES ASSUME record = "Modify", NEW i \in DOMAIN pending', pending'[i].level = 1
             PROVE  /\ pending'[i].isWrite /\ i = Len(pending')
                    /\ \A j \in DOMAIN pending' : pending'[j].level = 1 => j = i
                    /\ IsHit(cfgs[1], levels'[1], BlockOf(cfgs[1], pending'[i].addr))
  BY DEF StoreWaits, Served
<1> DEFINE k == i - m + 1
<1>3. k \in DOMAIN pending /\ k \in 2 .. Len(pending) /\ pending'[i] = pending[k] /\ i \in Nat
  BY <1>1, <1>2
<1>4. CASE /\ pending[k].isWrite /\ k = Len(pending)
           /\ \A j \in DOMAIN pending : pending[j].level = 1 => j = k
           /\ IsHit(cfgs[1], levels[1], BlockOf(cfgs[1], pending[k].addr))
  <2>1. Front.level # 1
    <3> HIDE DEF k
    <3> SUFFICES ASSUME Front.level = 1 PROVE FALSE
      OBVIOUS
    <3>1. 1 = k
      BY <1>1, <1>4
    <3> QED BY <1>1, <1>3, <3>1
  <2>2. levels'[1] = levels[1]
    BY <2>1 DEF Served
  <2>3. i = Len(pending')
    BY <1>1, <1>3, <1>4
  <2>4. ASSUME NEW j \in DOMAIN pending', pending'[j].level = 1 PROVE j = i
    <3>1. j - m + 1 \in DOMAIN pending /\ pending[j - m + 1].level = 1
      BY <1>2, <2>4
    <3>2. j - m + 1 = k /\ j \in Nat
      BY <1>1, <1>4, <3>1
    <3> QED BY <1>1, <1>3, <3>2
  <2> QED BY <1>3, <1>4, <2>2, <2>3, <2>4
<1>5. CASE /\ Len(pending) = 2
           /\ ~pending[1].isWrite /\ pending[2].isWrite
           /\ pending[1].level = 1 /\ pending[2].level = 1
           /\ pending[1].addr = pending[2].addr
  <2>1. k = 2 /\ i = m + 1 /\ Len(pending') = m + 1
    BY <1>1, <1>3, <1>5
  <2>2. IsHit(cfgs[1], levels'[1], BlockOf(cfgs[1], pending[2].addr))
    BY <1>1, <1>5 DEF Served
  <2>3. ASSUME NEW j \in DOMAIN pending', pending'[j].level = 1 PROVE j = i
    <3>1. j > m /\ j <= m + 1 /\ j \in Nat
      BY <1>1, <1>2, <2>1, <2>3
    <3> QED BY <1>1, <2>1, <3>1
  <2> HIDE DEF k
  <2> QED BY <1>3, <1>5, <2>1, <2>2, <2>3
<1> HIDE DEF k
<1>6. pending[k].level = 1
  BY <1>3
<1> QED
  BY <1>3, <1>4, <1>5, <1>6 DEF StoreWaits

ModifyInv == ChainInv /\ SoundLevels /\ StoreWaits

\* Any call that is served makes way.
LEMMA ServeServes == ASSUME ChainInv, SoundLevels, Serve PROVE pending # <<>> /\ \E m : Served(m)
<1>1. pending # <<>>
  BY DEF Serve, LevelHit, LevelWriteAround, LevelFill, MemoryAccess
<1> QED
  BY <1>1, HitServes, WriteAroundServes, FillServes, MemoryServes DEF Serve

\* A modify that is fed puts its load first.
LEMMA FeedWaits ==
  ASSUME NEW op \in Ops, NEW addr \in Addrs, Feed(op, addr)
  PROVE  StoreWaits'
<1> SUFFICES ASSUME op = "Modify" PROVE StoreWaits'
  BY DEF StoreWaits, Feed
<1> DEFINE x == CpuAccess(Load(addr))
           y == CpuAccess(Store(addr))
<1>1. pending' = <<x, y>>
  BY DEF Feed, Expand
<1>2. /\ x.level = 1 /\ x.isWrite = FALSE /\ x.addr = addr
      /\ y.level = 1 /\ y.isWrite = TRUE /\ y.addr = addr
  BY DEF CpuAccess, Sent, Load, Store
<1> HIDE DEF x, y
<1>3. Len(pending') = 2 /\ pending'[1] = x /\ pending'[2] = y
  BY <1>1
<1> QED
  BY <1>2, <1>3 DEF StoreWaits

LEMMA ModifyStep == ModifyInv /\ [Next]_vars => ModifyInv'
<1> SUFFICES ASSUME ModifyInv, [Next]_vars PROVE ModifyInv'
  OBVIOUS
<1>1. ChainInv /\ SoundLevels /\ ChainInv' /\ SoundLevels' /\ pending \in Seq(PendingCall)
  BY ChainStep, LevelsStaySound DEF ModifyInv, ChainInv
<1>2. ASSUME NEW op \in Ops, NEW addr \in Addrs, Feed(op, addr) PROVE StoreWaits'
  BY <1>2, FeedWaits
<1>3. CASE Serve
  BY <1>1, <1>3, ServeServes, ServedWaits DEF ModifyInv
<1>4. ASSUME UNCHANGED vars PROVE StoreWaits'
  <2>1. cfgs' = cfgs /\ levels' = levels /\ pending' = pending /\ record' = record
    BY <1>4 DEF vars
  <2>2. StoreWaits
    BY DEF ModifyInv
  <2> QED BY <2>1, <2>2 DEF StoreWaits
<1> QED
  BY <1>1, <1>2, <1>3, <1>4 DEF Next, ModifyInv

\* The store of an M record always hits L1, whatever the policies and the
\* geometry of the levels: between its load and itself L1 is not asked again.
THEOREM ModifyCostsOneMiss == Spec => ModifyStoreHits
<1>1. Init => ModifyInv
  <2> SUFFICES ASSUME Init PROVE StoreWaits
    BY ChainInit, ValuesInit DEF ModifyInv
  <2> QED BY DEF Init, StoreWaits
<1>2. ModifyInv /\ [Next]_vars =>
        [record = "Modify" /\ levels'[1].stats["writes"] # levels[1].stats["writes"]
           => levels'[1].stats["hits"] # levels[1].stats["hits"]]_vars
  <2> SUFFICES ASSUME ModifyInv, Next, record = "Modify",
                      levels'[1].stats["writes"] # levels[1].stats["writes"]
               PROVE  levels'[1].stats["hits"] # levels[1].stats["hits"]
    OBVIOUS
  <2>1. Serve
    BY DEF Next, Feed
  <2>2. pending # <<>> /\ \E m : Served(m)
    BY <2>1, ServeServes DEF ModifyInv
  <2>3. Front.level = 1 /\ Front.isWrite
    BY <2>2 DEF Served
  <2>4. Front = pending[1] /\ 1 \in DOMAIN pending
    BY <2>2, EmptySeq, LenProperties DEF Front, ModifyInv, ChainInv
  <2>5. IsHit(cfgs[1], levels[1], BlockOf(cfgs[1], Front.addr))
    BY <2>3, <2>4 DEF ModifyInv, StoreWaits
  <2>6. levels'[1].stats["hits"] = levels[1].stats["hits"] + 1
    BY <2>2, <2>3, <2>5 DEF Served
  <2>7. levels[1].stats["hits"] \in Nat
    <3>1. 1 \in Levels /\ \A l \in Levels : Healthy(cfgs[l], Nat, levels[l])
      BY ChainOfCaches DEF ModifyInv, ChainInv, Levels
    <3>2. levels[1].stats \in [Counters -> Nat]
      BY <3>1 DEF Healthy, CacheType
    <3> QED BY <3>2 DEF Counters
  <2> QED BY <2>6, <2>7
<1> QED
  BY <1>1, <1>2, ModifyStep, PTL DEF Spec, ModifyStoreHits
=============================================================================
