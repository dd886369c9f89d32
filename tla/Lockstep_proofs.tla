--------------------------- MODULE Lockstep_proofs ---------------------------
(***************************************************************************)
(* What a change of one knob may not change, for every pair of             *)
(* configurations of one block size and traces of every length.            *)
(***************************************************************************)
EXTENDS Lockstep, CacheLevel_proofs

-----------------------------------------------------------------------------
(* The order an LRU cache keeps its blocks in.                             *)

\* The stamps are past times, no two alike.
Recent(g, c) ==
  /\ \A x \in Nat : IsHit(g, c, x) => LastUse(g, c, x) <= c.repl.clock
  /\ \A x, y \in Nat :
       IsHit(g, c, x) /\ IsHit(g, c, y) /\ LastUse(g, c, x) = LastUse(g, c, y) => x = y

\* Such an access keeps the order.
LEMMA TouchedRecent ==
  ASSUME NEW g, NEW c, NEW d, NEW b \in Nat, Touched(g, c, d, b), Recent(g, c), c.repl.clock \in Nat,
         \A x \in Nat : IsHit(g, c, x) => LastUse(g, c, x) \in Nat
  PROVE  Recent(g, d)
<1>1. /\ d.repl.clock = c.repl.clock + 1 /\ LastUse(g, d, b) = c.repl.clock + 1
      /\ \A x \in Nat : IsHit(g, d, x) /\ x # b =>
           IsHit(g, c, x) /\ LastUse(g, d, x) = LastUse(g, c, x)
  BY DEF Touched
<1>2. \A x \in Nat : IsHit(g, d, x) /\ x # b =>
        LastUse(g, d, x) \in Nat /\ LastUse(g, d, x) <= c.repl.clock
  BY <1>1 DEF Recent
<1>3. \A x \in Nat : IsHit(g, d, x) => LastUse(g, d, x) <= d.repl.clock
  BY <1>1, <1>2
<1>4. ASSUME NEW x \in Nat, NEW y \in Nat, IsHit(g, d, x), IsHit(g, d, y),
             LastUse(g, d, x) = LastUse(g, d, y)
      PROVE  x = y
  BY <1>1, <1>2, <1>4 DEF Recent
<1> QED
  BY <1>3, <1>4 DEF Recent

\* A new cache has nothing to order.
LEMMA NewCacheRecent ==
  ASSUME NEW g, Constructible(g)
  PROVE  Recent(g, NewCache(g))
BY NewCacheHolds DEF Recent

\* A store that goes around leaves the order and the blocks.
Unmoved(g, c, d) ==
  /\ \A x \in Nat : (IsHit(g, d, x) <=> IsHit(g, c, x)) /\ LastUse(g, d, x) = LastUse(g, c, x)
  /\ \A s : EmptyWays(g, d, s) = EmptyWays(g, c, s)
  /\ d.repl = c.repl

LEMMA AroundUnmoved ==
  ASSUME NEW g, NEW c, NEW a
  PROVE  Unmoved(g, c, AfterWriteAround(g, c, a))
<1> DEFINE d == AfterWriteAround(g, c, a)
<1>1. d.lines = c.lines /\ d.repl = c.repl
  BY DEF AfterWriteAround
<1> HIDE DEF d
<1>2. \A x : Matches(g, d, x) = Matches(g, c, x)
  BY <1>1 DEF Matches
<1> QED
  BY <1>1, <1>2 DEF Unmoved, IsHit, LastUse, EmptyWays, d

-----------------------------------------------------------------------------
(* The two caches.                                                         *)

InFirst(x)   == IsHit(pair[1], first, x)
InSecond(x)  == IsHit(pair[2], second, x)
UsedFirst(x)  == LastUse(pair[1], first, x)
UsedSecond(x) == LastUse(pair[2], second, x)
FirstSet(x)  == SetOf(pair[1], x)
SecondSet(x) == SetOf(pair[2], x)

BothKept == pair \in Pairs /\ Kept(pair[1], first) /\ Kept(pair[2], second)

\* Both are asked for the same block.
LEMMA PairFacts ==
  ASSUME pair \in Pairs
  PROVE  /\ Constructible(pair[1]) /\ Constructible(pair[2])
         /\ pair[1].blockSize = pair[2].blockSize
         /\ \A a : BlockOf(pair[2], a) = BlockOf(pair[1], a)
         /\ Addrs \subseteq Nat
BY PairsAssumption, LockstepAddrsAssumption DEF BlockOf

LEMMA BothKeptInit == Init => BothKept
BY PairsAssumption, NewCacheKept DEF Init, BothKept

LEMMA BothKeptStep == BothKept /\ [Next]_vars => BothKept'
<1> SUFFICES ASSUME BothKept, [Next]_vars PROVE BothKept'
  OBVIOUS
<1>1. CASE Next
  <2>1. PICK a \in Addrs, isWrite \in BOOLEAN : Access(a, isWrite)
    BY <1>1 DEF Next
  <2>2. /\ first' \in AfterAccess(pair[1], first, a, isWrite)
        /\ second' \in AfterAccess(pair[2], second, a, isWrite) /\ pair' = pair
    BY <2>1 DEF Access
  <2>3. a \in Nat /\ Constructible(pair[1]) /\ Constructible(pair[2])
    BY PairFacts DEF BothKept
  <2>4. Kept(pair[1], first') /\ Kept(pair[2], second')
    BY <2>2, <2>3, AccessKeeps DEF BothKept
  <2> QED
    BY <2>2, <2>4 DEF BothKept
<1>2. CASE UNCHANGED vars
  BY <1>2 DEF vars, BothKept
<1> QED
  BY <1>1, <1>2

-----------------------------------------------------------------------------
(* The stack property of LRU.                                              *)

\* Both keep their blocks in the order of use.  A block of the second that is
\* not in the first was dropped by the first, whose set is full then; if
\* stores allocate, it was used before all the first has in that set.
StackOrder ==
  /\ Recent(pair[1], first) /\ Recent(pair[2], second)
  /\ \A x \in Nat : InFirst(x) => InSecond(x)
  /\ \A x, y \in Nat :
       InFirst(x) /\ InFirst(y) => (UsedFirst(x) < UsedFirst(y) <=> UsedSecond(x) < UsedSecond(y))
  /\ \A x \in Nat :
       InSecond(x) /\ ~InFirst(x) => EmptyWays(pair[1], first, FirstSet(x)) = {}
  /\ WriteAllocates(pair[1]) =>
       \A x, y \in Nat :
         InSecond(x) /\ ~InFirst(x) /\ InFirst(y) /\ FirstSet(x) = FirstSet(y)
           => UsedSecond(x) < UsedSecond(y)
  /\ second.stats["misses"] <= first.stats["misses"]

StackInv == BothKept /\ (Grown => StackOrder)

\* Numbers that agree modulo n agree modulo every divisor of n.
LEMMA SameRemainder ==
  ASSUME NEW m \in Nat \ {0}, NEW n \in Nat \ {0}, n % m = 0,
         NEW u \in Nat, NEW v \in Nat, u % n = v % n
  PROVE  u % m = v % m
<1> DEFINE k == n \div m
           r == u % n
<1>1. \A x \in Nat, y \in Nat \ {0} :
        /\ x \div y \in Nat /\ x % y \in 0 .. y - 1
        /\ x = y * (x \div y) + (x % y)
  OBVIOUS
<1>2. \A p \in Nat, q \in 0 .. m - 1 : (m * p + q) % m = q
  OBVIOUS
<1>3. k \in Nat /\ n = m * k /\ r \in Nat
  <2>1. n = m * k + (n % m) /\ k \in Nat /\ r \in 0 .. n - 1
    BY <1>1
  <2>2. m * k \in Nat
    BY <2>1
  <2> QED BY <2>1, <2>2
<1>4. r \div m \in Nat /\ r % m \in 0 .. m - 1 /\ r = m * (r \div m) + (r % m)
  BY <1>1, <1>3
<1> HIDE DEF k, r
<1>5. ASSUME NEW x \in Nat, x % n = r PROVE x % m = r % m
  <2> DEFINE t == x \div n
             e == r \div m
             h == r % m
  <2>1. t \in Nat /\ x = n * t + r
    BY <1>1, <1>5
  <2>2. e \in Nat /\ h \in 0 .. m - 1 /\ r = m * e + h
    BY <1>4
  <2> HIDE DEF t, e, h
  <2>3. n * t = m * (k * t) /\ k * t \in Nat
    BY <1>3, <2>1
  <2>4. m * (k * t) + m * e = m * (k * t + e)
    BY <1>3, <2>1, <2>2, <2>3
  <2>5. x = m * (k * t + e) + h /\ k * t + e \in Nat
    BY <2>1, <2>2, <2>3, <2>4
  <2>6. x % m = h
    BY <1>2, <2>2, <2>5
  <2> QED BY <2>6 DEF h
<1> QED
  BY <1>5 DEF r

\* Splitting sets keeps apart what was apart.
LEMMA SetsNest ==
  ASSUME pair \in Pairs, Grown, NEW x \in Nat, NEW y \in Nat, SecondSet(x) = SecondSet(y)
  PROVE  FirstSet(x) = FirstSet(y)
<1>1. NumSets(pair[1]) \in Nat \ {0} /\ NumSets(pair[2]) \in Nat \ {0}
  BY PairFacts, GeometryType
<1>2. NumSets(pair[2]) % NumSets(pair[1]) = 0
  BY <1>1 DEF Grown
<1> QED
  BY <1>1, <1>2, SameRemainder DEF FirstSet, SecondSet, SetOf

LEMMA UseIsNat ==
  ASSUME BothKept
  PROVE  /\ \A x \in Nat : InFirst(x) => UsedFirst(x) \in Nat /\ FirstSet(x) \in Sets(pair[1])
         /\ \A x \in Nat : InSecond(x) => UsedSecond(x) \in Nat /\ SecondSet(x) \in Sets(pair[2])
         /\ first.repl.clock \in Nat /\ second.repl.clock \in Nat
<1>1. Constructible(pair[1]) /\ Constructible(pair[2]) /\ Kept(pair[1], first) /\ Kept(pair[2], second)
  BY PairFacts DEF BothKept
<1>2. first.repl.clock \in Nat /\ second.repl.clock \in Nat
  BY <1>1, KeptFacts DEF PolicyType
<1>3. \A x \in Nat : InFirst(x) => UsedFirst(x) \in Nat /\ FirstSet(x) \in Sets(pair[1])
  BY <1>1, HeldInFrame, StampAt DEF InFirst, UsedFirst, FirstSet
<1>4. \A x \in Nat : InSecond(x) => UsedSecond(x) \in Nat /\ SecondSet(x) \in Sets(pair[2])
  BY <1>1, HeldInFrame, StampAt DEF InSecond, UsedSecond, SecondSet
<1> QED
  BY <1>2, <1>3, <1>4

\* If the set of b is full in the second cache, whose least recently used
\* block there is v, and the first has v, then its set of b is full too, and v
\* is the least recently used there.
LEMMA SameVictim ==
  ASSUME BothKept, Grown, StackOrder, NEW b \in Nat,
         EmptyWays(pair[2], second, SecondSet(b)) = {},
         NEW v \in Nat, InFirst(v), SecondSet(v) = SecondSet(b),
         \A y \in Nat : InSecond(y) /\ SecondSet(y) = SecondSet(b) => UsedSecond(v) <= UsedSecond(y)
  PROVE  /\ EmptyWays(pair[1], first, FirstSet(b)) = {}
         /\ \A y \in Nat :
              InFirst(y) /\ FirstSet(y) = FirstSet(b) /\ y # v => UsedFirst(v) < UsedFirst(y)
<1> DEFINE F == SetBlocks(pair[1], first, FirstSet(b))
           S == SetBlocks(pair[2], second, SecondSet(b))
<1>1. /\ Constructible(pair[1]) /\ Constructible(pair[2])
      /\ FirstSet(b) \in Sets(pair[1]) /\ SecondSet(b) \in Sets(pair[2])
      /\ pair[1].associativity \in Nat /\ pair[2].associativity \in Nat
      /\ pair[1].associativity <= pair[2].associativity
  BY PairFacts, Decomposition, GeometryType DEF BothKept, FirstSet, SecondSet, Grown
<1>2. /\ IsFiniteSet(F) /\ Cardinality(F) \in Nat /\ Cardinality(F) <= pair[1].associativity
      /\ Cardinality(F) = pair[1].associativity <=> EmptyWays(pair[1], first, FirstSet(b)) = {}
      /\ Cardinality(S) = pair[2].associativity
  BY <1>1, BlocksInSet, KeptFacts DEF BothKept
<1>3. \A x : /\ x \in F <=> x \in Nat /\ InFirst(x) /\ FirstSet(x) = FirstSet(b)
             /\ x \in S <=> x \in Nat /\ InSecond(x) /\ SecondSet(x) = SecondSet(b)
  BY DEF SetBlocks, InFirst, InSecond, FirstSet, SecondSet
<1> HIDE DEF F, S
<1>4. v \in F /\ v \in S /\ \A y \in S : FirstSet(y) = FirstSet(b)
  BY <1>3, SetsNest DEF BothKept, StackOrder
<1>5. ASSUME WriteAllocates(pair[1]) PROVE S \subseteq F
  <2> SUFFICES ASSUME NEW y \in S, ~InFirst(y) PROVE FALSE
    BY <1>3, <1>4
  <2>1. /\ InSecond(y) /\ y \in Nat /\ InSecond(v) /\ FirstSet(y) = FirstSet(v)
        /\ UsedSecond(v) <= UsedSecond(y)
    BY <1>3, <1>4
  <2>2. UsedSecond(v) \in Nat /\ UsedSecond(y) \in Nat
    BY <2>1, UseIsNat
  <2>3. UsedSecond(y) < UsedSecond(v)
    BY <1>5, <2>1 DEF StackOrder
  <2> QED BY <2>1, <2>2, <2>3
<1>6. S \subseteq F => S = F /\ Cardinality(F) = pair[1].associativity
  <2> SUFFICES ASSUME S \subseteq F PROVE S = F /\ Cardinality(F) = pair[1].associativity
    OBVIOUS
  <2>1. Cardinality(S) <= Cardinality(F) /\ (Cardinality(F) = Cardinality(S) => F = S)
    BY <1>2, FS_Subset
  <2> QED BY <1>1, <1>2, <2>1
<1>7. EmptyWays(pair[1], first, FirstSet(b)) = {}
  <2>1. CASE S \subseteq F
    BY <1>2, <1>6, <2>1
  <2>2. ASSUME NEW y \in S, y \notin F PROVE EmptyWays(pair[1], first, FirstSet(b)) = {}
    <3>1. y \in Nat /\ InSecond(y) /\ ~InFirst(y) /\ FirstSet(y) = FirstSet(b)
      BY <1>3, <1>4, <2>2
    <3> QED BY <3>1 DEF StackOrder
  <2> QED BY <2>1, <2>2
<1>8. F \subseteq S
  <2>1. CASE WriteAllocates(pair[1])
    BY <1>5, <1>6, <2>1
  <2>2. CASE ~WriteAllocates(pair[1])
    <3>1. NumSets(pair[1]) = NumSets(pair[2])
      BY <2>2 DEF Grown
    <3> QED BY <1>3, <3>1 DEF StackOrder, FirstSet, SecondSet, SetOf
  <2> QED BY <2>1, <2>2
<1>9. ASSUME NEW y \in F, y # v PROVE UsedFirst(v) < UsedFirst(y)
  <2>1. /\ y \in Nat /\ InFirst(y) /\ InSecond(y) /\ InSecond(v)
        /\ UsedSecond(v) <= UsedSecond(y)
    BY <1>3, <1>4, <1>8
  <2>2. UsedSecond(v) \in Nat /\ UsedSecond(y) \in Nat
    BY <2>1, UseIsNat
  <2>3. UsedSecond(v) # UsedSecond(y)
    BY <1>9, <2>1 DEF StackOrder, Recent, InSecond, UsedSecond
  <2>4. UsedSecond(v) < UsedSecond(y)
    BY <2>1, <2>2, <2>3
  <2> QED BY <2>1, <2>4 DEF StackOrder
<1> QED
  BY <1>3, <1>7, <1>9

\* An access of an LRU cache is told to the policy, unless it goes around.
LEMMA AccessOrder ==
  ASSUME NEW g, Constructible(g), g.replacement = "LRU", NEW c, Kept(g, c),
         NEW a \in Nat, NEW isWrite \in BOOLEAN, NEW d \in AfterAccess(g, c, a, isWrite)
  PROVE  LET b == BlockOf(g, a)
         IN  /\ d.stats["misses"] = c.stats["misses"] + One(~IsHit(g, c, b))
             /\ \/ Touched(g, c, d, b) /\ (IsHit(g, c, b) \/ (isWrite => WriteAllocates(g)))
                \/ Unmoved(g, c, d) /\ ~IsHit(g, c, b) /\ isWrite /\ ~WriteAllocates(g)
<1> DEFINE b == BlockOf(g, a)
<1>1. Kept(g, d) /\ c.stats \in [Counters -> Nat] /\ c.stats["misses"] \in Nat
  BY AccessKeeps, KeptFacts DEF Counters
<1>2. CASE IsHit(g, c, b) /\ d = AfterHit(g, c, a, isWrite)
  <2>1. Touched(g, c, d, b)
    BY <1>1, <1>2, HitTouches
  <2>2. d.stats["misses"] = c.stats["misses"] + 0
    BY <1>1, <1>2, HitAdds DEF Adds
  <2> QED
    BY <1>2, <2>1, <2>2 DEF One
<1>3. CASE /\ ~IsHit(g, c, b) /\ isWrite /\ ~WriteAllocates(g)
           /\ d = AfterWriteAround(g, c, a)
  <2>1. Unmoved(g, c, d)
    BY <1>3, AroundUnmoved
  <2>2. d.stats["misses"] = c.stats["misses"] + 1
    BY <1>1, <1>3, WriteAroundAdds DEF Adds
  <2> QED
    BY <1>3, <2>1, <2>2 DEF One
<1>4. CASE /\ ~IsHit(g, c, b) /\ (isWrite => WriteAllocates(g))
           /\ \E w \in PickWays(g, c, SetOf(g, b)) : d = AfterFill(g, c, a, isWrite, w)
  <2>1. PICK w \in PickWays(g, c, SetOf(g, b)) : d = AfterFill(g, c, a, isWrite, w)
    BY <1>4
  <2>2. Touched(g, c, d, b)
    BY <1>1, <1>4, <2>1, FillTouches
  <2>3. d.stats["misses"] = c.stats["misses"] + 1
    <3> DEFINE wb == MustWriteBack(g, c.lines[SetOf(g, b)][w])
    <3>1. Adds(c.stats, AfterFill(g, c, a, isWrite, w).stats, 1, One(isWrite), One(~isWrite), One(wb))
      BY <1>1, FillAdds
    <3> QED
      BY <2>1, <3>1 DEF Adds
  <2> QED
    BY <1>4, <2>2, <2>3 DEF One
<1> QED
  BY <1>2, <1>3, <1>4, AccessPaths

\* Both policies are told.
LEMMA BothTouched ==
  ASSUME BothKept, Grown, StackOrder, pair' = pair, NEW b \in Nat,
         Touched(pair[1], first, first', b), Touched(pair[2], second, second', b),
         (second.stats["misses"] <= first.stats["misses"])'
  PROVE  StackOrder'
<1>1. /\ InFirst(b)' /\ UsedFirst(b)' = first.repl.clock + 1
      /\ \A x \in Nat \ {b} : InFirst(x)' => InFirst(x) /\ UsedFirst(x)' = UsedFirst(x)
  BY DEF Touched, InFirst, UsedFirst
<1>2. /\ \A x \in Nat : InFirst(x) /\ ~InFirst(x)' =>
           /\ ~InFirst(b) /\ FirstSet(x) = FirstSet(b)
           /\ EmptyWays(pair[1], first, FirstSet(b)) = {}
           /\ \A y \in Nat :
                InFirst(y) /\ FirstSet(y) = FirstSet(b) => UsedFirst(x) <= UsedFirst(y)
      /\ ~InFirst(b) /\ EmptyWays(pair[1], first, FirstSet(b)) = {} =>
           \E v \in Nat : InFirst(v) /\ ~InFirst(v)' /\ FirstSet(v) = FirstSet(b)
      /\ \A s \in Sets(pair[1]) : EmptyWays(pair[1], first', s) \subseteq EmptyWays(pair[1], first, s)
  BY DEF Touched, InFirst, UsedFirst, FirstSet
<1>3. /\ InSecond(b)' /\ UsedSecond(b)' = second.repl.clock + 1
      /\ \A x \in Nat \ {b} : InSecond(x)' => InSecond(x) /\ UsedSecond(x)' = UsedSecond(x)
  BY DEF Touched, InSecond, UsedSecond
<1>4. \A x \in Nat : InSecond(x) /\ ~InSecond(x)' =>
        /\ ~InSecond(b) /\ SecondSet(x) = SecondSet(b)
        /\ EmptyWays(pair[2], second, SecondSet(b)) = {}
        /\ \A y \in Nat :
             InSecond(y) /\ SecondSet(y) = SecondSet(b) => UsedSecond(x) <= UsedSecond(y)
  BY DEF Touched, InSecond, UsedSecond, SecondSet
<1>5. \A x \in Nat : FirstSet(x)' = FirstSet(x) /\ FirstSet(x) \in Sets(pair[1])
  BY PairFacts, Decomposition DEF BothKept, FirstSet
<1>6. /\ \A x \in Nat : InFirst(x) =>
           InSecond(x) /\ UsedFirst(x) \in Nat /\ UsedFirst(x) <= first.repl.clock
      /\ \A x \in Nat : InSecond(x) => UsedSecond(x) \in Nat /\ UsedSecond(x) <= second.repl.clock
      /\ first.repl.clock \in Nat /\ second.repl.clock \in Nat
  BY UseIsNat DEF StackOrder, Recent, InFirst, UsedFirst, InSecond, UsedSecond
<1>7. \A x, y \in Nat : InFirst(x) /\ InFirst(y) =>
        /\ UsedFirst(x) < UsedFirst(y) <=> UsedSecond(x) < UsedSecond(y)
        /\ UsedFirst(x) = UsedFirst(y) => x = y
  BY DEF StackOrder, Recent, InFirst, UsedFirst
<1>8. Recent(pair[1], first)' /\ Recent(pair[2], second)'
  <2>1. Recent(pair[1], first') /\ Recent(pair[2], second')
    BY UseIsNat, TouchedRecent DEF StackOrder, InFirst, UsedFirst, InSecond, UsedSecond
  <2> QED
    BY <2>1
<1>9. ASSUME NEW x \in Nat, InFirst(x)' PROVE InSecond(x)'
  <2> SUFFICES ASSUME x # b, ~InSecond(x)' PROVE FALSE
    BY <1>3
  <2>1. InFirst(x) /\ InSecond(x)
    BY <1>1, <1>6, <1>9
  <2>2. /\ ~InSecond(b) /\ SecondSet(x) = SecondSet(b)
        /\ EmptyWays(pair[2], second, SecondSet(b)) = {}
        /\ \A y \in Nat :
             InSecond(y) /\ SecondSet(y) = SecondSet(b) => UsedSecond(x) <= UsedSecond(y)
    BY <1>4, <2>1
  <2>3. /\ EmptyWays(pair[1], first, FirstSet(b)) = {}
        /\ \A y \in Nat :
             InFirst(y) /\ FirstSet(y) = FirstSet(b) /\ y # x => UsedFirst(x) < UsedFirst(y)
    BY <2>1, <2>2, SameVictim
  <2>4. PICK v \in Nat : InFirst(v) /\ ~InFirst(v)' /\ FirstSet(v) = FirstSet(b)
    BY <1>2, <1>6, <2>2, <2>3
  <2>5. UsedFirst(v) <= UsedFirst(x) /\ UsedFirst(x) < UsedFirst(v)
    <3>1. FirstSet(x) = FirstSet(b) /\ v # x
      BY <1>9, <2>2, <2>4, SetsNest DEF BothKept
    <3> QED BY <1>2, <2>1, <2>3, <2>4, <3>1
  <2> QED
    BY <1>6, <2>1, <2>4, <2>5
<1>10. ASSUME NEW x \in Nat, NEW y \in Nat, InFirst(x)', InFirst(y)'
       PROVE  UsedFirst(x)' < UsedFirst(y)' <=> UsedSecond(x)' < UsedSecond(y)'
  <2>1. InSecond(x)' /\ InSecond(y)'
    BY <1>9, <1>10
  <2>2. ASSUME NEW z \in {x, y}, z # b
        PROVE  /\ UsedFirst(z)' = UsedFirst(z) /\ UsedSecond(z)' = UsedSecond(z)
               /\ InFirst(z) /\ InSecond(z)
               /\ UsedFirst(z) \in Nat /\ UsedFirst(z) <= first.repl.clock
               /\ UsedSecond(z) \in Nat /\ UsedSecond(z) <= second.repl.clock
    BY <1>1, <1>3, <1>6, <1>10, <2>1, <2>2
  <2>3. CASE x # b /\ y # b
    BY <1>7, <2>2, <2>3
  <2>4. CASE x = b /\ y = b
    BY <1>1, <1>3, <1>6, <2>4
  <2>5. CASE x # b /\ y = b
    BY <1>1, <1>3, <1>6, <2>2, <2>5
  <2>6. CASE x = b /\ y # b
    BY <1>1, <1>3, <1>6, <2>2, <2>6
  <2> QED
    BY <2>3, <2>4, <2>5, <2>6
<1>11. ASSUME NEW x \in Nat, InSecond(x)', ~InFirst(x)'
       PROVE  /\ x # b /\ InSecond(x) /\ UsedSecond(x)' = UsedSecond(x)
              /\ EmptyWays(pair[1], first', FirstSet(x)) = {}
  <2>1. x # b /\ InSecond(x) /\ UsedSecond(x)' = UsedSecond(x)
    BY <1>1, <1>3, <1>11
  <2>2. EmptyWays(pair[1], first, FirstSet(x)) = {}
    <3>1. CASE InFirst(x)
      BY <1>2, <1>11, <3>1
    <3>2. CASE ~InFirst(x)
      BY <2>1, <3>2 DEF StackOrder
    <3> QED BY <3>1, <3>2
  <2> QED
    BY <1>2, <1>5, <2>1, <2>2
<1>12. ASSUME WriteAllocates(pair[1]), NEW x \in Nat, NEW y \in Nat,
              InSecond(x)', ~InFirst(x)', InFirst(y)', FirstSet(x) = FirstSet(y)
       PROVE  UsedSecond(x)' < UsedSecond(y)'
  <2>1. /\ InSecond(x) /\ UsedSecond(x)' = UsedSecond(x)
        /\ UsedSecond(x) \in Nat /\ UsedSecond(x) <= second.repl.clock
    BY <1>6, <1>11, <1>12
  <2>2. CASE y = b
    BY <1>3, <1>6, <2>1, <2>2
  <2>3. CASE y # b
    <3>1. InFirst(y) /\ InSecond(y)' /\ UsedSecond(y)' = UsedSecond(y)
      BY <1>1, <1>3, <1>9, <1>12, <2>3
    <3>2. UsedSecond(x) < UsedSecond(y)
      <4>1. CASE ~InFirst(x)
        BY <1>12, <2>1, <3>1, <4>1 DEF StackOrder
      <4>2. CASE InFirst(x)
        <5>1. UsedFirst(x) <= UsedFirst(y) /\ x # y
          BY <1>2, <1>12, <3>1, <4>2
        <5>2. UsedFirst(x) # UsedFirst(y) /\ UsedFirst(x) \in Nat /\ UsedFirst(y) \in Nat
          BY <1>6, <1>7, <3>1, <4>2, <5>1
        <5>3. UsedFirst(x) < UsedFirst(y)
          BY <5>1, <5>2
        <5> QED BY <1>7, <3>1, <4>2, <5>3
      <4> QED BY <4>1, <4>2
    <3> QED BY <2>1, <3>1, <3>2
  <2> QED BY <2>2, <2>3
<1> QED
  BY <1>5, <1>8, <1>9, <1>10, <1>11, <1>12 DEF StackOrder

\* Stores that miss both caches, or the first alone, and do not allocate.
LEMMA FirstUnmoved ==
  ASSUME BothKept, Grown, StackOrder, pair' = pair, NEW b \in Nat,
         ~WriteAllocates(pair[1]), ~InFirst(b), Unmoved(pair[1], first, first'),
         \/ Unmoved(pair[2], second, second')
         \/ InSecond(b) /\ Touched(pair[2], second, second', b),
         (second.stats["misses"] <= first.stats["misses"])'
  PROVE  StackOrder'
<1>1. /\ \A x \in Nat : (InFirst(x)' <=> InFirst(x)) /\ UsedFirst(x)' = UsedFirst(x)
      /\ \A s : EmptyWays(pair[1], first', s) = EmptyWays(pair[1], first, s)
      /\ first'.repl = first.repl
  BY DEF Unmoved, InFirst, UsedFirst
<1>2. \A x \in Nat :
        /\ InSecond(x)' <=> InSecond(x)
        /\ InSecond(x) /\ x # b => UsedSecond(x)' = UsedSecond(x)
  <2>1. CASE Unmoved(pair[2], second, second')
    BY <2>1 DEF Unmoved, InSecond, UsedSecond
  <2>2. CASE InSecond(b) /\ Touched(pair[2], second, second', b)
    <3>1. /\ InSecond(b)'
          /\ \A x \in Nat : x # b /\ InSecond(x)' =>
               InSecond(x) /\ UsedSecond(x)' = UsedSecond(x)
          /\ \A x \in Nat : InSecond(x) => InSecond(x)'
      BY <2>2 DEF Touched, InSecond, UsedSecond
    <3> QED BY <2>2, <3>1
  <2> QED BY <2>1, <2>2
<1>3. Recent(pair[1], first)' /\ Recent(pair[2], second)'
  <2>1. Recent(pair[1], first')
    BY <1>1 DEF StackOrder, Recent, InFirst, UsedFirst
  <2>2. CASE Unmoved(pair[2], second, second')
    BY <2>1, <2>2 DEF StackOrder, Recent, Unmoved
  <2>3. CASE Touched(pair[2], second, second', b)
    <3>1. Recent(pair[2], second')
      BY <2>3, UseIsNat, TouchedRecent DEF StackOrder, InSecond, UsedSecond
    <3> QED BY <2>1, <3>1
  <2> QED BY <2>2, <2>3
<1>4. \A x \in Nat : InFirst(x)' =>
        /\ InFirst(x) /\ InSecond(x)' /\ UsedFirst(x)' = UsedFirst(x)
        /\ UsedSecond(x)' = UsedSecond(x)
  BY <1>1, <1>2 DEF StackOrder
<1>5. \A x \in Nat : InSecond(x)' /\ ~InFirst(x)' =>
        EmptyWays(pair[1], first', FirstSet(x)) = {}
  BY <1>1, <1>2 DEF StackOrder
<1>6. \A x, y \in Nat : InFirst(x)' /\ InFirst(y)' =>
        (UsedFirst(x)' < UsedFirst(y)' <=> UsedSecond(x)' < UsedSecond(y)')
  BY <1>4 DEF StackOrder
<1>7. \A x : FirstSet(x)' = FirstSet(x)
  BY DEF FirstSet
<1> QED
  BY <1>3, <1>4, <1>5, <1>6, <1>7 DEF StackOrder

LEMMA StackInit == Init => StackInv
<1> SUFFICES ASSUME Init PROVE StackInv
  OBVIOUS
<1>1. BothKept /\ first = NewCache(pair[1]) /\ second = NewCache(pair[2])
  BY BothKeptInit DEF Init
<1>2. /\ Constructible(pair[1]) /\ Constructible(pair[2])
      /\ Recent(pair[1], first) /\ Recent(pair[2], second)
      /\ \A x \in Nat : ~InFirst(x) /\ ~InSecond(x)
  BY <1>1, PairFacts, NewCacheRecent, NewCacheHolds DEF BothKept, InFirst, InSecond
<1>3. first.stats["misses"] = 0 /\ second.stats["misses"] = 0
  BY <1>1 DEF NewCache, Counters
<1> QED
  BY <1>1, <1>2, <1>3 DEF StackInv, StackOrder

LEMMA StackStep == StackInv /\ [Next]_vars => StackInv'
<1> SUFFICES ASSUME StackInv, [Next]_vars PROVE StackInv'
  OBVIOUS
<1> SUFFICES ASSUME Grown PROVE StackOrder'
  <2>1. pair' = pair
    BY DEF Next, Access, vars
  <2>2. Grown' <=> Grown
    BY <2>1 DEF Grown, BothLRU, SameAlloc
  <2>3. BothKept'
    BY BothKeptStep DEF StackInv
  <2> QED BY <2>2, <2>3 DEF StackInv
<1>1. BothKept /\ StackOrder /\ Constructible(pair[1]) /\ Constructible(pair[2])
  BY PairFacts DEF StackInv, BothKept
<1>2. CASE Next
  <2>1. PICK a \in Addrs, isWrite \in BOOLEAN : Access(a, isWrite)
    BY <1>2 DEF Next
  <2>2. /\ first' \in AfterAccess(pair[1], first, a, isWrite)
        /\ second' \in AfterAccess(pair[2], second, a, isWrite) /\ pair' = pair
    BY <2>1 DEF Access
  <2> DEFINE b == BlockOf(pair[1], a)
  <2>3. a \in Nat /\ b \in Nat /\ BlockOf(pair[2], a) = b
    BY <1>1, PairFacts, BlockOfType DEF BothKept
  <2>4. /\ pair[1].replacement = "LRU" /\ pair[2].replacement = "LRU"
        /\ WriteAllocates(pair[1]) <=> WriteAllocates(pair[2])
    BY DEF Grown, BothLRU, SameAlloc, WriteAllocates
  <2>5. /\ first'.stats["misses"] = first.stats["misses"] + One(~InFirst(b))
        /\ \/ Touched(pair[1], first, first', b) /\ (InFirst(b) \/ (isWrite => WriteAllocates(pair[1])))
           \/ Unmoved(pair[1], first, first') /\ ~InFirst(b) /\ isWrite /\ ~WriteAllocates(pair[1])
    BY <1>1, <2>2, <2>3, <2>4, AccessOrder DEF BothKept, InFirst
  <2>6. /\ second'.stats["misses"] = second.stats["misses"] + One(~InSecond(b))
        /\ \/ /\ Touched(pair[2], second, second', b)
              /\ InSecond(b) \/ (isWrite => WriteAllocates(pair[2]))
           \/ Unmoved(pair[2], second, second') /\ ~InSecond(b) /\ isWrite /\ ~WriteAllocates(pair[2])
    BY <1>1, <2>2, <2>3, <2>4, AccessOrder DEF BothKept, InSecond
  <2>7. InFirst(b) => InSecond(b)
    BY <1>1, <2>3 DEF StackOrder
  <2>8. (second.stats["misses"] <= first.stats["misses"])'
    <3>1. first.stats["misses"] \in Nat /\ second.stats["misses"] \in Nat
      BY <1>1, KeptFacts DEF BothKept, Counters
    <3>2. second.stats["misses"] <= first.stats["misses"]
      BY <1>1 DEF StackOrder
    <3> HIDE DEF b
    <3> QED BY <2>5, <2>6, <2>7, <3>1, <3>2 DEF One
  <2> HIDE DEF b
  <2>9. CASE Touched(pair[1], first, first', b) /\ Touched(pair[2], second, second', b)
    BY <1>1, <2>2, <2>3, <2>8, <2>9, BothTouched
  <2>10. CASE Unmoved(pair[1], first, first') /\ ~InFirst(b) /\ isWrite /\ ~WriteAllocates(pair[1])
    BY <1>1, <2>2, <2>3, <2>4, <2>6, <2>8, <2>10, FirstUnmoved
  <2> QED
    BY <2>4, <2>5, <2>6, <2>7, <2>9, <2>10
<1>3. CASE UNCHANGED vars
  <2>1. pair' = pair /\ first' = first /\ second' = second
    BY <1>3 DEF vars
  <2> QED
    BY <1>1, <2>1 DEF StackOrder, InFirst, InSecond, UsedFirst, UsedSecond, FirstSet
<1> QED
  BY <1>2, <1>3

\* An LRU cache that grows, in ways or, if its stores allocate, in sets as
\* well, holds all it held and never misses more: in the sweep, a row of a
\* larger size never has the worse curve, for any trace.
THEOREM GrownNeverMissesMore == Spec => []StackProperty
<1>1. StackInv => StackProperty
  <2> SUFFICES ASSUME StackInv, Grown
               PROVE  /\ Held(pair[1], first) \subseteq Held(pair[2], second)
                      /\ second.stats["misses"] <= first.stats["misses"]
    BY DEF StackProperty
  <2>1. /\ pair \in Pairs /\ Constructible(pair[1]) /\ Addrs \subseteq Nat
        /\ \A a : BlockOf(pair[2], a) = BlockOf(pair[1], a)
    BY PairFacts DEF StackInv, BothKept
  <2>2. \A a \in Addrs : BlockOf(pair[1], a) \in Nat
    BY <2>1, BlockOfType
  <2>3. \A x \in Nat : IsHit(pair[1], first, x) => IsHit(pair[2], second, x)
    BY DEF StackInv, StackOrder, InFirst, InSecond
  <2> QED
    BY <2>1, <2>2, <2>3 DEF Held, StackInv, StackOrder
<1> QED
  BY <1>1, StackInit, StackStep, PTL DEF Spec

-----------------------------------------------------------------------------
(* The write policy.                                                       *)

\* Configurations that may differ in write policy and classifier only.
SameButWrites ==
  /\ SameGeometry /\ SameAlloc /\ pair[1].replacement = pair[2].replacement
  /\ pair[1].replacement # "Random"

\* The frames hold the same blocks in the same order.
SameFrames(g, c, d) ==
  /\ \A s \in Sets(g), w \in Ways(g) :
       (c.lines[s][w].valid <=> d.lines[s][w].valid) /\ c.lines[s][w].tag = d.lines[s][w].tag
  /\ c.repl = d.repl

WriteInv ==
  /\ BothKept
  /\ SameButWrites =>
       SameFrames(pair[1], first, second) /\ first.stats["hits"] = second.stats["hits"]

\* With the same geometry everything is looked up in the same place.
LEMMA SameLookups ==
  ASSUME NEW g, NEW h, Constructible(g), NumSets(g) = NumSets(h), g.associativity = h.associativity,
         g.replacement = h.replacement, NEW c, NEW d, SameFrames(g, c, d)
  PROVE  /\ Sets(h) = Sets(g) /\ Ways(h) = Ways(g)
         /\ \A x \in Nat : /\ SetOf(h, x) = SetOf(g, x) /\ TagOf(h, x) = TagOf(g, x)
                           /\ SetOf(g, x) \in Sets(g)
                           /\ Matches(h, d, x) = Matches(g, c, x)
                           /\ IsHit(h, d, x) <=> IsHit(g, c, x)
         /\ \A s \in Sets(g) : PickWays(h, d, s) = PickWays(g, c, s)
<1>1. Sets(h) = Sets(g) /\ Ways(h) = Ways(g)
  BY DEF Sets, Ways
<1>2. \A x \in Nat : /\ SetOf(h, x) = SetOf(g, x) /\ TagOf(h, x) = TagOf(g, x)
                     /\ SetOf(g, x) \in Sets(g)
  BY Decomposition DEF SetOf, TagOf
<1>3. \A x \in Nat : Matches(h, d, x) = Matches(g, c, x)
  BY <1>1, <1>2 DEF Matches, SameFrames
<1>4. \A x \in Nat : IsHit(h, d, x) <=> IsHit(g, c, x)
  BY <1>3 DEF IsHit
<1>5. \A s \in Sets(g) : EmptyWays(h, d, s) = EmptyWays(g, c, s)
  BY <1>1 DEF EmptyWays, SameFrames
<1>6. \A s : Victims(h, d.repl, s) = Victims(g, c.repl, s)
  BY <1>1 DEF Victims, SameFrames
<1>7. \A s \in Sets(g) : PickWays(h, d, s) = PickWays(g, c, s)
  BY <1>5, <1>6 DEF PickWays
<1> QED
  BY <1>1, <1>2, <1>3, <1>4, <1>7

\* Every policy but Random picks one way.
LEMMA PickIsOne ==
  ASSUME NEW g, Constructible(g), g.replacement # "Random", NEW c, Kept(g, c), NEW s \in Sets(g),
         NEW v \in PickWays(g, c, s), NEW w \in PickWays(g, c, s)
  PROVE  v = w
<1>1. CASE EmptyWays(g, c, s) # {}
  BY <1>1 DEF PickWays
<1>2. CASE EmptyWays(g, c, s) = {}
  <2>1. v \in Victims(g, c.repl, s) /\ w \in Victims(g, c.repl, s)
    BY <1>2 DEF PickWays
  <2>2. /\ v \in Ways(g) /\ w \in Ways(g)
        /\ IF w < v THEN c.repl.stamp[s][v] < c.repl.stamp[s][w]
                    ELSE c.repl.stamp[s][v] <= c.repl.stamp[s][w]
        /\ IF v < w THEN c.repl.stamp[s][w] < c.repl.stamp[s][v]
                    ELSE c.repl.stamp[s][w] <= c.repl.stamp[s][v]
    BY <2>1 DEF Victims
  <2>3. c.repl.stamp[s][v] \in Nat /\ c.repl.stamp[s][w] \in Nat /\ v \in Nat /\ w \in Nat
    BY SMTT(30), <2>2, KeptFacts, GeometryType DEF PolicyType, Ways
  <2> QED
    BY <2>2, <2>3
<1> QED
  BY <1>1, <1>2

\* One access keeps the frames the same and hits in both or in none.
LEMMA SameAccess ==
  ASSUME NEW g, NEW h, Constructible(g), Constructible(h), g.blockSize = h.blockSize,
         NumSets(g) = NumSets(h), g.associativity = h.associativity,
         g.replacement = h.replacement, g.replacement # "Random", g.allocPolicy = h.allocPolicy,
         NEW c, NEW d, Kept(g, c), Kept(h, d), SameFrames(g, c, d),
         c.stats["hits"] = d.stats["hits"], NEW a \in Nat, NEW isWrite \in BOOLEAN,
         NEW cc \in AfterAccess(g, c, a, isWrite), NEW dd \in AfterAccess(h, d, a, isWrite)
  PROVE  SameFrames(g, cc, dd) /\ cc.stats["hits"] = dd.stats["hits"]
<1> DEFINE b == BlockOf(g, a)
           s == SetOf(g, b)
<1>1. b \in Nat /\ BlockOf(h, a) = b /\ (WriteAllocates(h) <=> WriteAllocates(g))
  BY BlockOfType DEF BlockOf, WriteAllocates
<1>2. /\ Sets(h) = Sets(g) /\ Ways(h) = Ways(g)
      /\ SetOf(h, b) = s /\ TagOf(h, b) = TagOf(g, b) /\ s \in Sets(g)
      /\ Matches(h, d, b) = Matches(g, c, b)
      /\ IsHit(h, d, b) <=> IsHit(g, c, b)
      /\ PickWays(h, d, s) = PickWays(g, c, s)
  BY <1>1, SameLookups
<1>3. /\ c.lines \in [Sets(g) -> [Ways(g) -> Line]] /\ d.lines \in [Sets(g) -> [Ways(g) -> Line]]
      /\ c.stats \in [Counters -> Nat] /\ d.stats \in [Counters -> Nat]
      /\ d.repl = c.repl
  BY <1>2, KeptFacts DEF SameFrames
<1> HIDE DEF b, s
<1>4. CASE IsHit(g, c, b)
  <2> DEFINE w == First(Matches(g, c, b))
  <2>1. w \in Ways(g)
    <3>1. w \in Matches(g, c, b)
      BY <1>4, MatchIsFrame
    <3> QED BY <3>1 DEF Matches
  <2>2. cc = AfterHit(g, c, a, isWrite) /\ dd = AfterHit(h, d, a, isWrite)
    BY <1>1, <1>2, <1>4, AccessPaths DEF b
  <2>3. /\ cc.lines = [c.lines EXCEPT ![s][w].dirty = @ \/ (isWrite /\ WritesBack(g))]
        /\ dd.lines = [d.lines EXCEPT ![s][w].dirty = @ \/ (isWrite /\ WritesBack(h))]
        /\ cc.repl = OnAccess(g, c.repl, s, w) /\ dd.repl = OnAccess(h, d.repl, s, w)
    BY <1>1, <1>2, <2>2 DEF AfterHit, b, s
  <2> HIDE DEF w
  <2>4. cc.repl = dd.repl
    BY <1>3, <2>3 DEF OnAccess
  <2>5. \A t \in Sets(g), u \in Ways(g) :
          /\ (cc.lines[t][u].valid <=> c.lines[t][u].valid) /\ cc.lines[t][u].tag = c.lines[t][u].tag
          /\ (dd.lines[t][u].valid <=> d.lines[t][u].valid) /\ dd.lines[t][u].tag = d.lines[t][u].tag
    BY <1>2, <1>3, <2>1, <2>3 DEF Line
  <2>6. cc.stats["hits"] = c.stats["hits"] + 1 /\ dd.stats["hits"] = d.stats["hits"] + 1
    BY <1>3, <2>2, HitCounts DEF AfterHit
  <2> QED
    BY <2>4, <2>5, <2>6 DEF SameFrames
<1>5. ASSUME NEW ks, ~("hits" \in ks) PROVE Count(c.stats, ks)["hits"] = c.stats["hits"]
                                        /\ Count(d.stats, ks)["hits"] = d.stats["hits"]
  BY <1>3, <1>5, CountAt DEF Counters
<1>6. \A f, e, x, iw : ~("hits" \in MissCounters(f, e, x, iw))
  BY DEF MissCounters, Arrival, Verdict
<1>7. CASE ~IsHit(g, c, b) /\ isWrite /\ ~WriteAllocates(g)
  <2>1. cc = AfterWriteAround(g, c, a) /\ dd = AfterWriteAround(h, d, a)
    BY <1>1, <1>2, <1>7, AccessPaths DEF b
  <2>2. /\ cc.lines = c.lines /\ cc.repl = c.repl /\ dd.lines = d.lines /\ dd.repl = d.repl
        /\ cc.stats = Count(c.stats, MissCounters(g, c, BlockOf(g, a), TRUE))
        /\ dd.stats = Count(d.stats, MissCounters(h, d, BlockOf(h, a), TRUE))
    BY <2>1 DEF AfterWriteAround
  <2>3. SameFrames(g, cc, dd)
    BY <2>2 DEF SameFrames
  <2>4. cc.stats["hits"] = c.stats["hits"]
    BY <1>5, <1>6, <2>2
  <2>5. dd.stats["hits"] = d.stats["hits"]
    BY <1>5, <1>6, <2>2
  <2> QED
    BY <2>3, <2>4, <2>5
<1>8. CASE ~IsHit(g, c, b) /\ (isWrite => WriteAllocates(g))
  <2>1. PICK w \in PickWays(g, c, s) : cc = AfterFill(g, c, a, isWrite, w)
    BY <1>8, AccessPaths DEF b, s
  <2>2. PICK v \in PickWays(h, d, s) : dd = AfterFill(h, d, a, isWrite, v)
    BY <1>1, <1>2, <1>8, AccessPaths DEF b
  <2>3. v = w /\ w \in Ways(g)
    BY <1>2, <2>1, <2>2, PickIsOne, PickIsWay
  <2>4. /\ cc.lines = [c.lines EXCEPT ![s][w] = Installed(g, b, isWrite)]
        /\ dd.lines = [d.lines EXCEPT ![s][w] = Installed(h, b, isWrite)]
        /\ cc.repl = OnInsert(g, c.repl, s, w) /\ dd.repl = OnInsert(h, d.repl, s, w)
    BY <1>1, <1>2, <2>1, <2>2, <2>3 DEF AfterFill, b, s
  <2>5. cc.repl = dd.repl
    BY <1>3, <2>4 DEF OnInsert
  <2>6. /\ Installed(g, b, isWrite).valid /\ Installed(h, b, isWrite).valid
        /\ Installed(g, b, isWrite).tag = Installed(h, b, isWrite).tag
    BY <1>2 DEF Installed
  <2>7. \A t \in Sets(g), u \in Ways(g) :
          (cc.lines[t][u].valid <=> dd.lines[t][u].valid) /\ cc.lines[t][u].tag = dd.lines[t][u].tag
    BY <1>2, <1>3, <2>3, <2>4, <2>6 DEF SameFrames
  <2>8. cc.stats["hits"] = c.stats["hits"] /\ dd.stats["hits"] = d.stats["hits"]
    <3>1. \A f, e, x, frame : ~("hits" \in FillCounters(f, e, x, isWrite, frame))
      BY <1>6 DEF FillCounters
    <3> QED BY <1>5, <2>1, <2>2, <3>1, FillCounts
  <2> QED
    BY <2>5, <2>7, <2>8 DEF SameFrames
<1> QED
  BY <1>4, <1>7, <1>8

LEMMA WriteStep == WriteInv /\ [Next]_vars => WriteInv'
<1> SUFFICES ASSUME WriteInv, [Next]_vars PROVE WriteInv'
  OBVIOUS
<1>1. BothKept /\ BothKept'
  BY BothKeptStep DEF WriteInv
<1> SUFFICES ASSUME SameButWrites
             PROVE  (SameFrames(pair[1], first, second) /\ first.stats["hits"] = second.stats["hits"])'
  <2>1. pair' = pair
    BY DEF Next, Access, vars
  <2>2. SameButWrites' <=> SameButWrites
    BY <2>1 DEF SameButWrites, SameGeometry, SameAlloc
  <2> QED BY <1>1, <2>2 DEF WriteInv
<1>2. SameFrames(pair[1], first, second) /\ first.stats["hits"] = second.stats["hits"]
  BY DEF WriteInv
<1>3. CASE Next
  <2>1. PICK a \in Addrs, isWrite \in BOOLEAN : Access(a, isWrite)
    BY <1>3 DEF Next
  <2>2. /\ first' \in AfterAccess(pair[1], first, a, isWrite)
        /\ second' \in AfterAccess(pair[2], second, a, isWrite) /\ pair' = pair
    BY <2>1 DEF Access
  <2>3. a \in Nat /\ Kept(pair[1], first) /\ Kept(pair[2], second)
    BY <1>1, PairFacts DEF BothKept
  <2>4. SameFrames(pair[1], first', second') /\ first'.stats["hits"] = second'.stats["hits"]
    BY <1>1, <1>2, <2>2, <2>3, PairFacts, SameAccess
       DEF BothKept, SameButWrites, SameGeometry, SameAlloc
  <2> QED
    BY <2>2, <2>4
<1>4. CASE UNCHANGED vars
  BY <1>2, <1>4 DEF vars
<1> QED
  BY <1>3, <1>4

\* What is stored where, and when it is sent below, are two questions: caches
\* that differ in the write policy alone hit and evict alike on every trace.
THEOREM WritePolicyNeverShows == Spec => []WritePolicyIsInvisible
<1>1. Init => WriteInv
  <2> SUFFICES ASSUME Init, SameButWrites
               PROVE  SameFrames(pair[1], first, second) /\ first.stats["hits"] = second.stats["hits"]
    BY BothKeptInit DEF WriteInv
  <2>1. Sets(pair[1]) = Sets(pair[2]) /\ Ways(pair[1]) = Ways(pair[2])
    BY DEF SameButWrites, SameGeometry, Sets, Ways
  <2> QED
    BY <2>1 DEF Init, NewCache, NewPolicy, SameFrames, Counters
<1>2. WriteInv => WritePolicyIsInvisible
  <2> SUFFICES ASSUME WriteInv, SameButWrites
               PROVE  /\ Held(pair[1], first) = Held(pair[2], second)
                      /\ first.stats["hits"] = second.stats["hits"]
                      /\ first.repl = second.repl
    BY DEF SameButWrites, WritePolicyIsInvisible
  <2>1. SameFrames(pair[1], first, second) /\ first.stats["hits"] = second.stats["hits"]
    BY DEF WriteInv
  <2>2. /\ Constructible(pair[1]) /\ Addrs \subseteq Nat
        /\ \A a : BlockOf(pair[2], a) = BlockOf(pair[1], a)
    BY PairFacts DEF WriteInv, BothKept
  <2>3. \A x \in Nat : IsHit(pair[2], second, x) <=> IsHit(pair[1], first, x)
    BY <2>1, <2>2, SameLookups DEF SameButWrites, SameGeometry
  <2>4. \A a \in Addrs : BlockOf(pair[1], a) \in Nat
    BY <2>2, BlockOfType
  <2>5. Held(pair[1], first) = Held(pair[2], second)
    BY <2>2, <2>3, <2>4 DEF Held
  <2> QED
    BY <2>1, <2>5 DEF SameFrames
<1> QED
  BY <1>1, <1>2, WriteStep, PTL DEF Spec

-----------------------------------------------------------------------------
(* The shadow models.                                                      *)

\* RefFACache::touch drops a block only when the model is full and has not
\* the block touched: the one touched least recently.
LEMMA RefTouchMoves ==
  ASSUME NEW g, Constructible(g), NEW r, RefFAType(r, Nat), RefSmall(g, r), NEW b,
         NEW d, d = RefTouch(g, r, b)
  PROVE  /\ RefSmall(g, d) /\ d.clock = r.clock + 1
         /\ b \in RefBlocks(d) /\ d.lastUsed[b] = r.clock + 1
         /\ \A x \in RefBlocks(d) \ {b} : x \in RefBlocks(r) /\ d.lastUsed[x] = r.lastUsed[x]
         /\ \A x \in RefBlocks(r) \ RefBlocks(d) :
              /\ b \notin RefBlocks(r) /\ Cardinality(RefBlocks(r)) = TotalLines(g)
              /\ \A y \in RefBlocks(r) : r.lastUsed[x] <= r.lastUsed[y]
         /\ Cardinality(RefBlocks(r)) = TotalLines(g) =>
              /\ Cardinality(RefBlocks(d)) = TotalLines(g)
              /\ b \notin RefBlocks(r) => \E v \in RefBlocks(r) : v \notin RefBlocks(d)
<1> DEFINE R == RefBlocks(r)
           D == RefBlocks(d)
           K == RefKept(g, r, b)
           n == TotalLines(g)
           v == RefVictim(r)
<1>1. /\ RefSmall(g, d) /\ d.clock = r.clock + 1
      /\ b \in D /\ d.lastUsed[b] = r.clock + 1
      /\ \A x \in D \ {b} : x \in R /\ d.lastUsed[x] = r.lastUsed[x]
      /\ Cardinality(R) = n => Cardinality(D) = n
  BY RefTouchEffect
<1>2. n \in Nat \ {0} /\ IsFiniteSet(R) /\ Cardinality(R) \in Nat /\ Cardinality(R) <= n
  BY LinesOfSets, FS_CardinalityType DEF RefSmall
<1>3. D = K \cup {b}
  BY DEF RefTouch, RefBlocks
<1>4. b \in R \/ Cardinality(R) # n => K = R
  BY <1>2 DEF RefKept, RefHit
<1>5. ASSUME b \notin R, Cardinality(R) = n
      PROVE  /\ K = R \ {v} /\ v \in R
             /\ \A y \in R : r.lastUsed[v] <= r.lastUsed[y]
  <2>1. R # {} /\ \A x \in R : r.lastUsed[x] \in Nat
    BY <1>2, <1>5, FS_EmptySet DEF RefFAType
  <2>2. \E x \in R : \A y \in R : r.lastUsed[x] <= r.lastUsed[y]
    BY <2>1, LeastExists
  <2>3. v \in R /\ \A y \in R : r.lastUsed[v] <= r.lastUsed[y]
    BY <2>2 DEF RefVictim
  <2> QED
    BY <1>2, <1>5, <2>3 DEF RefKept, RefHit
<1> HIDE DEF R, D, K, n, v
<1>6. ASSUME NEW x \in R \ D
      PROVE  b \notin R /\ Cardinality(R) = n /\ \A y \in R : r.lastUsed[x] <= r.lastUsed[y]
  BY <1>3, <1>4, <1>5
<1>7. Cardinality(R) = n /\ b \notin R => \E u \in R : u \notin D
  BY <1>3, <1>5
<1> QED
  BY <1>1, <1>6, <1>7 DEF R, D, n

\* The model's clock is never behind, and no two blocks share a stamp.
RefRecent(q) ==
  /\ \A x \in RefBlocks(q) : q.lastUsed[x] <= q.clock
  /\ \A x, y \in RefBlocks(q) : q.lastUsed[x] = q.lastUsed[y] => x = y

\* The model r of cache g is in the model q; what only q has was dropped by r
\* and is older than all r has.
Nested(g, r, q) ==
  /\ RefBlocks(r) \subseteq RefBlocks(q)
  /\ \A x \in RefBlocks(r) : r.lastUsed[x] = q.lastUsed[x]
  /\ \A x \in RefBlocks(q) \ RefBlocks(r) :
       /\ Cardinality(RefBlocks(r)) = TotalLines(g)
       /\ \A y \in RefBlocks(r) : q.lastUsed[x] < q.lastUsed[y]

LEMMA TouchedRefRecent ==
  ASSUME NEW g, Constructible(g), NEW q, RefFAType(q, Nat), RefSmall(g, q), RefRecent(q), NEW b
  PROVE  RefRecent(RefTouch(g, q, b))
<1> DEFINE d == RefTouch(g, q, b)
<1>1. /\ d.clock = q.clock + 1 /\ d.lastUsed[b] = q.clock + 1
      /\ \A x \in RefBlocks(d) \ {b} : x \in RefBlocks(q) /\ d.lastUsed[x] = q.lastUsed[x]
  BY RefTouchMoves
<1>2. q.clock \in Nat /\ \A x \in RefBlocks(q) : q.lastUsed[x] \in Nat
  BY DEF RefFAType
<1> HIDE DEF d
<1>3. RefRecent(d)
  BY <1>1, <1>2 DEF RefRecent
<1> QED
  BY <1>3 DEF d

LEMMA TouchKeepsNested ==
  ASSUME NEW g, NEW h, Constructible(g), Constructible(h), TotalLines(g) <= TotalLines(h),
         NEW r, NEW q, RefFAType(r, Nat), RefFAType(q, Nat), RefSmall(g, r), RefSmall(h, q),
         r.clock = q.clock, RefRecent(q), Nested(g, r, q), NEW b
  PROVE  Nested(g, RefTouch(g, r, b), RefTouch(h, q, b))
<1> DEFINE d == RefTouch(g, r, b)
           e == RefTouch(h, q, b)
           R == RefBlocks(r)
           Q == RefBlocks(q)
           D == RefBlocks(d)
           E == RefBlocks(e)
           m == TotalLines(g)
           n == TotalLines(h)
<1>1. /\ b \in D /\ d.lastUsed[b] = r.clock + 1
      /\ \A x \in D \ {b} : x \in R /\ d.lastUsed[x] = r.lastUsed[x]
      /\ \A x \in R \ D : /\ b \notin R /\ Cardinality(R) = m
                          /\ \A y \in R : r.lastUsed[x] <= r.lastUsed[y]
      /\ Cardinality(R) = m => /\ Cardinality(D) = m
                               /\ b \notin R => \E v \in R : v \notin D
  BY RefTouchMoves
<1>2. /\ b \in E /\ e.lastUsed[b] = q.clock + 1
      /\ \A x \in E \ {b} : x \in Q /\ e.lastUsed[x] = q.lastUsed[x]
      /\ \A x \in Q \ E : /\ b \notin Q /\ Cardinality(Q) = n
                          /\ \A y \in Q : q.lastUsed[x] <= q.lastUsed[y]
  BY RefTouchMoves
<1>3. /\ R \subseteq Q
      /\ \A x \in R : r.lastUsed[x] = q.lastUsed[x]
      /\ \A x \in Q \ R : Cardinality(R) = m /\ \A y \in R : q.lastUsed[x] < q.lastUsed[y]
  BY DEF Nested
<1>4. /\ \A x \in Q : q.lastUsed[x] \in Nat /\ q.lastUsed[x] <= q.clock
      /\ \A x, y \in Q : q.lastUsed[x] = q.lastUsed[y] => x = y
      /\ q.clock \in Nat /\ r.clock = q.clock
  BY DEF RefRecent, RefFAType
<1>5. /\ m \in Nat /\ n \in Nat /\ m <= n /\ Cardinality(R) \in Nat /\ Cardinality(R) <= m
  BY LinesOfSets, FS_CardinalityType DEF RefSmall
<1> HIDE DEF d, e, R, Q, D, E, m, n
<1>6. ASSUME NEW x \in D PROVE x \in E
  <2> SUFFICES ASSUME x # b, x \notin E PROVE FALSE
    BY <1>2
  <2>1. x \in R /\ x \in Q
    BY <1>1, <1>3
  <2>2. b \notin Q /\ Cardinality(Q) = n /\ \A y \in Q : q.lastUsed[x] <= q.lastUsed[y]
    BY <1>2, <2>1
  <2>3. Q = R
    <3> SUFFICES ASSUME NEW y \in Q \ R PROVE FALSE
      BY <1>3
    <3> QED BY <1>3, <1>4, <2>1, <2>2
  <2>4. Cardinality(R) = m /\ b \notin R
    BY <1>5, <2>2, <2>3
  <2>5. PICK v \in R : v \notin D
    BY <1>1, <2>4
  <2>6. q.lastUsed[v] <= q.lastUsed[x] /\ q.lastUsed[x] <= q.lastUsed[v]
    BY <1>1, <1>3, <2>1, <2>2, <2>3, <2>5
  <2>7. v = x
    BY <1>4, <2>1, <2>3, <2>5, <2>6
  <2> QED BY <2>5, <2>7
<1>7. ASSUME NEW x \in D PROVE d.lastUsed[x] = e.lastUsed[x]
  BY <1>1, <1>2, <1>3, <1>4, <1>6
<1>8. ASSUME NEW x \in E \ D
      PROVE  Cardinality(D) = m /\ \A y \in D : e.lastUsed[x] < e.lastUsed[y]
  <2>1. x \in Q /\ e.lastUsed[x] = q.lastUsed[x] /\ x # b
    BY <1>1, <1>2
  <2>2. Cardinality(R) = m /\ \A y \in R \cap D : q.lastUsed[x] < q.lastUsed[y]
    <3>1. CASE x \in R
      BY <1>1, <1>3, <1>4, <2>1, <3>1
    <3>2. CASE x \notin R
      BY <1>3, <2>1, <3>2
    <3> QED BY <3>1, <3>2
  <2>3. ASSUME NEW y \in D PROVE e.lastUsed[x] < e.lastUsed[y]
    <3>1. CASE y = b
      BY <1>2, <1>4, <2>1, <3>1
    <3>2. CASE y # b
      <4>1. y \in R /\ y \in E /\ e.lastUsed[y] = q.lastUsed[y]
        BY <1>1, <1>2, <1>6, <3>2
      <4> QED BY <2>1, <2>2, <4>1
    <3> QED BY <3>1, <3>2
  <2> QED BY <1>1, <2>2, <2>3
<1>9. Nested(g, d, e)
  BY <1>6, <1>7, <1>8 DEF Nested, D, E, m
<1> QED
  BY <1>9 DEF d, e

\* Every access touches the model and is seen.
LEMMA AccessShadows ==
  ASSUME NEW g, Constructible(g), g.classify3C, NEW c, Kept(g, c),
         \A x \in Nat : IsHit(g, c, x) => x \in c.seen,
         NEW a \in Nat, NEW isWrite \in BOOLEAN, NEW d \in AfterAccess(g, c, a, isWrite)
  PROVE  /\ d.refFA = RefTouch(g, c.refFA, BlockOf(g, a))
         /\ d.seen = c.seen \cup {BlockOf(g, a)}
         /\ \A x \in Nat : IsHit(g, d, x) => x \in d.seen
<1> DEFINE b == BlockOf(g, a)
<1>1. b \in Nat /\ CacheType(g, Nat, c) /\ SoundLines(g, c)
  BY BlockOfType, KeptFacts
<1>2. CASE IsHit(g, c, b) /\ d = AfterHit(g, c, a, isWrite)
  <2>1. d.refFA = RefTouch(g, c.refFA, b) /\ d.seen = c.seen
    BY <1>2 DEF AfterHit, Shadowed
  <2>2. \A x \in Nat : IsHit(g, d, x) => IsHit(g, c, x)
    BY <1>1, <1>2, HitHolds
  <2> QED
    BY <1>1, <1>2, <2>1, <2>2
<1>3. CASE d = AfterWriteAround(g, c, a)
  <2>1. d.refFA = RefTouch(g, c.refFA, b) /\ d.seen = c.seen \cup {b}
    BY <1>3 DEF AfterWriteAround, Shadowed, Noted
  <2>2. \A x \in Nat : IsHit(g, d, x) => IsHit(g, c, x)
    BY <1>1, <1>3, WriteAroundHolds
  <2> QED
    BY <2>1, <2>2
<1>4. CASE /\ ~IsHit(g, c, b)
           /\ \E w \in PickWays(g, c, SetOf(g, b)) : d = AfterFill(g, c, a, isWrite, w)
  <2>1. PICK w \in Ways(g) : d = AfterFill(g, c, a, isWrite, w)
    BY <1>4, PickIsWay
  <2>2. d.refFA = RefTouch(g, c.refFA, b) /\ d.seen = c.seen \cup {b}
    BY <2>1 DEF AfterFill, Shadowed, Noted
  <2>3. \A x \in Nat : IsHit(g, d, x) => x = b \/ IsHit(g, c, x)
    BY <1>1, <1>4, <2>1, FillHolds
  <2> QED
    BY <2>2, <2>3
<1> QED
  BY <1>2, <1>3, <1>4, AccessPaths

BothClassified == pair[1].classify3C /\ pair[2].classify3C

\* Both models have followed the same trace.
SameShadows ==
  /\ first.seen = second.seen
  /\ \A x \in Nat : (InFirst(x) => x \in first.seen) /\ (InSecond(x) => x \in second.seen)
  /\ RefSmall(pair[1], first.refFA) /\ RefSmall(pair[2], second.refFA)
  /\ first.refFA.clock = second.refFA.clock
  /\ RefRecent(second.refFA)
  /\ TotalLines(pair[1]) <= TotalLines(pair[2]) => Nested(pair[1], first.refFA, second.refFA)

ShadowInv == BothKept /\ (BothClassified => SameShadows)

LEMMA ShadowInit == Init => ShadowInv
<1> SUFFICES ASSUME Init PROVE SameShadows
  BY BothKeptInit DEF ShadowInv
<1>1. Constructible(pair[1]) /\ Constructible(pair[2])
  BY PairFacts DEF Init
<1>2. /\ first.seen = {} /\ second.seen = {}
      /\ first.refFA = NewRefFA /\ second.refFA = NewRefFA
  BY DEF Init, NewCache
<1>3. RefBlocks(NewRefFA) = {} /\ NewRefFA.clock = 0
  BY DEF NewRefFA, RefBlocks
<1>4. /\ RefSmall(pair[1], NewRefFA) /\ RefSmall(pair[2], NewRefFA)
      /\ RefRecent(NewRefFA) /\ Nested(pair[1], NewRefFA, NewRefFA)
  BY <1>1, <1>3, FS_EmptySet, LinesOfSets DEF RefSmall, RefRecent, Nested
<1>5. \A x \in Nat : ~InFirst(x) /\ ~InSecond(x)
  BY <1>1, NewCacheHolds DEF Init, InFirst, InSecond
<1> QED
  BY <1>2, <1>3, <1>4, <1>5 DEF SameShadows

LEMMA ShadowStep == ShadowInv /\ [Next]_vars => ShadowInv'
<1> SUFFICES ASSUME ShadowInv, [Next]_vars PROVE ShadowInv'
  OBVIOUS
<1> SUFFICES ASSUME BothClassified PROVE SameShadows'
  <2>1. pair' = pair
    BY DEF Next, Access, vars
  <2>2. BothKept'
    BY BothKeptStep DEF ShadowInv
  <2> QED BY <2>1, <2>2 DEF ShadowInv, BothClassified
<1>1. BothKept /\ SameShadows
  BY DEF ShadowInv
<1>2. CASE Next
  <2>1. PICK a \in Addrs, isWrite \in BOOLEAN : Access(a, isWrite)
    BY <1>2 DEF Next
  <2>2. /\ first' \in AfterAccess(pair[1], first, a, isWrite)
        /\ second' \in AfterAccess(pair[2], second, a, isWrite) /\ pair' = pair
    BY <2>1 DEF Access
  <2> DEFINE b == BlockOf(pair[1], a)
             r == first.refFA
             q == second.refFA
  <2>3. /\ a \in Nat /\ Constructible(pair[1]) /\ Constructible(pair[2])
        /\ BlockOf(pair[2], a) = b
        /\ Kept(pair[1], first) /\ Kept(pair[2], second)
        /\ RefFAType(r, Nat) /\ RefFAType(q, Nat)
    BY <1>1, PairFacts, KeptFacts DEF BothKept
  <2>4. /\ first'.refFA = RefTouch(pair[1], r, b) /\ first'.seen = first.seen \cup {b}
        /\ \A x \in Nat : IsHit(pair[1], first', x) => x \in first'.seen
    BY <1>1, <2>2, <2>3, AccessShadows DEF BothClassified, SameShadows, InFirst
  <2>5. /\ second'.refFA = RefTouch(pair[2], q, b) /\ second'.seen = second.seen \cup {b}
        /\ \A x \in Nat : IsHit(pair[2], second', x) => x \in second'.seen
    BY <1>1, <2>2, <2>3, AccessShadows DEF BothClassified, SameShadows, InSecond
  <2>6. /\ RefSmall(pair[1], r) /\ RefSmall(pair[2], q) /\ r.clock = q.clock /\ RefRecent(q)
        /\ TotalLines(pair[1]) <= TotalLines(pair[2]) => Nested(pair[1], r, q)
        /\ first.seen = second.seen
    BY <1>1 DEF SameShadows
  <2> HIDE DEF b, r, q
  <2>7. /\ RefSmall(pair[1], first'.refFA) /\ RefSmall(pair[2], second'.refFA)
        /\ first'.refFA.clock = second'.refFA.clock
    BY <2>3, <2>4, <2>5, <2>6, RefTouchMoves
  <2>8. RefRecent(second'.refFA)
    BY <2>3, <2>5, <2>6, TouchedRefRecent
  <2>9. TotalLines(pair[1]) <= TotalLines(pair[2]) => Nested(pair[1], first'.refFA, second'.refFA)
    BY <2>3, <2>4, <2>5, <2>6, TouchKeepsNested
  <2>10. first'.seen = second'.seen
    BY <2>4, <2>5, <2>6
  <2> QED
    BY <2>2, <2>4, <2>5, <2>7, <2>8, <2>9, <2>10 DEF SameShadows, InFirst, InSecond
<1>3. CASE UNCHANGED vars
  <2>1. pair' = pair /\ first' = first /\ second' = second
    BY <1>3 DEF vars
  <2> QED
    BY <1>1, <2>1 DEF SameShadows, InFirst, InSecond
<1> QED
  BY <1>2, <1>3

\* The verdicts of two caches are comparable: what is compulsory depends on
\* the trace alone, and the model of a larger cache has all the smaller one has.
THEOREM ShadowsAlwaysNest == Spec => []ShadowsNest
<1>1. ShadowInv => ShadowsNest
  <2> SUFFICES ASSUME ShadowInv, BothClassified
               PROVE  /\ first.stats["compulsory"] = second.stats["compulsory"]
                      /\ TotalLines(pair[1]) <= TotalLines(pair[2]) =>
                           RefBlocks(first.refFA) \subseteq RefBlocks(second.refFA)
    BY DEF ShadowsNest, BothClassified
  <2>1. /\ CheckInvariants(pair[1], first) /\ CheckInvariants(pair[2], second)
        /\ SameShadows
    BY KeptFacts DEF ShadowInv, BothKept
  <2>2. /\ first.stats["compulsory"] = Cardinality(first.seen)
        /\ second.stats["compulsory"] = Cardinality(second.seen)
    BY <2>1 DEF CheckInvariants, BothClassified
  <2> QED
    BY <2>1, <2>2 DEF SameShadows, Nested
<1> QED
  BY <1>1, ShadowInit, ShadowStep, PTL DEF Spec
=============================================================================
