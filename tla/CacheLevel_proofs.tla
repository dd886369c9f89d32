------------------------- MODULE CacheLevel_proofs -------------------------
(***************************************************************************)
(* What every access does to one Cache object, whatever its configuration  *)
(* and wherever in a chain it stands: lemmas about the operators of        *)
(* CacheLevel that the proofs about a cache over memory (Cache_proofs) and *)
(* about a chain (Hierarchy_proofs) rest on.                               *)
(***************************************************************************)
EXTENDS CacheLevel, TLAPS, WellFoundedInduction, SequenceTheorems, FiniteSetTheorems

-----------------------------------------------------------------------------
(* Geometry: set index and tag are a unique decomposition of a block, and  *)
(* the address rebuilt for a victim lies in the victim's block.            *)

\* The constructor's checks leave a geometry of positive whole numbers.
LEMMA GeometryType ==
  ASSUME NEW g, Constructible(g)
  PROVE  /\ g.blockSize \in Nat \ {0}
         /\ g.associativity \in Nat \ {0}
         /\ NumSets(g) \in Nat \ {0}
<1>1. g.blockSize \in Nat \ {0} /\ g.associativity \in Nat \ {0} /\ g.sizeBytes \in Nat
  BY DEF Constructible, ConfigType
<1>2. NumSets(g) # 0
  BY DEF Constructible, IsPow2
<1>3. g.blockSize * g.associativity \in Nat \ {0}
  BY <1>1
<1>4. \A m \in Nat, n \in Nat \ {0} : m \div n \in Nat
  OBVIOUS
<1>5. NumSets(g) \in Nat
  BY <1>1, <1>3, <1>4 DEF NumSets
<1> QED
  BY <1>1, <1>2, <1>5

\* A set has as many ways as the configuration says.
LEMMA WayCount ==
  ASSUME NEW g, Constructible(g)
  PROVE  IsFiniteSet(Ways(g)) /\ Cardinality(Ways(g)) = g.associativity
<1> DEFINE n == g.associativity
<1>1. 0 \in Int /\ n - 1 \in Int /\ n - 1 - 0 + 1 = n /\ ~(0 > n - 1)
  BY GeometryType
<1> QED
  BY <1>1, FS_Interval DEF Ways

\* An address belongs to one block, a natural number.
LEMMA BlockOfType ==
  ASSUME NEW g, Constructible(g), NEW addr \in Nat
  PROVE  BlockOf(g, addr) \in Nat
<1>1. \A m \in Nat, n \in Nat \ {0} : m \div n \in Nat
  OBVIOUS
<1> QED
  BY <1>1, GeometryType DEF BlockOf

\* Cache::decode yields a set of the cache and a tag.
LEMMA Decomposition ==
  ASSUME NEW g, Constructible(g), NEW b \in Nat
  PROVE  /\ SetOf(g, b) \in Sets(g)
         /\ TagOf(g, b) \in Nat
         /\ TagOf(g, b) * NumSets(g) + SetOf(g, b) = b
<1>1. \A m \in Nat, n \in Nat \ {0} :
        /\ m % n \in 0 .. n - 1
        /\ m \div n \in Nat
        /\ ((m \div n) * n) + (m % n) = m
  OBVIOUS
<1> QED
  BY <1>1, GeometryType DEF SetOf, TagOf, Sets

\* Set index and tag determine the block and rebuild it.
LEMMA Recomposition ==
  ASSUME NEW g, Constructible(g), NEW t \in Nat, NEW s \in Sets(g)
  PROVE  /\ t * NumSets(g) + s \in Nat
         /\ SetOf(g, t * NumSets(g) + s) = s
         /\ TagOf(g, t * NumSets(g) + s) = t
<1>1. \A n \in Nat \ {0} : \A m \in Nat : \A k \in 0 .. n - 1 :
        /\ m * n + k \in Nat
        /\ (m * n + k) % n = k
        /\ (m * n + k) \div n = m
  OBVIOUS
<1>2. NumSets(g) \in Nat \ {0}
  BY GeometryType
<1>3. s \in 0 .. NumSets(g) - 1
  BY DEF Sets
<1> QED
  BY <1>1, <1>2, <1>3 DEF SetOf, TagOf

\* The address rebuilt for a victim decodes to the victim's own block.
LEMMA VictimAddress ==
  ASSUME NEW g, Constructible(g), NEW b \in Nat
  PROVE  AddrOf(g, b) \in Nat /\ BlockOf(g, AddrOf(g, b)) = b
<1>1. \A n \in Nat \ {0} : \A m \in Nat : m * n \in Nat /\ (m * n) \div n = m
  OBVIOUS
<1> QED
  BY <1>1, GeometryType DEF AddrOf, BlockOf

-----------------------------------------------------------------------------
(* The operators the three paths are built from.                           *)

\* A non-empty set of ways has a first one.
LEMMA FirstIsLeast ==
  ASSUME NEW W \in SUBSET Nat, W # {}
  PROVE  First(W) \in W /\ \A u \in W : First(W) <= u
<1> DEFINE R == {p \in Nat \X Nat : p[1] < p[2]}
<1>1. IsWellFoundedOn(R, Nat)
  BY NatLessThanWellFounded DEF OpToRel
<1>2. \A a, b \in Nat : <<a, b>> \in R <=> a < b
  OBVIOUS
<1> HIDE DEF R
<1>3. PICK w \in W : \A u \in W : ~ (<<u, w>> \in R)
  BY <1>1, WFMin
<1>4. ASSUME NEW u \in W PROVE w <= u
  <2>1. w \in Nat /\ u \in Nat /\ ~ (u < w)
    BY <1>2, <1>3
  <2> QED
    BY <2>1
<1> QED
  BY <1>4 DEF First

\* A hit is on a valid frame of the set that has the block's tag.
LEMMA MatchIsFrame ==
  ASSUME NEW g, Constructible(g), NEW c, NEW b, IsHit(g, c, b)
  PROVE  First(Matches(g, c, b)) \in Matches(g, c, b)
<1>1. Matches(g, c, b) \in SUBSET Nat
  BY GeometryType DEF Matches, Ways
<1> QED
  BY <1>1, FirstIsLeast DEF IsHit

\* pickWay returns a way, and an empty one if there is any.
LEMMA PickIsWay ==
  ASSUME NEW g, Constructible(g), NEW c, NEW s
  PROVE  PickWays(g, c, s) \subseteq Ways(g)
<1>1. Ways(g) \in SUBSET Nat
  BY GeometryType DEF Ways
<1>2. ASSUME EmptyWays(g, c, s) # {}
      PROVE  First(EmptyWays(g, c, s)) \in Ways(g)
  <2>1. EmptyWays(g, c, s) \in SUBSET Nat /\ EmptyWays(g, c, s) \subseteq Ways(g)
    BY <1>1 DEF EmptyWays
  <2> QED
    BY <1>2, <2>1, FirstIsLeast
<1>3. Victims(g, c.repl, s) \subseteq Ways(g)
  BY DEF Victims
<1> QED
  BY <1>2, <1>3 DEF PickWays

\* onAccess and onInsert keep the policy object well typed.
LEMMA PolicyHooksType ==
  ASSUME NEW g, Constructible(g), NEW r \in PolicyType(g),
         NEW s \in Sets(g), NEW w \in Ways(g)
  PROVE  OnAccess(g, r, s, w) \in PolicyType(g) /\ OnInsert(g, r, s, w) \in PolicyType(g)
<1>1. Stamped(r, s, w) \in PolicyType(g)
  BY DEF Stamped, PolicyType
<1> QED
  BY <1>1 DEF OnAccess, OnInsert

\* RefFACache::touch keeps the reference model well typed.
LEMMA RefTouchType ==
  ASSUME NEW g, NEW ref, NEW B, NEW b \in B, RefFAType(ref, B)
  PROVE  RefFAType(RefTouch(g, ref, b), B)
<1>1. RefKept(g, ref, b) \subseteq RefBlocks(ref)
  BY DEF RefKept
<1>2. \A x \in RefKept(g, ref, b) : ref.lastUsed[x] \in Nat
  BY <1>1 DEF RefFAType
<1>3. ref.clock + 1 \in Nat
  BY DEF RefFAType
<1> DEFINE K == RefKept(g, ref, b) \cup {b}
           f == [x \in K |-> IF x = b THEN ref.clock + 1 ELSE ref.lastUsed[x]]
<1>4. f \in [K -> Nat] /\ DOMAIN f = K /\ K \subseteq B
  BY <1>1, <1>2, <1>3 DEF RefFAType
<1>5. RefTouch(g, ref, b) = [lastUsed |-> f, clock |-> ref.clock + 1]
  BY DEF RefTouch
<1> HIDE DEF f, K
<1> QED
  BY <1>3, <1>4, <1>5 DEF RefFAType, RefBlocks

\* So does driving the model or, with the classifier off, not driving it.
LEMMA ShadowedType ==
  ASSUME NEW g, NEW ref, NEW B, NEW b \in B, RefFAType(ref, B)
  PROVE  RefFAType(Shadowed(g, ref, b), B)
BY RefTouchType DEF Shadowed

\* Counting keeps every counter a natural number.
LEMMA CountType ==
  ASSUME NEW n \in [Counters -> Nat], NEW ks
  PROVE  Count(n, ks) \in [Counters -> Nat]
BY DEF Count

\* The fields of an installed line.
LEMMA InstalledFields ==
  ASSUME NEW g, NEW b, NEW isWrite \in BOOLEAN
  PROVE  /\ Installed(g, b, isWrite).valid = TRUE
         /\ Installed(g, b, isWrite).dirty = (isWrite /\ WritesBack(g))
         /\ Installed(g, b, isWrite).tag = TagOf(g, b)
BY DEF Installed

-----------------------------------------------------------------------------
(* The reference model of the classifier.                                  *)

\* Of some things with a natural number each, one has the smallest.
LEMMA LeastExists ==
  ASSUME NEW S, S # {}, NEW f, \A x \in S : f[x] \in Nat
  PROVE  \E b \in S : \A x \in S : f[b] <= f[x]
<1> DEFINE W == {f[x] : x \in S}
<1>1. W \in SUBSET Nat /\ W # {}
  OBVIOUS
<1>2. First(W) \in W /\ \A u \in W : First(W) <= u
  BY <1>1, FirstIsLeast
<1> QED
  BY <1>2

\* The cache has as many lines as its sets have ways.
LEMMA LinesOfSets ==
  ASSUME NEW g, Constructible(g)
  PROVE  /\ TotalLines(g) = NumSets(g) * g.associativity
         /\ TotalLines(g) \in Nat \ {0}
<1> DEFINE size == g.sizeBytes  block == g.blockSize  ways == g.associativity
           sets == size \div (block * ways)
<1>1. size \in Nat \ {0} /\ block \in Nat \ {0} /\ ways \in Nat \ {0}
      /\ size % (block * ways) = 0 /\ sets = NumSets(g) /\ sets \in Nat \ {0}
  BY GeometryType DEF Constructible, ConfigType, NumSets
<1>2. block * ways \in Nat \ {0}
  BY <1>1
<1> HIDE DEF size, block, ways
<1>3. \A n \in Nat, m \in Nat \ {0} : n % m = 0 => n = (n \div m) * m
  OBVIOUS
<1>4. size = sets * (block * ways)
  BY <1>1, <1>2, <1>3
<1> HIDE DEF sets
<1>5. size = (sets * ways) * block /\ sets * ways \in Nat \ {0}
  BY <1>1, <1>4
<1>6. \A n \in Nat, m \in Nat \ {0} : (n * m) \div m = n
  OBVIOUS
<1>7. size \div block = sets * ways
  BY <1>1, <1>5, <1>6
<1> QED
  BY <1>1, <1>5, <1>7 DEF TotalLines, size, block, ways

\* The model keeps at most as many blocks as it has lines.
RefSmall(g, ref) ==
  IsFiniteSet(RefBlocks(ref)) /\ Cardinality(RefBlocks(ref)) <= TotalLines(g)

\* What RefFACache::touch leaves resident: the block touched, and of the
\* others all, unless the model was full; then one of the oldest is gone.
LEMMA RefTouchEffect ==
  ASSUME NEW g, Constructible(g), NEW B, NEW ref, RefFAType(ref, B), RefSmall(g, ref), NEW b,
         NEW d, d = RefTouch(g, ref, b)
  PROVE  /\ RefSmall(g, d)
         /\ d.clock = ref.clock + 1
         /\ b \in RefBlocks(d) /\ d.lastUsed[b] = ref.clock + 1
         /\ \A x \in RefBlocks(d) \ {b} :
              x \in RefBlocks(ref) /\ d.lastUsed[x] = ref.lastUsed[x]
         /\ \A x \in RefBlocks(ref) \ RefBlocks(d) :
              \A y \in RefBlocks(d) \ {b} : ref.lastUsed[x] <= ref.lastUsed[y]
         /\ Cardinality(RefBlocks(ref)) = TotalLines(g) \/ RefBlocks(ref) \ RefBlocks(d) # {}
              => Cardinality(RefBlocks(d)) = TotalLines(g)
<1> DEFINE R == RefBlocks(ref)
           K == RefKept(g, ref, b)
           n == TotalLines(g)
<1>1. n \in Nat \ {0} /\ IsFiniteSet(R) /\ Cardinality(R) <= n /\ Cardinality(R) \in Nat
  BY LinesOfSets, FS_CardinalityType DEF RefSmall
<1>2. RefBlocks(d) = K \cup {b} /\ K \subseteq R /\ d.clock = ref.clock + 1
      /\ \A x \in K \cup {b} : d.lastUsed[x] = IF x = b THEN ref.clock + 1 ELSE ref.lastUsed[x]
  BY DEF RefTouch, RefBlocks, RefKept
<1>3. IsFiniteSet(K) /\ IsFiniteSet(K \cup {b}) /\ Cardinality(K) \in Nat
      /\ Cardinality(K \cup {b}) = IF b \in K THEN Cardinality(K) ELSE Cardinality(K) + 1
  BY <1>1, <1>2, FS_Subset, FS_AddElement, FS_CardinalityType
<1>4. CASE b \in R
  <2>1. K = R
    BY <1>4 DEF RefKept, RefHit
  <2> QED
    BY <1>1, <1>2, <1>3, <1>4, <2>1 DEF RefSmall
<1>5. CASE b \notin R /\ Cardinality(R) < n
  <2>1. K = R
    BY <1>5 DEF RefKept
  <2> QED
    BY <1>1, <1>2, <1>3, <1>5, <2>1 DEF RefSmall
<1>6. CASE b \notin R /\ ~(Cardinality(R) < n)
  <2> DEFINE v == RefVictim(ref)
  <2>1. K = R \ {v}
    BY <1>6 DEF RefKept, RefHit
  <2>2. R # {} /\ \A x \in R : ref.lastUsed[x] \in Nat
    BY <1>1, <1>6, FS_EmptySet DEF RefFAType
  <2>3. \E x \in R : \A y \in R : ref.lastUsed[x] <= ref.lastUsed[y]
    BY <2>2, LeastExists
  <2>4. v \in R /\ \A y \in R : ref.lastUsed[v] <= ref.lastUsed[y]
    BY <2>3 DEF RefVictim
  <2>5. Cardinality(R) = n
    BY <1>1, <1>6
  <2> HIDE DEF v
  <2>6. Cardinality(R \ {v}) = Cardinality(R) - 1
    BY <1>1, <2>4, FS_RemoveElement
  <2>7. b \notin K /\ Cardinality(K \cup {b}) = n
    BY <1>1, <1>3, <1>6, <2>1, <2>5, <2>6
  <2>8. \A x \in R \ (K \cup {b}) : x = v
    BY <2>1
  <2> QED
    BY <1>1, <1>2, <1>3, <2>1, <2>4, <2>7, <2>8 DEF RefSmall
<1> QED
  BY <1>4, <1>5, <1>6

-----------------------------------------------------------------------------
(* Each of the three paths takes a cache to a cache.                       *)

\* The constructor builds a well typed cache.
LEMMA NewCacheType ==
  ASSUME NEW g, NEW B
  PROVE  CacheType(g, B, NewCache(g))
<1>1. NewRefFA.lastUsed = [b \in {} |-> 0] /\ NewRefFA.clock = 0
  BY DEF NewRefFA
<1>2. RefFAType(NewRefFA, B)
  <2>1. DOMAIN NewRefFA = {"lastUsed", "clock"}
    BY DEF NewRefFA
  <2>2. RefBlocks(NewRefFA) = {}
    BY <1>1 DEF RefBlocks
  <2> QED
    BY <1>1, <2>1, <2>2 DEF RefFAType
<1>3. Empty \in Line
  BY DEF Empty, Line
<1>4. NewPolicy(g) \in PolicyType(g)
  BY DEF NewPolicy, PolicyType
<1> QED
  BY <1>2, <1>3, <1>4 DEF CacheType, NewCache

\* A hit leaves a well typed cache.
LEMMA HitType ==
  ASSUME NEW g, Constructible(g), NEW c, NEW B, NEW a \in Nat, NEW isWrite \in BOOLEAN,
         BlockOf(g, a) \in B, IsHit(g, c, BlockOf(g, a)), CacheType(g, B, c)
  PROVE  CacheType(g, B, AfterHit(g, c, a, isWrite))
<1> DEFINE b == BlockOf(g, a)
           s == SetOf(g, b)
           w == First(Matches(g, c, b))
           L == [c.lines EXCEPT ![s][w].dirty = @ \/ (isWrite /\ WritesBack(g))]
<1>1. b \in Nat /\ s \in Sets(g)
  BY BlockOfType, Decomposition
<1>2. w \in Ways(g)
  BY MatchIsFrame DEF Matches
<1>3. c.lines \in [Sets(g) -> [Ways(g) -> Line]] /\ c.lines[s][w] \in Line
  BY <1>1, <1>2 DEF CacheType
<1>4. L \in [Sets(g) -> [Ways(g) -> Line]]
  BY <1>1, <1>2, <1>3 DEF Line, WritesBack
<1>5. OnAccess(g, c.repl, s, w) \in PolicyType(g)
  BY <1>1, <1>2, PolicyHooksType DEF CacheType
<1>6. /\ Count(c.stats, HitCounters(isWrite)) \in [Counters -> Nat]
      /\ RefFAType(Shadowed(g, c.refFA, b), B)
      /\ c.seen \subseteq B
  BY CountType, ShadowedType DEF CacheType
<1>7. AfterHit(g, c, a, isWrite) =
        [lines |-> L, repl |-> OnAccess(g, c.repl, s, w),
         stats |-> Count(c.stats, HitCounters(isWrite)),
         refFA |-> Shadowed(g, c.refFA, b), seen |-> c.seen]
  BY DEF AfterHit
<1> HIDE DEF L, w, s, b
<1> QED
  BY <1>4, <1>5, <1>6, <1>7 DEF CacheType

\* The seen set stays within the blocks of the trace.
LEMMA NotedType ==
  ASSUME NEW g, NEW c, NEW B, NEW b \in B, c.seen \subseteq B
  PROVE  Noted(g, c, b) \subseteq B
BY DEF Noted

\* A write-around leaves a well typed cache.
LEMMA WriteAroundType ==
  ASSUME NEW g, NEW c, NEW B, NEW a, BlockOf(g, a) \in B, CacheType(g, B, c)
  PROVE  CacheType(g, B, AfterWriteAround(g, c, a))
<1> DEFINE b == BlockOf(g, a)
           n == Count(c.stats, MissCounters(g, c, b, TRUE))
<1>1. n \in [Counters -> Nat] /\ RefFAType(Shadowed(g, c.refFA, b), B)
  BY CountType, ShadowedType DEF CacheType
<1>2. Noted(g, c, b) \subseteq B
  BY NotedType DEF CacheType
<1>3. c.lines \in [Sets(g) -> [Ways(g) -> Line]] /\ c.repl \in PolicyType(g)
  BY DEF CacheType
<1>4. AfterWriteAround(g, c, a) =
        [lines |-> c.lines, repl |-> c.repl, stats |-> n,
         refFA |-> Shadowed(g, c.refFA, b), seen |-> Noted(g, c, b)]
  BY DEF AfterWriteAround
<1> HIDE DEF b, n
<1> QED
  BY <1>1, <1>2, <1>3, <1>4 DEF CacheType

\* A fill leaves a well typed cache.
LEMMA FillType ==
  ASSUME NEW g, Constructible(g), NEW c, NEW B, NEW a \in Nat, NEW isWrite \in BOOLEAN,
         NEW w \in Ways(g), BlockOf(g, a) \in B, CacheType(g, B, c)
  PROVE  CacheType(g, B, AfterFill(g, c, a, isWrite, w))
<1> DEFINE b == BlockOf(g, a)
           s == SetOf(g, b)
           L == [c.lines EXCEPT ![s][w] = Installed(g, b, isWrite)]
           n == Count(c.stats, FillCounters(g, c, b, isWrite, c.lines[s][w]))
<1>1. b \in Nat /\ s \in Sets(g) /\ TagOf(g, b) \in Nat
  BY BlockOfType, Decomposition
<1>2. Installed(g, b, isWrite) \in Line
  BY <1>1 DEF Installed, Line, WritesBack
<1>3. L \in [Sets(g) -> [Ways(g) -> Line]]
  BY <1>1, <1>2 DEF CacheType
<1>4. OnInsert(g, c.repl, s, w) \in PolicyType(g)
  BY <1>1, PolicyHooksType DEF CacheType
<1>5. n \in [Counters -> Nat] /\ RefFAType(Shadowed(g, c.refFA, b), B)
  BY CountType, ShadowedType DEF CacheType
<1>6. Noted(g, c, b) \subseteq B
  BY NotedType DEF CacheType
<1>7. AfterFill(g, c, a, isWrite, w) =
        [lines |-> L, repl |-> OnInsert(g, c.repl, s, w), stats |-> n,
         refFA |-> Shadowed(g, c.refFA, b), seen |-> Noted(g, c, b)]
  BY DEF AfterFill
<1> HIDE DEF b, s, L, n
<1> QED
  BY <1>3, <1>4, <1>5, <1>6, <1>7 DEF CacheType

-----------------------------------------------------------------------------
(* The calls an access makes below.                                        *)

\* The fields of a call.
LEMMA CallFields ==
  ASSUME NEW a
  PROVE  /\ Store(a).addr = a /\ Store(a).isWrite = TRUE
         /\ Load(a).addr = a /\ Load(a).isWrite = FALSE
BY DEF Store, Load

\* Appending to a sequence of one call.
LEMMA ConcatOne ==
  ASSUME NEW x, NEW y
  PROVE  <<x>> \o <<y>> = <<x, y>>
<1> DEFINE S == {x, y}
           s == <<x>>
           t == <<y>>
           u == <<x, y>>
<1>1. s \in Seq(S) /\ t \in Seq(S) /\ u \in Seq(S)
  OBVIOUS
<1>2. /\ Len(s) = 1 /\ Len(t) = 1 /\ Len(u) = 2
      /\ s[1] = x /\ t[1] = y /\ u[1] = x /\ u[2] = y
  OBVIOUS
<1> HIDE DEF S, s, t, u
<1>3. s \o t \in Seq(S) /\ Len(s \o t) = 2 /\ (s \o t)[1] = x /\ (s \o t)[2] = y
  BY <1>1, <1>2, ConcatProperties
<1>4. s \o t = u
  BY <1>1, <1>2, <1>3, SeqEqual
<1> QED
  BY <1>4 DEF s, t, u

\* The calls of a fill, case by case.
LEMMA FillCallsCases ==
  ASSUME NEW g, NEW c, NEW a, NEW isWrite \in BOOLEAN, NEW w
  PROVE  LET s     == SetOf(g, BlockOf(g, a))
             frame == c.lines[s][w]
             victim == AddrOf(g, VictimBlock(g, frame.tag, s))
             calls == FillCalls(g, c, a, isWrite, w)
         IN  /\ MustWriteBack(g, frame) => calls = <<Load(a), Store(victim)>>
             /\ ~MustWriteBack(g, frame) /\ isWrite /\ ~WritesBack(g)
                  => calls = <<Load(a), Store(a)>>
             /\ ~MustWriteBack(g, frame) /\ (~isWrite \/ WritesBack(g)) => calls = <<Load(a)>>
<1>1. \A x, y : <<x>> \o <<y>> = <<x, y>>
  BY ConcatOne
<1>2. \A x, y : <<x>> \o <<>> = <<x>> /\ <<x, y>> \o <<>> = <<x, y>>
  OBVIOUS
<1>3. \A f : MustWriteBack(g, f) => WritesBack(g)
  BY DEF MustWriteBack
<1> QED
  BY <1>1, <1>2, <1>3 DEF FillCalls

-----------------------------------------------------------------------------
(* What one access adds to the counters.                                   *)

\* What counting does to one counter.
LEMMA CountAt ==
  ASSUME NEW n \in [Counters -> Nat], NEW ks, NEW k \in Counters
  PROVE  Count(n, ks)[k] = IF k \in ks THEN n[k] + 1 ELSE n[k]
BY DEF Count

\* The counters of a hit.
LEMMA HitCounts ==
  ASSUME NEW n \in [Counters -> Nat], NEW isWrite \in BOOLEAN
  PROVE  LET m == Count(n, HitCounters(isWrite)) IN
         /\ m["accesses"] = n["accesses"] + 1
         /\ m["hits"] = n["hits"] + 1
         /\ m["writes"] = IF isWrite THEN n["writes"] + 1 ELSE n["writes"]
         /\ m["reads"] = IF isWrite THEN n["reads"] ELSE n["reads"] + 1
         /\ \A k \in {"misses", "writebacks", "compulsory", "capacity", "conflict"} :
              m[k] = n[k]
BY CountAt DEF HitCounters, Arrival, Counters

\* The counters of a miss: exactly one verdict if the classifier is on.
LEMMA MissCounts ==
  ASSUME NEW n \in [Counters -> Nat], NEW isWrite \in BOOLEAN,
         NEW g, NEW c, NEW b, NEW wb \in BOOLEAN, NEW ks,
         \A k : k \in ks <=> k \in MissCounters(g, c, b, isWrite) \/ (wb /\ k = "writebacks"),
         NEW m, m = Count(n, ks)
  PROVE  /\ m["accesses"] = n["accesses"] + 1
         /\ m["hits"] = n["hits"]
         /\ m["misses"] = n["misses"] + 1
         /\ m["writes"] = IF isWrite THEN n["writes"] + 1 ELSE n["writes"]
         /\ m["reads"] = IF isWrite THEN n["reads"] ELSE n["reads"] + 1
         /\ m["writebacks"] = IF wb THEN n["writebacks"] + 1 ELSE n["writebacks"]
         /\ g.classify3C =>
              /\ m["compulsory"] + m["capacity"] + m["conflict"]
                   = n["compulsory"] + n["capacity"] + n["conflict"] + 1
              /\ m["compulsory"] = IF b \in c.seen THEN n["compulsory"]
                                                   ELSE n["compulsory"] + 1
<1> DEFINE verdict == IF g.classify3C THEN {Verdict(c, b)} ELSE {}
<1>2. Verdict(c, b) \in {"compulsory", "capacity", "conflict"}
      /\ (Verdict(c, b) = "compulsory" <=> b \notin c.seen)
  BY DEF Verdict
<1>3. /\ "hits" \notin ks /\ "accesses" \in ks /\ "misses" \in ks
      /\ "writes" \in ks <=> isWrite
      /\ "reads" \in ks <=> ~isWrite
      /\ "writebacks" \in ks <=> wb
      /\ \A k \in {"compulsory", "capacity", "conflict"} : k \in ks <=> k \in verdict
  BY <1>2 DEF Arrival, MissCounters
<1>4. \A k \in Counters : n[k] \in Nat /\ m[k] = IF k \in ks THEN n[k] + 1 ELSE n[k]
  BY CountAt
<1>5. g.classify3C =>
        /\ m["compulsory"] + m["capacity"] + m["conflict"]
             = n["compulsory"] + n["capacity"] + n["conflict"] + 1
        /\ m["compulsory"] = IF b \in c.seen THEN n["compulsory"] ELSE n["compulsory"] + 1
  BY <1>2, <1>3, <1>4 DEF Counters
<1>6. /\ m["accesses"] = n["accesses"] + 1
      /\ m["hits"] = n["hits"]
      /\ m["misses"] = n["misses"] + 1
      /\ m["writes"] = IF isWrite THEN n["writes"] + 1 ELSE n["writes"]
      /\ m["reads"] = IF isWrite THEN n["reads"] ELSE n["reads"] + 1
      /\ m["writebacks"] = IF wb THEN n["writebacks"] + 1 ELSE n["writebacks"]
  BY <1>3, <1>4 DEF Counters
<1> QED
  BY <1>5, <1>6

\* A miss notes its block, and is compulsory exactly when that is new.
LEMMA NotedCount ==
  ASSUME NEW g, NEW c, NEW b, IsFiniteSet(c.seen), g.classify3C
  PROVE  /\ IsFiniteSet(Noted(g, c, b))
         /\ Cardinality(Noted(g, c, b)) = IF b \in c.seen THEN Cardinality(c.seen)
                                                          ELSE Cardinality(c.seen) + 1
BY FS_AddElement DEF Noted

\* The counters of a fill.
LEMMA FillCounts ==
  ASSUME NEW g, NEW c, NEW a, NEW isWrite, NEW w
  PROVE  LET b  == BlockOf(g, a)
             s  == SetOf(g, b)
             wb == MustWriteBack(g, c.lines[s][w])
             ks == FillCounters(g, c, b, isWrite, c.lines[s][w])
         IN  /\ AfterFill(g, c, a, isWrite, w).stats = Count(c.stats, ks)
             /\ \A k : k \in ks <=> k \in MissCounters(g, c, b, isWrite) \/ (wb /\ k = "writebacks")
             /\ wb \in BOOLEAN
BY DEF AfterFill, FillCounters, MustWriteBack
-----------------------------------------------------------------------------
(* Cache::checkInvariants passes after every access of every cache.        *)

\* What a Cache object keeps between two accesses.
Healthy(g, B, c) == CacheType(g, B, c) /\ IsFiniteSet(c.seen) /\ CheckInvariants(g, c)

\* The object the constructor builds passes the check.
LEMMA NewCacheHealthy ==
  ASSUME NEW g, NEW B
  PROVE  Healthy(g, B, NewCache(g))
<1>1. NewCache(g).seen = {} /\ \A k \in Counters : NewCache(g).stats[k] = 0
  BY DEF NewCache
<1>2. IsFiniteSet(NewCache(g).seen) /\ Cardinality(NewCache(g).seen) = 0
  BY <1>1, FS_EmptySet
<1>3. \A s \in Sets(g), w \in Ways(g) : ~NewCache(g).lines[s][w].dirty
  BY DEF NewCache, Empty
<1> QED
  BY <1>1, <1>2, <1>3, NewCacheType DEF Healthy, CheckInvariants, Counters

\* A hit keeps the sums, and dirties a valid line only.
LEMMA HitHealthy ==
  ASSUME NEW g, Constructible(g), NEW c, NEW B, NEW a \in Nat, NEW isWrite \in BOOLEAN,
         BlockOf(g, a) \in B, IsHit(g, c, BlockOf(g, a)), Healthy(g, B, c)
  PROVE  Healthy(g, B, AfterHit(g, c, a, isWrite))
<1> DEFINE d == AfterHit(g, c, a, isWrite)
           s == SetOf(g, BlockOf(g, a))
           w == First(Matches(g, c, BlockOf(g, a)))
           n == c.stats
           m == d.stats
<1>1. CacheType(g, B, c) /\ CheckInvariants(g, c) /\ IsFiniteSet(c.seen)
  BY DEF Healthy
<1>2. CacheType(g, B, d)
  BY <1>1, HitType
<1>3. /\ m = Count(n, HitCounters(isWrite)) /\ d.seen = c.seen
      /\ d.lines = [c.lines EXCEPT ![s][w].dirty = @ \/ (isWrite /\ WritesBack(g))]
  BY DEF AfterHit
<1>4. n \in [Counters -> Nat] /\ c.lines \in [Sets(g) -> [Ways(g) -> Line]]
  BY <1>1 DEF CacheType
<1> HIDE DEF d, n, m
<1>5. /\ m["accesses"] = n["accesses"] + 1 /\ m["hits"] = n["hits"] + 1
      /\ \A k \in {"misses", "writebacks", "compulsory", "capacity", "conflict"} : m[k] = n[k]
  BY <1>3, <1>4, HitCounts
<1>6. s \in Sets(g) /\ w \in Ways(g) /\ c.lines[s][w].valid
  <2>1. s \in Sets(g)
    BY BlockOfType, Decomposition
  <2>2. w \in Matches(g, c, BlockOf(g, a))
    BY MatchIsFrame
  <2>3. w \in Ways(g) /\ c.lines[s][w].valid
    BY <2>2 DEF Matches
  <2> QED BY <2>1, <2>3
<1> HIDE DEF s, w
<1>7. \A t \in Sets(g), u \in Ways(g) : d.lines[t][u].dirty => d.lines[t][u].valid
  <2> SUFFICES ASSUME NEW t \in Sets(g), NEW u \in Ways(g), d.lines[t][u].dirty
               PROVE  d.lines[t][u].valid
    OBVIOUS
  <2>1. d.lines[t][u].valid = c.lines[t][u].valid
    <3>1. c.lines[t][u] \in Line /\ c.lines[t] \in [Ways(g) -> Line]
      BY <1>4
    <3>2. CASE t = s /\ u = w
      <4>1. d.lines[t][u] = [c.lines[t][u] EXCEPT !.dirty = @ \/ (isWrite /\ WritesBack(g))]
        BY <1>3, <1>4, <1>6, <3>1, <3>2
      <4> QED BY <3>1, <4>1 DEF Line
    <3>3. CASE ~(t = s /\ u = w)
      <4>1. d.lines[t][u] = c.lines[t][u]
        BY <1>3, <1>4, <1>6, <3>3
      <4> QED BY <4>1
    <3> QED BY <3>2, <3>3
  <2>2. CASE t = s /\ u = w
    BY <1>6, <2>1, <2>2
  <2>3. CASE ~(t = s /\ u = w)
    <3>1. d.lines[t][u] = c.lines[t][u]
      BY <1>3, <1>4, <1>6, <2>3
    <3> QED BY <1>1, <3>1 DEF CheckInvariants
  <2> QED BY <2>2, <2>3
<1>8. m["hits"] + m["misses"] = m["accesses"]
  BY <1>1, <1>4, <1>5 DEF CheckInvariants, Counters, n
<1>9. g.classify3C => /\ m["compulsory"] + m["capacity"] + m["conflict"] = m["misses"]
                      /\ m["compulsory"] = Cardinality(d.seen)
  BY <1>1, <1>3, <1>5 DEF CheckInvariants, n
<1> QED
  BY <1>1, <1>2, <1>3, <1>7, <1>8, <1>9 DEF Healthy, CheckInvariants, m, d

\* A miss keeps the sums, whether it fills or goes around.
LEMMA MissHealthy ==
  ASSUME NEW g, NEW c, NEW B, NEW d, NEW b, NEW isWrite \in BOOLEAN, NEW wb \in BOOLEAN, NEW ks,
         \A k : k \in ks <=> k \in MissCounters(g, c, b, isWrite) \/ (wb /\ k = "writebacks"),
         Healthy(g, B, c), CacheType(g, B, d),
         d.seen = Noted(g, c, b), d.stats = Count(c.stats, ks),
         \A s \in Sets(g), w \in Ways(g) : d.lines[s][w].dirty => d.lines[s][w].valid
  PROVE  Healthy(g, B, d)
<1> DEFINE n == c.stats
           m == d.stats
<1>1. n \in [Counters -> Nat] /\ IsFiniteSet(c.seen) /\ CheckInvariants(g, c)
  BY DEF Healthy, CacheType
<1>2. /\ m["accesses"] = n["accesses"] + 1 /\ m["hits"] = n["hits"]
      /\ m["misses"] = n["misses"] + 1
      /\ g.classify3C =>
           /\ m["compulsory"] + m["capacity"] + m["conflict"]
                = n["compulsory"] + n["capacity"] + n["conflict"] + 1
           /\ m["compulsory"] = IF b \in c.seen THEN n["compulsory"] ELSE n["compulsory"] + 1
  BY <1>1, MissCounts
<1>3. IsFiniteSet(d.seen)
  <2>1. CASE g.classify3C
    <3>1. IsFiniteSet(Noted(g, c, b))
      BY <1>1, <2>1, NotedCount
    <3> QED BY <3>1
  <2>2. CASE ~g.classify3C
    <3>1. d.seen = c.seen
      BY <2>2 DEF Noted
    <3> QED BY <1>1, <3>1
  <2> QED BY <2>1, <2>2
<1>4. g.classify3C => m["compulsory"] = Cardinality(d.seen)
  BY <1>1, <1>2, NotedCount DEF CheckInvariants
<1>5. \A k \in Counters : n[k] \in Nat
  BY <1>1
<1>6. m["hits"] + m["misses"] = m["accesses"]
  BY <1>1, <1>2, <1>5 DEF CheckInvariants, Counters
<1>7. g.classify3C => m["compulsory"] + m["capacity"] + m["conflict"] = m["misses"]
  BY <1>1, <1>2, <1>5 DEF CheckInvariants, Counters
<1> QED
  BY <1>3, <1>4, <1>6, <1>7 DEF Healthy, CheckInvariants

\* A write-around leaves a cache that passes.
LEMMA WriteAroundHealthy ==
  ASSUME NEW g, NEW c, NEW B, NEW a, BlockOf(g, a) \in B, Healthy(g, B, c)
  PROVE  Healthy(g, B, AfterWriteAround(g, c, a))
<1> DEFINE b == BlockOf(g, a)
           d == AfterWriteAround(g, c, a)
           ks == MissCounters(g, c, b, TRUE)
<1>1. CacheType(g, B, d)
  BY WriteAroundType DEF Healthy
<1>2. d.seen = Noted(g, c, b) /\ d.stats = Count(c.stats, ks) /\ d.lines = c.lines
  BY DEF AfterWriteAround
<1>3. \A s \in Sets(g), w \in Ways(g) : d.lines[s][w].dirty => d.lines[s][w].valid
  BY <1>2 DEF Healthy, CheckInvariants
<1>4. \A k : k \in ks <=> k \in MissCounters(g, c, b, TRUE) \/ (FALSE /\ k = "writebacks")
  OBVIOUS
<1> HIDE DEF b, d, ks
<1> QED
  BY <1>1, <1>2, <1>3, <1>4, MissHealthy DEF d

\* So does a fill.
LEMMA FillHealthy ==
  ASSUME NEW g, Constructible(g), NEW c, NEW B, NEW a \in Nat, NEW isWrite \in BOOLEAN,
         NEW w \in Ways(g), BlockOf(g, a) \in B, Healthy(g, B, c)
  PROVE  Healthy(g, B, AfterFill(g, c, a, isWrite, w))
<1> DEFINE b == BlockOf(g, a)
           s == SetOf(g, b)
           d == AfterFill(g, c, a, isWrite, w)
           ks == FillCounters(g, c, b, isWrite, c.lines[s][w])
           wb == MustWriteBack(g, c.lines[s][w])
<1>1. CacheType(g, B, d)
  BY FillType DEF Healthy
<1>2. /\ d.seen = Noted(g, c, b)
      /\ d.lines = [c.lines EXCEPT ![s][w] = Installed(g, b, isWrite)]
  BY DEF AfterFill
<1>3. /\ d.stats = Count(c.stats, ks) /\ wb \in BOOLEAN
      /\ \A k : k \in ks <=> k \in MissCounters(g, c, b, isWrite) \/ (wb /\ k = "writebacks")
  BY FillCounts
<1>4. c.lines \in [Sets(g) -> [Ways(g) -> Line]] /\ s \in Sets(g)
  BY BlockOfType, Decomposition DEF Healthy, CacheType
<1> HIDE DEF b, s, d, ks, wb
<1>5. \A t \in Sets(g), u \in Ways(g) : d.lines[t][u].dirty => d.lines[t][u].valid
  <2> SUFFICES ASSUME NEW t \in Sets(g), NEW u \in Ways(g), d.lines[t][u].dirty
               PROVE  d.lines[t][u].valid
    OBVIOUS
  <2>1. CASE t = s /\ u = w
    <3>1. d.lines[t][u] = Installed(g, b, isWrite)
      BY <1>2, <1>4, <2>1
    <3> QED BY <3>1, InstalledFields
  <2>2. CASE ~(t = s /\ u = w)
    <3>1. d.lines[t][u] = c.lines[t][u]
      BY <1>2, <1>4, <2>2
    <3> QED BY <3>1 DEF Healthy, CheckInvariants
  <2> QED BY <2>1, <2>2
<1> QED
  BY <1>1, <1>2, <1>3, <1>5, MissHealthy DEF d

-----------------------------------------------------------------------------
(* What one access adds to the counters its traffic is held against.       *)

\* The counters the traffic law speaks of, before and after an access.
Adds(n, m, misses, writes, reads, writebacks) ==
  /\ m["accesses"] = n["accesses"] + (reads + writes)
  /\ m["misses"] = n["misses"] + misses
  /\ m["writes"] = n["writes"] + writes
  /\ m["reads"] = n["reads"] + reads
  /\ m["writebacks"] = n["writebacks"] + writebacks

One(p) == IF p THEN 1 ELSE 0

\* A hit adds one access.
LEMMA HitAdds ==
  ASSUME NEW g, NEW c, NEW a, NEW isWrite \in BOOLEAN, c.stats \in [Counters -> Nat]
  PROVE  Adds(c.stats, AfterHit(g, c, a, isWrite).stats, 0, One(isWrite), One(~isWrite), 0)
<1>1. AfterHit(g, c, a, isWrite).stats = Count(c.stats, HitCounters(isWrite))
  BY DEF AfterHit
<1>2. \A k \in Counters : c.stats[k] \in Nat
  OBVIOUS
<1> QED
  BY <1>1, <1>2, HitCounts DEF Adds, One, Counters

\* A write-around adds a store that misses.
LEMMA WriteAroundAdds ==
  ASSUME NEW g, NEW c, NEW a, c.stats \in [Counters -> Nat]
  PROVE  Adds(c.stats, AfterWriteAround(g, c, a).stats, 1, 1, 0, 0)
<1> DEFINE n == c.stats
           m == AfterWriteAround(g, c, a).stats
           ks == MissCounters(g, c, BlockOf(g, a), TRUE)
<1>1. m = Count(n, ks)
  BY DEF AfterWriteAround
<1>2. /\ "accesses" \in ks /\ "misses" \in ks /\ "writes" \in ks
      /\ "reads" \notin ks /\ "writebacks" \notin ks
  BY DEF MissCounters, Arrival, Verdict
<1> HIDE DEF ks, n, m
<1>3. \A k \in Counters : n[k] \in Nat /\ m[k] = IF k \in ks THEN n[k] + 1 ELSE n[k]
  BY <1>1, CountAt DEF n
<1>4. Adds(n, m, 1, 1, 0, 0)
  BY <1>2, <1>3 DEF Adds, Counters
<1> QED
  BY <1>4 DEF n, m

\* A fill adds a miss, and a write-back if its victim is dirty.
LEMMA FillAdds ==
  ASSUME NEW g, NEW c, NEW a, NEW isWrite \in BOOLEAN, NEW w, c.stats \in [Counters -> Nat]
  PROVE  LET wb == MustWriteBack(g, c.lines[SetOf(g, BlockOf(g, a))][w])
         IN  Adds(c.stats, AfterFill(g, c, a, isWrite, w).stats,
                  1, One(isWrite), One(~isWrite), One(wb))
<1> DEFINE b == BlockOf(g, a)
           frame == c.lines[SetOf(g, b)][w]
           ks == FillCounters(g, c, b, isWrite, frame)
           wb == MustWriteBack(g, frame)
           n == c.stats
           m == AfterFill(g, c, a, isWrite, w).stats
<1>1. /\ m = Count(n, ks) /\ wb \in BOOLEAN
      /\ \A k : k \in ks <=> k \in MissCounters(g, c, b, isWrite) \/ (wb /\ k = "writebacks")
  BY FillCounts
<1> HIDE DEF ks, wb, n, m
<1>2. /\ m["accesses"] = n["accesses"] + 1 /\ m["misses"] = n["misses"] + 1
      /\ m["writebacks"] = IF wb THEN n["writebacks"] + 1 ELSE n["writebacks"]
      /\ m["writes"] = IF isWrite THEN n["writes"] + 1 ELSE n["writes"]
      /\ m["reads"] = IF isWrite THEN n["reads"] ELSE n["reads"] + 1
  BY <1>1, MissCounts DEF n
<1>3. \A k \in Counters : n[k] \in Nat
  BY DEF n
<1>4. Adds(n, m, 1, One(isWrite), One(~isWrite), One(wb))
  BY <1>1, <1>2, <1>3 DEF Adds, One, Counters
<1> QED
  BY <1>4 DEF n, m, wb

\* The traffic law of a level: of the reads r and writes w it has sent below.
Law(g, n, r, w) ==
  /\ IF WritesBack(g) THEN r + w = n["misses"] + n["writebacks"]
                      ELSE w = n["writes"] /\ n["writebacks"] = 0
  /\ IF WriteAllocates(g) THEN r = n["misses"] ELSE r <= n["reads"]

\* Nothing is sent by a cache that was never asked.
LEMMA LawOfNewCache ==
  ASSUME NEW g
  PROVE  Law(g, NewCache(g).stats, 0, 0)
<1>1. \A k \in Counters : NewCache(g).stats[k] = 0
  BY DEF NewCache
<1> QED
  BY <1>1 DEF Law, Counters

\* Traffic that grows with the counters as the policies say keeps the law.
LEMMA LawGrows ==
  ASSUME NEW g, NEW n, NEW m, \A k \in Counters : n[k] \in Nat, NEW r \in Nat, NEW w \in Nat,
         NEW isWrite \in BOOLEAN, NEW miss \in BOOLEAN, NEW wb \in BOOLEAN, NEW around \in BOOLEAN,
         around <=> miss /\ isWrite /\ ~WriteAllocates(g),
         wb => WritesBack(g) /\ miss /\ ~around,
         Adds(n, m, One(miss), One(isWrite), One(~isWrite), One(wb)),
         Law(g, n, r, w)
  PROVE  Law(g, m, r + One(miss /\ ~around), w + One(around \/ wb \/ (isWrite /\ ~WritesBack(g))))
<1> DEFINE deferred == WritesBack(g)
           allocates == WriteAllocates(g)
           dr == One(miss /\ ~around)
           dw == One(around \/ wb \/ (isWrite /\ ~deferred))
<1>1. n["misses"] \in Nat /\ n["writes"] \in Nat /\ n["reads"] \in Nat /\ n["writebacks"] \in Nat
  BY DEF Counters
<1> HIDE DEF deferred, allocates
<1>2. ASSUME deferred PROVE (r + dr) + (w + dw) = m["misses"] + m["writebacks"]
  <2>1. dr + dw = One(miss) + One(wb) /\ dr \in Nat /\ dw \in Nat
    BY <1>2 DEF One, deferred
  <2>2. r + w = n["misses"] + n["writebacks"]
    BY <1>2 DEF Law, deferred
  <2>3. One(miss) \in Nat /\ One(wb) \in Nat
    BY DEF One
  <2> HIDE DEF dr, dw
  <2>4. m["misses"] = n["misses"] + One(miss) /\ m["writebacks"] = n["writebacks"] + One(wb)
    BY DEF Adds
  <2>5. (r + dr) + (w + dw) = m["misses"] + m["writebacks"]
    BY <1>1, <2>1, <2>2, <2>3, <2>4
  <2> QED BY <2>5
<1>3. ASSUME ~deferred PROVE w + dw = m["writes"] /\ m["writebacks"] = 0
  <2>1. dw = One(isWrite) /\ One(wb) = 0
    BY <1>3 DEF One, deferred, allocates
  <2>2. w = n["writes"] /\ n["writebacks"] = 0
    BY <1>3 DEF Law, deferred
  <2> HIDE DEF dr, dw
  <2> QED BY <1>1, <2>1, <2>2 DEF Adds
<1>4. ASSUME allocates PROVE r + dr = m["misses"]
  <2>1. dr = One(miss)
    BY <1>4 DEF One, allocates
  <2>2. r = n["misses"]
    BY <1>4 DEF Law, allocates
  <2> HIDE DEF dr, dw
  <2> QED BY <1>1, <2>1, <2>2 DEF Adds
<1>5. ASSUME ~allocates PROVE r + dr <= m["reads"]
  <2>1. dr <= One(~isWrite) /\ dr \in Nat /\ One(~isWrite) \in Nat
    BY <1>5 DEF One, allocates
  <2>2. r <= n["reads"]
    BY <1>5 DEF Law, allocates
  <2> HIDE DEF dr, dw
  <2> QED BY <1>1, <2>1, <2>2 DEF Adds
<1> HIDE DEF dr, dw
<1>6. Law(g, m, r + dr, w + dw)
  BY <1>2, <1>3, <1>4, <1>5 DEF Law, deferred, allocates
<1> QED
  BY <1>6 DEF dr, dw, deferred

\* A level fetches for no more than its misses, and for all of them but the
\* stores that go around: of the reads r it has sent below.
Fetches(n, r) == r <= n["misses"] /\ n["misses"] <= r + n["writes"]

\* An access that adds m - n to the counters of a level and sends so many
\* loads and stores below keeps the law.
Lawful(g, n, m, isWrite, loads, stores) ==
  /\ loads \in Nat /\ stores \in Nat
  /\ m["accesses"] = n["accesses"] + (One(~isWrite) + One(isWrite))
  /\ m["reads"] = n["reads"] + One(~isWrite)
  /\ m["writes"] = n["writes"] + One(isWrite)
  /\ \A r, w \in Nat : Law(g, n, r, w) => Law(g, m, r + loads, w + stores)
  /\ \A r \in Nat : Fetches(n, r) => Fetches(m, r + loads)

\* What LawGrows says of every traffic so far.
LEMMA LawfulAccess ==
  ASSUME NEW g, NEW n, NEW m, \A k \in Counters : n[k] \in Nat,
         NEW isWrite \in BOOLEAN, NEW miss \in BOOLEAN, NEW wb \in BOOLEAN, NEW around \in BOOLEAN,
         around <=> miss /\ isWrite /\ ~WriteAllocates(g),
         wb => WritesBack(g) /\ miss /\ ~around,
         Adds(n, m, One(miss), One(isWrite), One(~isWrite), One(wb))
  PROVE  Lawful(g, n, m, isWrite, One(miss /\ ~around),
                One(around \/ wb \/ (isWrite /\ ~WritesBack(g))))
<1> DEFINE loads == One(miss /\ ~around)
           stores == One(around \/ wb \/ (isWrite /\ ~WritesBack(g)))
<1>1. loads \in Nat /\ stores \in Nat
  BY DEF One
<1>2. ASSUME NEW r \in Nat, NEW w \in Nat, Law(g, n, r, w)
      PROVE  Law(g, m, r + loads, w + stores)
  <2> HIDE DEF Law, One, Adds
  <2> QED BY ZenonT(40), <1>2, LawGrows
<1>3. /\ m["accesses"] = n["accesses"] + (One(~isWrite) + One(isWrite))
      /\ m["reads"] = n["reads"] + One(~isWrite) /\ m["writes"] = n["writes"] + One(isWrite)
  BY DEF Adds
<1>4. ASSUME NEW r \in Nat, Fetches(n, r) PROVE Fetches(m, r + loads)
  <2>1. loads <= One(miss) /\ One(miss) <= loads + One(isWrite)
    BY DEF One
  <2>2. m["misses"] = n["misses"] + One(miss) /\ m["writes"] = n["writes"] + One(isWrite)
    BY DEF Adds
  <2>3. n["misses"] \in Nat /\ n["writes"] \in Nat
    BY DEF Counters
  <2>4. One(miss) \in Nat /\ One(isWrite) \in Nat
    BY DEF One
  <2> HIDE DEF loads
  <2> QED BY <1>1, <1>4, <2>1, <2>2, <2>3, <2>4 DEF Fetches
<1> HIDE DEF loads, stores
<1>5. Lawful(g, n, m, isWrite, loads, stores)
  BY <1>1, <1>2, <1>3, <1>4 DEF Lawful
<1> QED BY <1>5 DEF loads, stores

\* A hit is lawful: it sends a store that is written through.
LEMMA HitLawful ==
  ASSUME NEW g, NEW n, NEW m, \A k \in Counters : n[k] \in Nat, NEW isWrite \in BOOLEAN,
         Adds(n, m, 0, One(isWrite), One(~isWrite), 0)
  PROVE  Lawful(g, n, m, isWrite, 0, One(isWrite /\ ~WritesBack(g)))
<1> DEFINE no == FALSE
<1>1. /\ One(no) = 0 /\ One(no /\ ~no) = 0 /\ no \in BOOLEAN
      /\ no <=> no /\ isWrite /\ ~WriteAllocates(g)
      /\ no => WritesBack(g) /\ no /\ ~no
      /\ One(no \/ no \/ (isWrite /\ ~WritesBack(g))) = One(isWrite /\ ~WritesBack(g))
  BY DEF One
<1> HIDE DEF no
<1>2. Adds(n, m, One(no), One(isWrite), One(~isWrite), One(no))
  BY <1>1
<1>3. Lawful(g, n, m, isWrite, One(no /\ ~no), One(no \/ no \/ (isWrite /\ ~WritesBack(g))))
  BY <1>1, <1>2, LawfulAccess
<1> QED BY <1>1, <1>3

\* A write-around is lawful: it sends the store.
LEMMA WriteAroundLawful ==
  ASSUME NEW g, NEW n, NEW m, \A k \in Counters : n[k] \in Nat, ~WriteAllocates(g),
         NEW isWrite \in BOOLEAN, isWrite, Adds(n, m, 1, 1, 0, 0)
  PROVE  Lawful(g, n, m, isWrite, 0, 1)
<1> DEFINE yes == TRUE
           no == FALSE
<1>1. /\ One(yes) = 1 /\ One(no) = 0 /\ One(isWrite) = 1 /\ One(~isWrite) = 0
      /\ One(yes /\ ~yes) = 0 /\ One(yes \/ no \/ (isWrite /\ ~WritesBack(g))) = 1
      /\ no \in BOOLEAN /\ yes \in BOOLEAN
      /\ yes <=> yes /\ isWrite /\ ~WriteAllocates(g)
      /\ no => WritesBack(g) /\ yes /\ ~yes
  BY DEF One
<1> HIDE DEF yes, no
<1>2. Adds(n, m, One(yes), One(isWrite), One(~isWrite), One(no))
  BY <1>1
<1>3. Lawful(g, n, m, isWrite, One(yes /\ ~yes), One(yes \/ no \/ (isWrite /\ ~WritesBack(g))))
  BY <1>1, <1>2, LawfulAccess
<1> QED BY <1>1, <1>3

\* A fill is lawful: it sends the fetch, and the store of a dirty victim or
\* one that is written through.
LEMMA FillLawful ==
  ASSUME NEW g, NEW n, NEW m, \A k \in Counters : n[k] \in Nat,
         NEW isWrite \in BOOLEAN, NEW wb \in BOOLEAN,
         isWrite => WriteAllocates(g), wb => WritesBack(g),
         Adds(n, m, 1, One(isWrite), One(~isWrite), One(wb))
  PROVE  Lawful(g, n, m, isWrite, 1, One(wb \/ (isWrite /\ ~WritesBack(g))))
<1> DEFINE yes == TRUE
           no == FALSE
<1>1. /\ One(yes) = 1 /\ One(yes /\ ~no) = 1
      /\ One(no \/ wb \/ (isWrite /\ ~WritesBack(g))) = One(wb \/ (isWrite /\ ~WritesBack(g)))
      /\ no \in BOOLEAN /\ yes \in BOOLEAN
      /\ no <=> yes /\ isWrite /\ ~WriteAllocates(g)
      /\ wb => WritesBack(g) /\ yes /\ ~no
  BY DEF One
<1> HIDE DEF yes, no
<1>2. Adds(n, m, One(yes), One(isWrite), One(~isWrite), One(wb))
  BY <1>1
<1>3. Lawful(g, n, m, isWrite, One(yes /\ ~no), One(no \/ wb \/ (isWrite /\ ~WritesBack(g))))
  BY <1>1, <1>2, LawfulAccess
<1> QED BY <1>1, <1>3

-----------------------------------------------------------------------------
(* The stores a cache still owes.                                          *)

DirtyIn(g, c) == {f \in Sets(g) \X Ways(g) : c.lines[f[1]][f[2]].dirty}

\* A cache has finitely many of them.
LEMMA DirtyInFinite ==
  ASSUME NEW g, Constructible(g), NEW c
  PROVE  IsFiniteSet(DirtyIn(g, c)) /\ Cardinality(DirtyIn(g, c)) \in Nat
<1>1. IsFiniteSet(Sets(g)) /\ IsFiniteSet(Ways(g))
  BY GeometryType, FS_Interval DEF Sets, Ways
<1>2. IsFiniteSet(Sets(g) \X Ways(g))
  BY <1>1, FS_Product
<1>3. DirtyIn(g, c) \subseteq Sets(g) \X Ways(g)
  BY DEF DirtyIn
<1> QED BY <1>2, <1>3, FS_Subset, FS_CardinalityType

\* A new cache owes nothing.
LEMMA NewCacheOwesNothing ==
  ASSUME NEW g
  PROVE  Cardinality(DirtyIn(g, NewCache(g))) = 0
<1>1. DirtyIn(g, NewCache(g)) = {}
  BY DEF DirtyIn, NewCache, Empty
<1> QED BY <1>1, FS_EmptySet

\* An access costs at most one store below, now or when the line it dirties
\* leaves, and only if it is a store.
Coalesces(g, c, d, isWrite, stores) ==
  stores + Cardinality(DirtyIn(g, d)) <= Cardinality(DirtyIn(g, c)) + One(isWrite)

\* The most a set can gain when one element may come in.
LEMMA GainsOne ==
  ASSUME NEW D, IsFiniteSet(D), NEW x, NEW p \in BOOLEAN, NEW E,
         E \subseteq D \cup (IF p THEN {x} ELSE {})
  PROVE  Cardinality(E) <= Cardinality(D) + One(p) /\ Cardinality(E) \in Nat
<1>1. CASE p
  <2>1. IsFiniteSet(D \cup {x}) /\ Cardinality(D \cup {x}) <= Cardinality(D) + 1
    <3>1. /\ IsFiniteSet(D \cup {x})
          /\ Cardinality(D \cup {x}) = IF x \in D THEN Cardinality(D) ELSE Cardinality(D) + 1
      BY FS_AddElement
    <3>2. Cardinality(D) \in Nat
      BY FS_CardinalityType
    <3> QED BY <3>1, <3>2
  <2>2. E \subseteq D \cup {x}
    BY <1>1
  <2>3. IsFiniteSet(E) /\ Cardinality(E) <= Cardinality(D \cup {x})
    BY <2>1, <2>2, FS_Subset
  <2> QED BY <1>1, <2>1, <2>3, FS_CardinalityType DEF One
<1>2. CASE ~p
  <2>1. E \subseteq D
    BY <1>2
  <2>2. IsFiniteSet(E) /\ Cardinality(E) <= Cardinality(D)
    BY <2>1, FS_Subset
  <2> QED BY <1>2, <2>2, FS_CardinalityType DEF One
<1> QED BY <1>1, <1>2

\* A hit dirties at most the line it finds.
LEMMA HitCoalesces ==
  ASSUME NEW g, Constructible(g), NEW B, NEW c, CacheType(g, B, c),
         NEW a \in Nat, NEW isWrite \in BOOLEAN
  PROVE  Coalesces(g, c, AfterHit(g, c, a, isWrite), isWrite, One(isWrite /\ ~WritesBack(g)))
<1> DEFINE d == AfterHit(g, c, a, isWrite)
           s == SetOf(g, BlockOf(g, a))
           w == First(Matches(g, c, BlockOf(g, a)))
           p == isWrite /\ WritesBack(g)
           D == DirtyIn(g, c)
           E == DirtyIn(g, d)
<1>1. d.lines = [c.lines EXCEPT ![s][w].dirty = @ \/ p] /\ c.lines \in [Sets(g) -> [Ways(g) -> Line]]
  BY DEF AfterHit, CacheType
<1> HIDE DEF d, s, w
<1>2. ASSUME NEW t \in Sets(g), NEW u \in Ways(g), d.lines[t][u].dirty
      PROVE  c.lines[t][u].dirty \/ (p /\ t = s /\ u = w)
  <2>1. CASE t = s /\ u = w
    <3>1. d.lines[t][u] = [c.lines[t][u] EXCEPT !.dirty = @ \/ p]
      BY <1>1, <2>1
    <3>2. c.lines[t][u] \in Line
      BY <1>1
    <3>3. d.lines[t][u].dirty = (c.lines[t][u].dirty \/ p)
      BY <3>1, <3>2 DEF Line
    <3> QED BY <1>2, <2>1, <3>3
  <2>2. CASE ~(t = s /\ u = w)
    <3>1. d.lines[t][u] = c.lines[t][u]
      BY <1>1, <2>2
    <3> QED BY <1>2, <3>1
  <2> QED BY <2>1, <2>2
<1>3. E \subseteq D \cup (IF p THEN {<<s, w>>} ELSE {})
  BY <1>2 DEF DirtyIn
<1>4. IsFiniteSet(D) /\ Cardinality(D) \in Nat /\ p \in BOOLEAN
  BY DirtyInFinite
<1>5. One(isWrite /\ ~WritesBack(g)) + One(p) = One(isWrite) /\ One(p) \in Nat
      /\ One(isWrite /\ ~WritesBack(g)) \in Nat
  BY DEF One
<1> HIDE DEF p, D, E
<1>6. Cardinality(E) <= Cardinality(D) + One(p) /\ Cardinality(E) \in Nat
  BY <1>3, <1>4, GainsOne
<1>7. One(isWrite /\ ~WritesBack(g)) + Cardinality(E) <= Cardinality(D) + One(isWrite)
  BY <1>4, <1>5, <1>6
<1> QED BY <1>7 DEF Coalesces, d, D, E

\* A write-around changes no line.
LEMMA WriteAroundCoalesces ==
  ASSUME NEW g, Constructible(g), NEW c, NEW a, NEW isWrite \in BOOLEAN, isWrite
  PROVE  Coalesces(g, c, AfterWriteAround(g, c, a), isWrite, 1)
<1>1. AfterWriteAround(g, c, a).lines = c.lines
  BY DEF AfterWriteAround
<1>2. DirtyIn(g, AfterWriteAround(g, c, a)) = DirtyIn(g, c)
  BY <1>1 DEF DirtyIn
<1> QED BY <1>2, DirtyInFinite DEF Coalesces, One

\* A fill writes back the dirty line it evicts, and may dirty the new one.
LEMMA FillCoalesces ==
  ASSUME NEW g, Constructible(g), NEW B, NEW c, CacheType(g, B, c),
         NEW a \in Nat, NEW isWrite \in BOOLEAN, NEW w \in Ways(g),
         NEW wb, wb = MustWriteBack(g, c.lines[SetOf(g, BlockOf(g, a))][w]), wb \in BOOLEAN
  PROVE  Coalesces(g, c, AfterFill(g, c, a, isWrite, w), isWrite,
                   One(wb \/ (isWrite /\ ~WritesBack(g))))
<1> DEFINE b == BlockOf(g, a)
           d == AfterFill(g, c, a, isWrite, w)
           s == SetOf(g, b)
           p == isWrite /\ WritesBack(g)
           f == <<s, w>>
           D == DirtyIn(g, c)
           E == DirtyIn(g, d)
           stores == One(wb \/ (isWrite /\ ~WritesBack(g)))
<1>1. d.lines = [c.lines EXCEPT ![s][w] = Installed(g, b, isWrite)]
      /\ c.lines \in [Sets(g) -> [Ways(g) -> Line]]
  BY DEF AfterFill, CacheType
<1>2. s \in Sets(g) /\ Installed(g, b, isWrite).dirty = p
  BY BlockOfType, Decomposition, InstalledFields
<1>3. wb => WritesBack(g) /\ f \in D
  BY <1>2 DEF MustWriteBack, DirtyIn
<1> HIDE DEF d, b, s
<1>4. ASSUME NEW t \in Sets(g), NEW u \in Ways(g), d.lines[t][u].dirty
      PROVE  \/ c.lines[t][u].dirty /\ <<t, u>> # f
             \/ p /\ <<t, u>> = f
  <2>1. CASE t = s /\ u = w
    <3>1. d.lines[t][u] = Installed(g, b, isWrite)
      BY <1>1, <2>1
    <3> QED BY <1>2, <1>4, <2>1, <3>1
  <2>2. CASE ~(t = s /\ u = w)
    <3>1. d.lines[t][u] = c.lines[t][u]
      BY <1>1, <2>2
    <3> QED BY <1>4, <2>2, <3>1
  <2> QED BY <2>1, <2>2
<1>5. E \subseteq (D \ {f}) \cup (IF p THEN {f} ELSE {})
  BY <1>4 DEF DirtyIn
<1>6. IsFiniteSet(D) /\ Cardinality(D) \in Nat /\ p \in BOOLEAN
  BY DirtyInFinite
<1>7. /\ wb => stores = 1 /\ One(p) = One(isWrite)
      /\ ~wb => stores + One(p) = One(isWrite)
      /\ stores \in Nat /\ One(p) \in Nat /\ One(isWrite) \in Nat
  BY <1>3 DEF One
<1> HIDE DEF p, f, D, E, stores
<1>8. /\ IsFiniteSet(D \ {f}) /\ Cardinality(D \ {f}) \in Nat
      /\ Cardinality(D \ {f}) = IF f \in D THEN Cardinality(D) - 1 ELSE Cardinality(D)
  BY <1>6, FS_RemoveElement, FS_CardinalityType
<1>9. Cardinality(E) <= Cardinality(D \ {f}) + One(p) /\ Cardinality(E) \in Nat
  BY <1>5, <1>6, <1>8, GainsOne
<1>10. stores + Cardinality(E) <= Cardinality(D) + One(isWrite)
  <2>1. CASE wb
    BY <1>3, <1>6, <1>7, <1>8, <1>9, <2>1
  <2>2. CASE ~wb
    BY <1>6, <1>7, <1>8, <1>9, <2>2
  <2> QED BY <2>1, <2>2
<1> QED BY <1>10 DEF Coalesces, D, E, d, stores

-----------------------------------------------------------------------------
(* The blocks a cache holds, and what an access does to them.              *)

\* A dirty line is valid and its cache writes back; no set has a tag twice.
SoundLines(g, c) ==
  \A s \in Sets(g), w \in Ways(g) :
    /\ c.lines[s][w].dirty => c.lines[s][w].valid /\ WritesBack(g)
    /\ \A u \in Ways(g) :
         c.lines[s][w].valid /\ c.lines[s][u].valid /\ c.lines[s][w].tag = c.lines[s][u].tag
           => u = w

\* A dirty frame holds the block.
HasDirty(g, c, b) == \E w \in Matches(g, c, b) : c.lines[SetOf(g, b)][w].dirty

\* A new cache holds nothing.
LEMMA NewCacheHolds ==
  ASSUME NEW g, Constructible(g)
  PROVE  /\ SoundLines(g, NewCache(g))
         /\ \A x \in Nat : ~IsHit(g, NewCache(g), x) /\ ~HasDirty(g, NewCache(g), x)
<1>1. \A s \in Sets(g), w \in Ways(g) : NewCache(g).lines[s][w] = Empty
  BY DEF NewCache
<1>2. \A x \in Nat : Matches(g, NewCache(g), x) = {}
  BY <1>1, Decomposition DEF Matches, Empty
<1> QED
  BY <1>1, <1>2 DEF SoundLines, IsHit, HasDirty, Empty

\* A hit changes no block held, and makes dirty the one a store hits if the
\* cache writes back.
LEMMA HitHolds ==
  ASSUME NEW g, Constructible(g), NEW B, NEW c, CacheType(g, B, c), SoundLines(g, c),
         NEW a \in Nat, NEW isWrite \in BOOLEAN, IsHit(g, c, BlockOf(g, a)),
         NEW d, d = AfterHit(g, c, a, isWrite)
  PROVE  /\ SoundLines(g, d)
         /\ \A x \in Nat :
              /\ IsHit(g, d, x) <=> IsHit(g, c, x)
              /\ HasDirty(g, d, x) <=>
                   HasDirty(g, c, x) \/ (x = BlockOf(g, a) /\ isWrite /\ WritesBack(g))
<1> DEFINE b == BlockOf(g, a)
           s == SetOf(g, b)
           w == First(Matches(g, c, b))
           p == isWrite /\ WritesBack(g)
<1>1. w \in Matches(g, c, b) /\ b \in Nat /\ s \in Sets(g)
  BY MatchIsFrame, BlockOfType, Decomposition
<1>2. /\ w \in Ways(g) /\ c.lines[s][w].valid /\ c.lines[s][w].tag = TagOf(g, b)
      /\ c.lines \in [Sets(g) -> [Ways(g) -> Line]]
      /\ d.lines = [c.lines EXCEPT ![s][w].dirty = @ \/ p]
  BY <1>1 DEF Matches, CacheType, AfterHit
<1> HIDE DEF b, s, w
<1>3. ASSUME NEW t \in Sets(g), NEW u \in Ways(g)
      PROVE  /\ d.lines[t][u].valid = c.lines[t][u].valid
             /\ d.lines[t][u].tag = c.lines[t][u].tag
             /\ d.lines[t][u].dirty <=> c.lines[t][u].dirty \/ (p /\ t = s /\ u = w)
  <2>1. c.lines[t][u] \in Line
    BY <1>2
  <2>2. CASE t = s /\ u = w
    <3>1. d.lines[t][u] = [c.lines[t][u] EXCEPT !.dirty = @ \/ p]
      BY <1>1, <1>2, <2>2
    <3> QED BY <2>1, <2>2, <3>1 DEF Line
  <2>3. CASE ~(t = s /\ u = w)
    <3>1. d.lines[t][u] = c.lines[t][u]
      BY <1>2, <2>3
    <3> QED BY <2>3, <3>1
  <2> QED BY <2>2, <2>3
<1>4. SoundLines(g, d)
  BY <1>2, <1>3 DEF SoundLines
<1>5. ASSUME NEW x \in Nat
      PROVE  /\ IsHit(g, d, x) <=> IsHit(g, c, x)
             /\ HasDirty(g, d, x) <=> HasDirty(g, c, x) \/ (x = b /\ p)
  <2> DEFINE t == SetOf(g, x)
  <2>1. t \in Sets(g)
    BY Decomposition
  <2>2. Matches(g, d, x) = Matches(g, c, x)
    BY <1>3, <2>1 DEF Matches
  <2>3. IsHit(g, d, x) <=> IsHit(g, c, x)
    BY <2>2 DEF IsHit
  <2>4. ASSUME NEW u \in Matches(g, c, x)
        PROVE  d.lines[t][u].dirty <=> c.lines[t][u].dirty \/ (p /\ t = s /\ u = w)
    BY <1>3, <2>1 DEF Matches
  <2>5. ASSUME NEW u \in Matches(g, c, x), t = s, u = w PROVE x = b
    <3>1. TagOf(g, x) = TagOf(g, b) /\ SetOf(g, x) = SetOf(g, b)
      BY <1>2, <2>5 DEF Matches, s
    <3> QED BY <1>1, <3>1, Decomposition
  <2>6. CASE x = b
    BY <1>1, <2>2, <2>3, <2>4, <2>6 DEF HasDirty, s
  <2>7. CASE x # b
    BY <2>2, <2>3, <2>4, <2>5, <2>7 DEF HasDirty
  <2> QED BY <2>6, <2>7
<1> QED
  BY <1>4, <1>5 DEF b

\* A write-around changes no line.
LEMMA WriteAroundHolds ==
  ASSUME NEW g, NEW c, NEW a, NEW d, d = AfterWriteAround(g, c, a), SoundLines(g, c)
  PROVE  /\ SoundLines(g, d)
         /\ \A x : (IsHit(g, d, x) <=> IsHit(g, c, x)) /\ (HasDirty(g, d, x) <=> HasDirty(g, c, x))
<1>1. d.lines = c.lines
  BY DEF AfterWriteAround
<1> QED
  BY <1>1 DEF SoundLines, IsHit, HasDirty, Matches

\* The block a frame held before a fill took it.
Leaving(g, frame, s, x) == frame.valid /\ x = frame.tag * NumSets(g) + s

\* A fill brings in the block asked for, dirty if a store is kept, and loses
\* the one block that was in its frame.
LEMMA FillHolds ==
  ASSUME NEW g, Constructible(g), NEW B, NEW c, CacheType(g, B, c), SoundLines(g, c),
         NEW a \in Nat, NEW isWrite \in BOOLEAN, ~IsHit(g, c, BlockOf(g, a)), NEW w \in Ways(g),
         NEW d, d = AfterFill(g, c, a, isWrite, w),
         NEW s, s = SetOf(g, BlockOf(g, a)), NEW frame, frame = c.lines[s][w]
  PROVE  /\ SoundLines(g, d)
         /\ \A x \in Nat :
              /\ Leaving(g, frame, s, x) =>
                   /\ x # BlockOf(g, a) /\ IsHit(g, c, x) /\ (HasDirty(g, c, x) <=> frame.dirty)
              /\ IsHit(g, d, x) <=>
                   x = BlockOf(g, a) \/ (IsHit(g, c, x) /\ ~Leaving(g, frame, s, x))
              /\ HasDirty(g, d, x) <=>
                   \/ x = BlockOf(g, a) /\ isWrite /\ WritesBack(g)
                   \/ HasDirty(g, c, x) /\ ~Leaving(g, frame, s, x)
<1> DEFINE b == BlockOf(g, a)
           p == isWrite /\ WritesBack(g)
           new == Installed(g, b, isWrite)
<1>1. /\ b \in Nat /\ s \in Sets(g) /\ s = SetOf(g, b)
      /\ c.lines \in [Sets(g) -> [Ways(g) -> Line]]
      /\ d.lines = [c.lines EXCEPT ![s][w] = new]
      /\ new.valid /\ (new.dirty <=> p) /\ new.tag = TagOf(g, b)
  BY BlockOfType, Decomposition, InstalledFields DEF CacheType, AfterFill
<1>2. frame \in Line /\ frame.tag \in Nat
  BY <1>1 DEF Line
<1>3. \A u \in Ways(g) : ~(c.lines[s][u].valid /\ c.lines[s][u].tag = TagOf(g, b))
  BY <1>1 DEF IsHit, Matches
<1> HIDE DEF b, new
<1>4. /\ d.lines[s][w] = new
      /\ \A t \in Sets(g), u \in Ways(g) : t # s \/ u # w => d.lines[t][u] = c.lines[t][u]
  BY <1>1
<1>5. SoundLines(g, d)
  <2> SUFFICES ASSUME NEW t \in Sets(g), NEW u \in Ways(g)
               PROVE  /\ d.lines[t][u].dirty => d.lines[t][u].valid /\ WritesBack(g)
                      /\ \A v \in Ways(g) :
                           d.lines[t][u].valid /\ d.lines[t][v].valid
                             /\ d.lines[t][u].tag = d.lines[t][v].tag => v = u
    BY DEF SoundLines
  <2>1. d.lines[t][u].dirty => d.lines[t][u].valid /\ WritesBack(g)
    <3>1. CASE t = s /\ u = w
      BY <1>1, <1>4, <3>1
    <3>2. CASE ~(t = s /\ u = w)
      BY <1>4, <3>2 DEF SoundLines
    <3> QED BY <3>1, <3>2
  <2>2. ASSUME NEW v \in Ways(g), d.lines[t][u].valid, d.lines[t][v].valid,
               d.lines[t][u].tag = d.lines[t][v].tag, v # u
        PROVE  FALSE
    <3>1. CASE t = s /\ u = w
      BY <1>1, <1>3, <1>4, <2>2, <3>1
    <3>2. CASE t = s /\ v = w
      BY <1>1, <1>3, <1>4, <2>2, <3>2
    <3>3. CASE ~(t = s /\ u = w) /\ ~(t = s /\ v = w)
      BY <1>4, <2>2, <3>3 DEF SoundLines
    <3> QED BY <3>1, <3>2, <3>3
  <2> QED BY <2>1, <2>2
<1>6. ASSUME NEW x \in Nat
      PROVE  /\ Leaving(g, frame, s, x) =>
                  x # b /\ IsHit(g, c, x) /\ (HasDirty(g, c, x) <=> frame.dirty)
             /\ IsHit(g, d, x) <=> x = b \/ (IsHit(g, c, x) /\ ~Leaving(g, frame, s, x))
             /\ HasDirty(g, d, x) <=>
                  (x = b /\ p) \/ (HasDirty(g, c, x) /\ ~Leaving(g, frame, s, x))
  <2> DEFINE t == SetOf(g, x)
             M == Matches(g, c, x)
             N == Matches(g, d, x)
  <2>1. t \in Sets(g) /\ TagOf(g, x) * NumSets(g) + t = x
    BY Decomposition
  <2>2. Leaving(g, frame, s, x) <=> frame.valid /\ t = s /\ TagOf(g, x) = frame.tag
    BY <1>1, <1>2, <2>1, Recomposition DEF Leaving
  <2>3. Leaving(g, frame, s, x) <=> t = s /\ w \in M
    BY <2>2 DEF Matches
  <2>4. \A u \in M, v \in M : u = v
    BY <2>1 DEF Matches, SoundLines
  <2>5. \A u \in Ways(g) : (t # s \/ u # w) => (u \in N <=> u \in M)
    BY <1>4, <2>1 DEF Matches
  <2>6. t = s => (w \in N <=> x = b)
    <3>1. x = b <=> (t = s /\ TagOf(g, x) = TagOf(g, b))
      BY <1>1, <2>1, Decomposition
    <3> QED BY <1>1, <1>4, <3>1 DEF Matches
  <2>7. x = b => t = s /\ M = {}
    BY <1>1, <1>3 DEF Matches
  <2>8. M \subseteq Ways(g) /\ N \subseteq Ways(g)
    BY DEF Matches
  <2>9. \A u \in Ways(g) : (t # s \/ u # w) => d.lines[t][u].dirty = c.lines[t][u].dirty
    BY <1>4, <2>1
  <2> DEFINE hit == IsHit(g, c, x)
             dirt == HasDirty(g, c, x)
             leaves == Leaving(g, frame, s, x)
  <2>10. /\ hit <=> M # {}
         /\ dirt <=> \E u \in M : c.lines[t][u].dirty
         /\ IsHit(g, d, x) <=> N # {}
         /\ HasDirty(g, d, x) <=> \E u \in N : d.lines[t][u].dirty
    BY DEF IsHit, HasDirty
  <2>11. leaves => x # b /\ hit /\ (dirt <=> frame.dirty)
    <3>1. leaves => M = {w} /\ t = s
      BY <2>3, <2>4
    <3> QED BY <2>7, <2>10, <3>1
  <2> HIDE DEF t, M, N, hit, dirt, leaves
  <2>12. CASE x = b
    <3>1. N = {w} /\ t = s /\ ~hit /\ ~dirt
      BY <2>5, <2>6, <2>7, <2>8, <2>10, <2>12
    <3> QED BY <1>1, <1>4, <2>10, <2>11, <2>12, <3>1 DEF hit, dirt, leaves
  <2>13. CASE x # b /\ leaves
    <3>1. M = {w} /\ t = s
      BY <2>3, <2>4, <2>13 DEF leaves
    <3>2. N = {}
      BY <2>5, <2>6, <2>8, <2>13, <3>1
    <3> QED BY <2>10, <2>11, <2>13, <3>2 DEF hit, dirt, leaves
  <2>14. CASE x # b /\ ~leaves
    <3>1. w \notin M \/ t # s
      BY <2>3, <2>14 DEF leaves
    <3>2. N = M /\ \A u \in M : t # s \/ u # w
      BY <2>5, <2>6, <2>8, <2>14, <3>1
    <3>3. \A u \in M : d.lines[t][u].dirty = c.lines[t][u].dirty
      BY <2>8, <2>9, <3>2
    <3> QED BY <2>10, <2>11, <2>14, <3>2, <3>3 DEF hit, dirt, leaves
  <2> QED BY <2>12, <2>13, <2>14
<1> QED
  BY <1>5, <1>6 DEF b

-----------------------------------------------------------------------------
(* The blocks in the frames, and how full a set is.                        *)

BlockIn(g, c, f) == c.lines[f[1]][f[2]].tag * NumSets(g) + f[1]

\* The valid frames hold the blocks the search finds, the dirty ones those it
\* finds dirty.
LEMMA FramesHold ==
  ASSUME NEW g, Constructible(g), NEW B, NEW c, CacheType(g, B, c), SoundLines(g, c)
  PROVE  LET frames == Sets(g) \X Ways(g)
         IN  /\ {BlockIn(g, c, f) : f \in {h \in frames : c.lines[h[1]][h[2]].valid}}
                  = {x \in Nat : IsHit(g, c, x)}
             /\ {BlockIn(g, c, f) : f \in {h \in frames : c.lines[h[1]][h[2]].dirty}}
                  = {x \in Nat : HasDirty(g, c, x)}
<1> DEFINE valid == {h \in Sets(g) \X Ways(g) : c.lines[h[1]][h[2]].valid}
           owing == {h \in Sets(g) \X Ways(g) : c.lines[h[1]][h[2]].dirty}
<1>1. ASSUME NEW f \in valid
      PROVE  /\ BlockIn(g, c, f) \in Nat /\ SetOf(g, BlockIn(g, c, f)) = f[1]
             /\ f[2] \in Matches(g, c, BlockIn(g, c, f))
  <2>1. /\ f[1] \in Sets(g) /\ f[2] \in Ways(g) /\ c.lines[f[1]][f[2]].valid
        /\ c.lines[f[1]][f[2]].tag \in Nat
    BY DEF CacheType, Line
  <2>2. /\ BlockIn(g, c, f) \in Nat /\ SetOf(g, BlockIn(g, c, f)) = f[1]
        /\ TagOf(g, BlockIn(g, c, f)) = c.lines[f[1]][f[2]].tag
    BY <2>1, Recomposition DEF BlockIn
  <2> QED BY <2>1, <2>2 DEF Matches
<1>2. ASSUME NEW x \in Nat, NEW w \in Matches(g, c, x)
      PROVE  /\ <<SetOf(g, x), w>> \in valid /\ BlockIn(g, c, <<SetOf(g, x), w>>) = x
             /\ c.lines[SetOf(g, x)][w].dirty => <<SetOf(g, x), w>> \in owing
  <2>1. /\ w \in Ways(g) /\ SetOf(g, x) \in Sets(g) /\ c.lines[SetOf(g, x)][w].valid
        /\ c.lines[SetOf(g, x)][w].tag = TagOf(g, x)
    BY Decomposition DEF Matches
  <2> QED BY <2>1, Decomposition DEF BlockIn
<1>3. owing \subseteq valid
  BY DEF SoundLines
<1>4. \A f \in owing : c.lines[f[1]][f[2]].dirty
  OBVIOUS
<1> HIDE DEF valid, owing
<1>5. {BlockIn(g, c, f) : f \in valid} = {x \in Nat : IsHit(g, c, x)}
  BY <1>1, <1>2 DEF IsHit
<1>6. {BlockIn(g, c, f) : f \in owing} = {x \in Nat : HasDirty(g, c, x)}
  BY <1>1, <1>2, <1>3, <1>4 DEF HasDirty
<1> QED
  BY <1>5, <1>6 DEF valid, owing

SetBlocks(g, c, s) == {x \in Nat : IsHit(g, c, x) /\ SetOf(g, x) = s}

\* A set holds as many blocks as ways of it are taken: all of them if it is
\* full, fewer if not.
LEMMA BlocksInSet ==
  ASSUME NEW g, Constructible(g), NEW B, NEW c, CacheType(g, B, c), SoundLines(g, c),
         NEW s \in Sets(g)
  PROVE  /\ IsFiniteSet(SetBlocks(g, c, s)) /\ Cardinality(SetBlocks(g, c, s)) \in Nat
         /\ Cardinality(SetBlocks(g, c, s)) <= g.associativity
         /\ Cardinality(SetBlocks(g, c, s)) = g.associativity <=> EmptyWays(g, c, s) = {}
<1> DEFINE taken == Ways(g) \ EmptyWays(g, c, s)
           blocks == SetBlocks(g, c, s)
           block == [w \in taken |-> c.lines[s][w].tag * NumSets(g) + s]
           n == g.associativity
<1>1. n \in Nat \ {0}
  BY GeometryType
<1>2. IsFiniteSet(Ways(g)) /\ Cardinality(Ways(g)) = n
  BY WayCount
<1>3. IsFiniteSet(taken) /\ Cardinality(taken) \in Nat /\ Cardinality(taken) <= n
  BY <1>2, FS_Subset, FS_CardinalityType
<1>4. Cardinality(taken) = n <=> EmptyWays(g, c, s) = {}
  <2>1. EmptyWays(g, c, s) \subseteq Ways(g)
    BY DEF EmptyWays
  <2>2. Cardinality(taken) = n => taken = Ways(g)
    BY <1>2, FS_Subset
  <2>3. taken = Ways(g) <=> EmptyWays(g, c, s) = {}
    BY <2>1
  <2> QED
    BY <1>2, <2>2, <2>3
<1>5. ASSUME NEW w \in taken
      PROVE  /\ w \in Ways(g) /\ c.lines[s][w].valid /\ block[w] \in blocks
             /\ TagOf(g, block[w]) = c.lines[s][w].tag
  <2>1. w \in Ways(g) /\ c.lines[s][w].valid /\ c.lines[s][w].tag \in Nat
    BY DEF EmptyWays, CacheType, Line
  <2>2. /\ block[w] \in Nat /\ SetOf(g, block[w]) = s
        /\ TagOf(g, block[w]) = c.lines[s][w].tag
    BY <2>1, Recomposition
  <2>3. w \in Matches(g, c, block[w])
    BY <2>1, <2>2 DEF Matches
  <2> QED
    BY <2>1, <2>2, <2>3 DEF SetBlocks, IsHit
<1>6. ASSUME NEW x \in blocks PROVE \E w \in taken : block[w] = x
  <2>1. x \in Nat /\ SetOf(g, x) = s /\ Matches(g, c, x) # {}
    BY DEF SetBlocks, IsHit
  <2>2. PICK w \in Matches(g, c, x) : TRUE
    BY <2>1
  <2>3. w \in Ways(g) /\ c.lines[s][w].valid /\ c.lines[s][w].tag = TagOf(g, x)
    BY <2>1, <2>2 DEF Matches
  <2>4. w \in taken
    BY <2>3 DEF EmptyWays
  <2>5. block[w] = x
    BY <2>1, <2>3, <2>4, Decomposition
  <2> QED
    BY <2>4, <2>5
<1>7. ASSUME NEW w \in taken, NEW u \in taken, block[w] = block[u] PROVE w = u
  <2>1. /\ c.lines[s][w].valid /\ c.lines[s][u].valid /\ w \in Ways(g) /\ u \in Ways(g)
        /\ c.lines[s][w].tag = c.lines[s][u].tag
    BY <1>5, <1>7
  <2> QED
    BY <2>1 DEF SoundLines
<1> HIDE DEF taken, blocks
<1>8. block \in Bijection(taken, blocks)
  BY <1>5, <1>6, <1>7 DEF Bijection, Injection, Surjection, IsInjective
<1>9. Cardinality(blocks) = Cardinality(taken) /\ IsFiniteSet(blocks)
  BY <1>3, <1>8, FS_Bijection DEF ExistsBijection
<1> QED
  BY <1>3, <1>4, <1>9 DEF blocks

\* A fill takes an empty frame as long as its set has one.
LEMMA PickTakesEmpty ==
  ASSUME NEW g, Constructible(g), NEW c, NEW s, NEW w \in PickWays(g, c, s)
  PROVE  w \in Ways(g) /\ (c.lines[s][w].valid <=> EmptyWays(g, c, s) = {})
<1>1. w \in Ways(g)
  BY PickIsWay
<1>2. ASSUME EmptyWays(g, c, s) # {} PROVE w \in EmptyWays(g, c, s)
  <2>1. EmptyWays(g, c, s) \in SUBSET Nat
    BY GeometryType DEF EmptyWays, Ways
  <2> QED
    BY <1>2, <2>1, FirstIsLeast DEF PickWays
<1> QED
  BY <1>1, <1>2 DEF EmptyWays

-----------------------------------------------------------------------------
(* Blocks of two sizes.                                                    *)

\* A power of two other than one is twice a power of two.
LEMMA HalfOfPower ==
  ASSUME NEW x \in Nat, IsPow2(x), x # 1
  PROVE  /\ x \div 2 \in Nat \ {0} /\ x = 2 * (x \div 2) /\ x \div 2 < x
         /\ IsPow2(x \div 2)
<1>1. x # 0 /\ \A d \in 1 .. x : x % d = 0 => (d = 1 \/ d % 2 = 0)
  BY DEF IsPow2
<1>2. x % x = 0 /\ x \in 1 .. x
  BY <1>1
<1>3. x % 2 = 0
  BY <1>1, <1>2
<1> DEFINE h == x \div 2
<1>4. h \in Nat \ {0} /\ x = 2 * h /\ h < x
  BY <1>1, <1>3
<1> HIDE DEF h
<1>5. ASSUME NEW d \in 1 .. h, h % d = 0 PROVE d = 1 \/ d % 2 = 0
  <2>1. \A m \in Nat, n \in Nat \ {0} : m % n = 0 => m = (m \div n) * n /\ m \div n \in Nat
    OBVIOUS
  <2>2. PICK k \in Nat : h = k * d
    BY <1>4, <1>5, <2>1
  <2> DEFINE q == 2 * k
  <2>3. x = q * d /\ q \in Nat /\ d \in Nat \ {0}
    BY <1>4, <2>2
  <2> HIDE DEF q
  <2>4. \A m \in Nat, n \in Nat \ {0} : (m * n) % n = 0
    OBVIOUS
  <2>5. x % d = 0
    BY <2>3, <2>4
  <2> QED BY <1>1, <1>4, <2>5
<1> QED
  BY <1>4, <1>5 DEF h, IsPow2

\* Of two powers of two the smaller divides the larger.
LEMMA PowersDivide ==
  ASSUME NEW x \in Nat, NEW y \in Nat, IsPow2(x), IsPow2(y), x <= y
  PROVE  \E k \in Nat \ {0} : y = k * x
<1> DEFINE Multiple(m, n) == \E k \in Nat \ {0} : m = k * n
           Bad == {m \in Nat : IsPow2(m) /\ \E n \in Nat : IsPow2(n) /\ n <= m /\ ~Multiple(m, n)}
<1> SUFFICES ASSUME Bad # {} PROVE FALSE
  OBVIOUS
<1> DEFINE m == First(Bad)
<1>1. m \in Bad /\ \A u \in Bad : m <= u
  <2>1. Bad \in SUBSET Nat
    OBVIOUS
  <2> HIDE DEF Bad
  <2> QED BY <2>1, FirstIsLeast
<1>2. m \in Nat /\ IsPow2(m)
  BY <1>1
<1>3. PICK n \in Nat : IsPow2(n) /\ n <= m /\ ~Multiple(m, n)
  BY <1>1
<1> HIDE DEF m
<1>4. m # 0 /\ n # 0
  BY <1>2, <1>3 DEF IsPow2
<1>5. n # 1
  <2>1. n = 1 => m = m * n
    BY <1>2
  <2> QED BY <1>2, <1>3, <1>4, <2>1
<1>6. m # 1
  BY <1>3, <1>4, <1>5
<1> DEFINE i == m \div 2
           j == n \div 2
<1>7. /\ i \in Nat \ {0} /\ m = 2 * i /\ i < m /\ IsPow2(i)
      /\ j \in Nat \ {0} /\ n = 2 * j /\ j < n /\ IsPow2(j)
  BY <1>2, <1>3, <1>5, <1>6, HalfOfPower
<1> HIDE DEF i, j
<1>8. i \notin Bad
  <2> HIDE DEF Bad
  <2> QED BY <1>1, <1>2, <1>7
<1>9. PICK k \in Nat \ {0} : i = k * j
  BY <1>3, <1>7, <1>8
<1>10. m = k * n
  BY <1>7, <1>9
<1> QED
  BY <1>3, <1>10

\* Dividing by a product is dividing twice.
LEMMA DivideTwice ==
  ASSUME NEW a \in Nat, NEW x \in Nat \ {0}, NEW k \in Nat \ {0}
  PROVE  a \div (k * x) = (a \div x) \div k
<1>1. \A m \in Nat, n \in Nat \ {0} :
        m \div n \in Nat /\ (m \div n) * n <= m /\ m < (m \div n + 1) * n
  OBVIOUS
<1>2. \A m \in Nat, n \in Nat \ {0}, q \in Nat : q * n <= m /\ m < (q + 1) * n => m \div n = q
  OBVIOUS
<1>3. k * x \in Nat \ {0}
  OBVIOUS
<1> DEFINE p == a \div x
           q == a \div (k * x)
<1>4. /\ p \in Nat /\ p * x <= a /\ a < (p + 1) * x
      /\ q \in Nat /\ q * (k * x) <= a /\ a < (q + 1) * (k * x)
  BY <1>1, <1>3
<1> HIDE DEF p, q
<1>5. \A m, n \in Nat : m * x < n * x => m < n
  OBVIOUS
<1>6. q * k < p + 1
  <2>1. (q * k) * x = q * (k * x) /\ q * k \in Nat /\ p + 1 \in Nat
    BY <1>4
  <2>2. (q * k) * x < (p + 1) * x
    BY <1>3, <1>4, <2>1
  <2> QED BY <1>5, <2>1, <2>2
<1>7. p < (q + 1) * k
  <2>1. ((q + 1) * k) * x = (q + 1) * (k * x) /\ (q + 1) * k \in Nat
    BY <1>4
  <2>2. p * x < ((q + 1) * k) * x
    BY <1>3, <1>4, <2>1
  <2> QED BY <1>4, <1>5, <2>1, <2>2
<1>8. q * k <= p
  BY <1>4, <1>6
<1> QED
  BY <1>2, <1>4, <1>7, <1>8 DEF p, q

\* Bytes of one block are in one block of a cache whose blocks are no smaller.
LEMMA BlocksNest ==
  ASSUME NEW f, NEW g, Constructible(f), Constructible(g), f.blockSize <= g.blockSize
  PROVE  \A a, b \in Nat : BlockOf(f, a) = BlockOf(f, b) => BlockOf(g, a) = BlockOf(g, b)
<1>1. /\ f.blockSize \in Nat \ {0} /\ g.blockSize \in Nat \ {0}
      /\ IsPow2(f.blockSize) /\ IsPow2(g.blockSize)
  BY GeometryType DEF Constructible
<1>2. PICK k \in Nat \ {0} : g.blockSize = k * f.blockSize
  BY <1>1, PowersDivide
<1>3. \A a \in Nat : BlockOf(g, a) = BlockOf(f, a) \div k
  BY <1>1, <1>2, DivideTwice DEF BlockOf
<1> QED
  BY <1>3
-----------------------------------------------------------------------------
(* One access of one cache.                                                *)

\* What a Cache object keeps between two accesses.
Kept(g, c) == Healthy(g, Nat, c) /\ SoundLines(g, c)

LEMMA KeptFacts ==
  ASSUME NEW g, NEW c, Kept(g, c)
  PROVE  /\ CacheType(g, Nat, c) /\ SoundLines(g, c)
         /\ c.lines \in [Sets(g) -> [Ways(g) -> Line]]
         /\ c.repl \in PolicyType(g)
         /\ c.stats \in [Counters -> Nat]
         /\ RefFAType(c.refFA, Nat) /\ IsFiniteSet(c.seen) /\ CheckInvariants(g, c)
BY DEF Kept, Healthy, CacheType

\* Cache::access takes one of its three paths.
LEMMA AccessPaths ==
  ASSUME NEW g, NEW c, NEW a, NEW isWrite, NEW d \in AfterAccess(g, c, a, isWrite)
  PROVE  \/ IsHit(g, c, BlockOf(g, a)) /\ d = AfterHit(g, c, a, isWrite)
         \/ /\ ~IsHit(g, c, BlockOf(g, a)) /\ isWrite /\ ~WriteAllocates(g)
            /\ d = AfterWriteAround(g, c, a)
         \/ /\ ~IsHit(g, c, BlockOf(g, a)) /\ (isWrite => WriteAllocates(g))
            /\ \E w \in PickWays(g, c, SetOf(g, BlockOf(g, a))) : d = AfterFill(g, c, a, isWrite, w)
BY DEF AfterAccess

LEMMA AccessKeeps ==
  ASSUME NEW g, Constructible(g), NEW c, Kept(g, c), NEW a \in Nat, NEW isWrite \in BOOLEAN,
         NEW d \in AfterAccess(g, c, a, isWrite)
  PROVE  Kept(g, d)
<1> DEFINE b == BlockOf(g, a)
<1>1. b \in Nat /\ CacheType(g, Nat, c) /\ SoundLines(g, c) /\ Healthy(g, Nat, c)
  BY BlockOfType DEF Kept, Healthy
<1>2. CASE IsHit(g, c, b) /\ d = AfterHit(g, c, a, isWrite)
  BY <1>1, <1>2, HitHealthy, HitHolds DEF Kept
<1>3. CASE d = AfterWriteAround(g, c, a)
  BY <1>1, <1>3, WriteAroundHealthy, WriteAroundHolds DEF Kept
<1>4. CASE /\ ~IsHit(g, c, b)
           /\ \E w \in PickWays(g, c, SetOf(g, b)) : d = AfterFill(g, c, a, isWrite, w)
  <2>1. PICK w \in Ways(g) : d = AfterFill(g, c, a, isWrite, w)
    BY <1>4, PickIsWay
  <2> DEFINE s == SetOf(g, b)
             frame == c.lines[s][w]
  <2>2. Healthy(g, Nat, d)
    BY <1>1, <2>1, FillHealthy
  <2>3. SoundLines(g, d)
    BY <1>1, <1>4, <2>1, FillHolds
  <2> QED
    BY <2>2, <2>3 DEF Kept
<1> QED
  BY <1>2, <1>3, <1>4, AccessPaths

\* A new cache keeps it all.
LEMMA NewCacheKept ==
  ASSUME NEW g, Constructible(g)
  PROVE  Kept(g, NewCache(g))
BY NewCacheHealthy, NewCacheHolds DEF Kept

-----------------------------------------------------------------------------
(* The order a cache keeps its blocks in.                                  *)

\* The stamp of the frame that holds block x.
LastUse(g, c, x) == c.repl.stamp[SetOf(g, x)][First(Matches(g, c, x))]

\* It is that of the only frame that holds it.
LEMMA StampAt ==
  ASSUME NEW g, Constructible(g), NEW c, Kept(g, c), NEW x \in Nat, NEW w \in Matches(g, c, x)
  PROVE  /\ LastUse(g, c, x) = c.repl.stamp[SetOf(g, x)][w]
         /\ LastUse(g, c, x) \in Nat
         /\ w \in Ways(g) /\ SetOf(g, x) \in Sets(g) /\ First(Matches(g, c, x)) = w
         /\ c.lines[SetOf(g, x)][w].valid /\ c.lines[SetOf(g, x)][w].tag = TagOf(g, x)
<1> DEFINE s == SetOf(g, x)
           u == First(Matches(g, c, x))
<1>1. u \in Matches(g, c, x)
  BY MatchIsFrame DEF IsHit
<1>2. s \in Sets(g)
  BY Decomposition
<1> HIDE DEF u
<1>3. /\ u \in Ways(g) /\ w \in Ways(g)
      /\ c.lines[s][w].valid /\ c.lines[s][u].valid
      /\ c.lines[s][w].tag = TagOf(g, x) /\ c.lines[s][u].tag = TagOf(g, x)
  BY <1>1 DEF Matches
<1>4. u = w
  BY <1>2, <1>3 DEF Kept, SoundLines
<1>5. c.repl.stamp[s][w] \in Nat
  BY <1>2, <1>3, KeptFacts DEF PolicyType
<1> QED
  BY <1>2, <1>3, <1>4, <1>5 DEF LastUse, u

\* A block is in a frame of its set.
LEMMA HeldInFrame ==
  ASSUME NEW g, NEW c, NEW x, IsHit(g, c, x)
  PROVE  \E w : w \in Matches(g, c, x)
BY DEF IsHit

\* Two blocks in one frame are one.
LEMMA FrameHoldsOne ==
  ASSUME NEW g, Constructible(g), NEW c, NEW x \in Nat, NEW y \in Nat, NEW w,
         w \in Matches(g, c, x), w \in Matches(g, c, y), SetOf(g, x) = SetOf(g, y)
  PROVE  x = y
BY Decomposition DEF Matches

\* An access that the policy is told of leaves its block in the cache as the
\* last one used, and the others as they were.  One leaves only if the set is
\* full and the block was not there, and it is the one used least recently.
Touched(g, c, d, b) ==
  /\ IsHit(g, d, b)
  /\ LastUse(g, d, b) = c.repl.clock + 1 /\ d.repl.clock = c.repl.clock + 1
  /\ \A x \in Nat \ {b} :
       IsHit(g, d, x) => IsHit(g, c, x) /\ LastUse(g, d, x) = LastUse(g, c, x)
  /\ \A x \in Nat : IsHit(g, c, x) /\ ~IsHit(g, d, x) =>
       /\ ~IsHit(g, c, b) /\ SetOf(g, x) = SetOf(g, b)
       /\ EmptyWays(g, c, SetOf(g, b)) = {}
       /\ \A y \in Nat :
            IsHit(g, c, y) /\ SetOf(g, y) = SetOf(g, b) => LastUse(g, c, x) <= LastUse(g, c, y)
  /\ ~IsHit(g, c, b) /\ EmptyWays(g, c, SetOf(g, b)) = {} =>
       \E v \in Nat : IsHit(g, c, v) /\ ~IsHit(g, d, v) /\ SetOf(g, v) = SetOf(g, b)
  /\ \A s \in Sets(g) : EmptyWays(g, d, s) \subseteq EmptyWays(g, c, s)

\* The stamps of the frames after one of them was stamped.
LEMMA StampedAt ==
  ASSUME NEW g, NEW r \in PolicyType(g), NEW s \in Sets(g), NEW w \in Ways(g)
  PROVE  /\ Stamped(r, s, w).clock = r.clock + 1
         /\ Stamped(r, s, w).stamp[s][w] = r.clock + 1
         /\ \A t \in Sets(g), u \in Ways(g) :
              t # s \/ u # w => Stamped(r, s, w).stamp[t][u] = r.stamp[t][u]
BY DEF Stamped, PolicyType

\* The policy is told of a hit if it is LRU.
LEMMA HitTouches ==
  ASSUME NEW g, Constructible(g), g.replacement = "LRU", NEW c, Kept(g, c),
         NEW a \in Nat, NEW isWrite \in BOOLEAN, IsHit(g, c, BlockOf(g, a)),
         NEW d, d = AfterHit(g, c, a, isWrite), Kept(g, d)
  PROVE  Touched(g, c, d, BlockOf(g, a))
<1> DEFINE b == BlockOf(g, a)
           s == SetOf(g, b)
           w == First(Matches(g, c, b))
<1>1. b \in Nat
  BY BlockOfType
<1>2. PICK ww : ww \in Matches(g, c, b)
  BY HeldInFrame
<1>3. w \in Matches(g, c, b) /\ w \in Ways(g) /\ s \in Sets(g)
  BY <1>1, <1>2, StampAt
<1>4. /\ d.repl = Stamped(c.repl, s, w)
      /\ d.lines = [c.lines EXCEPT ![s][w].dirty = @ \/ (isWrite /\ WritesBack(g))]
  BY DEF AfterHit, OnAccess
<1> HIDE DEF w, s, b
<1>5. \A t \in Sets(g), u \in Ways(g) :
        (d.lines[t][u].valid <=> c.lines[t][u].valid) /\ d.lines[t][u].tag = c.lines[t][u].tag
  BY <1>3, <1>4, KeptFacts DEF Line
<1>6. ASSUME NEW x \in Nat PROVE Matches(g, d, x) = Matches(g, c, x) /\ SetOf(g, x) \in Sets(g)
  BY <1>5, Decomposition DEF Matches
<1>7. \A x \in Nat : IsHit(g, d, x) <=> IsHit(g, c, x)
  BY <1>6 DEF IsHit
<1>8. /\ d.repl.clock = c.repl.clock + 1 /\ d.repl.stamp[s][w] = c.repl.clock + 1
      /\ \A t \in Sets(g), u \in Ways(g) :
           t # s \/ u # w => d.repl.stamp[t][u] = c.repl.stamp[t][u]
  BY <1>3, <1>4, KeptFacts, StampedAt
<1>9. LastUse(g, d, b) = c.repl.clock + 1
  BY <1>1, <1>3, <1>6, <1>8, StampAt DEF s
<1>10. ASSUME NEW x \in Nat, x # b, IsHit(g, d, x)
       PROVE  IsHit(g, c, x) /\ LastUse(g, d, x) = LastUse(g, c, x)
  <2>1. PICK u : u \in Matches(g, c, x)
    BY <1>7, <1>10, HeldInFrame
  <2>2. /\ LastUse(g, c, x) = c.repl.stamp[SetOf(g, x)][u]
        /\ LastUse(g, d, x) = d.repl.stamp[SetOf(g, x)][u]
        /\ u \in Ways(g) /\ SetOf(g, x) \in Sets(g)
    BY <1>6, <2>1, StampAt
  <2>3. SetOf(g, x) # s \/ u # w
    BY <1>1, <1>3, <1>10, <2>1, FrameHoldsOne DEF s
  <2> QED
    BY <1>7, <1>8, <1>10, <2>2, <2>3
<1>11. \A t \in Sets(g) : EmptyWays(g, d, t) \subseteq EmptyWays(g, c, t)
  BY <1>5 DEF EmptyWays
<1>12. IsHit(g, c, b) /\ IsHit(g, d, b)
  BY <1>1, <1>3, <1>7 DEF IsHit
<1>13. Touched(g, c, d, b)
  BY <1>7, <1>8, <1>9, <1>10, <1>11, <1>12 DEF Touched
<1> QED
  BY <1>13 DEF b

\* It is told of a fill unless it is Random.
LEMMA FillTouches ==
  ASSUME NEW g, Constructible(g), g.replacement # "Random", NEW c, Kept(g, c),
         NEW a \in Nat, NEW isWrite \in BOOLEAN, ~IsHit(g, c, BlockOf(g, a)),
         NEW w \in PickWays(g, c, SetOf(g, BlockOf(g, a))),
         NEW d, d = AfterFill(g, c, a, isWrite, w), Kept(g, d)
  PROVE  Touched(g, c, d, BlockOf(g, a))
<1> DEFINE b == BlockOf(g, a)
           s == SetOf(g, b)
           frame == c.lines[s][w]
<1>1. b \in Nat /\ s \in Sets(g) /\ w \in Ways(g)
  BY BlockOfType, Decomposition, PickIsWay
<1>2. /\ d.repl = Stamped(c.repl, s, w)
      /\ d.lines = [c.lines EXCEPT ![s][w] = Installed(g, b, isWrite)]
  BY DEF AfterFill, OnInsert
<1>3. \A x \in Nat :
        /\ Leaving(g, frame, s, x) => x # b /\ IsHit(g, c, x)
        /\ IsHit(g, d, x) <=> x = b \/ (IsHit(g, c, x) /\ ~Leaving(g, frame, s, x))
  BY <1>1, FillHolds DEF Kept, Healthy
<1>4. /\ EmptyWays(g, c, s) # {} => ~frame.valid
      /\ EmptyWays(g, c, s) = {} =>
           frame.valid /\ \A u \in Ways(g) : c.repl.stamp[s][w] <= c.repl.stamp[s][u]
  <2>1. CASE EmptyWays(g, c, s) # {}
    <3>1. First(EmptyWays(g, c, s)) \in EmptyWays(g, c, s)
      <4>1. Ways(g) \subseteq Nat
        BY GeometryType DEF Ways
      <4> QED BY <2>1, <4>1, FirstIsLeast DEF EmptyWays
    <3>2. w = First(EmptyWays(g, c, s))
      BY <2>1 DEF PickWays
    <3> QED BY <2>1, <3>1, <3>2 DEF EmptyWays
  <2>2. CASE EmptyWays(g, c, s) = {}
    <3>1. w \in Victims(g, c.repl, s)
      BY <2>2 DEF PickWays
    <3>2. \A u \in Ways(g) : c.repl.stamp[s][u] \in Nat
      BY <1>1, KeptFacts DEF PolicyType
    <3>3. \A u \in Ways(g) : c.repl.stamp[s][w] <= c.repl.stamp[s][u]
      BY <1>1, <3>1, <3>2 DEF Victims
    <3>4. frame.valid
      BY <1>1, <2>2 DEF EmptyWays
    <3> QED BY <2>2, <3>3, <3>4
  <2> QED BY <2>1, <2>2
<1>5. Installed(g, b, isWrite).valid /\ Installed(g, b, isWrite).tag = TagOf(g, b)
  BY DEF Installed
<1>6. frame.valid => frame.tag \in Nat
  BY <1>1, KeptFacts DEF Line
<1> HIDE DEF s, b, frame
<1>7. /\ d.lines[s][w] = Installed(g, b, isWrite)
      /\ \A t \in Sets(g), u \in Ways(g) : t # s \/ u # w => d.lines[t][u] = c.lines[t][u]
  BY <1>1, <1>2, KeptFacts
<1>8. /\ d.repl.clock = c.repl.clock + 1 /\ d.repl.stamp[s][w] = c.repl.clock + 1
      /\ \A t \in Sets(g), u \in Ways(g) :
           t # s \/ u # w => d.repl.stamp[t][u] = c.repl.stamp[t][u]
  BY <1>1, <1>2, KeptFacts, StampedAt
<1>9. w \in Matches(g, d, b)
  BY <1>1, <1>5, <1>7 DEF Matches, s
<1>10. IsHit(g, d, b) /\ LastUse(g, d, b) = c.repl.clock + 1
  BY <1>1, <1>8, <1>9, StampAt DEF s, IsHit
<1>11. ASSUME NEW x \in Nat, x # b, IsHit(g, d, x)
       PROVE  IsHit(g, c, x) /\ LastUse(g, d, x) = LastUse(g, c, x)
  <2>1. PICK u : u \in Matches(g, d, x)
    BY <1>11, HeldInFrame
  <2>2. /\ LastUse(g, d, x) = d.repl.stamp[SetOf(g, x)][u]
        /\ u \in Ways(g) /\ SetOf(g, x) \in Sets(g)
    BY <2>1, StampAt
  <2>3. SetOf(g, x) # s \/ u # w
    BY <1>1, <1>9, <1>11, <2>1, FrameHoldsOne DEF s
  <2>4. u \in Matches(g, c, x)
    BY <1>7, <2>1, <2>2, <2>3 DEF Matches
  <2>5. LastUse(g, c, x) = c.repl.stamp[SetOf(g, x)][u]
    BY <2>4, StampAt
  <2> QED
    BY <1>8, <2>2, <2>3, <2>4, <2>5 DEF IsHit
\* Whoever leaves was in the frame.
<1>12. ASSUME NEW x \in Nat, Leaving(g, frame, s, x)
       PROVE  SetOf(g, x) = s /\ w \in Matches(g, c, x)
  <2>1. frame.valid /\ x = frame.tag * NumSets(g) + s /\ frame.tag \in Nat
    BY <1>6, <1>12 DEF Leaving
  <2>2. SetOf(g, x) = s /\ TagOf(g, x) = frame.tag
    BY <1>1, <2>1, Recomposition
  <2> QED
    BY <1>1, <2>1, <2>2 DEF Matches, frame
<1>13. ASSUME NEW x \in Nat, IsHit(g, c, x), ~IsHit(g, d, x)
       PROVE  /\ SetOf(g, x) = s /\ EmptyWays(g, c, s) = {}
              /\ \A y \in Nat :
                   IsHit(g, c, y) /\ SetOf(g, y) = s => LastUse(g, c, x) <= LastUse(g, c, y)
  <2>1. Leaving(g, frame, s, x)
    BY <1>3, <1>13
  <2>2. SetOf(g, x) = s /\ w \in Matches(g, c, x)
    BY <1>12, <2>1
  <2>3. EmptyWays(g, c, s) = {} /\ \A u \in Ways(g) : c.repl.stamp[s][w] <= c.repl.stamp[s][u]
    BY <1>4, <2>1 DEF Leaving
  <2>4. LastUse(g, c, x) = c.repl.stamp[s][w]
    BY <2>2, StampAt
  <2>5. ASSUME NEW y \in Nat, IsHit(g, c, y), SetOf(g, y) = s
        PROVE  LastUse(g, c, x) <= LastUse(g, c, y)
    <3>1. PICK u : u \in Matches(g, c, y)
      BY <2>5, HeldInFrame
    <3>2. LastUse(g, c, y) = c.repl.stamp[s][u] /\ u \in Ways(g)
      BY <2>5, <3>1, StampAt
    <3> QED BY <2>3, <2>4, <3>2
  <2> QED BY <2>2, <2>3, <2>5
<1>14. ASSUME EmptyWays(g, c, s) = {}
       PROVE  \E v \in Nat : IsHit(g, c, v) /\ ~IsHit(g, d, v) /\ SetOf(g, v) = s
  <2> DEFINE v == frame.tag * NumSets(g) + s
  <2>1. v \in Nat /\ Leaving(g, frame, s, v)
    BY <1>1, <1>4, <1>6, <1>14, Recomposition DEF Leaving
  <2> HIDE DEF v
  <2> QED
    BY <1>3, <1>12, <2>1
<1>15. \A t \in Sets(g) : EmptyWays(g, d, t) \subseteq EmptyWays(g, c, t)
  BY <1>5, <1>7 DEF EmptyWays
<1>16. ~IsHit(g, c, b)
  BY DEF b
<1>17. Touched(g, c, d, b)
  BY <1>8, <1>10, <1>11, <1>13, <1>14, <1>15, <1>16 DEF Touched, s
<1> QED
  BY <1>17 DEF b
=============================================================================
