--------------------------- MODULE Cache_proofs ---------------------------
(***************************************************************************)
(* What holds of a single cache for every constructible configuration,     *)
(* every set of addresses and traces of every length: its types, its       *)
(* frames, the stores it owes, its counters and the traffic it sends, that *)
(* it implements BlockStore, and which blocks it and its reference model   *)
(* keep, told by the history of the trace: the 3-C verdicts and the        *)
(* replacement orders.                                                     *)
(***************************************************************************)
EXTENDS Cache, CacheLevel_proofs

-----------------------------------------------------------------------------
MemoryType == [reads : Nat, writes : Nat]

\* Serving the calls of an access keeps memory's counters natural.
LEMMA ServedType ==
  ASSUME NEW m \in MemoryType, NEW calls
  PROVE  Served(m, calls) \in MemoryType
<1>1. \A x \in MemoryType : \A call : MemAccess(x, call) \in MemoryType
  BY DEF MemAccess, MemoryType
<1> QED
  BY <1>1 DEF Served

-----------------------------------------------------------------------------
(* Type correctness.                                                       *)

\* The initial states are well typed.
LEMMA TypeInit == Init => TypeOK
<1> SUFFICES ASSUME Init PROVE TypeOK
  OBVIOUS
<1>1. CacheType(cfg, Blocks, cache)
  BY NewCacheType DEF Init
<1>2. mem \in [reads : Nat, writes : Nat]
  BY DEF Init, NewMemory
<1>3. /\ used \in [Blocks -> Nat] /\ touched \in [Blocks -> Nat] /\ filled \in [Blocks -> Nat]
      /\ owed \subseteq Blocks /\ cfg \in Configs
  BY DEF Init
<1> QED
  BY <1>1, <1>2, <1>3 DEF TypeOK

\* Every access preserves the types.
LEMMA TypeStep == TypeOK /\ [Next]_vars => TypeOK'
<1> SUFFICES ASSUME TypeOK, [Next]_vars PROVE TypeOK'
  OBVIOUS
<1>1. CASE UNCHANGED vars
  BY <1>1 DEF vars, history, TypeOK, Blocks
<1>2. ASSUME NEW addr \in Addrs, NEW isWrite \in BOOLEAN,
             Hit(addr, isWrite) \/ Fill(addr, isWrite) \/ (WriteAround(addr) /\ isWrite)
      PROVE  TypeOK'
  <2> DEFINE block == BlockOf(cfg, addr)
  <2>1. Constructible(cfg) /\ addr \in Nat /\ block \in Blocks
    BY ConfigsAssumption, AddrsAssumption DEF TypeOK, Blocks
  <2>2. cfg' = cfg /\ Blocks' = Blocks
    BY <1>2 DEF Hit, Fill, WriteAround, Blocks
  <2>3. Now \in Nat
    BY DEF TypeOK, CacheType, Counters, Now
  <2>4. \A f \in [Blocks -> Nat] : Mark(f, block) \in [Blocks -> Nat]
    BY <2>1, <2>3 DEF Mark
  <2>5. /\ used' \in [Blocks -> Nat]
        /\ touched' \in [Blocks -> Nat]
        /\ filled' \in [Blocks -> Nat]
    BY <1>2, <2>4 DEF Hit, Fill, WriteAround, TypeOK
  <2>6. CacheType(cfg, Blocks, cache')
    <3>1. CASE Hit(addr, isWrite)
      BY <2>1, <3>1, HitType DEF Hit, TypeOK
    <3>2. CASE WriteAround(addr)
      BY <2>1, <3>2, WriteAroundType DEF WriteAround, TypeOK
    <3>3. CASE Fill(addr, isWrite)
      BY <2>1, <3>3, FillType, PickIsWay DEF Fill, TypeOK
    <3> QED
      BY <1>2, <3>1, <3>2, <3>3
  <2>7. mem' \in [reads : Nat, writes : Nat]
    BY <1>2, ServedType DEF Hit, Fill, WriteAround, TypeOK, MemoryType
  <2>8. owed' \subseteq Blocks
    BY <1>2, <2>1 DEF Hit, Fill, WriteAround, Settle, TypeOK
  <2> QED
    BY <2>2, <2>5, <2>6, <2>7, <2>8 DEF TypeOK
<1>3. CASE Next
  BY <1>2, <1>3 DEF Next
<1> QED
  BY <1>1, <1>3

\* TypeOK holds of a cache of any constructible configuration, whatever the
\* trace: no access of Cache::access leaves the tables the constructor made.
THEOREM TypeCorrect == Spec => []TypeOK
BY TypeInit, TypeStep, PTL DEF Spec

-----------------------------------------------------------------------------
(* What a step does to the frames.                                         *)

\* The line of a frame, and the set and tag of the block it holds.
LEMMA FrameFacts ==
  ASSUME TypeOK, NEW f \in Frames
  PROVE  /\ LineAt(f) \in Line
         /\ f[1] \in Sets(cfg) /\ f[2] \in Ways(cfg) /\ f = <<f[1], f[2]>>
         /\ BlockAt(f) \in Nat
         /\ SetOf(cfg, BlockAt(f)) = f[1]
         /\ TagOf(cfg, BlockAt(f)) = LineAt(f).tag
<1>1. f[1] \in Sets(cfg) /\ f[2] \in Ways(cfg) /\ f = <<f[1], f[2]>>
  BY DEF Frames
<1>2. LineAt(f) \in Line
  BY <1>1 DEF TypeOK, CacheType, LineAt
<1>3. LineAt(f).tag \in Nat
  BY <1>2 DEF Line
<1>4. Constructible(cfg)
  BY ConfigsAssumption DEF TypeOK
<1> QED
  BY <1>1, <1>2, <1>3, <1>4, Recomposition DEF BlockAt

\* The search finds a resident block: a miss means no frame holds it.
LEMMA MissIsAbsent ==
  ASSUME TypeOK, NEW b \in Nat, ~IsHit(cfg, cache, b)
  PROVE  \A f \in ValidFrames : BlockAt(f) # b
<1> SUFFICES ASSUME NEW f \in ValidFrames, BlockAt(f) = b PROVE FALSE
  OBVIOUS
<1>1. f \in Frames /\ LineAt(f).valid
  BY DEF ValidFrames
<1>2. f[2] \in Ways(cfg) /\ f[1] = SetOf(cfg, b) /\ LineAt(f).tag = TagOf(cfg, b)
  BY <1>1, FrameFacts
<1>3. f[2] \in Matches(cfg, cache, b)
  BY <1>1, <1>2 DEF Matches, LineAt
<1> QED
  BY <1>3 DEF IsHit

\* A hit changes one dirty bit and no block.
LEMMA HitEffect ==
  ASSUME TypeOK, NEW addr \in Addrs, NEW isWrite \in BOOLEAN, Hit(addr, isWrite)
  PROVE  \E t \in ValidFrames :
           /\ BlockAt(t) = BlockOf(cfg, addr)
           /\ cfg' = cfg /\ Frames' = Frames
           /\ \A f \in Frames :
                /\ LineAt(f)'.valid = LineAt(f).valid
                /\ LineAt(f)'.tag = LineAt(f).tag
                /\ LineAt(f)'.dirty = IF f = t
                                      THEN LineAt(f).dirty \/ (isWrite /\ WritesBack(cfg))
                                      ELSE LineAt(f).dirty
<1> DEFINE block == BlockOf(cfg, addr)
           s == SetOf(cfg, block)
           w == First(Matches(cfg, cache, block))
           t == <<s, w>>
<1>1. Constructible(cfg) /\ addr \in Nat
  BY ConfigsAssumption, AddrsAssumption DEF TypeOK
<1>2. block \in Nat /\ s \in Sets(cfg)
  BY <1>1, BlockOfType, Decomposition
<1>3. w \in Matches(cfg, cache, block)
  BY <1>1, MatchIsFrame DEF Hit
<1>4. t \in Frames /\ LineAt(t).valid /\ LineAt(t).tag = TagOf(cfg, block)
  BY <1>2, <1>3 DEF Matches, Frames, LineAt
<1>5. t \in ValidFrames
  BY <1>4 DEF ValidFrames
<1>6. BlockAt(t) = block
  BY <1>1, <1>2, <1>4, Decomposition DEF BlockAt
<1>7. cfg' = cfg /\ Frames' = Frames
  BY DEF Hit, Frames
<1>8. cache'.lines = [cache.lines EXCEPT ![s][w].dirty = @ \/ (isWrite /\ WritesBack(cfg))]
  BY DEF Hit, AfterHit
<1>9. ASSUME NEW f \in Frames
      PROVE  /\ LineAt(f)'.valid = LineAt(f).valid
             /\ LineAt(f)'.tag = LineAt(f).tag
             /\ LineAt(f)'.dirty = IF f = t
                                   THEN LineAt(f).dirty \/ (isWrite /\ WritesBack(cfg))
                                   ELSE LineAt(f).dirty
  <2> HIDE DEF s, w
  <2>1. f = <<f[1], f[2]>> /\ f[1] \in Sets(cfg) /\ f[2] \in Ways(cfg) /\ LineAt(f) \in Line
    BY FrameFacts
  <2>2. cache.lines \in [Sets(cfg) -> [Ways(cfg) -> Line]]
    BY DEF TypeOK, CacheType
  <2>3. f = t <=> (f[1] = s /\ f[2] = w)
    BY <2>1
  <2> QED
    BY <1>8, <2>1, <2>2, <2>3 DEF LineAt, Line
<1> QED
  BY <1>5, <1>6, <1>7, <1>9

\* A fill changes one frame, which then holds the block of the access.
LEMMA FillEffect ==
  ASSUME TypeOK, NEW addr \in Addrs, NEW isWrite \in BOOLEAN, Fill(addr, isWrite)
  PROVE  \E w \in Ways(cfg), t \in Frames :
           LET block == BlockOf(cfg, addr)
               calls == FillCalls(cfg, cache, addr, isWrite, w)
           IN  /\ t = <<SetOf(cfg, block), w>>
               /\ w \in PickWays(cfg, cache, SetOf(cfg, block))
               /\ cfg' = cfg /\ Frames' = Frames
               /\ \A f \in Frames :
                    LineAt(f)' = IF f = t THEN Installed(cfg, block, isWrite) ELSE LineAt(f)
               /\ cache' = AfterFill(cfg, cache, addr, isWrite, w)
               /\ mem' = Served(mem, calls)
               /\ Settle(block, isWrite, calls)
<1> DEFINE block == BlockOf(cfg, addr)
           s == SetOf(cfg, block)
<1>1. Constructible(cfg) /\ addr \in Nat
  BY ConfigsAssumption, AddrsAssumption DEF TypeOK
<1>2. s \in Sets(cfg)
  BY <1>1, BlockOfType, Decomposition
<1>3. PICK w \in PickWays(cfg, cache, s) :
        LET calls == FillCalls(cfg, cache, addr, isWrite, w)
        IN  /\ cache' = AfterFill(cfg, cache, addr, isWrite, w)
            /\ mem' = Served(mem, calls)
            /\ Settle(block, isWrite, calls)
  BY DEF Fill
<1>4. w \in Ways(cfg)
  BY <1>1, PickIsWay
<1>5. PICK t \in Frames : t = <<s, w>>
  BY <1>2, <1>4 DEF Frames
<1>6. cfg' = cfg /\ Frames' = Frames
  BY DEF Fill, Frames
<1>7. cache'.lines = [cache.lines EXCEPT ![s][w] = Installed(cfg, block, isWrite)]
  BY <1>3 DEF AfterFill
<1>8. ASSUME NEW f \in Frames
      PROVE  LineAt(f)' = IF f = t
                          THEN Installed(cfg, block, isWrite) ELSE LineAt(f)
  <2> HIDE DEF s
  <2>1. f = <<f[1], f[2]>> /\ f[1] \in Sets(cfg) /\ f[2] \in Ways(cfg)
    BY FrameFacts
  <2>2. cache.lines \in [Sets(cfg) -> [Ways(cfg) -> Line]]
    BY DEF TypeOK, CacheType
  <2>3. f = t <=> (f[1] = s /\ f[2] = w)
    BY <1>5, <2>1
  <2> QED
    BY <1>7, <2>1, <2>2, <2>3 DEF LineAt
<1> QED
  BY <1>3, <1>4, <1>5, <1>6, <1>8

\* A write-around, and a stuttering step, leave every frame alone.
LEMMA FramesKept ==
  ASSUME cfg' = cfg, cache'.lines = cache.lines
  PROVE  /\ Frames' = Frames /\ Blocks' = Blocks
         /\ \A f : LineAt(f)' = LineAt(f) /\ BlockAt(f)' = BlockAt(f)
         /\ ValidFrames' = ValidFrames /\ DirtyFrames' = DirtyFrames
         /\ Resident' = Resident /\ DirtyBlocks' = DirtyBlocks
<1>1. \A f : LineAt(f)' = LineAt(f) /\ BlockAt(f)' = BlockAt(f)
  BY DEF LineAt, BlockAt
<1>2. Frames' = Frames /\ Blocks' = Blocks
  BY DEF Frames, Blocks
<1>3. ValidFrames' = ValidFrames
  BY <1>1, <1>2 DEF ValidFrames
<1>4. DirtyFrames' = DirtyFrames
  BY <1>1, <1>3 DEF DirtyFrames
<1>5. Resident' = Resident /\ DirtyBlocks' = DirtyBlocks
  BY <1>1, <1>3, <1>4 DEF Resident, DirtyBlocks
<1> QED
  BY <1>1, <1>2, <1>3, <1>4, <1>5

\* A write-around changes no line.
LEMMA WriteAroundKeeps ==
  ASSUME NEW addr, WriteAround(addr)
  PROVE  cfg' = cfg /\ cache'.lines = cache.lines
BY DEF WriteAround, AfterWriteAround

-----------------------------------------------------------------------------
(* No block is in two frames.                                              *)

\* An empty cache holds no block twice.
LEMMA NoDuplicateInit == Init => NoDuplicateBlock
<1> SUFFICES ASSUME Init PROVE ValidFrames = {}
  BY DEF NoDuplicateBlock, Resident
<1> QED
  BY DEF Init, NewCache, Empty, ValidFrames, LineAt, Frames

\* No access installs a resident block again.
LEMMA NoDuplicateStep ==
  TypeOK /\ NoDuplicateBlock /\ [Next]_vars => NoDuplicateBlock'
<1> SUFFICES ASSUME TypeOK, NoDuplicateBlock, [Next]_vars PROVE NoDuplicateBlock'
  OBVIOUS
<1>1. CASE UNCHANGED vars
  BY <1>1, FramesKept DEF vars, NoDuplicateBlock
<1>2. ASSUME NEW addr \in Addrs, NEW isWrite \in BOOLEAN, Hit(addr, isWrite)
      PROVE  NoDuplicateBlock'
  <2>1. /\ Blocks' = Blocks /\ Frames' = Frames /\ cfg' = cfg
        /\ \A f \in Frames : LineAt(f)'.valid = LineAt(f).valid /\ LineAt(f)'.tag = LineAt(f).tag
    BY <1>2, HitEffect DEF Hit, Blocks
  <2>2. ValidFrames' = ValidFrames /\ \A f \in Frames : BlockAt(f)' = BlockAt(f)
    BY <2>1 DEF ValidFrames, BlockAt
  <2>3. ValidFrames \subseteq Frames
    BY DEF ValidFrames
  <2> QED
    BY <2>1, <2>2, <2>3 DEF NoDuplicateBlock, Resident
<1>3. ASSUME NEW addr \in Addrs, WriteAround(addr)
      PROVE  NoDuplicateBlock'
  BY <1>3, FramesKept, WriteAroundKeeps DEF NoDuplicateBlock
<1>4. ASSUME NEW addr \in Addrs, NEW isWrite \in BOOLEAN, Fill(addr, isWrite)
      PROVE  NoDuplicateBlock'
  <2> DEFINE block == BlockOf(cfg, addr)
  <2>1. Constructible(cfg) /\ block \in Nat /\ block \in Blocks
    BY ConfigsAssumption, AddrsAssumption, BlockOfType DEF TypeOK, Blocks
  <2>2. PICK w \in Ways(cfg), t \in Frames :
          /\ t = <<SetOf(cfg, block), w>> /\ cfg' = cfg /\ Frames' = Frames
          /\ \A f \in Frames :
               LineAt(f)' = IF f = t THEN Installed(cfg, block, isWrite) ELSE LineAt(f)
    BY <1>4, FillEffect
  <2>3. BlockAt(t)' = block
    <3>1. LineAt(t)'.tag = TagOf(cfg, block) /\ t[1] = SetOf(cfg, block)
      BY <2>2 DEF Installed
    <3> QED
      BY <2>1, <2>2, <3>1, Decomposition DEF BlockAt
  <2>4. \A f \in Frames : f # t => BlockAt(f)' = BlockAt(f)
    BY <2>2 DEF BlockAt
  <2>5. ValidFrames' \subseteq ValidFrames \cup {t}
    BY <2>2 DEF ValidFrames
  <2>6. \A f \in ValidFrames : BlockAt(f) # block
    BY <1>4, <2>1, MissIsAbsent DEF Fill
  <2>7. Blocks' = Blocks /\ ValidFrames \subseteq Frames
    BY <2>2 DEF Blocks, ValidFrames
  <2> HIDE DEF block
  <2>8. ASSUME NEW f \in ValidFrames', NEW h \in ValidFrames', BlockAt(f)' = BlockAt(h)'
        PROVE  f = h
    BY <2>3, <2>4, <2>5, <2>6, <2>7, <2>8 DEF NoDuplicateBlock
  <2>9. \A f \in ValidFrames' : BlockAt(f)' \in Blocks
    BY <2>1, <2>3, <2>4, <2>5, <2>7 DEF NoDuplicateBlock, Resident
  <2> QED
    BY <2>7, <2>8, <2>9 DEF NoDuplicateBlock, Resident
<1> QED
  BY <1>1, <1>2, <1>3, <1>4 DEF Next

\* A block of the trace is in at most one frame, and nothing else is in any:
\* where Cache::access fills a block is where it will search for it.
THEOREM NoDuplicates == Spec => []NoDuplicateBlock
BY TypeInit, TypeStep, NoDuplicateInit, NoDuplicateStep, PTL DEF Spec

-----------------------------------------------------------------------------
(* No store is lost.  OwedIsDirty is not inductive alone: a write-through  *)
(* store would pay for a dirty line it leaves dirty, so it needs that a    *)
(* write-through cache has no dirty line; a write-back would pay for two   *)
(* frames at once, so it needs that no two frames hold the same block.     *)

WriteThroughIsClean == ~WritesBack(cfg) => \A f \in Frames : ~LineAt(f).dirty

StoreInv == TypeOK /\ NoDuplicateBlock /\ WriteThroughIsClean /\ OwedIsDirty

\* The blocks a short sequence of calls writes below.
LEMMA WrittenByCalls ==
  ASSUME NEW a, NEW b
  PROVE  /\ WrittenBelow(<<>>) = {}
         /\ WrittenBelow(<<Store(a)>>) = {BlockOf(cfg, a)}
         /\ WrittenBelow(<<Load(a)>>) = {}
         /\ WrittenBelow(<<Load(a), Store(b)>>) = {BlockOf(cfg, b)}
<1> DEFINE W(calls) == {j \in DOMAIN calls : calls[j].isWrite}
           one == <<Store(a)>>
           fetch == <<Load(a)>>
           two == <<Load(a), Store(b)>>
<1>1. /\ DOMAIN <<>> = {} /\ DOMAIN one = {1} /\ DOMAIN fetch = {1} /\ DOMAIN two = {1, 2}
      /\ one[1] = Store(a) /\ fetch[1] = Load(a) /\ two[1] = Load(a) /\ two[2] = Store(b)
  OBVIOUS
<1>2. /\ one[1].isWrite = TRUE /\ fetch[1].isWrite = FALSE
      /\ two[1].isWrite = FALSE /\ two[2].isWrite = TRUE
      /\ one[1].addr = a /\ two[2].addr = b
  BY <1>1, CallFields
<1>3. \A calls : WrittenBelow(calls) = {BlockOf(cfg, calls[i].addr) : i \in W(calls)}
  BY DEF WrittenBelow
<1> HIDE DEF one, fetch, two
<1>4. W(<<>>) = {}
  BY <1>1
<1>5. W(one) = {1} /\ W(fetch) = {}
  BY <1>1, <1>2, Zenon
<1>6. W(two) = {2}
  <2>1. \A j : j \in W(two) <=> (j = 1 \/ j = 2) /\ two[j].isWrite
    BY <1>1
  <2> HIDE DEF W
  <2> QED
    BY <1>2, <2>1
<1> HIDE DEF W
<1> QED
  BY <1>2, <1>3, <1>4, <1>5, <1>6 DEF one, fetch, two

\* An empty cache owes nothing and has no dirty line.
LEMMA StoreInit == Init => WriteThroughIsClean /\ OwedIsDirty
<1> SUFFICES ASSUME Init PROVE WriteThroughIsClean /\ OwedIsDirty
  OBVIOUS
<1>1. \A f \in Frames : ~LineAt(f).dirty
  BY DEF Init, NewCache, Empty, LineAt, Frames
<1>2. DirtyBlocks = {} /\ owed = {}
  BY <1>1 DEF Init, DirtyBlocks, DirtyFrames, ValidFrames
<1> QED
  BY <1>1, <1>2 DEF WriteThroughIsClean, OwedIsDirty

\* A hit keeps debts and dirty lines the same.
LEMMA StoreHit ==
  ASSUME StoreInv, NEW addr \in Addrs, NEW isWrite \in BOOLEAN, Hit(addr, isWrite)
  PROVE  WriteThroughIsClean' /\ OwedIsDirty'
<1> DEFINE block == BlockOf(cfg, addr)
           marks == isWrite /\ WritesBack(cfg)
<1> USE DEF StoreInv
<1>1. PICK t \in ValidFrames :
        /\ BlockAt(t) = block /\ cfg' = cfg /\ Frames' = Frames
        /\ \A f \in Frames :
             /\ LineAt(f)'.valid = LineAt(f).valid
             /\ LineAt(f)'.tag = LineAt(f).tag
             /\ LineAt(f)'.dirty = IF f = t THEN LineAt(f).dirty \/ marks ELSE LineAt(f).dirty
  BY HitEffect
<1>2. t \in Frames /\ ValidFrames \subseteq Frames
  BY DEF ValidFrames
<1>3. ValidFrames' = ValidFrames /\ \A f \in Frames : BlockAt(f)' = BlockAt(f)
  BY <1>1 DEF ValidFrames, BlockAt
<1>4. WriteThroughIsClean'
  BY <1>1 DEF WriteThroughIsClean, WritesBack
<1>5. DirtyFrames' = DirtyFrames \cup (IF marks THEN {t} ELSE {})
  BY <1>1, <1>2, <1>3 DEF DirtyFrames
<1>6. DirtyBlocks' = DirtyBlocks \cup (IF marks THEN {block} ELSE {})
  BY <1>1, <1>2, <1>3, <1>5 DEF DirtyBlocks, DirtyFrames
<1>7. owed' = (owed \cup (IF isWrite THEN {block} ELSE {}))
                \ WrittenBelow(HitCalls(cfg, addr, isWrite))
  BY DEF Hit, Settle
<1>8. CASE WritesBack(cfg)
  <2>1. WrittenBelow(HitCalls(cfg, addr, isWrite)) = {}
    BY <1>8, WrittenByCalls DEF HitCalls
  <2> QED
    BY <1>4, <1>6, <1>7, <1>8, <2>1 DEF OwedIsDirty
<1>9. CASE ~WritesBack(cfg)
  <2>1. DirtyBlocks = {}
    BY <1>2, <1>9 DEF WriteThroughIsClean, DirtyBlocks, DirtyFrames
  <2>2. isWrite => WrittenBelow(HitCalls(cfg, addr, isWrite)) = {block}
    BY <1>9, WrittenByCalls DEF HitCalls
  <2> QED
    BY <1>4, <1>6, <1>7, <1>9, <2>1, <2>2 DEF OwedIsDirty
<1> QED
  BY <1>8, <1>9

\* So does a write-around.
LEMMA StoreWriteAround ==
  ASSUME StoreInv, NEW addr \in Addrs, WriteAround(addr)
  PROVE  WriteThroughIsClean' /\ OwedIsDirty'
<1> DEFINE block == BlockOf(cfg, addr)
<1> USE DEF StoreInv
<1>1. block \in Nat
  BY ConfigsAssumption, AddrsAssumption, BlockOfType DEF TypeOK
<1>2. DirtyBlocks' = DirtyBlocks /\ WriteThroughIsClean'
  BY FramesKept, WriteAroundKeeps DEF WriteThroughIsClean
<1>3. block \notin DirtyBlocks
  BY <1>1, MissIsAbsent DEF WriteAround, DirtyBlocks, DirtyFrames
<1>4. owed' = (owed \cup {block}) \ {block}
  BY WrittenByCalls DEF WriteAround, Settle, WriteAroundCalls
<1> QED
  BY <1>2, <1>3, <1>4 DEF OwedIsDirty

\* So does a fill, with or without a write-back.
LEMMA StoreFill ==
  ASSUME StoreInv, NEW addr \in Addrs, NEW isWrite \in BOOLEAN, Fill(addr, isWrite)
  PROVE  WriteThroughIsClean' /\ OwedIsDirty'
<1> DEFINE block == BlockOf(cfg, addr)
           marks == isWrite /\ WritesBack(cfg)
<1> USE DEF StoreInv
<1>1. Constructible(cfg) /\ addr \in Nat /\ block \in Nat
  BY ConfigsAssumption, AddrsAssumption, BlockOfType DEF TypeOK
<1>2. PICK w \in Ways(cfg), t \in Frames :
        /\ t = <<SetOf(cfg, block), w>> /\ cfg' = cfg /\ Frames' = Frames
        /\ \A f \in Frames :
             LineAt(f)' = IF f = t THEN Installed(cfg, block, isWrite) ELSE LineAt(f)
        /\ Settle(block, isWrite, FillCalls(cfg, cache, addr, isWrite, w))
  BY FillEffect
<1> DEFINE calls == FillCalls(cfg, cache, addr, isWrite, w)
\* The frames after the fill.
<1>3. BlockAt(t)' = block
  <2>1. LineAt(t)'.tag = TagOf(cfg, block) /\ t[1] = SetOf(cfg, block)
    BY <1>2 DEF Installed
  <2> QED
    BY <1>1, <1>2, <2>1, Decomposition DEF BlockAt
<1>4. \A f \in Frames : f # t => BlockAt(f)' = BlockAt(f)
  BY <1>2 DEF BlockAt
<1>5. LineAt(t)'.valid /\ (LineAt(t)'.dirty <=> marks)
  BY <1>2, InstalledFields
<1>6. DirtyFrames' = (DirtyFrames \ {t}) \cup (IF marks THEN {t} ELSE {})
  BY <1>2, <1>5 DEF DirtyFrames, ValidFrames
<1>7. WriteThroughIsClean'
  BY <1>2, <1>5 DEF WriteThroughIsClean, WritesBack
\* The blocks that were dirty and are not in the frame that was filled.
<1> DEFINE paid == IF t \in DirtyFrames THEN {BlockAt(t)} ELSE {}
<1>8. DirtyFrames \subseteq ValidFrames /\ DirtyFrames \subseteq Frames
  BY DEF DirtyFrames, ValidFrames
<1>9. {BlockAt(f) : f \in DirtyFrames \ {t}} = DirtyBlocks \ paid
  BY <1>8 DEF DirtyBlocks, NoDuplicateBlock
<1>10. DirtyBlocks' = (DirtyBlocks \ paid) \cup (IF marks THEN {block} ELSE {})
  <2>1. DirtyBlocks' = {BlockAt(f)' : f \in DirtyFrames'}
    BY DEF DirtyBlocks
  <2> HIDE DEF block, paid, marks
  <2>2. {BlockAt(f)' : f \in DirtyFrames'}
          = {BlockAt(f) : f \in DirtyFrames \ {t}} \cup (IF marks THEN {block} ELSE {})
    BY <1>3, <1>4, <1>6, <1>8
  <2> QED
    BY <1>9, <2>1, <2>2
\* The stores the calls carry.
<1>11. MustWriteBack(cfg, LineAt(t)) <=> t \in DirtyFrames
  BY <1>2 DEF MustWriteBack, DirtyFrames, ValidFrames, WriteThroughIsClean
<1>12. WrittenBelow(calls) = paid \cup (IF isWrite /\ ~WritesBack(cfg) THEN {block} ELSE {})
  <2> DEFINE victim == AddrOf(cfg, VictimBlock(cfg, LineAt(t).tag, t[1]))
  <2>1. BlockOf(cfg, victim) = BlockAt(t)
    BY <1>1, FrameFacts, VictimAddress DEF BlockAt, VictimBlock
  <2>2. LineAt(t) = cache.lines[SetOf(cfg, block)][w] /\ t[1] = SetOf(cfg, block)
    BY <1>2 DEF LineAt
  <2>3. /\ MustWriteBack(cfg, LineAt(t)) => calls = <<Load(addr), Store(victim)>>
        /\ ~MustWriteBack(cfg, LineAt(t)) /\ isWrite /\ ~WritesBack(cfg)
             => calls = <<Load(addr), Store(addr)>>
        /\ ~MustWriteBack(cfg, LineAt(t)) /\ (~isWrite \/ WritesBack(cfg))
             => calls = <<Load(addr)>>
    <3> DEFINE here == cache.lines[SetOf(cfg, block)][w]
               own  == AddrOf(cfg, VictimBlock(cfg, here.tag, SetOf(cfg, block)))
    <3>1. /\ MustWriteBack(cfg, here) => calls = <<Load(addr), Store(own)>>
          /\ ~MustWriteBack(cfg, here) /\ isWrite /\ ~WritesBack(cfg)
               => calls = <<Load(addr), Store(addr)>>
          /\ ~MustWriteBack(cfg, here) /\ (~isWrite \/ WritesBack(cfg))
               => calls = <<Load(addr)>>
      BY FillCallsCases
    <3>2. LineAt(t) = here /\ victim = own
      BY <2>2
    <3> HIDE DEF here, own, victim, calls
    <3> QED BY <3>1, <3>2
  <2>4. MustWriteBack(cfg, LineAt(t)) => WritesBack(cfg)
    BY DEF MustWriteBack
  <2> HIDE DEF victim, calls
  <2>5. CASE MustWriteBack(cfg, LineAt(t))
    <3>1. calls = <<Load(addr), Store(victim)>>
      BY <2>3, <2>5
    <3>2. WrittenBelow(calls) = {BlockAt(t)}
      BY <2>1, <3>1, WrittenByCalls
    <3> HIDE DEF block
    <3> QED
      BY <1>11, <2>4, <2>5, <3>2
  <2>6. CASE ~MustWriteBack(cfg, LineAt(t)) /\ isWrite /\ ~WritesBack(cfg)
    BY <1>11, <2>3, <2>6, WrittenByCalls
  <2>7. CASE ~MustWriteBack(cfg, LineAt(t)) /\ (~isWrite \/ WritesBack(cfg))
    BY <1>11, <2>3, <2>7, WrittenByCalls
  <2> QED
    BY <2>5, <2>6, <2>7
\* The filled block was nowhere, the victim is another block.
<1>13. block \notin DirtyBlocks /\ block \notin paid
  BY <1>1, <1>8, MissIsAbsent DEF Fill, DirtyBlocks
<1>14. owed' = (owed \cup (IF isWrite THEN {block} ELSE {})) \ WrittenBelow(calls)
  BY <1>2 DEF Settle
<1> HIDE DEF block, calls, paid
<1>15. owed' = DirtyBlocks'
  BY <1>10, <1>12, <1>13, <1>14 DEF OwedIsDirty
<1> QED
  BY <1>7, <1>15 DEF OwedIsDirty

\* Every access preserves the inductive invariant.
LEMMA StoreStep == StoreInv /\ [Next]_vars => StoreInv'
<1> SUFFICES ASSUME StoreInv, [Next]_vars PROVE WriteThroughIsClean' /\ OwedIsDirty'
  BY TypeStep, NoDuplicateStep DEF StoreInv
<1>1. CASE UNCHANGED vars
  <2>1. DirtyBlocks' = DirtyBlocks /\ Frames' = Frames /\ owed' = owed
    BY <1>1, FramesKept DEF vars, history
  <2>2. WriteThroughIsClean'
    BY <1>1, FramesKept DEF vars, StoreInv, WriteThroughIsClean
  <2> QED
    BY <2>1, <2>2 DEF StoreInv, OwedIsDirty
<1>2. CASE Next
  BY <1>2, StoreHit, StoreWriteAround, StoreFill DEF Next
<1> QED
  BY <1>1, <1>2

\* Under every policy and geometry, the blocks whose newest contents are only
\* in the cache are exactly those of its dirty lines: the write-back of a dirty
\* victim, at the address rebuilt from its tag and set, loses no store.
THEOREM NoStoreLost == Spec => []OwedIsDirty
<1>1. Init => StoreInv
  BY TypeInit, NoDuplicateInit, StoreInit DEF StoreInv
<1>2. StoreInv => OwedIsDirty
  BY DEF StoreInv
<1> QED
  BY <1>1, <1>2, StoreStep, PTL DEF Spec

-----------------------------------------------------------------------------
(* What the calls of one access add to the counters of memory.             *)

\* The calls a list of at most two of them makes on memory.
LEMMA MemAccessType ==
  ASSUME NEW x \in MemoryType, NEW y
  PROVE  /\ MemAccess(x, Store(y)) \in MemoryType /\ MemAccess(x, Load(y)) \in MemoryType
         /\ MemAccess(x, Store(y)).reads = x.reads
         /\ MemAccess(x, Store(y)).writes = x.writes + 1
         /\ MemAccess(x, Load(y)).reads = x.reads + 1
         /\ MemAccess(x, Load(y)).writes = x.writes
<1>1. /\ MemAccess(x, Store(y)) = [x EXCEPT !.writes = x.writes + 1]
      /\ MemAccess(x, Load(y)) = [x EXCEPT !.reads = x.reads + 1]
  BY CallFields DEF MemAccess
<1> QED
  BY <1>1 DEF MemoryType

\* What no call and one call add to memory's counters.
LEMMA ServedCalls ==
  ASSUME NEW m \in MemoryType, NEW a
  PROVE  /\ Served(m, <<>>) = m
         /\ LET x == Served(m, <<Store(a)>>) IN
            x.reads = m.reads /\ x.writes = m.writes + 1
         /\ LET x == Served(m, <<Load(a)>>) IN
            x.reads = m.reads + 1 /\ x.writes = m.writes
<1>1. /\ Served(m, <<>>) = m
      /\ Served(m, <<Store(a)>>) = MemAccess(m, Store(a))
      /\ Served(m, <<Load(a)>>) = MemAccess(m, Load(a))
  BY DEF Served
<1> QED
  BY <1>1, MemAccessType

\* What a fetch followed by a store adds to them.
LEMMA ServedTwoCalls ==
  ASSUME NEW m \in MemoryType, NEW a, NEW b, NEW calls, calls = <<Load(a), Store(b)>>
  PROVE  /\ Served(m, calls).reads = m.reads + 1
         /\ Served(m, calls).writes = m.writes + 1
<1> DEFINE k == MemAccess(m, Load(a))
<1>1. Served(m, calls) = MemAccess(k, Store(b))
  BY DEF Served
<1>2. k \in MemoryType /\ k.reads = m.reads + 1 /\ k.writes = m.writes
  BY MemAccessType
<1> HIDE DEF k
<1>3. /\ MemAccess(k, Store(b)).reads = k.reads
      /\ MemAccess(k, Store(b)).writes = k.writes + 1
  BY <1>2, MemAccessType
<1> QED
  BY <1>1, <1>2, <1>3

\* The traffic of a fill: the fetch, and the write-back or the forwarded store.
LEMMA FillTraffic ==
  ASSUME TypeOK, NEW addr \in Addrs, NEW isWrite \in BOOLEAN, NEW w \in Ways(cfg),
         mem' = Served(mem, FillCalls(cfg, cache, addr, isWrite, w))
  PROVE  /\ mem'.reads = mem.reads + 1
         /\ mem'.writes = IF \/ MustWriteBack(cfg, cache.lines[SetOf(cfg, BlockOf(cfg, addr))][w])
                             \/ isWrite /\ ~WritesBack(cfg)
                          THEN mem.writes + 1 ELSE mem.writes
<1> DEFINE s == SetOf(cfg, BlockOf(cfg, addr))
           frame == cache.lines[s][w]
           wb == MustWriteBack(cfg, frame)
           calls == FillCalls(cfg, cache, addr, isWrite, w)
           victim == AddrOf(cfg, VictimBlock(cfg, frame.tag, s))
<1>1. /\ wb => calls = <<Load(addr), Store(victim)>>
      /\ ~wb /\ isWrite /\ ~WritesBack(cfg) => calls = <<Load(addr), Store(addr)>>
      /\ ~wb /\ (~isWrite \/ WritesBack(cfg)) => calls = <<Load(addr)>>
  BY FillCallsCases
<1>2. mem' = Served(mem, calls) /\ mem \in MemoryType
  BY DEF TypeOK, MemoryType
<1> SUFFICES /\ mem'.reads = mem.reads + 1
             /\ mem'.writes = IF wb \/ (isWrite /\ ~WritesBack(cfg))
                              THEN mem.writes + 1 ELSE mem.writes
  OBVIOUS
<1> HIDE DEF calls, victim
<1>3. CASE wb
  <2>1. calls = <<Load(addr), Store(victim)>>
    BY <1>1, <1>3
  <2> QED
    BY <1>2, <1>3, <2>1, ServedTwoCalls
<1>4. CASE ~wb /\ isWrite /\ ~WritesBack(cfg)
  <2>1. calls = <<Load(addr), Store(addr)>>
    BY <1>1, <1>4
  <2> QED
    BY <1>2, <1>4, <2>1, ServedTwoCalls
<1>5. CASE ~wb /\ (~isWrite \/ WritesBack(cfg))
  <2>1. mem' = Served(mem, <<Load(addr)>>)
    BY <1>1, <1>2, <1>5
  <2> HIDE DEF wb
  <2>2. mem' = MemAccess(mem, Load(addr))
    BY <2>1 DEF Served
  <2>3. mem'.reads = mem.reads + 1 /\ mem'.writes = mem.writes
    BY <1>2, <2>2, MemAccessType
  <2> QED
    BY <1>5, <2>3
<1> QED
  BY <1>3, <1>4, <1>5

-----------------------------------------------------------------------------
(* The self-check of Cache::checkInvariants.                               *)

CountInv == TypeOK /\ Healthy(cfg, Blocks, cache)

\* The counters of a new cache agree.
LEMMA CountInit == Init => CountInv
BY TypeInit, NewCacheHealthy DEF Init, CountInv

\* Every access preserves the sums.
LEMMA CountStep == CountInv /\ [Next]_vars => CountInv'
<1> SUFFICES ASSUME CountInv, [Next]_vars PROVE Healthy(cfg, Blocks, cache)'
  BY TypeStep DEF CountInv
<1>1. /\ Constructible(cfg)
      /\ \A addr \in Addrs : addr \in Nat /\ BlockOf(cfg, addr) \in Blocks
  BY ConfigsAssumption, AddrsAssumption DEF CountInv, TypeOK, Blocks
<1>2. CASE UNCHANGED vars
  BY <1>2 DEF vars, CountInv, Healthy, CheckInvariants, CacheType, Blocks
<1>3. ASSUME cfg' = cfg, Healthy(cfg, Blocks, cache') PROVE Healthy(cfg, Blocks, cache)'
  BY <1>3 DEF Blocks
<1>4. ASSUME NEW addr \in Addrs, NEW isWrite \in BOOLEAN, Hit(addr, isWrite)
      PROVE  Healthy(cfg, Blocks, cache)'
  <2>1. cfg' = cfg /\ cache' = AfterHit(cfg, cache, addr, isWrite)
        /\ IsHit(cfg, cache, BlockOf(cfg, addr))
    BY <1>4 DEF Hit
  <2> QED BY <1>1, <1>3, <2>1, HitHealthy DEF CountInv
<1>5. ASSUME NEW addr \in Addrs, WriteAround(addr)
      PROVE  Healthy(cfg, Blocks, cache)'
  <2>1. cfg' = cfg /\ cache' = AfterWriteAround(cfg, cache, addr)
    BY <1>5 DEF WriteAround
  <2> QED BY <1>1, <1>3, <2>1, WriteAroundHealthy DEF CountInv
<1>6. ASSUME NEW addr \in Addrs, NEW isWrite \in BOOLEAN, Fill(addr, isWrite)
      PROVE  Healthy(cfg, Blocks, cache)'
  <2>1. PICK w \in Ways(cfg) : cfg' = cfg /\ cache' = AfterFill(cfg, cache, addr, isWrite, w)
    BY <1>6, FillEffect DEF CountInv
  <2> QED BY <1>1, <1>3, <2>1, FillHealthy DEF CountInv
<1> QED
  BY <1>2, <1>4, <1>5, <1>6 DEF Next

\* Cache::checkInvariants passes after every access of every trace, so the
\* simulator never exits with the code it keeps for a failed self-check.
THEOREM SelfCheckPasses == Spec => []SelfCheck
<1>1. CountInv => SelfCheck
  BY DEF CountInv, Healthy, SelfCheck
<1> QED
  BY <1>1, CountInit, CountStep, PTL DEF Spec

-----------------------------------------------------------------------------
(* The traffic below, and the stores still owed to it.                     *)

Debt == mem.writes + Cardinality(DirtyIn(cfg, cache)) <= cache.stats["writes"]

TrafficInv == TypeOK /\ TrafficLaw /\ Debt

\* Before the first access there is no traffic.
LEMMA TrafficInit == Init => TrafficLaw /\ Debt
<1> SUFFICES ASSUME Init PROVE TrafficLaw /\ Debt
  OBVIOUS
<1>1. TrafficLaw
  BY DEF Init, NewCache, NewMemory, TrafficLaw, Counters
<1>2. Cardinality(DirtyIn(cfg, cache)) = 0
  BY NewCacheOwesNothing DEF Init
<1>3. mem.writes = 0 /\ cache.stats["writes"] = 0
  BY DEF Init, NewCache, NewMemory, Counters
<1> QED BY <1>1, <1>2, <1>3 DEF Debt

\* The counters are numbers.
LEMMA TrafficTypes ==
  ASSUME TypeOK
  PROVE  /\ Constructible(cfg) /\ CacheType(cfg, Blocks, cache)
         /\ cache.stats \in [Counters -> Nat] /\ \A k \in Counters : cache.stats[k] \in Nat
         /\ mem \in MemoryType /\ mem.reads \in Nat /\ mem.writes \in Nat
BY ConfigsAssumption DEF TypeOK, CacheType, MemoryType

\* Traffic that grows with the counters as the policies say keeps the law.
LEMMA TrafficGrows ==
  ASSUME TrafficInv, cfg' = cfg, NEW isWrite \in BOOLEAN, NEW loads, NEW stores,
         Lawful(cfg, cache.stats, cache'.stats, isWrite, loads, stores),
         Coalesces(cfg, cache, cache', isWrite, stores),
         mem'.reads = mem.reads + loads,
         mem'.writes = mem.writes + stores
  PROVE  TrafficLaw' /\ Debt'
<1>1. /\ mem.reads \in Nat /\ mem.writes \in Nat /\ cache.stats["writes"] \in Nat
      /\ Constructible(cfg)
  BY TrafficTypes DEF TrafficInv, Counters
<1>2. Law(cfg, cache.stats, mem.reads, mem.writes)
  BY DEF TrafficInv, TrafficLaw, Law
<1>3. Law(cfg, cache'.stats, mem'.reads, mem'.writes)
  BY <1>1, <1>2 DEF Lawful
<1>4. TrafficLaw'
  BY <1>3 DEF Law, TrafficLaw, WritesBack, WriteAllocates
<1> DEFINE x == One(isWrite)
           e == Cardinality(DirtyIn(cfg, cache'))
           f == Cardinality(DirtyIn(cfg, cache))
<1>5. x \in Nat /\ e \in Nat /\ f \in Nat /\ stores \in Nat
  BY <1>1, DirtyInFinite DEF One, Lawful
<1>6. stores + e <= f + x /\ mem.writes + f <= cache.stats["writes"]
  BY DEF Coalesces, TrafficInv, Debt
<1>7. cache'.stats["writes"] = cache.stats["writes"] + x
  BY DEF Lawful
<1>8. Debt' = (mem'.writes + e <= cache'.stats["writes"])
  BY DEF Debt, DirtyIn
<1> HIDE DEF x, e, f
<1>9. (mem.writes + stores) + e <= cache.stats["writes"] + x
  BY <1>1, <1>5, <1>6
<1> QED
  BY <1>4, <1>7, <1>8, <1>9

\* A hit sends below what the law says.
LEMMA TrafficHit ==
  ASSUME TrafficInv, NEW addr \in Addrs, NEW isWrite \in BOOLEAN, Hit(addr, isWrite)
  PROVE  TrafficLaw' /\ Debt'
<1>1. TypeOK /\ mem \in MemoryType /\ addr \in Nat
  BY TrafficTypes, AddrsAssumption DEF TrafficInv
<1>2. /\ cfg' = cfg /\ cache' = AfterHit(cfg, cache, addr, isWrite)
      /\ mem' = Served(mem, HitCalls(cfg, addr, isWrite))
  BY DEF Hit
<1> DEFINE stores == One(isWrite /\ ~WritesBack(cfg))
<1>3. Lawful(cfg, cache.stats, cache'.stats, isWrite, 0, stores)
  BY <1>1, <1>2, TrafficTypes, HitAdds, HitLawful
<1>4. Coalesces(cfg, cache, cache', isWrite, stores)
  BY <1>1, <1>2, TrafficTypes, HitCoalesces
<1>5. mem'.reads = mem.reads + 0 /\ mem'.writes = mem.writes + stores
  <2>1. mem.reads \in Nat /\ mem.writes \in Nat
    BY <1>1, TrafficTypes
  <2>2. /\ mem'.reads = mem.reads
        /\ mem'.writes = IF isWrite /\ ~WritesBack(cfg) THEN mem.writes + 1 ELSE mem.writes
    BY <1>1, <1>2, ServedCalls DEF HitCalls
  <2>3. stores = IF isWrite /\ ~WritesBack(cfg) THEN 1 ELSE 0
    BY DEF One
  <2> HIDE DEF stores
  <2> QED BY <2>1, <2>2, <2>3
<1> HIDE DEF stores
<1> QED
  BY <1>2, <1>3, <1>4, <1>5, TrafficGrows

\* So does a write-around.
LEMMA TrafficWriteAround ==
  ASSUME TrafficInv, NEW addr \in Addrs, WriteAround(addr)
  PROVE  TrafficLaw' /\ Debt'
<1>1. TypeOK /\ mem \in MemoryType /\ addr \in Nat
  BY TrafficTypes, AddrsAssumption DEF TrafficInv
<1>2. /\ cfg' = cfg /\ ~WriteAllocates(cfg) /\ cache' = AfterWriteAround(cfg, cache, addr)
      /\ mem' = Served(mem, <<Store(addr)>>)
  BY DEF WriteAround, WriteAroundCalls
<1> DEFINE isWrite == TRUE
<1>3. isWrite \in BOOLEAN /\ isWrite
  OBVIOUS
<1> HIDE DEF isWrite
<1>4. Lawful(cfg, cache.stats, cache'.stats, isWrite, 0, 1)
  BY <1>1, <1>2, <1>3, TrafficTypes, WriteAroundAdds, WriteAroundLawful
<1>5. Coalesces(cfg, cache, cache', isWrite, 1)
  BY <1>1, <1>2, <1>3, TrafficTypes, WriteAroundCoalesces
<1>6. mem'.reads = mem.reads + 0 /\ mem'.writes = mem.writes + 1
  <2>1. mem.reads \in Nat
    BY <1>1, TrafficTypes
  <2>2. mem'.reads = mem.reads /\ mem'.writes = mem.writes + 1
    BY <1>1, <1>2, ServedCalls
  <2> QED BY <2>1, <2>2
<1> QED
  BY <1>2, <1>3, <1>4, <1>5, <1>6, TrafficGrows

\* So does a fill.
LEMMA TrafficFill ==
  ASSUME TrafficInv, NEW addr \in Addrs, NEW isWrite \in BOOLEAN, Fill(addr, isWrite)
  PROVE  TrafficLaw' /\ Debt'
<1>1. TypeOK /\ mem \in MemoryType /\ addr \in Nat /\ (isWrite => WriteAllocates(cfg))
  BY TrafficTypes, AddrsAssumption DEF TrafficInv, Fill
<1>2. PICK w \in Ways(cfg) :
        /\ cfg' = cfg
        /\ cache' = AfterFill(cfg, cache, addr, isWrite, w)
        /\ mem' = Served(mem, FillCalls(cfg, cache, addr, isWrite, w))
  BY FillEffect DEF TrafficInv
<1> DEFINE wb == MustWriteBack(cfg, cache.lines[SetOf(cfg, BlockOf(cfg, addr))][w])
           stores == One(wb \/ (isWrite /\ ~WritesBack(cfg)))
<1>3. wb \in BOOLEAN /\ (wb => WritesBack(cfg))
  BY FillCounts DEF MustWriteBack
<1>4. Adds(cache.stats, cache'.stats, 1, One(isWrite), One(~isWrite), One(wb))
  BY <1>1, <1>2, TrafficTypes, FillAdds
<1>5. Lawful(cfg, cache.stats, cache'.stats, isWrite, 1, stores)
  <2> HIDE DEF wb
  <2> QED BY <1>1, <1>3, <1>4, TrafficTypes, FillLawful
<1>6. Coalesces(cfg, cache, cache', isWrite, stores)
  BY <1>1, <1>2, <1>3, TrafficTypes, FillCoalesces
<1>7. mem'.reads = mem.reads + 1 /\ mem'.writes = mem.writes + stores
  <2>1. mem.writes \in Nat
    BY <1>1, TrafficTypes
  <2>2. /\ mem'.reads = mem.reads + 1
        /\ mem'.writes = IF wb \/ (isWrite /\ ~WritesBack(cfg))
                         THEN mem.writes + 1 ELSE mem.writes
    BY <1>1, <1>2, FillTraffic
  <2> HIDE DEF wb
  <2> QED BY <2>1, <2>2 DEF One
<1> HIDE DEF wb, stores
<1> QED
  BY <1>2, <1>5, <1>6, <1>7, TrafficGrows

\* Every access preserves the law.
LEMMA TrafficStep == TrafficInv /\ [Next]_vars => TrafficInv'
<1> SUFFICES ASSUME TrafficInv, [Next]_vars PROVE TrafficLaw' /\ Debt'
  BY TypeStep DEF TrafficInv
<1>1. CASE UNCHANGED vars
  BY <1>1 DEF vars, TrafficInv, TrafficLaw, Debt
<1>2. CASE Next
  BY <1>2, TrafficHit, TrafficWriteAround, TrafficFill DEF Next
<1> QED
  BY <1>1, <1>2

\* The invariant holds of every run.
LEMMA TrafficAlways == Spec => []TrafficInv
<1>1. Init => TrafficInv
  BY TypeInit, TrafficInit DEF TrafficInv
<1> QED
  BY <1>1, TrafficStep, PTL DEF Spec

\* The traffic to memory is exactly what the write and allocation policies
\* promise, for every geometry and trace.
THEOREM TrafficPromised == Spec => []TrafficLaw
<1>1. TrafficInv => TrafficLaw
  BY DEF TrafficInv
<1> QED
  BY <1>1, TrafficAlways, PTL

\* Stores coalesce: however a trace is laid out, memory sees at most one
\* write of each store, counting those it still has to see.
THEOREM OneWritePerStore == Spec => []StoresCoalesce
<1>1. TrafficInv /\ OwedIsDirty => StoresCoalesce
  <2> SUFFICES ASSUME TrafficInv, OwedIsDirty PROVE StoresCoalesce
    OBVIOUS
  <2> DEFINE E == DirtyIn(cfg, cache)
             D == DirtyFrames
             held == [f \in D |-> BlockAt(f)]
  <2>1. /\ mem.writes \in Nat /\ cache.stats["writes"] \in Nat /\ Constructible(cfg)
    BY TrafficTypes DEF TrafficInv, Counters
  <2>2. IsFiniteSet(E) /\ Cardinality(E) \in Nat
    BY <2>1, DirtyInFinite
  <2>3. D \subseteq E
    BY DEF DirtyFrames, ValidFrames, DirtyIn, Frames, LineAt
  <2>4. owed = {BlockAt(f) : f \in D}
    BY DEF OwedIsDirty, DirtyBlocks
  <2>5. held \in Surjection(D, owed)
    BY <2>4 DEF Surjection
  <2> HIDE DEF D, E, held
  <2>6. IsFiniteSet(D) /\ Cardinality(D) <= Cardinality(E) /\ Cardinality(D) \in Nat
    BY <2>2, <2>3, FS_Subset, FS_CardinalityType
  <2>7. IsFiniteSet(owed) /\ Cardinality(owed) <= Cardinality(D) /\ Cardinality(owed) \in Nat
    BY <2>5, <2>6, FS_Surjection, FS_CardinalityType
  <2>8. mem.writes + Cardinality(E) <= cache.stats["writes"]
    BY DEF TrafficInv, Debt, E
  <2>9. mem.writes + Cardinality(owed) <= cache.stats["writes"]
    BY <2>1, <2>2, <2>6, <2>7, <2>8
  <2> QED BY <2>9 DEF StoresCoalesce
<1> QED
  BY <1>1, TrafficAlways, NoStoreLost, PTL

-----------------------------------------------------------------------------
(* The abstract store computes with the same geometry.                     *)

\* The operators of CacheGeometry, as the abstract store sees them.
LEMMA SameGeometry ==
  ASSUME NEW g, NEW b
  PROVE  /\ Abstract!SetOf(g, b) = SetOf(g, b)
         /\ Abstract!BlockOf(g, b) = BlockOf(g, b)
         /\ Abstract!WritesBack(g) = WritesBack(g)
         /\ Abstract!WriteAllocates(g) = WriteAllocates(g)
BY DEF Abstract!SetOf, SetOf, Abstract!NumSets, NumSets, Abstract!BlockOf, BlockOf,
       Abstract!WritesBack, WritesBack, Abstract!WriteAllocates, WriteAllocates

\* The peers of a block are the blocks of the set it belongs to.
LEMMA PeersInSet ==
  ASSUME NEW b
  PROVE  Abstract!Peers(b) = {x \in Resident : SetOf(cfg, x) = SetOf(cfg, b)}
BY SameGeometry DEF Abstract!Peers

\* The constructor's checks are those the abstract store starts from.
LEMMA SameConstructible ==
  ASSUME NEW g, Constructible(g)
  PROVE  Abstract!Constructible(g)
BY DEF Constructible, Abstract!Constructible, ConfigType, Abstract!ConfigType,
       IsPow2, Abstract!IsPow2, NumSets, Abstract!NumSets,
       Replacements, Abstract!Replacements, WritePolicies, Abstract!WritePolicies,
       AllocPolicies, Abstract!AllocPolicies

-----------------------------------------------------------------------------
(* How full a set is.                                                      *)

TakenWays(s) == Ways(cfg) \ EmptyWays(cfg, cache, s)

\* The peers of a block are as many as the ways of its set that are taken.
LEMMA PeerCount ==
  ASSUME TypeOK, NoDuplicateBlock, NEW b \in Nat
  PROVE  /\ IsFiniteSet(TakenWays(SetOf(cfg, b)))
         /\ Cardinality(Abstract!Peers(b)) = Cardinality(TakenWays(SetOf(cfg, b)))
<1> DEFINE s == SetOf(cfg, b)
           taken == TakenWays(s)
           peers == {x \in Resident : SetOf(cfg, x) = s}
           held == [w \in taken |-> BlockAt(<<s, w>>)]
<1>1. Constructible(cfg) /\ s \in Sets(cfg)
  BY ConfigsAssumption, Decomposition DEF TypeOK
<1>2. IsFiniteSet(taken)
  <2>1. IsFiniteSet(Ways(cfg))
    BY <1>1, WayCount
  <2> QED
    BY <2>1, FS_Subset DEF TakenWays
<1>3. \A w \in taken : <<s, w>> \in ValidFrames
  BY <1>1 DEF TakenWays, EmptyWays, ValidFrames, Frames, LineAt
<1>4. \A f \in ValidFrames :
        /\ f[1] = SetOf(cfg, BlockAt(f)) /\ f = <<f[1], f[2]>>
        /\ f[2] \in TakenWays(f[1])
  BY FrameFacts DEF TakenWays, EmptyWays, ValidFrames, LineAt
<1> HIDE DEF s
<1>5. ASSUME NEW w \in taken PROVE BlockAt(<<s, w>>) \in peers
  BY <1>3, <1>4 DEF Resident
<1>6. ASSUME NEW x \in peers PROVE \E w \in taken : BlockAt(<<s, w>>) = x
  BY <1>4 DEF Resident
<1>7. ASSUME NEW w \in taken, NEW v \in taken, BlockAt(<<s, w>>) = BlockAt(<<s, v>>)
      PROVE  w = v
  BY <1>3, <1>7 DEF NoDuplicateBlock
<1> HIDE DEF taken, peers
<1>8. held \in Bijection(taken, peers)
  BY <1>5, <1>6, <1>7 DEF Bijection, Injection, Surjection, IsInjective
<1>9. Cardinality(peers) = Cardinality(taken)
  BY <1>2, <1>8, FS_Bijection DEF ExistsBijection
<1> QED
  BY <1>2, <1>9, PeersInSet DEF s, taken, peers

\* A set with an empty frame has fewer peers than ways, one without has as
\* many.
LEMMA RoomInSet ==
  ASSUME TypeOK, NoDuplicateBlock, NEW b \in Nat
  PROVE  IF EmptyWays(cfg, cache, SetOf(cfg, b)) # {}
         THEN Cardinality(Abstract!Peers(b)) < cfg.associativity
         ELSE Cardinality(Abstract!Peers(b)) = cfg.associativity
<1> DEFINE empty == EmptyWays(cfg, cache, SetOf(cfg, b))
           taken == TakenWays(SetOf(cfg, b))
           n == cfg.associativity
<1>1. n \in Nat \ {0}
  BY ConfigsAssumption, GeometryType DEF TypeOK
<1>2. IsFiniteSet(Ways(cfg)) /\ Cardinality(Ways(cfg)) = n
  BY ConfigsAssumption, WayCount DEF TypeOK
<1>3. /\ taken \subseteq Ways(cfg) /\ empty \subseteq Ways(cfg)
      /\ taken = Ways(cfg) \ empty
  BY DEF TakenWays, EmptyWays
<1>4. Cardinality(taken) \in Nat /\ Cardinality(taken) <= n
      /\ (Cardinality(taken) = n => taken = Ways(cfg))
  BY <1>2, <1>3, FS_Subset, FS_CardinalityType
<1>5. Cardinality(Abstract!Peers(b)) = Cardinality(taken)
  BY PeerCount
<1> HIDE DEF empty, taken, n
<1>6. CASE empty # {}
  BY <1>1, <1>3, <1>4, <1>5, <1>6 DEF empty, n
<1>7. CASE empty = {}
  <2>1. taken = Ways(cfg)
    BY <1>3, <1>7
  <2> QED
    BY <1>2, <1>5, <1>7, <2>1 DEF empty, n
<1> QED
  BY <1>6, <1>7

-----------------------------------------------------------------------------
(* What an access does to the abstract state.                              *)

\* A new cache is an empty store.
LEMMA InitMaps == Init => Abstract!Init
<1> SUFFICES ASSUME Init PROVE Abstract!Init
  OBVIOUS
<1>1. ValidFrames = {}
  BY DEF Init, NewCache, Empty, ValidFrames, LineAt, Frames
<1>2. Resident = {} /\ DirtyBlocks = {}
  BY <1>1 DEF Resident, DirtyBlocks, DirtyFrames
<1>3. mem.reads = 0 /\ mem.writes = 0
  BY DEF Init, NewMemory
<1>4. Abstract!Constructible(cfg)
  BY ConfigsAssumption, SameConstructible DEF Init
<1> QED
  BY <1>2, <1>3, <1>4 DEF Abstract!Init

\* A hit finds the block, and a store marks it or passes it on.
LEMMA HitMaps ==
  ASSUME StoreInv, NEW addr \in Addrs, NEW isWrite \in BOOLEAN, Hit(addr, isWrite)
  PROVE  Abstract!Find(BlockOf(cfg, addr), isWrite)
<1> DEFINE block == BlockOf(cfg, addr)
           marks == isWrite /\ WritesBack(cfg)
<1>1. PICK t \in ValidFrames :
        /\ BlockAt(t) = block /\ cfg' = cfg /\ Frames' = Frames
        /\ \A f \in Frames :
             /\ LineAt(f)'.valid = LineAt(f).valid
             /\ LineAt(f)'.tag = LineAt(f).tag
             /\ LineAt(f)'.dirty = IF f = t THEN LineAt(f).dirty \/ marks ELSE LineAt(f).dirty
  BY HitEffect DEF StoreInv
<1>2. ValidFrames \subseteq Frames
  BY DEF ValidFrames
<1>3. ValidFrames' = ValidFrames /\ \A f \in Frames : BlockAt(f)' = BlockAt(f)
  BY <1>1 DEF ValidFrames, BlockAt
<1>4. block \in Resident /\ Resident' = Resident
  BY <1>1, <1>2, <1>3 DEF Resident
<1>5. DirtyFrames' = DirtyFrames \cup (IF marks THEN {t} ELSE {})
  BY <1>1, <1>2, <1>3 DEF DirtyFrames
<1>6. DirtyBlocks' = DirtyBlocks \cup (IF marks THEN {block} ELSE {})
  BY <1>1, <1>2, <1>3, <1>5 DEF DirtyBlocks, DirtyFrames
<1>7. mem'.reads = mem.reads
      /\ mem'.writes = IF isWrite /\ ~WritesBack(cfg) THEN mem.writes + 1 ELSE mem.writes
  <2>1. mem \in MemoryType /\ mem' = Served(mem, HitCalls(cfg, addr, isWrite))
    BY DEF StoreInv, TypeOK, MemoryType, Hit
  <2> QED
    BY <2>1, ServedCalls DEF HitCalls
<1> HIDE DEF block
<1> QED
  BY <1>1, <1>4, <1>6, <1>7, SameGeometry DEF Abstract!Find, block

\* A write-around is a store that passes by.
LEMMA WriteAroundMaps ==
  ASSUME StoreInv, NEW addr \in Addrs, WriteAround(addr)
  PROVE  Abstract!PassBy(BlockOf(cfg, addr))
<1> DEFINE block == BlockOf(cfg, addr)
<1>1. block \in Nat
  BY ConfigsAssumption, AddrsAssumption, BlockOfType DEF StoreInv, TypeOK
<1>2. block \notin Resident
  BY <1>1, MissIsAbsent DEF StoreInv, WriteAround, Resident
<1>3. Resident' = Resident /\ DirtyBlocks' = DirtyBlocks /\ cfg' = cfg
  BY FramesKept, WriteAroundKeeps
<1>4. mem'.reads = mem.reads /\ mem'.writes = mem.writes + 1
  <2>1. mem \in MemoryType /\ mem' = Served(mem, <<Store(addr)>>)
    BY DEF StoreInv, TypeOK, MemoryType, WriteAround, WriteAroundCalls
  <2> QED
    BY <2>1, ServedCalls
<1>5. ~WriteAllocates(cfg)
  BY DEF WriteAround
<1> QED
  BY <1>2, <1>3, <1>4, <1>5, SameGeometry DEF Abstract!PassBy

\* The block of the frame a fill evicts from, if it held one.
Gone(f) == IF f \in ValidFrames THEN {BlockAt(f)} ELSE {}

\* What a fill of frame t makes of the blocks held and owed: the block of t
\* leaves both sets, and the block of the access is held in its place.
LEMMA FillBlocks ==
  ASSUME StoreInv, NEW b \in Nat, NEW isWrite \in BOOLEAN, NEW t \in Frames,
         t[1] = SetOf(cfg, b), cfg' = cfg, Frames' = Frames,
         \A f \in Frames : LineAt(f)' = IF f = t THEN Installed(cfg, b, isWrite) ELSE LineAt(f)
  PROVE  /\ Resident' = (Resident \ Gone(t)) \cup {b}
         /\ DirtyBlocks' = (DirtyBlocks \ Gone(t))
                            \cup (IF isWrite /\ WritesBack(cfg) THEN {b} ELSE {})
<1> DEFINE marks == isWrite /\ WritesBack(cfg)
<1>1. /\ LineAt(t)'.valid /\ (LineAt(t)'.dirty <=> marks)
      /\ LineAt(t)'.tag = TagOf(cfg, b)
  BY InstalledFields
<1>2. BlockAt(t)' = b
  <2>1. Constructible(cfg)
    BY ConfigsAssumption DEF StoreInv, TypeOK
  <2> QED
    BY <1>1, <2>1, Decomposition DEF BlockAt
<1>3. \A f \in Frames : f # t => BlockAt(f)' = BlockAt(f)
  BY DEF BlockAt
<1>4. ValidFrames' = (ValidFrames \ {t}) \cup {t}
  BY <1>1 DEF ValidFrames
<1>5. DirtyFrames' = (DirtyFrames \ {t}) \cup (IF marks THEN {t} ELSE {})
  BY <1>1 DEF DirtyFrames, ValidFrames
<1>6. DirtyFrames \subseteq ValidFrames /\ ValidFrames \subseteq Frames
  BY DEF DirtyFrames, ValidFrames
<1>7. \A f \in ValidFrames : f # t => BlockAt(f) \notin Gone(t)
  BY DEF StoreInv, NoDuplicateBlock, Gone
<1>8. \A f \in ValidFrames : f = t => BlockAt(f) \in Gone(t)
  BY DEF Gone
<1>9. {BlockAt(f) : f \in ValidFrames \ {t}} = Resident \ Gone(t)
  BY <1>7, <1>8 DEF Resident
<1>10. {BlockAt(f) : f \in DirtyFrames \ {t}} = DirtyBlocks \ Gone(t)
  BY <1>6, <1>7, <1>8 DEF DirtyBlocks
<1> HIDE DEF marks
<1>11. {BlockAt(f)' : f \in ValidFrames'}
          = {BlockAt(f) : f \in ValidFrames \ {t}} \cup {b}
  BY <1>2, <1>3, <1>4, <1>6
<1>12. {BlockAt(f)' : f \in DirtyFrames'}
          = {BlockAt(f) : f \in DirtyFrames \ {t}} \cup (IF marks THEN {b} ELSE {})
  BY <1>2, <1>3, <1>5, <1>6
<1>13. /\ Resident' = {BlockAt(f)' : f \in ValidFrames'}
       /\ DirtyBlocks' = {BlockAt(f)' : f \in DirtyFrames'}
  BY DEF Resident, DirtyBlocks
<1> QED
  BY <1>9, <1>10, <1>11, <1>12, <1>13 DEF marks

\* Among what leaves, the owed blocks are as many as the write-backs.
LEMMA GoneDirty ==
  ASSUME StoreInv, NEW t \in Frames
  PROVE  Cardinality(Gone(t) \cap DirtyBlocks) = IF MustWriteBack(cfg, LineAt(t)) THEN 1 ELSE 0
<1>1. MustWriteBack(cfg, LineAt(t)) <=> t \in DirtyFrames
  BY DEF MustWriteBack, DirtyFrames, ValidFrames, StoreInv, WriteThroughIsClean
<1>2. CASE t \in DirtyFrames
  <2>1. Gone(t) \cap DirtyBlocks = {BlockAt(t)}
    BY <1>2 DEF Gone, DirtyBlocks, DirtyFrames
  <2> QED
    BY <1>1, <1>2, <2>1, FS_Singleton
<1>3. CASE t \notin DirtyFrames
  <2>1. \A f \in DirtyFrames : f \in ValidFrames /\ f # t
    BY <1>3 DEF DirtyFrames
  <2>2. Gone(t) \cap DirtyBlocks = {}
    BY <2>1 DEF Gone, DirtyBlocks, StoreInv, NoDuplicateBlock
  <2> QED
    BY <1>1, <1>3, <2>2, FS_EmptySet
<1> QED
  BY <1>2, <1>3

\* The abstract store counts as the cache does.
LEMMA SameCardinality == \A S : Abstract!Cardinality(S) = Cardinality(S)
  BY DEF Abstract!Cardinality, Cardinality

\* A fill brings the block in, to a free way or in the place of a peer.
LEMMA FillMaps ==
  ASSUME StoreInv, NEW addr \in Addrs, NEW isWrite \in BOOLEAN, Fill(addr, isWrite)
  PROVE  LET b == BlockOf(cfg, addr)
         IN  Abstract!BringToRoom(b, isWrite) \/ Abstract!BringToFullSet(b, isWrite)
<1> DEFINE b == BlockOf(cfg, addr)
           s == SetOf(cfg, b)
<1> SUFFICES Abstract!BringToRoom(b, isWrite) \/ Abstract!BringToFullSet(b, isWrite)
  OBVIOUS
<1>1. Constructible(cfg) /\ b \in Nat /\ s \in Sets(cfg) /\ TypeOK /\ NoDuplicateBlock
  BY ConfigsAssumption, AddrsAssumption, BlockOfType, Decomposition DEF StoreInv, TypeOK
<1>2. PICK w \in Ways(cfg), t \in Frames :
        /\ t = <<s, w>> /\ w \in PickWays(cfg, cache, s)
        /\ cfg' = cfg /\ Frames' = Frames
        /\ \A f \in Frames : LineAt(f)' = IF f = t THEN Installed(cfg, b, isWrite) ELSE LineAt(f)
        /\ mem' = Served(mem, FillCalls(cfg, cache, addr, isWrite, w))
  BY <1>1, FillEffect
<1>3. t[1] = s /\ t[2] = w /\ LineAt(t) = cache.lines[s][w]
  BY <1>2 DEF LineAt
<1> DEFINE wb == MustWriteBack(cfg, LineAt(t))
           forwarded == isWrite /\ ~WritesBack(cfg)
<1>4. /\ Resident' = (Resident \ Gone(t)) \cup {b}
      /\ DirtyBlocks' = (DirtyBlocks \ Gone(t))
                         \cup (IF isWrite /\ WritesBack(cfg) THEN {b} ELSE {})
  BY <1>1, <1>2, <1>3, FillBlocks
<1>5. /\ mem'.reads = mem.reads + 1
      /\ mem'.writes = IF wb \/ forwarded THEN mem.writes + 1 ELSE mem.writes
  BY <1>1, <1>2, <1>3, FillTraffic
<1>6. Cardinality(Gone(t) \cap DirtyBlocks) = IF wb THEN 1 ELSE 0
  BY GoneDirty
<1>7. wb => ~forwarded
  BY DEF MustWriteBack
<1>8. mem.writes \in Nat
  BY <1>1 DEF TypeOK
<1>9. mem'.writes = mem.writes + Cardinality(Gone(t) \cap DirtyBlocks)
                               + (IF forwarded THEN 1 ELSE 0)
  <2> HIDE DEF wb, forwarded
  <2> QED
    BY <1>5, <1>6, <1>7, <1>8
<1>10. b \notin Resident /\ (isWrite => WriteAllocates(cfg))
  BY <1>1, MissIsAbsent DEF Fill, Resident
<1> HIDE DEF b
<1>11. Abstract!Bring(b, isWrite, Gone(t))
  BY <1>2, <1>4, <1>5, <1>9, <1>10, SameGeometry, SameCardinality DEF Abstract!Bring, forwarded
<1>12. CASE EmptyWays(cfg, cache, s) # {}
  <2>1. w \in EmptyWays(cfg, cache, s)
    <3>1. EmptyWays(cfg, cache, s) \in SUBSET Nat
      BY <1>1, GeometryType DEF EmptyWays, Ways
    <3> QED
      BY <1>2, <1>12, <3>1, FirstIsLeast DEF PickWays
  <2>2. Gone(t) = {}
    BY <1>3, <2>1 DEF EmptyWays, Gone, ValidFrames
  <2>3. Cardinality(Abstract!Peers(b)) < cfg.associativity
    BY <1>1, <1>12, RoomInSet
  <2> QED
    BY <1>11, <2>2, <2>3, SameCardinality DEF Abstract!BringToRoom
<1>13. CASE EmptyWays(cfg, cache, s) = {}
  <2>1. t \in ValidFrames
    BY <1>2, <1>3, <1>13 DEF EmptyWays, ValidFrames
  <2>2. Gone(t) = {BlockAt(t)}
    BY <2>1 DEF Gone
  <2>3. BlockAt(t) \in Abstract!Peers(b)
    BY <1>1, <1>3, <2>1, FrameFacts, PeersInSet DEF Resident
  <2>4. Cardinality(Abstract!Peers(b)) = cfg.associativity
    BY <1>1, <1>13, RoomInSet
  <2> QED
    BY <1>11, <2>2, <2>3, <2>4, SameCardinality DEF Abstract!BringToFullSet
<1> QED
  BY <1>12, <1>13

\* Every step of the cache is a step of the abstract store, or none.
LEMMA StepMaps == StoreInv /\ [Next]_vars => [Abstract!Next]_(Abstract!vars)
<1> SUFFICES ASSUME StoreInv, [Next]_vars PROVE [Abstract!Next]_(Abstract!vars)
  OBVIOUS
<1>1. CASE UNCHANGED vars
  <2>1. cfg' = cfg /\ mem' = mem /\ Resident' = Resident /\ DirtyBlocks' = DirtyBlocks
    BY <1>1, FramesKept DEF vars
  <2> QED
    BY <2>1 DEF Abstract!vars
<1>2. ASSUME NEW addr \in Addrs, NEW isWrite \in BOOLEAN,
             \/ Hit(addr, isWrite)
             \/ Fill(addr, isWrite)
             \/ WriteAround(addr)
      PROVE  Abstract!Next
  <2> DEFINE b == BlockOf(cfg, addr)
  <2>1. b \in {Abstract!BlockOf(cfg, a) : a \in Addrs}
    BY SameGeometry
  <2>2. \/ Abstract!Find(b, isWrite)
        \/ Abstract!BringToRoom(b, isWrite)
        \/ Abstract!BringToFullSet(b, isWrite)
        \/ Abstract!PassBy(b)
    BY <1>2, HitMaps, FillMaps, WriteAroundMaps
  <2> QED
    BY <2>1, <2>2 DEF Abstract!Next
<1>3. CASE Next
  BY <1>2, <1>3 DEF Next
<1> QED
  BY <1>1, <1>3

\* The cache implements the abstract store.  Of a set that has room nothing
\* leaves, of a full one exactly one block; a hit finds what was brought in and
\* has not left; a dirty block that leaves is written below in the same step,
\* and that, the fetches and the forwarded stores are all the traffic there is.
THEOREM CacheImplementsBlockStore == Spec => ActsAsBlockStore
<1>1. Init => StoreInv
  BY TypeInit, NoDuplicateInit, StoreInit DEF StoreInv
<1>2. Spec => Abstract!Spec
  BY <1>1, StoreStep, InitMaps, StepMaps, PTL DEF Spec, Abstract!Spec
<1> QED
  BY <1>2 DEF ActsAsBlockStore

-----------------------------------------------------------------------------
(* What every access does to the counters, the model and the history.      *)

Accesses == cache.stats["accesses"]

\* What Cache::access does on every path through it, of the block it names.
Accessed(block) ==
  /\ block \in Blocks
  /\ cfg' = cfg /\ Blocks' = Blocks
  /\ used' = Mark(used, block)
  /\ Accesses' = Accesses + 1
  /\ cache'.refFA = Shadowed(cfg, cache.refFA, block)
  /\ cache'.seen = Noted(cfg, cache, block) \/ (cache'.seen = cache.seen /\ block \in Resident)
  /\ Resident' \subseteq Resident \cup {block}

\* Every counter set of an access has "accesses" in it.
LEMMA ArrivalCounted ==
  ASSUME NEW n \in [Counters -> Nat], NEW ks, "accesses" \in ks
  PROVE  Count(n, ks)["accesses"] = n["accesses"] + 1
BY CountAt DEF Counters

\* The three paths do what every access does.
LEMMA AccessedByAll ==
  ASSUME StoreInv, NEW addr \in Addrs, NEW isWrite \in BOOLEAN,
         Hit(addr, isWrite) \/ Fill(addr, isWrite) \/ WriteAround(addr)
  PROVE  Accessed(BlockOf(cfg, addr))
<1> DEFINE b == BlockOf(cfg, addr)
<1>1. /\ Constructible(cfg) /\ b \in Nat /\ b \in Blocks /\ TypeOK
      /\ cache.stats \in [Counters -> Nat]
  BY ConfigsAssumption, AddrsAssumption, BlockOfType DEF StoreInv, TypeOK, CacheType, Blocks
<1>2. CASE Hit(addr, isWrite)
  <2>1. cfg' = cfg /\ used' = Mark(used, b) /\ cache' = AfterHit(cfg, cache, addr, isWrite)
    BY <1>2 DEF Hit
  <2>2. /\ cache'.stats = Count(cache.stats, HitCounters(isWrite))
        /\ cache'.refFA = Shadowed(cfg, cache.refFA, b) /\ cache'.seen = cache.seen
    BY <2>1 DEF AfterHit
  <2>3. Accesses' = Accesses + 1
    BY <1>1, <2>2, ArrivalCounted DEF Accesses, HitCounters, Arrival
  <2>4. b \in Resident /\ Resident' = Resident
    BY <1>2, HitMaps DEF Abstract!Find
  <2> QED
    BY <1>1, <2>1, <2>2, <2>3, <2>4 DEF Accessed, Blocks
<1>3. CASE WriteAround(addr)
  <2>1. cfg' = cfg /\ used' = Mark(used, b) /\ cache' = AfterWriteAround(cfg, cache, addr)
    BY <1>3 DEF WriteAround
  <2>2. /\ cache'.stats = Count(cache.stats, MissCounters(cfg, cache, b, TRUE))
        /\ cache'.refFA = Shadowed(cfg, cache.refFA, b) /\ cache'.seen = Noted(cfg, cache, b)
    BY <2>1 DEF AfterWriteAround
  <2>3. Accesses' = Accesses + 1
    BY <1>1, <2>2, ArrivalCounted DEF Accesses, MissCounters, Arrival
  <2>4. Resident' = Resident
    BY <1>3, FramesKept, WriteAroundKeeps
  <2> QED
    BY <1>1, <2>1, <2>2, <2>3, <2>4 DEF Accessed, Blocks
<1>4. CASE Fill(addr, isWrite)
  <2>1. PICK w : cache' = AfterFill(cfg, cache, addr, isWrite, w)
    BY <1>4 DEF Fill
  <2>2. /\ cache'.stats = Count(cache.stats, FillCounters(cfg, cache, b, isWrite,
                                                          cache.lines[SetOf(cfg, b)][w]))
        /\ cache'.refFA = Shadowed(cfg, cache.refFA, b) /\ cache'.seen = Noted(cfg, cache, b)
    BY <2>1 DEF AfterFill
  <2>3. Accesses' = Accesses + 1
    BY <1>1, <2>2, ArrivalCounted DEF Accesses, FillCounters, MissCounters, Arrival
  <2>4. cfg' = cfg /\ used' = Mark(used, b)
    BY <1>4 DEF Fill
  <2>5. Resident' \subseteq Resident \cup {b}
    BY <1>4, FillMaps DEF Abstract!BringToRoom, Abstract!BringToFullSet, Abstract!Bring
  <2> QED
    BY <1>1, <2>2, <2>3, <2>4, <2>5 DEF Accessed, Blocks
<1> QED
  BY <1>2, <1>3, <1>4

\* Every step is an access of some block.
LEMMA NextAccesses ==
  ASSUME StoreInv, Next
  PROVE  \E b \in Blocks : Accessed(b)
<1>1. PICK addr \in Addrs :
        \/ \E isWrite \in BOOLEAN : Hit(addr, isWrite) \/ Fill(addr, isWrite)
        \/ WriteAround(addr)
  BY DEF Next
<1>2. Accessed(BlockOf(cfg, addr))
  BY <1>1, AccessedByAll
<1> QED
  BY <1>2 DEF Accessed

-----------------------------------------------------------------------------
(* The order of last use, and the model that follows it.                   *)

\* The accesses recorded in used are past ones, no two blocks share one, and
\* what is in the cache was used.
UseOrder ==
  /\ \A b \in Blocks : used[b] <= Accesses
  /\ \A b, c \in Blocks : used[b] = used[c] /\ used[b] > 0 => b = c
  /\ \A b \in Resident : used[b] > 0

\* The model's clock counts the accesses and its stamps are their numbers;
\* the blocks seen are those that were ever used.
ShadowFollows ==
  cfg.classify3C =>
    /\ RefSmall(cfg, cache.refFA)
    /\ cache.refFA.clock = Accesses
    /\ \A b \in RefBlocks(cache.refFA) : cache.refFA.lastUsed[b] = used[b] /\ used[b] > 0
    /\ \A b \in Blocks : b \in cache.seen <=> used[b] > 0

OrderInv ==
  /\ StoreInv
  /\ Healthy(cfg, Blocks, cache)
  /\ UseOrder /\ ShadowFollows /\ RefHoldsMostRecent

\* No block was used, seen or kept when the constructor returns.
LEMMA OrderInit == Init => OrderInv
<1> SUFFICES ASSUME Init PROVE OrderInv
  OBVIOUS
<1>1. StoreInv /\ Healthy(cfg, Blocks, cache)
  BY TypeInit, NoDuplicateInit, StoreInit, CountInit DEF StoreInv, CountInv
<1>2. Constructible(cfg) /\ \A b \in Blocks : used[b] = 0
  BY ConfigsAssumption DEF Init
<1>3. Accesses = 0 /\ cache.refFA.clock = 0 /\ RefBlocks(cache.refFA) = {} /\ cache.seen = {}
  BY DEF Init, NewCache, NewRefFA, RefBlocks, Accesses, Counters
<1>4. Resident = {}
  BY InitMaps DEF Abstract!Init
<1>5. RefSmall(cfg, cache.refFA)
  BY <1>2, <1>3, FS_EmptySet, LinesOfSets DEF RefSmall
<1> QED
  BY <1>1, <1>2, <1>3, <1>4, <1>5 DEF OrderInv, UseOrder, ShadowFollows, RefHoldsMostRecent, RefSmall

\* An access makes its block the most recently used.
LEMMA UseOrderStep ==
  ASSUME OrderInv, NEW block \in Blocks, Accessed(block)
  PROVE  UseOrder' /\ used'[block] = Accesses + 1 /\ Accesses \in Nat
         /\ \A b \in Blocks : b # block => used'[b] = used[b]
<1>1. used \in [Blocks -> Nat] /\ Accesses \in Nat
  BY DEF OrderInv, StoreInv, TypeOK, CacheType, Counters, Accesses
<1>2. used' = [used EXCEPT ![block] = Accesses + 1]
  BY DEF Accessed, Mark, Now, Accesses
<1>3. /\ used'[block] = Accesses + 1
      /\ \A b \in Blocks : b # block => used'[b] = used[b]
  BY <1>1, <1>2
<1>4. /\ \A b \in Blocks : used[b] \in Nat /\ used[b] <= Accesses
      /\ \A b, c \in Blocks : used[b] = used[c] /\ used[b] > 0 => b = c
      /\ \A b \in Resident : used[b] > 0
      /\ Resident \subseteq Blocks
  BY <1>1 DEF OrderInv, UseOrder, StoreInv, NoDuplicateBlock
<1>5. Accesses' = Accesses + 1 /\ Blocks' = Blocks /\ Resident' \subseteq Resident \cup {block}
  BY DEF Accessed
<1>6. \A b \in Blocks' : used'[b] <= Accesses'
  BY <1>1, <1>3, <1>4, <1>5
<1>7. \A b, c \in Blocks' : used'[b] = used'[c] /\ used'[b] > 0 => b = c
  BY <1>1, <1>3, <1>4, <1>5
<1>8. \A b \in Resident' : used'[b] > 0
  BY <1>1, <1>3, <1>4, <1>5
<1> QED
  BY <1>1, <1>3, <1>6, <1>7, <1>8 DEF UseOrder

\* The model follows.
LEMMA ShadowStep ==
  ASSUME OrderInv, NEW block \in Blocks, Accessed(block)
  PROVE  ShadowFollows' /\ RefHoldsMostRecent'
<1> SUFFICES ASSUME cfg.classify3C PROVE ShadowFollows' /\ RefHoldsMostRecent'
  BY DEF ShadowFollows, RefHoldsMostRecent, Accessed
<1> DEFINE ref == cache.refFA
           d == RefTouch(cfg, ref, block)
           n == TotalLines(cfg)
           R == RefBlocks(ref)
           D == RefBlocks(d)
<1>1. /\ cfg' = cfg /\ Blocks' = Blocks /\ Accesses' = Accesses + 1
      /\ cache'.refFA = d
  BY DEF Accessed, Shadowed
<1>2. Constructible(cfg) /\ RefFAType(ref, Blocks) /\ R \subseteq Blocks /\ used \in [Blocks -> Nat]
  BY ConfigsAssumption DEF OrderInv, StoreInv, TypeOK, CacheType, RefFAType
<1>3. /\ RefSmall(cfg, ref) /\ ref.clock = Accesses
      /\ \A b \in R : ref.lastUsed[b] = used[b] /\ used[b] > 0
      /\ \A b \in Blocks : b \in cache.seen <=> used[b] > 0
  BY DEF OrderInv, ShadowFollows
<1>4. \A gone \in Blocks \ R :
        used[gone] > 0 => Cardinality(R) = n /\ \A kept \in R : used[gone] < used[kept]
  BY DEF OrderInv, RefHoldsMostRecent
<1>5. /\ RefSmall(cfg, d) /\ d.clock = ref.clock + 1
      /\ block \in D /\ d.lastUsed[block] = ref.clock + 1
      /\ \A x \in D \ {block} : x \in R /\ d.lastUsed[x] = ref.lastUsed[x]
      /\ \A x \in R \ D : \A y \in D \ {block} : ref.lastUsed[x] <= ref.lastUsed[y]
      /\ Cardinality(R) = n \/ R \ D # {} => Cardinality(D) = n
  BY <1>2, <1>3, RefTouchEffect
<1> HIDE DEF ref, d, n, R, D
<1>6. /\ used'[block] = Accesses + 1 /\ Accesses \in Nat
      /\ \A b \in Blocks : b # block => used'[b] = used[b]
      /\ \A b \in Blocks : used[b] \in Nat /\ used[b] <= Accesses
      /\ \A b, c \in Blocks : used[b] = used[c] /\ used[b] > 0 => b = c
  BY <1>2, UseOrderStep DEF OrderInv, UseOrder
<1>7. D \subseteq Blocks
  BY <1>2, <1>5
<1>8. \A b \in D : d.lastUsed[b] = used'[b] /\ used'[b] > 0
  BY <1>2, <1>3, <1>5, <1>6, <1>7
<1>9. \A b \in Blocks : b \in cache'.seen <=> used'[b] > 0
  <2>1. cache'.seen = cache.seen \cup {block} \/ (cache'.seen = cache.seen /\ used[block] > 0)
    BY DEF Accessed, Noted, OrderInv, UseOrder
  <2> QED
    BY <1>3, <1>6, <2>1
<1>10. ASSUME NEW gone \in Blocks \ D, used'[gone] > 0
       PROVE  Cardinality(D) = n /\ \A kept \in D : used'[gone] < used'[kept]
  <2>1. gone # block /\ used'[gone] = used[gone] /\ used[gone] > 0
    BY <1>5, <1>6, <1>10
  <2>2. used'[gone] < used'[block]
    BY <1>6, <2>1
  <2>3. CASE gone \in R
    <3>1. \A kept \in D \ {block} : used[gone] <= used[kept] /\ gone # kept
      BY <1>3, <1>5, <2>3
    <3>2. \A kept \in D \ {block} : used'[kept] = used[kept] /\ used[gone] # used[kept]
      BY <1>6, <1>7, <2>1, <3>1
    <3> QED
      BY <1>5, <1>6, <1>7, <2>1, <2>2, <2>3, <3>1, <3>2
  <2>4. CASE gone \notin R
    <3>1. Cardinality(R) = n /\ \A kept \in R : used[gone] < used[kept]
      BY <1>4, <2>1, <2>4
    <3>2. \A kept \in D \ {block} : used'[kept] = used[kept] /\ kept \in R
      BY <1>5, <1>6, <1>7
    <3> QED
      BY <1>5, <2>1, <2>2, <3>1, <3>2
  <2> QED
    BY <2>3, <2>4
<1>11. ShadowFollows'
  BY <1>1, <1>3, <1>5, <1>8, <1>9 DEF ShadowFollows, ref, D
<1>12. RefHoldsMostRecent'
  BY <1>1, <1>5, <1>10 DEF RefHoldsMostRecent, RefSmall, D, n
<1> QED
  BY <1>11, <1>12

\* Every access preserves the order and the model's place in it.
LEMMA OrderStep == OrderInv /\ [Next]_vars => OrderInv'
<1> SUFFICES ASSUME OrderInv, [Next]_vars PROVE OrderInv'
  OBVIOUS
<1>1. StoreInv' /\ Healthy(cfg, Blocks, cache)'
  BY StoreStep, CountStep DEF OrderInv, StoreInv, CountInv
<1>2. CASE UNCHANGED vars
  <2>1. Resident' = Resident /\ Blocks' = Blocks
    BY <1>2, FramesKept DEF vars
  <2> QED
    BY <1>1, <1>2, <2>1
       DEF vars, history, OrderInv, UseOrder, ShadowFollows, RefHoldsMostRecent, Accesses
<1>3. CASE Next
  <2>1. PICK block \in Blocks : Accessed(block)
    BY <1>3, NextAccesses DEF OrderInv
  <2> QED
    BY <1>1, <2>1, UseOrderStep, ShadowStep DEF OrderInv
<1> QED
  BY <1>2, <1>3

\* The reference model of the classifier never drifts from the trace: however
\* the real cache replaced its blocks, the model holds the most recently used
\* ones, and as many as the cache has lines once that many were used.
THEOREM ShadowHoldsMostRecent == Spec => []RefHoldsMostRecent
<1>1. OrderInv => RefHoldsMostRecent
  BY DEF OrderInv
<1> QED
  BY <1>1, OrderInit, OrderStep, PTL DEF Spec

-----------------------------------------------------------------------------
(* The 3-C verdicts.                                                       *)

\* A used block is in the model if and only if fewer blocks were used since
\* than the cache has lines.
LEMMA ModelledByDistance ==
  ASSUME OrderInv, cfg.classify3C, NEW b \in Blocks, used[b] > 0
  PROVE  /\ Distance(b) \in Nat
         /\ b \in RefBlocks(cache.refFA) <=> Distance(b) < TotalLines(cfg)
<1> DEFINE R == RefBlocks(cache.refFA)
           n == TotalLines(cfg)
           later == {x \in Blocks : used[x] > used[b]}
<1>1. /\ R \subseteq Blocks /\ IsFiniteSet(R) /\ Cardinality(R) <= n /\ n \in Nat
      /\ \A x \in Blocks : used[x] \in Nat
  BY ConfigsAssumption, LinesOfSets
     DEF OrderInv, StoreInv, TypeOK, CacheType, RefFAType, ShadowFollows, RefSmall
<1>2. \A gone \in Blocks \ R :
        used[gone] > 0 => Cardinality(R) = n /\ \A kept \in R : used[gone] < used[kept]
  BY DEF OrderInv, RefHoldsMostRecent
<1>3. IsFiniteSet(later)
  <2>1. IsFiniteSet(cache.seen) /\ \A x \in Blocks : x \in cache.seen <=> used[x] > 0
    BY DEF OrderInv, Healthy, ShadowFollows
  <2>2. later \subseteq cache.seen
    BY <1>1, <2>1
  <2> QED
    BY <2>1, <2>2, FS_Subset
<1>4. Distance(b) = Cardinality(later) /\ Cardinality(later) \in Nat /\ Cardinality(R) \in Nat
  BY <1>1, <1>3, FS_CardinalityType DEF Distance
<1> HIDE DEF R, n
<1>5. CASE b \in R
  <2>1. later \subseteq R \ {b}
    BY <1>1, <1>2, <1>5
  <2>2. IsFiniteSet(R \ {b}) /\ Cardinality(R \ {b}) = Cardinality(R) - 1
    BY <1>1, <1>5, FS_RemoveElement
  <2>3. Cardinality(later) <= Cardinality(R \ {b})
    BY <2>1, <2>2, FS_Subset
  <2> QED
    BY <1>1, <1>4, <1>5, <2>2, <2>3 DEF R, n
<1>6. CASE b \notin R
  <2>1. Cardinality(R) = n /\ R \subseteq later
    BY <1>1, <1>2, <1>6
  <2>2. Cardinality(R) <= Cardinality(later)
    BY <1>3, <2>1, FS_Subset
  <2> QED
    BY <1>1, <1>4, <1>6, <2>1, <2>2 DEF R, n
<1> QED
  BY <1>5, <1>6

ThreeCs == {"compulsory", "capacity", "conflict"}

\* A miss adds to the counter of its verdict and to none of the other two.
LEMMA VerdictCounted ==
  ASSUME NEW n \in [Counters -> Nat], NEW isWrite \in BOOLEAN, NEW g, g.classify3C,
         NEW c, NEW b, NEW ks,
         \A k \in ThreeCs : k \in ks <=> k \in MissCounters(g, c, b, isWrite)
  PROVE  \A k \in ThreeCs : Count(n, ks)[k] # n[k] <=> k = Verdict(c, b)
<1>1. \A k \in ThreeCs : k \in ks <=> k = Verdict(c, b)
  BY DEF MissCounters, Arrival, ThreeCs
<1>2. ThreeCs \subseteq Counters
  BY DEF ThreeCs, Counters
<1> QED
  BY <1>1, <1>2, CountAt

\* A hit does not count a miss.
LEMMA HitMissesNothing ==
  ASSUME StoreInv, NEW addr \in Addrs, NEW isWrite \in BOOLEAN, Hit(addr, isWrite)
  PROVE  ~Counted("misses")
<1>1. cache'.stats = Count(cache.stats, HitCounters(isWrite)) /\ cache.stats \in [Counters -> Nat]
  BY DEF Hit, AfterHit, StoreInv, TypeOK, CacheType
<1>2. "misses" \in Counters /\ "misses" \notin HitCounters(isWrite)
  BY DEF Counters, HitCounters, Arrival
<1> QED
  BY <1>1, <1>2, CountAt DEF Counted

\* A write-around and a fill count a miss of the block they name.
LEMMA MissGetsVerdict ==
  ASSUME StoreInv, cfg.classify3C, NEW addr \in Addrs, NEW isWrite \in BOOLEAN,
         Fill(addr, isWrite) \/ WriteAround(addr)
  PROVE  \A k \in ThreeCs : Counted(k) <=> k = Verdict(cache, BlockOf(cfg, addr))
<1> DEFINE b == BlockOf(cfg, addr)
<1>1. cache.stats \in [Counters -> Nat]
  BY DEF StoreInv, TypeOK, CacheType
<1>2. CASE WriteAround(addr)
  <2> DEFINE store == TRUE
             ks == MissCounters(cfg, cache, b, store)
  <2>1. cache'.stats = Count(cache.stats, ks)
    BY <1>2 DEF WriteAround, AfterWriteAround
  <2>2. store \in BOOLEAN
    OBVIOUS
  <2> HIDE DEF store
  <2>3. \A k \in ThreeCs : k \in ks <=> k \in MissCounters(cfg, cache, b, store)
    OBVIOUS
  <2> HIDE DEF ks
  <2> QED
    BY <1>1, <2>1, <2>2, <2>3, VerdictCounted DEF Counted
<1>3. CASE Fill(addr, isWrite)
  <2>1. PICK w : cache' = AfterFill(cfg, cache, addr, isWrite, w)
    BY <1>3 DEF Fill
  <2> DEFINE ks == FillCounters(cfg, cache, b, isWrite, cache.lines[SetOf(cfg, b)][w])
  <2>2. cache'.stats = Count(cache.stats, ks)
    BY <2>1 DEF AfterFill
  <2>3. \A k \in ThreeCs : k \in ks <=> k \in MissCounters(cfg, cache, b, isWrite)
    BY DEF FillCounters, ThreeCs
  <2> HIDE DEF ks
  <2> QED
    BY <1>1, <2>2, <2>3, VerdictCounted DEF Counted
<1> QED
  BY <1>2, <1>3

\* What VerdictByReuseDistance says of one step.
VerdictsTold ==
  \A b \in Blocks :
    cfg.classify3C /\ used'[b] # used[b] /\ Counted("misses") =>
      /\ Counted("compulsory") <=> used[b] = 0
      /\ Counted("conflict") <=> used[b] > 0 /\ Distance(b) < TotalLines(cfg)
      /\ Counted("capacity") <=> used[b] > 0 /\ Distance(b) >= TotalLines(cfg)

LEMMA VerdictStep == OrderInv /\ [Next]_vars => [VerdictsTold]_vars
<1> SUFFICES ASSUME OrderInv, Next, NEW b \in Blocks,
                    cfg.classify3C, used'[b] # used[b], Counted("misses")
             PROVE  /\ Counted("compulsory") <=> used[b] = 0
                    /\ Counted("conflict") <=> used[b] > 0 /\ Distance(b) < TotalLines(cfg)
                    /\ Counted("capacity") <=> used[b] > 0 /\ Distance(b) >= TotalLines(cfg)
  BY DEF VerdictsTold
<1>1. PICK addr \in Addrs, isWrite \in BOOLEAN : Fill(addr, isWrite) \/ WriteAround(addr)
  BY HitMissesNothing DEF Next, OrderInv
<1>2. Accessed(BlockOf(cfg, addr))
  BY <1>1, AccessedByAll DEF OrderInv
<1>3. b = BlockOf(cfg, addr)
  BY <1>2, UseOrderStep DEF Accessed
<1>4. \A k \in ThreeCs : Counted(k) <=> k = Verdict(cache, b)
  BY <1>1, <1>3, MissGetsVerdict DEF OrderInv
<1>5. b \in cache.seen <=> used[b] > 0
  BY DEF OrderInv, ShadowFollows
<1>6. used[b] \in Nat /\ TotalLines(cfg) \in Nat
  BY ConfigsAssumption, LinesOfSets DEF OrderInv, StoreInv, TypeOK
<1>7. CASE used[b] = 0
  BY <1>4, <1>5, <1>6, <1>7 DEF Verdict, ThreeCs
<1>8. CASE used[b] > 0
  <2>1. /\ Distance(b) \in Nat
        /\ RefHit(cache.refFA, b) <=> Distance(b) < TotalLines(cfg)
    BY <1>8, ModelledByDistance DEF RefHit
  <2>2. Verdict(cache, b) = IF RefHit(cache.refFA, b) THEN "conflict" ELSE "capacity"
    BY <1>5, <1>8 DEF Verdict
  <2> QED
    BY <1>4, <1>6, <1>8, <2>1, <2>2 DEF ThreeCs
<1> QED
  BY <1>6, <1>7, <1>8

\* Every miss is classified as its reuse distance says: compulsory at first
\* use, a conflict if fewer distinct blocks than the cache has lines were used
\* in between, a capacity miss otherwise; whatever the cache itself does.
THEOREM VerdictsByReuseDistance == Spec => VerdictByReuseDistance
<1>1. Spec => [][VerdictsTold]_vars
  BY OrderInit, OrderStep, VerdictStep, PTL DEF Spec
<1> QED
  BY <1>1 DEF VerdictByReuseDistance, VerdictsTold

-----------------------------------------------------------------------------
(* The order of LRU and FIFO, and the blocks it keeps.                     *)

Stamp(f) == cache.repl.stamp[f[1]][f[2]]

\* The stamps of the valid frames stand in the order of the ages of their
\* blocks, none of them is later than the policy's clock, and ages are past
\* accesses that no two blocks share.
AgeOrder ==
  /\ \A b \in Blocks : Age(b) <= Accesses
  /\ \A b, c \in Blocks : Age(b) = Age(c) /\ Age(b) > 0 => b = c
  /\ \A f \in ValidFrames : Age(BlockAt(f)) > 0 /\ Stamp(f) <= cache.repl.clock
  /\ \A f, g \in ValidFrames : Stamp(f) < Stamp(g) <=> Age(BlockAt(f)) < Age(BlockAt(g))

YoungInv ==
  /\ StoreInv
  /\ cfg.replacement # "Random" => AgeOrder
  /\ KeepsYoungest

\* An access the policy is not told of: no block ages or moves.
Untold ==
  /\ Accesses' = Accesses + 1
  /\ \A b \in Blocks : Age(b)' = Age(b)
  /\ cache'.repl = cache.repl
  /\ \A f \in Frames : LineAt(f)'.valid = LineAt(f).valid /\ LineAt(f)'.tag = LineAt(f).tag

\* An access the policy is told of: it stamps the frame t, which holds the
\* block of the access from then on.
Told(block, t) ==
  /\ Accesses' = Accesses + 1
  /\ \A b \in Blocks : Age(b)' = IF b = block THEN Accesses + 1 ELSE Age(b)
  /\ cache'.repl = Stamped(cache.repl, t[1], t[2])
  /\ LineAt(t)'.valid /\ BlockAt(t)' = block
  /\ \A f \in Frames \ {t} :
       LineAt(f)'.valid = LineAt(f).valid /\ LineAt(f)'.tag = LineAt(f).tag

\* A frame a fill may use: an empty one of the set, or its oldest.
Chosen(t) ==
  IF EmptyWays(cfg, cache, t[1]) # {}
  THEN t \notin ValidFrames
  ELSE \A u \in Ways(cfg) : Stamp(t) <= cache.repl.stamp[t[1]][u]

\* What an access is to a policy that keeps an order.
Ordered(block) ==
  /\ block \in Blocks /\ cfg' = cfg /\ Blocks' = Blocks /\ Frames' = Frames
  /\ \/ Untold
     \/ \E t \in Frames :
          /\ Told(block, t) /\ t[1] = SetOf(cfg, block)
          /\ \/ t \in ValidFrames /\ BlockAt(t) = block
             \/ block \notin Resident /\ Chosen(t)

\* What the type invariant says of the numbers in this argument.
LEMMA AgeTypes ==
  ASSUME StoreInv
  PROVE  /\ Accesses \in Nat /\ cache.repl.clock \in Nat
         /\ \A b \in Blocks : Age(b) \in Nat
         /\ \A f \in Frames : Stamp(f) \in Nat
         /\ cache.repl.stamp \in [Sets(cfg) -> [Ways(cfg) -> Nat]]
<1>1. \A f \in Frames : f[1] \in Sets(cfg) /\ f[2] \in Ways(cfg)
  BY DEF Frames
<1>2. cache.repl.stamp \in [Sets(cfg) -> [Ways(cfg) -> Nat]] /\ cache.repl.clock \in Nat
  BY DEF StoreInv, TypeOK, CacheType, PolicyType
<1>3. \A f \in Frames : Stamp(f) \in Nat
  BY <1>1, <1>2 DEF Stamp
<1>4. Accesses \in Nat /\ \A b \in Blocks : Age(b) \in Nat
  BY DEF StoreInv, TypeOK, CacheType, Counters, Accesses, Age
<1> QED
  BY <1>2, <1>3, <1>4

\* LRU is told of every hit and fill, FIFO of every fill.
LEMMA HitOrdered ==
  ASSUME StoreInv, cfg.replacement # "Random",
         NEW addr \in Addrs, NEW isWrite \in BOOLEAN, Hit(addr, isWrite)
  PROVE  Ordered(BlockOf(cfg, addr))
<1> DEFINE b == BlockOf(cfg, addr)
           s == SetOf(cfg, b)
           w == First(Matches(cfg, cache, b))
<1>1. Constructible(cfg) /\ b \in Nat /\ s \in Sets(cfg) /\ TypeOK
  BY ConfigsAssumption, AddrsAssumption, BlockOfType, Decomposition DEF StoreInv, TypeOK
<1>2. Accessed(b)
  BY AccessedByAll
<1>3. w \in Matches(cfg, cache, b)
  BY <1>1, MatchIsFrame DEF Hit
<1>4. PICK t \in Frames : t = <<s, w>>
  BY <1>1, <1>3 DEF Matches, Frames
<1>5. /\ LineAt(t).valid /\ LineAt(t).tag = TagOf(cfg, b) /\ t[1] = s /\ t[2] = w
      /\ t \in ValidFrames
  BY <1>3, <1>4 DEF Matches, LineAt, ValidFrames
<1>6. BlockAt(t) = b
  BY <1>1, <1>5, Decomposition DEF BlockAt
<1>7. /\ Frames' = Frames /\ cfg' = cfg
      /\ \A f \in Frames : LineAt(f)'.valid = LineAt(f).valid /\ LineAt(f)'.tag = LineAt(f).tag
  BY <1>1, HitEffect
<1>8. /\ touched' = Mark(touched, b) /\ filled' = filled
      /\ cache'.repl = OnAccess(cfg, cache.repl, s, w)
  BY DEF Hit, AfterHit
<1>9. touched \in [Blocks -> Nat] /\ b \in Blocks /\ Blocks' = Blocks /\ Accesses' = Accesses + 1
      /\ Now = Accesses + 1
  BY <1>2 DEF Accessed, StoreInv, TypeOK, Accesses, Now
<1> HIDE DEF b, s, w
<1>10. CASE cfg.replacement = "LRU"
  <2>1. cache'.repl = Stamped(cache.repl, t[1], t[2])
    BY <1>5, <1>8, <1>10 DEF OnAccess
  <2>2. \A x \in Blocks : Age(x)' = IF x = b THEN Accesses + 1 ELSE Age(x)
    BY <1>7, <1>8, <1>9, <1>10 DEF Age, Mark
  <2>3. LineAt(t)'.valid /\ BlockAt(t)' = b
    BY <1>5, <1>6, <1>7 DEF BlockAt
  <2>4. Told(b, t)
    BY <1>7, <1>9, <2>1, <2>2, <2>3 DEF Told
  <2> QED
    BY <1>5, <1>6, <1>7, <1>9, <2>4 DEF Ordered, b, s
<1>11. CASE cfg.replacement # "LRU"
  <2>1. cache'.repl = cache.repl
    BY <1>8, <1>11 DEF OnAccess
  <2>2. \A x \in Blocks : Age(x)' = Age(x)
    BY <1>7, <1>8, <1>11 DEF Age
  <2>3. Untold
    BY <1>7, <1>9, <2>1, <2>2 DEF Untold
  <2> QED
    BY <1>7, <1>9, <2>3 DEF Ordered, b
<1> QED
  BY <1>10, <1>11

LEMMA WriteAroundOrdered ==
  ASSUME StoreInv, NEW addr \in Addrs, WriteAround(addr)
  PROVE  Ordered(BlockOf(cfg, addr))
<1>1. Accessed(BlockOf(cfg, addr))
  <2>1. TRUE \in BOOLEAN
    OBVIOUS
  <2> QED
    BY <2>1, AccessedByAll
<1>2. /\ touched' = touched /\ filled' = filled /\ cfg' = cfg
      /\ cache'.repl = cache.repl /\ cache'.lines = cache.lines
  BY DEF WriteAround, AfterWriteAround
<1>3. Frames' = Frames /\ \A f \in Frames : LineAt(f)' = LineAt(f)
  BY <1>2, FramesKept
<1>4. \A x \in Blocks : Age(x)' = Age(x)
  BY <1>2 DEF Age
<1>5. Untold
  BY <1>1, <1>2, <1>3, <1>4 DEF Untold, Accessed
<1> QED
  BY <1>1, <1>3, <1>5 DEF Ordered, Accessed

LEMMA FillOrdered ==
  ASSUME StoreInv, cfg.replacement # "Random",
         NEW addr \in Addrs, NEW isWrite \in BOOLEAN, Fill(addr, isWrite)
  PROVE  Ordered(BlockOf(cfg, addr))
<1> DEFINE b == BlockOf(cfg, addr)
           s == SetOf(cfg, b)
<1>1. Constructible(cfg) /\ b \in Nat /\ s \in Sets(cfg) /\ TypeOK
  BY ConfigsAssumption, AddrsAssumption, BlockOfType, Decomposition DEF StoreInv, TypeOK
<1>2. Accessed(b)
  BY AccessedByAll
<1>3. PICK w \in Ways(cfg), t \in Frames :
        /\ t = <<s, w>> /\ w \in PickWays(cfg, cache, s)
        /\ cfg' = cfg /\ Frames' = Frames
        /\ \A f \in Frames : LineAt(f)' = IF f = t THEN Installed(cfg, b, isWrite) ELSE LineAt(f)
        /\ cache' = AfterFill(cfg, cache, addr, isWrite, w)
  BY <1>1, FillEffect
<1>4. t[1] = s /\ t[2] = w
  BY <1>3
<1>5. cache'.repl = Stamped(cache.repl, t[1], t[2])
  BY <1>3, <1>4 DEF AfterFill, OnInsert
<1>6. LineAt(t)'.valid /\ BlockAt(t)' = b
  <2>1. LineAt(t)'.valid /\ LineAt(t)'.tag = TagOf(cfg, b)
    BY <1>3, InstalledFields
  <2> QED
    BY <1>1, <1>3, <1>4, <2>1, Decomposition DEF BlockAt
<1>7. /\ touched' = Mark(touched, b) /\ filled' = Mark(filled, b)
      /\ b \in Blocks /\ Blocks' = Blocks /\ Accesses' = Accesses + 1 /\ Now = Accesses + 1
      /\ touched \in [Blocks -> Nat] /\ filled \in [Blocks -> Nat]
  BY <1>2 DEF Fill, Accessed, StoreInv, TypeOK, Accesses, Now
<1>8. b \notin Resident
  BY <1>1, MissIsAbsent DEF Fill, Resident
<1>9. Chosen(t)
  <2>1. CASE EmptyWays(cfg, cache, s) # {}
    <3>1. EmptyWays(cfg, cache, s) \in SUBSET Nat
      BY <1>1, GeometryType DEF EmptyWays, Ways
    <3>2. w \in EmptyWays(cfg, cache, s)
      BY <1>3, <2>1, <3>1, FirstIsLeast DEF PickWays
    <3>3. t \notin ValidFrames
      BY <1>4, <3>2 DEF EmptyWays, ValidFrames, LineAt
    <3> QED
      BY <1>4, <2>1, <3>3 DEF Chosen
  <2>2. CASE EmptyWays(cfg, cache, s) = {}
    <3>1. w \in Victims(cfg, cache.repl, s)
      BY <1>3, <2>2 DEF PickWays
    <3>2. \A u \in Ways(cfg) :
            cache.repl.stamp[s][w] < cache.repl.stamp[s][u]
              \/ cache.repl.stamp[s][w] <= cache.repl.stamp[s][u]
      BY <3>1 DEF Victims
    <3>3. \A u \in Ways(cfg) : cache.repl.stamp[s][u] \in Nat
      BY <1>1, AgeTypes
    <3>4. \A u \in Ways(cfg) : cache.repl.stamp[s][w] <= cache.repl.stamp[s][u]
      BY <1>3, <3>2, <3>3
    <3> QED
      BY <1>4, <2>2, <3>4 DEF Chosen, Stamp
  <2> QED
    BY <2>1, <2>2
<1> HIDE DEF b, s
<1>10. \A x \in Blocks : Age(x)' = IF x = b THEN Accesses + 1 ELSE Age(x)
  BY <1>3, <1>7 DEF Age, Mark
<1>11. Told(b, t)
  BY <1>3, <1>5, <1>6, <1>7, <1>10 DEF Told
<1> QED
  BY <1>3, <1>4, <1>7, <1>8, <1>9, <1>11 DEF Ordered, b, s

\* An access the policy is not told of leaves order and contents alone.
LEMMA UntoldKeeps ==
  ASSUME YoungInv, cfg.replacement # "Random", NEW block, Ordered(block), Untold
  PROVE  AgeOrder' /\ KeepsYoungest'
<1>1. cfg' = cfg /\ Blocks' = Blocks /\ Frames' = Frames
  BY DEF Ordered
<1>2. ValidFrames' = ValidFrames /\ ValidFrames \subseteq Frames
  BY <1>1 DEF Untold, ValidFrames
<1>3. \A f \in Frames : BlockAt(f)' = BlockAt(f)
  BY <1>1 DEF Untold, BlockAt
<1>4. Resident' = Resident
  BY <1>2, <1>3 DEF Resident
<1>5. Resident \subseteq Blocks /\ \A f \in ValidFrames : BlockAt(f) \in Blocks
  BY DEF YoungInv, StoreInv, NoDuplicateBlock, Resident
<1>6. \A f : Stamp(f)' = Stamp(f)
  BY DEF Untold, Stamp
<1>7. Accesses \in Nat /\ \A b \in Blocks : Age(b) \in Nat /\ Age(b)' = Age(b)
  BY AgeTypes DEF YoungInv, Untold
<1>8. AgeOrder'
  <2>1. \A b \in Blocks' : Age(b)' <= Accesses'
    BY <1>1, <1>7 DEF YoungInv, AgeOrder, Untold
  <2>2. \A b, c \in Blocks' : Age(b)' = Age(c)' /\ Age(b)' > 0 => b = c
    BY <1>1, <1>7 DEF YoungInv, AgeOrder
  <2>3. \A f \in ValidFrames' : Age(BlockAt(f))' = Age(BlockAt(f))
    <3>1. ASSUME NEW f \in ValidFrames PROVE Age(BlockAt(f))' = Age(BlockAt(f))
      <4>1. BlockAt(f)' = BlockAt(f) /\ BlockAt(f) \in Blocks
        BY <1>2, <1>3, <1>5
      <4> QED
        BY <1>7, <4>1 DEF Age
    <3> QED
      BY <1>2, <3>1
  <2>4. \A f \in ValidFrames' : Age(BlockAt(f))' > 0 /\ Stamp(f)' <= cache'.repl.clock
    BY <1>2, <1>6, <2>3 DEF YoungInv, AgeOrder, Untold
  <2>5. \A f, g \in ValidFrames' :
          Stamp(f)' < Stamp(g)' <=> Age(BlockAt(f))' < Age(BlockAt(g))'
    BY <1>2, <1>6, <2>3 DEF YoungInv, AgeOrder
  <2> QED
    BY <2>1, <2>2, <2>4, <2>5 DEF AgeOrder
<1>9. \A s \in Sets(cfg) : EmptyWays(cfg, cache, s)' = EmptyWays(cfg, cache, s)
  <2>1. ASSUME NEW s \in Sets(cfg), NEW w \in Ways(cfg)
        PROVE  cache'.lines[s][w].valid = cache.lines[s][w].valid
    <3>1. <<s, w>> \in Frames
      BY DEF Frames
    <3>2. LineAt(<<s, w>>)'.valid = LineAt(<<s, w>>).valid
      BY <3>1 DEF Untold
    <3> QED
      BY <3>2 DEF LineAt
  <2> QED
    BY <1>1, <2>1 DEF EmptyWays
<1>10. \A s : InSet(s)' = InSet(s)
  BY <1>1 DEF InSet
<1>11. \A s : InSet(s) \subseteq Blocks
  BY DEF InSet
<1> QED
  BY <1>1, <1>4, <1>5, <1>7, <1>8, <1>9, <1>10, <1>11 DEF KeepsYoungest, YoungInv

\* One it is told of makes its block the youngest, and evicts the oldest.
LEMMA ToldKeeps ==
  ASSUME YoungInv, cfg.replacement # "Random",
         NEW block \in Blocks, cfg' = cfg, Blocks' = Blocks, Frames' = Frames,
         NEW t \in Frames, Told(block, t), t[1] = SetOf(cfg, block),
         \/ t \in ValidFrames /\ BlockAt(t) = block
         \/ block \notin Resident /\ Chosen(t)
  PROVE  AgeOrder' /\ KeepsYoungest'
<1>1. /\ ValidFrames \subseteq Frames
      /\ \A f \in ValidFrames : BlockAt(f) \in Blocks /\ BlockAt(f) \in Resident
      /\ \A b \in Resident : \E f \in ValidFrames : BlockAt(f) = b
      /\ \A f, g \in ValidFrames : BlockAt(f) = BlockAt(g) => f = g
  BY DEF YoungInv, StoreInv, NoDuplicateBlock, Resident, ValidFrames
<1>2. ValidFrames' = ValidFrames \cup {t}
  BY DEF Told, ValidFrames
<1>3. BlockAt(t)' = block /\ \A f \in Frames \ {t} : BlockAt(f)' = BlockAt(f)
  BY DEF Told, BlockAt
<1>4. \A b : b \in Resident' <=> b = block \/ \E f \in ValidFrames \ {t} : BlockAt(f) = b
  BY <1>1, <1>2, <1>3 DEF Resident
<1>5. \A f \in ValidFrames \ {t} : BlockAt(f) # block
  BY <1>1
<1>6. /\ Accesses \in Nat /\ cache.repl.clock \in Nat
      /\ \A b \in Blocks : Age(b) \in Nat
      /\ \A f \in Frames : Stamp(f) \in Nat
  BY AgeTypes DEF YoungInv
<1>7. /\ Stamp(t)' = cache.repl.clock + 1 /\ cache'.repl.clock = cache.repl.clock + 1
      /\ \A f \in Frames \ {t} : Stamp(f)' = Stamp(f)
  <2>1. cache.repl.stamp \in [Sets(cfg) -> [Ways(cfg) -> Nat]]
    BY AgeTypes DEF YoungInv
  <2>2. \A f \in Frames : f[1] \in Sets(cfg) /\ f[2] \in Ways(cfg) /\ f = <<f[1], f[2]>>
    BY DEF Frames
  <2>3. /\ cache'.repl.stamp = [cache.repl.stamp EXCEPT ![t[1]][t[2]] = cache.repl.clock + 1]
        /\ cache'.repl.clock = cache.repl.clock + 1
    BY DEF Told, Stamped
  <2>4. \A f \in Frames \ {t} : f[1] # t[1] \/ f[2] # t[2]
    BY <2>2
  <2> QED
    BY <2>1, <2>2, <2>3, <2>4 DEF Stamp
<1>8. /\ \A b \in Blocks : Age(b) <= Accesses
      /\ \A b, c \in Blocks : Age(b) = Age(c) /\ Age(b) > 0 => b = c
      /\ \A f \in ValidFrames : Age(BlockAt(f)) > 0 /\ Stamp(f) <= cache.repl.clock
      /\ \A f, g \in ValidFrames : Stamp(f) < Stamp(g) <=> Age(BlockAt(f)) < Age(BlockAt(g))
  BY DEF YoungInv, AgeOrder
<1>9. /\ Accesses' = Accesses + 1
      /\ \A b \in Blocks : Age(b)' = IF b = block THEN Accesses + 1 ELSE Age(b)
  BY DEF Told
\* The order after the access.
<1>10. Age(BlockAt(t))' = Accesses + 1
  BY <1>3, <1>9 DEF Age
<1>11. \A f \in ValidFrames \ {t} : Age(BlockAt(f))' = Age(BlockAt(f))
  <2>1. ASSUME NEW f \in ValidFrames \ {t} PROVE Age(BlockAt(f))' = Age(BlockAt(f))
    <3>1. BlockAt(f)' = BlockAt(f) /\ BlockAt(f) \in Blocks /\ BlockAt(f) # block
      BY <1>1, <1>3, <1>5
    <3> QED
      BY <1>9, <3>1 DEF Age
  <2> QED
    BY <2>1
<1>12. AgeOrder'
  <2>1. \A b \in Blocks : Age(b)' <= Accesses + 1
    BY <1>6, <1>8, <1>9
  <2>2. \A b, c \in Blocks : Age(b)' = Age(c)' /\ Age(b)' > 0 => b = c
    BY <1>6, <1>8, <1>9
  <2>3. ASSUME NEW f \in ValidFrames'
        PROVE  Age(BlockAt(f))' > 0 /\ Stamp(f)' <= cache.repl.clock + 1
    BY <1>1, <1>2, <1>6, <1>7, <1>8, <1>10, <1>11
  <2>4. ASSUME NEW f \in ValidFrames', NEW g \in ValidFrames'
        PROVE  Stamp(f)' < Stamp(g)' <=> Age(BlockAt(f))' < Age(BlockAt(g))'
    BY <1>1, <1>2, <1>6, <1>7, <1>8, <1>10, <1>11
  <2> QED
    BY <1>7, <1>9, <2>1, <2>2, <2>3, <2>4 DEF AgeOrder
\* What is kept after the access.
<1>13. ASSUME NEW s \in Sets(cfg), NEW gone \in InSet(s) \ Resident', Age(gone)' > 0
       PROVE  /\ EmptyWays(cfg, cache', s) = {}
              /\ \A kept \in InSet(s) \cap Resident' : Age(gone)' < Age(kept)'
  <2>1. /\ gone \in Blocks /\ SetOf(cfg, gone) = s /\ gone # block
        /\ Age(gone)' = Age(gone) /\ Age(gone) > 0
    BY <1>4, <1>9, <1>13 DEF InSet
  <2>2. EmptyWays(cfg, cache', s) \subseteq EmptyWays(cfg, cache, s)
    <3>1. ASSUME NEW w \in EmptyWays(cfg, cache', s) PROVE w \in EmptyWays(cfg, cache, s)
      <4>1. <<s, w>> \in Frames /\ ~LineAt(<<s, w>>)'.valid /\ w \in Ways(cfg)
        BY DEF EmptyWays, Frames, LineAt
      <4>2. ~LineAt(<<s, w>>).valid
        BY <4>1 DEF Told
      <4> QED
        BY <4>1, <4>2 DEF EmptyWays, LineAt
    <3> QED
      BY <3>1
  <2>3. KeepsYoungest
    BY DEF YoungInv
  <2>4. CASE gone \notin Resident
    <3>1. /\ EmptyWays(cfg, cache, s) = {}
          /\ \A kept \in InSet(s) \cap Resident : Age(gone) < Age(kept)
      BY <2>1, <2>3, <2>4 DEF KeepsYoungest, InSet
    <3>2. \A kept \in InSet(s) \cap Resident' : kept # block => kept \in Resident
      BY <1>1, <1>4
    <3> QED
      BY <1>6, <1>8, <1>9, <2>1, <2>2, <3>1, <3>2 DEF InSet
  <2>5. CASE gone \in Resident
    <3>1. PICK v \in ValidFrames : BlockAt(v) = gone
      BY <1>1, <2>5
    <3>2. v = t
      BY <1>4, <1>13, <3>1
    <3>3. block \notin Resident /\ Chosen(t) /\ t[1] = s
      BY <1>1, <2>1, <3>1, <3>2, FrameFacts DEF YoungInv, StoreInv
    <3>4. /\ EmptyWays(cfg, cache, s) = {}
          /\ \A u \in Ways(cfg) : Stamp(t) <= cache.repl.stamp[s][u]
      BY <3>1, <3>2, <3>3 DEF Chosen
    <3>5. ASSUME NEW kept \in InSet(s) \cap Resident', kept # block
          PROVE  Age(gone) < Age(kept)
      <4>1. PICK f \in ValidFrames \ {t} : BlockAt(f) = kept
        BY <1>4, <3>5
      <4>2. f[1] = s /\ f[2] \in Ways(cfg)
        BY <1>1, <4>1, FrameFacts DEF InSet, YoungInv, StoreInv
      <4>3. Stamp(t) <= Stamp(f)
        BY <3>4, <4>2 DEF Stamp
      <4>4. Age(kept) # Age(gone) /\ ~(Age(kept) < Age(gone))
        BY <1>1, <1>6, <1>8, <2>1, <3>1, <3>2, <4>1, <4>3
      <4> QED
        BY <1>1, <1>6, <2>1, <4>1, <4>4
    <3> QED
      BY <1>6, <1>8, <1>9, <2>1, <2>2, <3>4, <3>5 DEF InSet
  <2> QED
    BY <2>4, <2>5
<1>14. KeepsYoungest'
  <2>1. \A s : InSet(s)' = InSet(s) /\ EmptyWays(cfg, cache, s)' = EmptyWays(cfg, cache', s)
    BY DEF InSet, EmptyWays
  <2> QED
    BY <1>13, <2>1 DEF KeepsYoungest
<1> QED
  BY <1>12, <1>14

\* A new cache holds nothing and lost nothing.
LEMMA YoungInit == Init => YoungInv
<1> SUFFICES ASSUME Init PROVE YoungInv
  OBVIOUS
<1>1. StoreInv
  BY TypeInit, NoDuplicateInit, StoreInit DEF StoreInv
<1>2. Accesses = 0 /\ \A b \in Blocks : Age(b) = 0
  BY DEF Init, NewCache, Accesses, Counters, Age
<1>3. ValidFrames = {}
  BY DEF Init, NewCache, Empty, ValidFrames, LineAt, Frames
<1>4. AgeOrder /\ KeepsYoungest
  BY <1>2, <1>3 DEF AgeOrder, KeepsYoungest, InSet
<1> QED
  BY <1>1, <1>4 DEF YoungInv

\* Every access keeps the youngest blocks of its set.
LEMMA YoungStep == YoungInv /\ [Next]_vars => YoungInv'
<1> SUFFICES ASSUME YoungInv, [Next]_vars PROVE YoungInv'
  OBVIOUS
<1>1. StoreInv'
  BY StoreStep DEF YoungInv
<1>2. CASE UNCHANGED vars
  <2>1. /\ Resident' = Resident /\ Blocks' = Blocks /\ ValidFrames' = ValidFrames
        /\ \A f : BlockAt(f)' = BlockAt(f)
        /\ \A s : InSet(s)' = InSet(s)
    BY <1>2, FramesKept DEF vars, InSet
  <2>2. cfg' = cfg /\ cache' = cache /\ \A b : Age(b)' = Age(b)
    BY <1>2 DEF vars, history, Age
  <2>3. \A f : Age(BlockAt(f))' = Age(BlockAt(f)) /\ Stamp(f)' = Stamp(f)
    BY <1>2, <2>1 DEF vars, history, Age, Stamp
  <2>4. AgeOrder => AgeOrder'
    BY <2>1, <2>2, <2>3 DEF AgeOrder, Accesses
  <2>5. KeepsYoungest => KeepsYoungest'
    BY <2>1, <2>2 DEF KeepsYoungest
  <2> QED
    BY <1>1, <2>2, <2>4, <2>5 DEF YoungInv
<1>3. CASE Next /\ cfg.replacement = "Random"
  <2>1. cfg' = cfg
    BY <1>3 DEF Next, Hit, Fill, WriteAround
  <2> QED
    BY <1>1, <1>3, <2>1 DEF YoungInv, KeepsYoungest
<1>4. CASE Next /\ cfg.replacement # "Random"
  <2>1. PICK block : Ordered(block)
    BY <1>4, HitOrdered, FillOrdered, WriteAroundOrdered DEF Next, YoungInv
  <2>2. CASE Untold
    BY <1>1, <1>4, <2>1, <2>2, UntoldKeeps DEF YoungInv
  <2>3. CASE ~Untold
    <3>1. PICK t \in Frames :
            /\ Told(block, t) /\ t[1] = SetOf(cfg, block)
            /\ \/ t \in ValidFrames /\ BlockAt(t) = block
               \/ block \notin Resident /\ Chosen(t)
      BY <2>1, <2>3 DEF Ordered
    <3>2. block \in Blocks /\ cfg' = cfg /\ Blocks' = Blocks /\ Frames' = Frames
      BY <2>1 DEF Ordered
    <3>3. AgeOrder' /\ KeepsYoungest'
      BY <1>4, <3>1, <3>2, ToldKeeps
    <3> QED
      BY <1>1, <3>3 DEF YoungInv
  <2> QED
    BY <2>2, <2>3
<1> QED
  BY <1>2, <1>3, <1>4

\* LRU keeps the blocks of a set that were hit or filled last, FIFO those that
\* were filled last: whatever left a set is older than all the set holds, and
\* nothing left it while a way was free.
THEOREM PoliciesKeepYoungest == Spec => []KeepsYoungest
<1>1. YoungInv => KeepsYoungest
  BY DEF YoungInv
<1> QED
  BY <1>1, YoungInit, YoungStep, PTL DEF Spec

-----------------------------------------------------------------------------
(* The fully-associative LRU cache is its own reference model.             *)

AllocatingFullyAssociativeLRU == FullyAssociativeLRU /\ WriteAllocates(cfg)

\* An allocating cache touches every block it is asked for, so the order the
\* policy keeps is the order the model keeps.
FullInv ==
  /\ OrderInv /\ YoungInv
  /\ AllocatingFullyAssociativeLRU =>
       /\ \A b \in Blocks : touched[b] = used[b]
       /\ cache.stats["conflict"] = 0

\* The two orders being the same, so are the blocks they keep.
LEMMA SameContents ==
  ASSUME FullInv, AllocatingFullyAssociativeLRU
  PROVE  Resident = RefBlocks(cache.refFA)
<1> DEFINE R == RefBlocks(cache.refFA)
           n == TotalLines(cfg)
<1>1. /\ Constructible(cfg) /\ TypeOK /\ NoDuplicateBlock /\ cfg.classify3C
      /\ NumSets(cfg) = 1 /\ cfg.replacement = "LRU"
  BY ConfigsAssumption
     DEF FullInv, OrderInv, StoreInv, TypeOK, AllocatingFullyAssociativeLRU, FullyAssociativeLRU
<1>2. n = cfg.associativity /\ n \in Nat \ {0}
  BY <1>1, LinesOfSets, GeometryType
<1>3. /\ R \subseteq Blocks /\ IsFiniteSet(R) /\ Cardinality(R) <= n
      /\ \A b \in R : used[b] > 0
      /\ \A b \in Blocks : b \in cache.seen <=> used[b] > 0
  BY <1>1 DEF TypeOK, CacheType, RefFAType, FullInv, OrderInv, ShadowFollows, RefSmall
<1>4. /\ Resident \subseteq Blocks /\ \A b \in Resident : used[b] > 0
      /\ \A b \in Blocks : used[b] \in Nat /\ Age(b) = used[b]
  BY <1>1 DEF NoDuplicateBlock, FullInv, OrderInv, UseOrder, Age, TypeOK
<1>5. IsFiniteSet(Resident)
  <2>1. Resident \subseteq cache.seen /\ IsFiniteSet(cache.seen)
    BY <1>3, <1>4 DEF FullInv, OrderInv, Healthy
  <2> QED
    BY <2>1, FS_Subset
<1>6. \A b \in Blocks : b \in Nat /\ SetOf(cfg, b) = 0
  <2>1. \A m \in Nat : m % 1 = 0
    OBVIOUS
  <2> QED
    BY <1>1, <2>1, AddrsAssumption, BlockOfType DEF Blocks, SetOf
<1>7. 0 \in Sets(cfg) /\ InSet(0) = Blocks
  BY <1>1, <1>6 DEF Sets, InSet
<1>8. IF EmptyWays(cfg, cache, 0) # {} THEN Cardinality(Resident) < n ELSE Cardinality(Resident) = n
  <2>1. 0 \in Nat /\ SetOf(cfg, 0) = 0
    BY <1>1 DEF SetOf
  <2>2. Abstract!Peers(0) = Resident
    BY <1>4, <1>6, <2>1, PeersInSet
  <2> QED
    BY <1>1, <1>2, <2>1, <2>2, RoomInSet
<1>9. \A gone \in Blocks \ Resident :
        used[gone] > 0 =>
          /\ Cardinality(Resident) = n
          /\ \A kept \in Resident : used[gone] < used[kept]
  BY <1>1, <1>4, <1>7, <1>8 DEF FullInv, YoungInv, KeepsYoungest
<1>10. \A gone \in Blocks \ R :
         used[gone] > 0 =>
           /\ Cardinality(R) = n
           /\ \A kept \in R : used[gone] < used[kept]
  BY <1>1 DEF FullInv, OrderInv, RefHoldsMostRecent
<1>11. Cardinality(R) \in Nat /\ Cardinality(Resident) \in Nat /\ Cardinality(Resident) <= n
  BY <1>2, <1>3, <1>5, <1>8, FS_CardinalityType
<1> HIDE DEF R, n
<1>12. ASSUME NEW b \in R \ Resident PROVE FALSE
  <2>1. Cardinality(Resident) = n /\ \A kept \in Resident : used[b] < used[kept]
    BY <1>3, <1>9
  <2>2. Resident \subseteq R \ {b}
    BY <1>3, <1>4, <1>10, <2>1
  <2>3. Cardinality(R \ {b}) = Cardinality(R) - 1 /\ IsFiniteSet(R \ {b})
    BY <1>3, FS_RemoveElement
  <2>4. Cardinality(Resident) <= Cardinality(R \ {b})
    BY <2>2, <2>3, FS_Subset
  <2> QED
    BY <1>2, <1>3, <1>11, <2>1, <2>3, <2>4
<1>13. ASSUME NEW b \in Resident \ R PROVE FALSE
  <2>1. Cardinality(R) = n /\ \A kept \in R : used[b] < used[kept]
    BY <1>4, <1>10
  <2>2. R \subseteq Resident \ {b}
    BY <1>3, <1>4, <1>9, <2>1
  <2>3. Cardinality(Resident \ {b}) = Cardinality(Resident) - 1 /\ IsFiniteSet(Resident \ {b})
    BY <1>5, FS_RemoveElement
  <2>4. Cardinality(R) <= Cardinality(Resident \ {b})
    BY <2>2, <2>3, FS_Subset
  <2> QED
    BY <1>2, <1>11, <2>1, <2>3, <2>4
<1> QED
  BY <1>12, <1>13 DEF R

\* Nothing was touched, used or counted at first.
LEMMA FullInit == Init => FullInv
<1> SUFFICES ASSUME Init PROVE FullInv
  OBVIOUS
<1>1. \A b \in Blocks : touched[b] = used[b]
  BY DEF Init
<1>2. cache.stats["conflict"] = 0
  BY DEF Init, NewCache, Counters
<1> QED
  BY <1>1, <1>2, OrderInit, YoungInit DEF FullInv

\* A block that is not in the cache is not in the model, so its miss is no
\* conflict.
LEMMA NoConflictCounted ==
  ASSUME FullInv, AllocatingFullyAssociativeLRU, Next
  PROVE  /\ cache'.stats["conflict"] = 0
         /\ cfg' = cfg /\ Blocks' = Blocks
         /\ \A b \in Blocks : touched'[b] = used'[b]
<1>1. PICK addr \in Addrs, isWrite \in BOOLEAN : Hit(addr, isWrite) \/ Fill(addr, isWrite)
  BY DEF Next, WriteAround, AllocatingFullyAssociativeLRU
<1> DEFINE b == BlockOf(cfg, addr)
<1>2. Accessed(b) /\ StoreInv /\ TypeOK
  BY <1>1, AccessedByAll DEF FullInv, OrderInv, StoreInv
<1>3. /\ touched' = Mark(touched, b) /\ used' = Mark(used, b)
      /\ touched \in [Blocks -> Nat] /\ used \in [Blocks -> Nat] /\ b \in Blocks
  BY <1>1, <1>2 DEF Hit, Fill, TypeOK, Accessed
<1>4. \A x \in Blocks : touched'[x] = used'[x]
  BY <1>3 DEF Mark, FullInv
<1>5. /\ cache.stats["conflict"] = 0 /\ cache.stats \in [Counters -> Nat]
      /\ cfg.classify3C
  BY <1>2 DEF FullInv, TypeOK, CacheType, AllocatingFullyAssociativeLRU, FullyAssociativeLRU
<1>6. CASE Hit(addr, isWrite)
  <2>1. cache'.stats = Count(cache.stats, HitCounters(isWrite))
    BY <1>6 DEF Hit, AfterHit
  <2>2. "conflict" \in Counters /\ "conflict" \notin HitCounters(isWrite)
    BY DEF Counters, HitCounters, Arrival
  <2>3. cache'.stats["conflict"] = 0
    BY <1>5, <2>1, <2>2, CountAt
  <2> QED
    BY <1>2, <1>4, <2>3 DEF Accessed
<1>7. CASE Fill(addr, isWrite)
  <2>1. b \in Nat
    BY ConfigsAssumption, AddrsAssumption, BlockOfType, <1>2 DEF TypeOK
  <2>2. b \notin Resident
    BY <1>2, <1>7, <2>1, MissIsAbsent DEF Fill, Resident
  <2>3. b \notin RefBlocks(cache.refFA)
    BY <2>2, SameContents
  <2>4. Verdict(cache, b) # "conflict"
    BY <2>3 DEF Verdict, RefHit
  <2>5. ~Counted("conflict")
    BY <1>2, <1>5, <1>7, <2>4, MissGetsVerdict DEF ThreeCs
  <2> QED
    BY <1>2, <1>4, <1>5, <2>5 DEF Accessed, Counted
<1> QED
  BY <1>1, <1>6, <1>7

LEMMA FullStep == FullInv /\ [Next]_vars => FullInv'
<1> SUFFICES ASSUME FullInv, [Next]_vars PROVE FullInv'
  OBVIOUS
<1>1. OrderInv' /\ YoungInv'
  BY OrderStep, YoungStep DEF FullInv
<1>2. cfg' = cfg
  BY DEF Next, Hit, Fill, WriteAround, vars
<1>3. AllocatingFullyAssociativeLRU' <=> AllocatingFullyAssociativeLRU
  BY <1>2 DEF AllocatingFullyAssociativeLRU, FullyAssociativeLRU
<1>4. CASE UNCHANGED vars
  <2>1. Blocks' = Blocks
    BY <1>2 DEF Blocks
  <2> QED
    BY <1>1, <1>3, <1>4, <2>1 DEF vars, history, FullInv
<1>5. CASE Next
  BY <1>1, <1>3, <1>5, NoConflictCounted DEF FullInv
<1> QED
  BY <1>4, <1>5

\* An allocating fully-associative LRU cache holds at every moment what the
\* reference model of the classifier holds, so no miss of it is ever counted
\* as a conflict.
THEOREM FullyAssociativeIsReference == Spec => []FullyAssocIsTheReference
<1>1. FullInv => FullyAssocIsTheReference
  BY SameContents DEF FullInv, AllocatingFullyAssociativeLRU, FullyAssocIsTheReference
<1> QED
  BY <1>1, FullInit, FullStep, PTL DEF Spec
=============================================================================
