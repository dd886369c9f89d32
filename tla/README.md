# Verification of the cache hierarchy simulator

A trace of memory accesses goes through L1, L2 and main memory; the simulator
counts hits, misses, write-backs and traffic, sorts misses into the three C's and
derives miss rates and AMAT. This directory holds TLA+ models of that program, the
TLC configurations that check them and proofs TLAPS checks. Paths below are those of
the repository.

## 1. The system

The program is sequential: one thread, no files written, no retries. What makes it
hard is not interleaving but long sequences of legal accesses, state kept in two
places that must agree (the cache and the reference model of the classifier, a dirty
bit and the level below, counters of neighbouring levels), and a recursion that
crosses levels in the middle of an access.

| Component | State | Operations | Interacts with |
|---|---|---|---|
| Geometry (`src/cache.cpp` 36-68, 85-93, `include/config.h`) | configuration, set, offset and index widths | constructor checks, `decode`, victim address | everything in the cache |
| Replacement (`src/replacement.cpp`) | one stamp per frame and a clock (LRU, FIFO); none (Random) | `onAccess`, `onInsert`, `getVictim` | called by `Cache::access` at three fixed points |
| 3-C classifier (`RefFACache`, `Cache::classify`) | seen blocks, resident blocks with last use, clock | `touch`, `classify` | must be driven by every access of its cache |
| Cache (`src/cache.cpp`) | lines (valid, dirty, tag), counters, policy, classifier, `next_` | `access`: hit, write-around, fill; `checkInvariants` | calls `next_->access` for fetches, write-backs, forwarded and write-around stores |
| Memory (`src/memory.cpp`) | two counters | `access` | end of the recursion |
| Hierarchy (`src/hierarchy.cpp`) | the levels, memory | constructor, `feed`, `access`, `computeAMAT`, `checkInvariants` | expands records, calls L1 |
| Trace reader (`src/trace_reader.cpp`) | a file stream | `next` | main loop |
| Command line (`src/main.cpp`) | options, configurations | option loop, checks, main loop, report, exit code | builds the hierarchy, feeds it |
| Reports (`reportAll`, `reportJson`) | none | figures of every level, rates, AMAT | read the counters |
| Sweep script (`scripts/sweep.py`) | rows of a table, two files | prerequisites, runs, texts, files | runs the program, trusts its exit code |
| Trace generation (`scripts/tracegen.cpp`, `gen_trace.sh`) | arrays, a shuffled list | four workloads | writes traces |
| Build (`src/Makefile`) | none | compiles | |

What has to be true of each:

- **Geometry**: set and tag determine the block, the victim's rebuilt address lies in
  the victim's block, no block is in two frames.
- **Replacement**: LRU keeps the blocks used last, FIFO those filled last, and neither
  evicts while a frame is free.
- **Classifier**: the reference model holds the most recently used blocks, as many as
  the cache has lines; each verdict is the one the reuse distance gives.
- **Cache**: no store is lost or written twice or to another block; the traffic below
  is what the policies promise; the self-check passes.
- **Hierarchy**: a load finds the newest store whatever the policies of the levels; the
  counters of neighbouring levels agree at every moment; every record is served; AMAT
  is the mean latency it claims to be.
- **Trace reader**: each well-formed line gives one record, in order, and a record is always
  what one line says.
- **Command line**: options in any order give the same configuration; a bad option or
  geometry ends with exit code 2 (a word where a number belongs aborts, before anything is
  printed), an unreadable trace with 1, and 0 is only given to a complete, checked run.
- **Reports**: the figures of one report add up, from the records of the trace down to the
  traffic of memory; under `--json` a script finds the object alone or no object, unless
  `--verbose` echoes before it.
- **Sweep**: no row of a run that failed reaches a table; a sweep that reports success leaves
  table and text of the same runs. One whose text cannot be written leaves the new table
  beside the old text: two files are written one after the other.
- **Trace generation**: addresses of elements only; the shuffled list is one cycle; the
  traces have the locality they are named for.

The behaviours a test hardly reaches are listed, each at its line, under `hazards` in
`PROJECT.json`: contents that drift apart over many accesses, the order of the calls inside
one access, options that meet only in some order, records half written by a bad line,
words that wrap, files half written.

## 2. The modules

| Module | Models |
|---|---|
| `CacheGeometry` | the configuration record, what the constructor accepts, `decode`, the victim's address, as arithmetic |
| `Constructor` | the same as the code computes it: words of `Width` bits, products that wrap, bit tests, masks, shifts, the exceptions and the division by zero |
| `ReplacementPolicy` | the policy object and its three hooks |
| `RefFACache` | the reference model and `touch` |
| `CacheLevel` | one Cache object as operators: for each path through `Cache::access`, the state it leaves and the calls it makes below |
| `Cache` | a single cache over memory: one action per path, history variables, properties |
| `BlockStore` | abstract: what a cache promises whatever its frames and its policy (blocks held, blocks owed, reads and writes sent) |
| `Lockstep` | two caches on the same trace: what a knob may and may not change |
| `Hierarchy` | a chain of any depth, fed with records: the call stack, one action per path and level |
| `TraceReader` | `next()`, one turn of its loop per action: lines as an op letter and two number tokens, the record it fills by reference |
| `Simulator` | `main`, from the first option to the exit code; extends `TraceReader` and `CacheGeometry` |
| `System` | the whole program: `Hierarchy` driven by an instance of `Simulator`, the real self-check, the figures of the report |
| `TraceGen` | `tracegen.cpp`: four workloads, one turn of the innermost loop per action |
| `Workload` | `TraceGen` composed with a cache that is fed what it wrote |
| `Sweep` | `sweep.py`: prerequisites, runs and their exit codes, the texts that may raise, the two files |
| `MC*` | the instance of each that TLC checks |
| `CacheLevel_proofs` | lemmas about one access of one cache, wherever it stands |
| `Cache_proofs` | theorems about one cache: types, duplicates, stores owed, counters and traffic, that it implements `BlockStore`, and the order of use behind the classifier and the replacement policies |
| `Hierarchy_proofs` | the types of a chain, what neighbouring levels send each other, that each level is a `BlockStore`, AMAT, where the newest value of a byte is, and the two accesses of a modify |
| `Constructor_proofs` | that bit tests, masks and shifts are the arithmetic of `CacheGeometry`, for words of every width |
| `Lockstep_proofs` | what a change of one knob cannot change |
| `Simulator_proofs` | about `main` and the trace reader |
| `System_proofs` | about the whole program: its report, its self-check, and that it is the `Simulator` |
| `Scripts_proofs` | about `TraceGen`, `Workload` and `Sweep` |

**State.** A configuration is the record `CacheConfig` without its label, times and
address width. A cache is the record of the fields `sets_` (`lines`), `repl_`,
`stats_`, `refFA_` and `seen_`. Block, set and tag are computed with division and
remainder where the code masks and shifts: the constructor accepts powers of two only,
for which these are the same (theorem `DecodeDivides`). `Constructor` has a word's `&` and `|` as intersection and union of
the sets of its bits. `std::rand()` is a choice of any way.

**Actions.** `Cache::access` is one handler with three ways through it, and each is one
action with everything it does: `Hit` (policy, reference model, dirty bit or forwarded
store), `WriteAround` (verdict, reference model, store below, early return before any
frame changes), `Fill` (verdict, fetch, choice of a frame, write-back of a dirty victim,
install, forwarded store, policy). `Cache::access` throws away what `next_->access`
returns and no level calls upward, so the calls of an access are collected in their
order and served after its own state has changed.

**The recursion.** `Hierarchy` keeps the calls still to run in `pending`, the front one
next. Serving a call of a level replaces it by the calls the level makes below, ahead of
the rest: the depth-first order of the C++ call stack. In between, levels disagree with
each other as they do in the program in the middle of an access, and the traffic
properties hold there too. `Feed` is the main loop handing `feed()` one record: a load, a
store, a modify (load, then store) or an instruction fetch, which is dropped.

**The main program.** `Simulator` chooses the command line option by option, as the
loop reads it; a value chosen when it is read is a value that was there all along, so
every `argv` of the given options is covered. Its locals are `settings`, a function from
the flags seen to the last value of each. Then come, in the order of `main`: required
options, resolution of `full`, opening of the trace, construction, the loop, the report,
the self-check, the exit code. Its hierarchy is the list of records fed, plus the
answer the self-check will give, chosen at the start: `main` has to be right for either.
A line in `TraceReader` is an op letter, an address token and a size token; a token is a
class (absent, number, number followed by something else, word, too large) and a value.
`out` is one record the caller keeps between calls, and a line that fails at its size
has already overwritten the address: the model does so too. `SizeValues` stands for 2^32: a
size is read as a long and cut to 32 bits.

**The whole program.** `System` is the composition: it extends `Hierarchy`, whose configurations are
those `main` builds, and instantiates `Simulator` with the records it has fed. A record `next()`
returns goes to `feed()` and the chain serves its calls to the last before `next()` runs again. `Simulator` alone has a
list of records for a hierarchy and a self-check whose answer is chosen at the start; `System`
has the chain, and computes the answer from the counters as `checkInvariants` does. That the second
is an implementation of the first (`RefinesMain`, with the answer TRUE) is what carries the
properties of `Simulator` over to the program, and says that the exit for violated
invariants is never taken.

**Generators and the sweep.** `TraceGen` emits names of elements; addresses are given to them
in `Workload`, where the arrays lie at multiples of 16 bytes; words of eight bytes and nodes of
two words are those of a 64-bit platform. `std::shuffle` and the
generator of random numbers are any order and any index. `Sweep` takes from the simulator an
exit code and a rate, any that `Simulator` allows.

**History variables** guide no action. In `Cache`, `owed` is the set of blocks stored to
and not yet written below, computed from the arriving stores and the calls sent, never
from dirty bits; `used`, `touched` and `filled` are times of the last use, stay and fill
of each block. In `TraceReader`, `from` is the line each fed record was read from. In
`Hierarchy`, `fresh[l]` is the set of bytes whose newest value level
`l` has, with memory the last place. A pending store carries the bytes it writes and those
among them of which it has the newest value: where it arrives the former are overwritten, with
the newest value or with an old one. The code
moves no data; a fetch stands for the block read from below, a store for the bytes
written there. A store names one byte, as in the code, which ignores access sizes.

## 3. The runs

| Run | Instance | Shows |
|---|---|---|
| `cache_accesses` | 16 caches: all write and allocation policies under LRU and FIFO and two under Random (one set of 2 ways), two sets of 2 ways, 2 lines with the classifier; 5 blocks, 5 accesses | `TypeOK`, `NoDuplicateBlock`, `SelfCheck`, `OwedIsDirty`, `TrafficLaw`, `StoresCoalesce`, `KeepsYoungest`, `RefHoldsMostRecent`, `FullyAssocIsTheReference`, `VerdictByReuseDistance`, `ActsAsBlockStore` |
| `cache_fully_assoc` | the four with the classifier and 2 lines, 6 accesses | violation of `FullyAssocNeverConflicts` |
| `hierarchy_chains` | L1 of 1 line over L2 of 2 under all 16 pairs of policies; 3 levels, Random in the middle, larger blocks at the bottom; 4 records | `TypeOK`, `NewestStoreFound`, `TrafficBetweenLevels`, `WritesNeverAmplified`, `AmatIsMeanLatency`, `ModifyStoreHits`, `LevelsActAsBlockStores`, `EveryRecordIsServed` |
| `hierarchy_shrinking` | L1 blocks of two L2 blocks | violation of `OnlyCopyWrittenBack` |
| `simulator_options` | command lines of up to 7 of 21 options, good and bad, in any order and repeated; 4 traces with lines of every kind | `FedIsTrace`, `TrustedReport`, `FullIsOneSet`, `JsonAlone`, `AbortsOnGivenValues` |
| `simulator_json_alone` | command lines of up to 5 options, `--json` and `--verbose` among them; a trace of one load | violation of `OnlyTheObject` |
| `system_runs` | the program with an L1 of two lines, with and without L2; every trace of up to 2 lines of 7 kinds and some of 3 | `ReportAddsUp`, `RefinesMain`, `EveryRunEnds` |
| `constructor_words` | words of 5 bits: every size, block, associativity, address width, address | `AcceptsTheConstructible`, `DecodesByDivision`, `TagWidthIsExact`, `GeometryIdentity` |
| `lockstep_grown` | 9 pairs of caches, 4 blocks, 6 accesses | `StackProperty`, `WritePolicyIsInvisible`, `ShadowsNest` |
| `workload_runs` | every workload, numbers from negative to 10 words, every shuffle of up to 4 nodes, two placements, 16 caches | `EmitsElements`, `TourIsOneCycle`, `MatmulLocality`, `CyclicScanLaw`, `SecondTouchHits` |
| `sweep_runs` | a grid of 7 runs, any answers of the simulator, any traces | `NoBadScience` |
| `sweep_half_written` | the same grid | violation of `TextMatchesTable` |

**Bounds.** `MaxAccesses`, `MaxRecords` and `MaxOptions` bound the length of the trace and
of the command line, `Width` the machine word; they are the only caps. `System`'s `MaxRecords` is its
longest trace, so it caps nothing there. Two ways and three competing blocks are the
least instance in which a victim is chosen, dropped and asked for again; five accesses leave room to
fill the set, hit to reorder it, evict, and miss on the evicted block. A set of two ways
beside another set makes a wrong index or victim address visible, and four of the five blocks
compete for one set there. In the chains an L1 of one line evicts on every change
of block; with three stores a dirty block has gone from L1 to L2 and from there to memory,
and the fourth record reads it back (a modify counts as one record and two accesses).
Seven options are a trace, the two required options of each level and two more, as
many as `full` at both levels needs. What a line does depends on nothing but `out`, so three
lines (a good one, one that fails half way, a good one) show a record that mixes two.
Five bits hold every order of the widths of block, index and word, products that wrap to
zero and to a divisor of the size, and a tag width below zero. Lockstep needs one access
more than a single cache: the larger of the two has to fill as well. A scan of ten words
puts up to five blocks into one set and three nodes is the least list that can fall into
several cycles. Checking deadlock is switched off everywhere because a trace, and the
process, ends.

**Refinements.** `ActsAsBlockStore`: the frames, tags and stamps of `Cache` under the map that
collects the blocks of valid and of dirty frames implement `BlockStore`, with reads and
writes the calls sent. `LevelsActAsBlockStores`: the first two levels of a chain still do
in the middle of the recursion, where calls sent are those counted below and those
in flight. `RefinesMain`: `System` implements `Simulator`.

**Fairness.** `Hierarchy` states weak fairness of `Serve`: there is one thread and nothing to
wait for between calls, so while a call is on the stack it runs. Nothing is assumed of
`Feed`: a trace may end after any record. `Simulator` and `System` state weak fairness of
`Next /\ UNCHANGED bad`: the process has one thread and keeps running until it ends, and a read
error, which would end it early, never has to come. That it ends is then a matter of
its loops, over a finite `argv` and a finite trace, each turn of which consumes something,
and of the recursion below `feed()`. The other modules state safety only.

**What the violations show.**

1. *Conflict misses of a fully-associative LRU cache.* `docs/phases/phase-5.md:65` says it
   has none by definition. Under no-write-allocate the store that goes around enters the
   reference model but not the cache, and the next load of the block is called a
   conflict. With write-allocate the claim holds (`FullyAssocIsTheReference`).
2. *A victim larger than the blocks below.* `src/cache.cpp:136` and
   `docs/phases/phase-3.md:35` promise that the only copy is written back. It is, when the
   blocks do not shrink on the way down (`NewestStoreFound`). Otherwise the write-back is
   one access to the first of the smaller blocks; the others keep, and serve, old contents.
3. *An object that is not alone.* `docs/phases/phase-6.md:108` says that under `--json` there is
   exactly one machine-readable line and nothing else on stdout. With `--verbose` the loop
   echoes every access there first (`src/main.cpp:173`). Without it the promise is kept, and the exit
   code is the verdict of the self-check (`JsonAlone`).
4. *A table beside another sweep's text.* `docs/phases/phase-6.md:130` says that a sweep on new
   traces rewrites the prose to match. `scripts/sweep.py:228-234` finishes the table before it opens the
   text, and an error in between leaves the new table beside the old text, or a cut one. What
   holds (`NoBadScience`): the script does not report success then, and no text is begun before its
   table is whole.

**Other differences met while modelling**, for which there is no run of their own:

- `blockSize * associativity` may wrap in 64 bits (`src/cache.cpp:44`): size and block 2^60 with
  associativity 17 are accepted, with a geometry that is not the size. `GeometryIdentity` says
  exactly when. `Simulator`, whose numbers do not wrap, has exit code 2 there.
- `docs/SPEC.md:794` speaks of the stack property of LRU. `StackProperty` is what holds. At equal size,
  more ways and fewer sets may miss more; under no-write-allocate, so may more sets.
- `docs/SPEC.md:164` says of the global miss rate that it is misses over CPU accesses, which the code
  prints (`src/hierarchy.cpp:71`), and that it is the product of the local rates. The two differ as soon as a
  write-back or a forwarded store reaches L2.
- `include/trace_reader.h:37` says that malformed lines are skipped. Lines whose numbers do not start
  as numbers are; a line whose address or size only starts as one is a record (`src/trace_reader.cpp:58`),
  as `std::stoull` stops at the first other character. `FedIsTrace` says what such a record is.
- `--addr-bits` may be too small for the geometry (`src/cache.cpp:53`): nothing refuses it and the
  reported tag width wraps. `TagWidthIsExact` says that it is then larger than the address.
- A number on the command line that is a word ends the program in `std::terminate`
  (`src/main.cpp:106`), not with exit code 2; `AbortsOnGivenValues` says that nothing has been printed by then.
- `next()` takes a read error for the end of the file (`src/trace_reader.cpp:15`), and the run ends with
  0; `TrustedReport` speaks of readable traces.
- `scripts/sweep.py:106` and `:180` write findings as fixed text, which `docs/phases/phase-6.md:130` calls
  "not hardcoded".
- `randscan` on an array of less than eight bytes draws an index from the whole range of
  words (`scripts/tracegen.cpp:103`) and reads it; the model lets it trap there, before a wrong address
  is part of a finished trace.

## 4. The proofs

Eleven theorems are about `Cache`: one cache over memory, for **every** set of configurations the
constructor accepts, every set of addresses and every bound on the trace
(`ConfigsAssumption`, `AddrsAssumption`, `MaxAccessesAssumption`; nothing else is assumed).
Nine are about `Hierarchy`: for every set of chains of one level or more, each level in a
configuration the constructor accepts (`ChainsAssumption`, `HierarchyAddrsAssumption`, and
`TimesAssumption` for AMAT); `LevelsAreStores`,
which speaks of the second level, takes chains that have one, as those of the runs do. Three
are about `Lockstep`: for every set of pairs of constructible configurations of equal block
size (`PairsAssumption`, `LockstepAddrsAssumption`). Five
are about `Simulator`: for every set of traces, of options and every length of the
command line (`FilesAssumption`, `SizesAssumption`: a trace is a sequence of lines, a size has a width). Three are about `System`: for every
set of options and of traces whose records have addresses among `Addrs` (`TracesAssumption`,
`HierarchyAddrsAssumption`, `SizesAssumption`). Five are about `Workload`: for every set of command lines with any
numbers, of constructible configurations and of placements of the arrays at multiples of 16
(`CommandsAssumption`, `ConfigsAssumption`, `PlacementsAssumption`). One is about `Sweep`, for every grid
(`GridAssumption`, `RatesAssumption`). Four are
about `Constructor`: for words of every width and every set of address widths that are words
(`WidthAssumption`).

| Theorem | Statement | Inductive invariant |
|---|---|---|
| `TypeCorrect` | `Spec => []TypeOK` | itself |
| `NoDuplicates` | `Spec => []NoDuplicateBlock` | with `TypeOK` |
| `NoStoreLost` | `Spec => []OwedIsDirty` | `StoreInv`: with `TypeOK`, `NoDuplicateBlock`, `WriteThroughIsClean` |
| `SelfCheckPasses` | `Spec => []SelfCheck` | `CountInv`: with `TypeOK`, finiteness of `seen` |
| `TrafficPromised` | `Spec => []TrafficLaw` | `TrafficInv`: with `TypeOK` |
| `OneWritePerStore` | `Spec => []StoresCoalesce` | `TrafficInv`: writes sent and dirty lines never outnumber stores; with `OwedIsDirty` |
| `NeighboursAgree` | `Spec => []TrafficBetweenLevels` | `ChainInv`: the law of every level, each level healthy, a well formed stack |
| `ChainNeverAmplifies` | `Spec => []WritesNeverAmplified` | `ChainInv` |
| `EveryLevelHealthy` | `Spec => [](\A l \in Levels : CheckInvariants(cfgs[l], levels[l]))` | `ChainInv` |
| `CacheImplementsBlockStore` | `Spec => ActsAsBlockStore` | `StoreInv`; a set has as many blocks as taken ways (`PeerCount`) |
| `ShadowHoldsMostRecent` | `Spec => []RefHoldsMostRecent` | `OrderInv`: the stamps of the reference model are the times of last use, no two alike |
| `VerdictsByReuseDistance` | `Spec => VerdictByReuseDistance` | `OrderInv` |
| `PoliciesKeepYoungest` | `Spec => []KeepsYoungest` | `YoungInv`: the stamps of frames order them as the history does |
| `FullyAssociativeIsReference` | `Spec => []FullyAssocIsTheReference` | `FullInv`: cache and model hold the same blocks with stamps in the same order |
| `ChainTypes` | `Spec => []TypeOK` | `ReachInv`: with `ChainInv`, valid frames hold blocks some level was asked for, and the addresses written back are starts of such blocks |
| `FirstLevelIsStore` | `Spec => L1!Spec` | `StoresInv`: `ReachInv`, and at no level a block is in two frames |
| `LevelsAreStores` | `Spec => LevelsActAsBlockStores` | `StoresInv` |
| `AmatAveragesLatency` | `Spec => []AmatIsMeanLatency` | `ReachInv`; along the levels, the mean of each from the mean of the next |
| `LoadsFindNewestStore` | `Spec => []NewestStoreFound` | `ValuesInOrder`: with `ChainInv`, every copy and every store in flight is as new as it has to be |
| `ModifyCostsOneMiss` | `Spec => ModifyStoreHits` | `ModifyInv`: the store of a modify waits last, behind its load or with its block in L1 |
| `ConstructorAcceptsTheConstructible` | `Spec => []AcceptsTheConstructible` | `ConstructorInv`: what each stage says of the knobs, and that the geometry and the fields are computed from them |
| `DecodeDivides` | `Spec => []DecodesByDivision` | `ConstructorInv` |
| `TagsHaveTheReportedWidth` | `Spec => []TagWidthIsExact` | `ConstructorInv` |
| `IdentityIffNoWrap` | `Spec => []GeometryIdentity` | `ConstructorInv` |
| `GrownNeverMissesMore` | `Spec => []StackProperty` | `StackInv`: a set of the second cache holds what the first has there, used in the same order |
| `WritePolicyNeverShows` | `Spec => []WritePolicyIsInvisible` | `WriteInv`: the same frame holds the same block |
| `ShadowsAlwaysNest` | `Spec => []ShadowsNest` | `ShadowInv`: the smaller reference model holds the part of the larger that was used last |
| `FedIsTraceAlways` | `Spec => []FedIsTrace` | `ReaderInv`: what `out` holds in the states between two lines |
| `TrustedReportAlways` | `Spec => []TrustedReport` | `StageInv`: what each stage of `main` has already established, with `ReaderInv` |
| `JsonAloneAlways` | `Spec => []JsonAlone` | `OutputInv`: what has been printed by each stage, with `StageInv` |
| `FullIsOneSetAlways` | `Spec => []FullIsOneSet` | `LevelsInv`: the levels are those of the settings, each constructible once built |
| `AbortsOnGivenValuesAlways` | `Spec => AbortsOnGivenValues` | `StageInv` |
| `ReportAlwaysAddsUp` | `SystemSpec => []ReportAddsUp` | `SysInv`: `ChainInv` from construction to the end, and the loads and stores of the records are the calls made to L1 |
| `ProgramPassesSelfCheck` | `SystemSpec => [](healthy = TRUE)` | `SysInv` |
| `ProgramIsTheSimulator` | `SystemSpec => RefinesMain` | `SysInv` |
| `TracesStayInArrays` | `Spec => []EmitsElements` | `GenInv`: what stands at which place of the trace, turn by turn |
| `ShuffledListIsOneCycle` | `Spec => []TourIsOneCycle` | `GenInv`, of which: the next node is the one at place `turn % n` of the shuffled order |
| `MatmulIsLocal` | `Spec => []MatmulLocality` | `GenInv` |
| `StoresAndPayloadsHit` | `Spec => SecondTouchHits` | `RunInv`: the cache holds the block of the load fed last |
| `RepeatedScansMissByLaw` | `Spec => []CyclicScanLaw` | `ScanInv`: the cache holds only blocks of the scan, every one of a set they fit, and with a block of a crowded set all those visited after it, as younger ones |
| `TablesAreOfWholeSweeps` | `SweepSpec => []NoBadScience` | `SweepInv`: rows are of runs that ended with 0, files are opened in order, last, and with a text for them |

The argument for `NoStoreLost`: a frame and the block it holds determine each other
(`Recomposition`, `VictimAddress`), so an eviction writes to the block it removes; the
block of an access is in no other frame (`NoDuplicateBlock`), so installing or dirtying a
frame adds that block to the dirty blocks and evicting one removes exactly its own. Without
`NoDuplicateBlock` the step fails, since a second dirty copy would outlive the first; without
`WriteThroughIsClean` a write-through eviction could drop a dirty line, because `access`
writes back under write-back only. `CacheImplementsBlockStore` uses the same facts: a hit is
`Find`, a write-around `PassBy`, a fill one of the two `Bring`s according to whether
its set has an empty frame; as no block is in two frames, the blocks of a set are as many as its
valid frames.

`SelfCheckPasses` says that a cache over memory passes its self-check, whatever the trace, and
`EveryLevelHealthy` that every level of a chain does; `ProgramPassesSelfCheck` concludes that the
branch of `main` that reports violated invariants is unreachable.

What one access does to one cache is the same over memory and in a chain, so it is proved once,
in `CacheLevel_proofs`, for every configuration: each path leaves a cache that passes its
self-check (`HitHealthy`, `WriteAroundHealthy`, `FillHealthy`), sends what its policies promise
of the counters it adds to (`Lawful`), and makes a store cost at most one write (`Coalesces`).
The argument for a chain is then about the stack. The calls a level has sent the next are
those the next has counted and those under way; serving the front call of level `l` takes one
call for `l` off the stack as `l` counts it, which leaves what `l` was sent as it was
(`StackAfter`, `SentAfter`), and puts the calls made for `l + 1` on it, which is what the law
of `l` allows. No other level is touched (`ServedLevel`).

For `LevelsAreStores` each level is seen as its contents (what the search of `access` finds,
`ContentsAreHeld`), the blocks it owes, and the calls it has made, counted or under way. A step either
is a call this level serves or leaves all three alone: what a level has sent grows only when it serves
a call (`Sends`, `SendsNothing`). A call it serves is a `Find` (`HitFinds`), a `PassBy`
(`WriteAroundPasses`) or one of the two `Bring`s (`FillBrings`): a frame the set has room in replaces nothing
(`PickTakesEmpty`), and a full set, which holds as many blocks as it has ways since no two frames
hold the same one (`BlocksInSet`), loses exactly one.

`AmatAveragesLatency` is about two recursions over the levels, the penalties of `computeAMAT` from memory
up and the cycles spent from L1 down. Each has its values for a chain of any depth (`FoldExists`: the first
place without a value would follow one that has it), and on a trace without stores a level is
asked exactly for the misses of the one above (`LoadsOnly`, from the clause `Fetches` of the law), so the
mean of a level follows from that of the next (`MeanOfLevel`).

The argument for `TrustedReport`: exit code 0 with a report is only reached through every
stage, so the invariant carries what each stage has left true of the settings and
of the reader: the loop ends at the end of the file, by which time every well-formed line has its
record. `FedIsTrace` needs more than itself, since a line that fails has changed `out`:
`ReaderInv` says that a record is handed over only with all its fields from one line.
`FullIsOneSet` rests on `WholeLevelInOneSet`: size over block ways leave one set.

The last four theorems about `Cache` rest on stamps. Clock and number of accesses agree, so no two
stamps of a set (or of the reference model) are alike and the oldest stamp belongs to the
block whose use lies furthest back: a victim is then older than everything that stays, which
keeps "the youngest, as many as there is room for" true of what is left. `FullyAssociativeIsReference`
follows from two such laws: a fully-associative LRU set and the reference model hold the
youngest blocks of one order, and as many (`SameContents`). `VerdictsByReuseDistance` reads the
verdict off the law of the reference model: a block is in it when fewer blocks than it has room
for were used since.

The argument for `LoadsFindNewestStore` speaks of every place a value can be: levels, memory, and
the stores in flight. `ValuesInOrder` says that a level's copy is no newer than it can account for
(`NoneOlderAbove`, `BelowIsNewest`: no level above a newest copy holds an older one), that the
calls under way are served in an order that keeps this (`InOrder`, `OldMeetsOld`: a store that
carries an old value only meets old copies), and that the newest value is in some
place, held or in flight (`NewestIsHeld`, `PassedIsNewest`). The hypothesis `BlocksGrow` is used
once, where a dirty victim leaves a level: sizes are powers of two, so its block lies inside
one block below (`BlocksNest`, `VictimFits`) and the write-back, which names one address, reaches
all of it. Run `hierarchy_shrinking` shows that without it a store can be lost at this step. The invariant was model-checked, with the calls in flight, before it was proved.
`ModifyCostsOneMiss` needs only that nothing is asked of L1 between a load and the store behind it.

`Lockstep_proofs` relates the states of two caches. For `StackProperty` inclusion alone is not
inductive. `StackOrder` adds: the blocks both hold are used in the same order by the stamps
of either; a block only the second holds means that the first one's set is full; and, if stores
allocate, such a block was used before everything the first holds there. So the victim of
the second, if the first holds it, is the least recent block of a full set there, and
leaves both (`SameVictim`, by counting the blocks of a set); `SetsNest` says that the blocks of a
set of the second cache lie in one set of the first. Under no-write-allocate the third part fails (a
store that goes around refreshes a block in one cache only if it holds it), which is why `Grown` then asks
for equal sets. For `WritePolicyIsInvisible` frames are compared one by one, since neither policy
looks at a dirty bit; `ShadowsNest` is the stack property of the reference models, which every access drives.
These invariants too were model-checked first.

`System_proofs` is where the lemmas about the chain meet `main`. `Stages` says what each stage of `main`
may find: no chain and nothing under way before construction; then, in the loop, a chain that keeps
`ChainInv`, for which `main`'s check that every level can be constructed is what `Hierarchy` assumes of its
configurations (`MainConfigs`, `NewChainKeepsLaws`). `CpuCounts` relates the loop to the chain: the calls
made to L1, counted or under way, are the loads and stores of the records fed so far. `FeedAddsCalls`
keeps it when a record is handed over, and no path through a level adds a call to L1 (`SameCpuCalls`). When
`main` prints, nothing is under way, so `AddsUp` is read off the law of each level (`IdleReportAddsUp`); the
denominators of rates and AMAT are products of positive numbers (`RatesAreNumbers`, `AmatIsNumber`).
For `ProgramIsTheSimulator` a step of the chain is a stutter of `main`, because the one thing `main` reads of
the chain, the answer of its self-check, does not change; every other step contains one of `main`.

`Scripts_proofs` reads the traces of `tracegen` off one invariant: a turn is a number, and its quotients and
remainders say which element each of its touches names (`MayStand`). That the indices stay in the arrays
(`TouchesElements`, `PlaceInMatrix`), that a hop is a step along the shuffled order (`NextInOrder`) and that the turns of
`matmul` are the triples of three loops (`LoopTurn`, `TurnOfLoops`) is then arithmetic. For `StoresAndPayloadsHit` the cache may be any: a load
leaves its block there under every policy (`LoadStays`), the touch behind it asks for the same block (`FirstTouchOfBlock`), and two words of one
node share a block because sizes are powers of two and nodes lie at multiples of sixteen (`WordsShareBlock`).

`RepeatedScansMissByLaw` is about every touch of a scan, not only about its end. `ScanState` says what a cache
that was cut off after `t` touches holds and that its misses are those of `Missing`: the touches that begin a block,
in the first pass all of them and later those of the crowded sets. When a block of a crowded set is asked for
again, every other block of the set has been visited since it was left (`OthersVisited`, because a pass visits blocks in
their order); were the block still held, all of these would be held too, as younger ones, and the set would hold more
blocks than it has ways (`ScanMisses`). A set that is not crowded has an empty way for what it has not seen, so it
loses nothing (`ScanStep`). That LRU's victim is the block used longest ago and FIFO's the one brought in longest ago is all that is
asked of the policy (`LoadLoads`); Random keeps no order and the law is false of it. What is left is counting: a pass
begins each block once (`VisitsCount`), and the sum `SumFunction` takes over the sets is the size of the union of what each set
misses (`SizesAddUp`, by the least set for which the fold would be wrong). `ScanState` was model-checked before it was proved.

`Constructor_proofs` is arithmetic, and the width of a word is any positive number. The prover knows nothing of powers,
so they come first: `2 ^ n` counts the sets of `n` things, which gives `PowerDoubles` and with it sums and order of exponents. `IsPow2`, which
speaks of odd divisors, holds of these numbers and of no other (`PowerIsPow2`, `Pow2IsPower`). Everything about bits follows from one
lemma, that a number over `k` bits of another has the bits of both (`BitsSideBySide`): bits decide a word and any set of bits is one
(`BitsDecide`, `BitsExist`, `WordOfBits`), a mask is a remainder (`MaskIsRemainder`), the disjunction of a
shifted tag and an index their sum (`OrIsSum`), and only powers of two have no bit in common with their predecessor
(`PowerBitsIsPow2`): any other number keeps its highest bit there. Inductions are by the least counterexample (`FirstIsLeast`). `IdentityIffNoWrap` has a
direction that is no arithmetic of the user's numbers: when the product has wrapped, what is left of it still is whole blocks
(`WholeBlocks`), so the reference model gets a whole number of lines per set, and a wrong one. The same
fact bounds the fields: offset and index fit a word together (`FieldsFitWord`), so a tag width below zero wraps to
more than the width of an address (`WrappedWidthIsTooLarge`).

**Model-checked only**: liveness, of `Hierarchy` (`EveryRecordIsServed`) and of `System` (`EveryRunEnds`).
Liveness under fairness, statements with ENABLED and modules that reach RECURSIVE operators
are beyond the prover and stay with TLC.

## 5. Not modelled

- Clocks and counters would need 2^64 accesses to wrap; only `Constructor` has words.
- Allocation: memory that runs out.
- Characters. Blanks and carriage returns are stripped before a line of the model; signs,
  `0x` prefixes and the base of a number are part of reading a token, which is a class and
  a value. A value on the command line that starts with a number, such as `8K`, is read as
  that number by the code and is a number in the model.
- Layout and wording of reports, the escaping of the trace path in JSON, labels, the wording of
  the sweep's findings: no state.
- Doubles: AMAT and rates are exact fractions.
- `scripts/gen_trace.sh`, which wraps Valgrind and `grep`; the `Makefile`: no logic of the simulator.
