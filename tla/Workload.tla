------------------------------ MODULE Workload ------------------------------
(***************************************************************************)
(* `make traces` and one run of the simulator on the result, as            *)
(* scripts/sweep.py does for every row of its tables: a workload of        *)
(* tracegen writes its trace, and one cache is fed it.                     *)
(*                                                                         *)
(* The arrays lie where the allocator put them, at multiples of 16 bytes   *)
(* and so not at the start of a block.                                     *)
(***************************************************************************)
EXTENDS CacheLevel, Functions

CONSTANTS
  Commands,     \* the command lines of tracegen
  Configs,      \* the configurations of the cache
  Placements    \* where the arrays may lie: functions of the names of arrays

ASSUME CommandsAssumption ==
  Commands \subseteq [kind : STRING, argc : Nat, n : Int, m : Int]
ASSUME ConfigsAssumption == \A cfg \in Configs : Constructible(cfg)
ASSUME PlacementsAssumption ==
  Placements \subseteq
    [{"A", "B", "C", "pool", "a"} -> {address \in Nat : address % 16 = 0}]

VARIABLES
  command, stage, code, order, node, turn, trace,   \* of the generator
  config, place,                                    \* of this run
  cache, fed                                        \* the cache; touches fed so far

genVars == <<command, stage, code, order, node, turn, trace>>
vars == <<genVars, config, place, cache, fed>>

Gen == INSTANCE TraceGen

Init ==
  /\ Gen!Init
  /\ config \in Configs
  /\ place \in Placements
  /\ cache = NewCache(config)
  /\ fed = 0

Generate == Gen!Next /\ UNCHANGED <<config, place, cache, fed>>

\* Every element is a word of eight bytes.
AddressOf(touch) == place[touch.array] + 8 * touch.index

\* The simulator reads the file once the generator has ended well.
Feed ==
  /\ stage = "ended" /\ code = "0"
  /\ fed < Len(trace)
  /\ fed' = fed + 1
  /\ cache' \in AfterAccess(config, cache, AddressOf(trace[fed + 1]),
                            trace[fed + 1].op = "S")
  /\ UNCHANGED <<genVars, config, place>>

Next == Generate \/ Feed

Spec == Init /\ [][Next]_vars

-----------------------------------------------------------------------------
(* Properties.                                                             *)

\* What tracegen promises of the trace it writes (see TraceGen).
EmitsElements  == Gen!EmitsElements
TourIsOneCycle == Gen!TourIsOneCycle
MatmulLocality == Gen!MatmulLocality

AllFed == stage = "ended" /\ code = "0" /\ fed = Len(trace)

\* The blocks of the scanned array that compete for set s.
Rivals(s) ==
  {b \in {BlockOf(config, place["a"] + 8 * i) : i \in 0 .. Gen!Cells - 1} :
     SetOf(config, b) = s}

Passes == Gen!AtLeast0(command.m)

\* What LRU and FIFO make of a sequential scan that is repeated: a set whose
\* blocks all fit misses each of them once, and a set of one block more than
\* its ways misses all of them in every pass, wherever the array lies.
SetMisses(s) ==
  LET n == Cardinality(Rivals(s))
  IN  IF n <= config.associativity /\ Passes > 0 THEN n ELSE Passes * n

CyclicScanLaw ==
  AllFed /\ command.kind = "seqscan" /\ config.replacement # "Random" =>
    cache.stats["misses"] = SumFunction([s \in Sets(config) |-> SetMisses(s)])

\* The two words of a node share a block of sixteen bytes or more, and every
\* store goes to the word loaded just before: payloads and stores hit, however
\* the list is shuffled, wherever the arrays lie and under every policy, so the
\* allocation policy cannot be told from these traces.
SecondTouchHits ==
  [][fed' # fed /\ \/ trace[fed'].op = "S"
                   \/ command.kind = "listwalk" /\ fed' % 2 = 0 /\ config.blockSize >= 16
       => cache'.stats["hits"] = cache.stats["hits"] + 1]_vars
=============================================================================
