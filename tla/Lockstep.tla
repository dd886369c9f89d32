------------------------------ MODULE Lockstep ------------------------------
(***************************************************************************)
(* Two caches of different configurations fed the same trace, as the rows  *)
(* of a sweep are: what a change of one knob may and may not change.       *)
(***************************************************************************)
EXTENDS CacheLevel

CONSTANTS
  Pairs,         \* pairs of configurations, of equal block size
  Addrs,         \* the byte addresses of the trace
  MaxAccesses    \* bound on the length of the trace

ASSUME PairsAssumption ==
  \A p \in Pairs : /\ Constructible(p[1]) /\ Constructible(p[2])
                   /\ p[1].blockSize = p[2].blockSize
ASSUME LockstepAddrsAssumption == Addrs \subseteq Nat /\ MaxAccesses \in Nat

VARIABLES
  pair,           \* the two configurations
  first, second   \* the two caches

vars == <<pair, first, second>>

Init ==
  /\ pair \in Pairs
  /\ first = NewCache(pair[1])
  /\ second = NewCache(pair[2])

Access(addr, isWrite) ==
  /\ first.stats["accesses"] < MaxAccesses
  /\ first' \in AfterAccess(pair[1], first, addr, isWrite)
  /\ second' \in AfterAccess(pair[2], second, addr, isWrite)
  /\ UNCHANGED pair

Next == \E addr \in Addrs, isWrite \in BOOLEAN : Access(addr, isWrite)

Spec == Init /\ [][Next]_vars

-----------------------------------------------------------------------------
(* Properties.                                                             *)

Held(cfg, c) ==
  {b \in {BlockOf(cfg, a) : a \in Addrs} : IsHit(cfg, c, b)}

BothLRU       == pair[1].replacement = "LRU" /\ pair[2].replacement = "LRU"
SameAlloc     == pair[1].allocPolicy = pair[2].allocPolicy
SameGeometry  == NumSets(pair[1]) = NumSets(pair[2]) /\ pair[1].associativity = pair[2].associativity

\* The second cache is the first with more ways, or, if stores allocate, with
\* each set split into several as well.
Grown ==
  /\ BothLRU /\ SameAlloc
  /\ pair[1].associativity <= pair[2].associativity
  /\ IF WriteAllocates(pair[1])
     THEN NumSets(pair[2]) % NumSets(pair[1]) = 0
     ELSE NumSets(pair[2]) = NumSets(pair[1])

\* The stack property of LRU, where it holds: a cache that grows in this way
\* still holds every block it held, so it never misses more.
StackProperty ==
  Grown => /\ Held(pair[1], first) \subseteq Held(pair[2], second)
           /\ second.stats["misses"] <= first.stats["misses"]

\* The write policy decides what is sent below and nothing else: two caches
\* that differ in it hold the same blocks, hit on the same accesses and, of
\* one replacement order, evict the same victims.
WritePolicyIsInvisible ==
  SameGeometry /\ SameAlloc /\ pair[1].replacement = pair[2].replacement
    /\ pair[1].replacement # "Random" =>
      /\ Held(pair[1], first) = Held(pair[2], second)
      /\ first.stats["hits"] = second.stats["hits"]
      /\ first.repl = second.repl

\* Compulsory misses belong to the trace, whatever the cache, and the shadow
\* models of two caches differ by size alone: the smaller one is in the larger.
ShadowsNest ==
  pair[1].classify3C /\ pair[2].classify3C =>
    /\ first.stats["compulsory"] = second.stats["compulsory"]
    /\ TotalLines(pair[1]) <= TotalLines(pair[2]) =>
         RefBlocks(first.refFA) \subseteq RefBlocks(second.refFA)
=============================================================================
