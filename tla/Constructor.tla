---------------------------- MODULE Constructor ----------------------------
(***************************************************************************)
(* Cache::Cache and Cache::decode of src/cache.cpp on words of Width bits, *)
(* as the code computes them: products that wrap, bit tests, masks and     *)
(* shifts.  CacheGeometry is the arithmetic they stand for.                *)
(***************************************************************************)
EXTENDS CacheGeometry

CONSTANTS
  Width,       \* bits of uint64_t
  AddrWidths   \* the values of --addr-bits

ASSUME WidthAssumption == Width \in Nat \ {0} /\ AddrWidths \subseteq 0 .. 2 ^ Width - 1

Words == 0 .. 2 ^ Width - 1

\* Unsigned arithmetic.
Wrap(n)         == n % 2 ^ Width
ShiftLeft(x, n) == Wrap(x * 2 ^ n)
ShiftRight(x, n) == x \div 2 ^ n

\* Bitwise operators, on words as the sets of their bits.
BitsOf(x) == {i \in 0 .. Width - 1 : (x \div 2 ^ i) % 2 = 1}
OfBits(S) == CHOOSE x \in Words : BitsOf(x) = S
And(x, y) == OfBits(BitsOf(x) \cap BitsOf(y))
Or(x, y)  == OfBits(BitsOf(x) \cup BitsOf(y))

\* isPow2: a power of two has no bit in common with its predecessor.
PowerBits(x) == x # 0 /\ And(x, Wrap(x - 1)) = 0

\* log2u: the number of halvings until at most 1 is left.
Log2(x) == CHOOSE r \in 0 .. Width : x < 2 ^ (r + 1) /\ (r > 0 => x >= 2 ^ r)

VARIABLES
  size, block, ways, addrWidth,   \* the knobs of CacheConfig
  stage,       \* "new", "thrown", "trapped", "built" or "decoded"
  geometry,    \* numSets_, the three bit counts and the lines of refFA_
  addr,        \* the address given to decode
  fields       \* the Decoded it returns

knobs == <<size, block, ways, addrWidth>>
vars  == <<knobs, stage, geometry, addr, fields>>

Unbuilt   == [numSets |-> 0, offset |-> 0, index |-> 0, tag |-> 0, refLines |-> 0]
Undecoded == [offset |-> 0, block |-> 0, set |-> 0, tag |-> 0]

\* Mutant: the ways are taken for the bytes of a set.
SetBytes_Lines == ways

\* block * associativity, of which the sets are cut.
SetBytes == Wrap(block * ways)

Init ==
  /\ size \in Words /\ block \in Words /\ ways \in Words /\ addrWidth \in AddrWidths
  /\ stage = "new"
  /\ geometry = Unbuilt
  /\ addr = 0
  /\ fields = Undecoded

\* Mutant: an associativity of zero is not refused.
EarlyChecks_AnyAssociativity == block # 0 /\ size # 0 /\ PowerBits(block)

\* The checks made before the remainder is taken.
EarlyChecks == block # 0 /\ ways # 0 /\ size # 0 /\ PowerBits(block)

\* A remainder by zero ends the process: no exception, no message.
Trap ==
  /\ stage = "new" /\ EarlyChecks /\ SetBytes = 0
  /\ stage' = "trapped"
  /\ UNCHANGED <<knobs, geometry, addr, fields>>

Accepts == EarlyChecks /\ size % SetBytes = 0 /\ PowerBits(size \div SetBytes)

Throw ==
  /\ stage = "new" /\ ~(EarlyChecks /\ SetBytes = 0) /\ ~Accepts
  /\ stage' = "thrown"
  /\ UNCHANGED <<knobs, geometry, addr, fields>>

\* Mutant: the tag is counted from the block address.
TagBits_NoOffset(n) == Wrap(addrWidth - Log2(n))

TagBits(n) == Wrap(addrWidth - Log2(n) - Log2(block))

Build ==
  /\ stage = "new" /\ ~(EarlyChecks /\ SetBytes = 0) /\ Accepts
  /\ stage' = "built"
  /\ LET n == size \div SetBytes IN
     geometry' = [numSets  |-> n,
                  offset   |-> Log2(block),
                  index    |-> Log2(n),
                  tag      |-> TagBits(n),
                  refLines |-> size \div block]
  /\ UNCHANGED <<knobs, addr, fields>>

\* Mutant: the mask of the index is the number of sets.
Decoded_MaskOffByOne(a) ==
  LET b == ShiftRight(a, geometry.offset)
  IN  [offset |-> And(a, Wrap(block - 1)), block |-> b,
       set |-> And(b, geometry.numSets), tag |-> ShiftRight(b, geometry.index)]

Decoded(a) ==
  LET b == ShiftRight(a, geometry.offset)
  IN  [offset |-> And(a, Wrap(block - 1)), block |-> b,
       set |-> And(b, Wrap(geometry.numSets - 1)), tag |-> ShiftRight(b, geometry.index)]

Decode(a) ==
  /\ stage = "built"
  /\ stage' = "decoded"
  /\ addr' = a
  /\ fields' = Decoded(a)
  /\ UNCHANGED <<knobs, geometry>>

Next == Trap \/ Throw \/ Build \/ \E a \in Words : Decode(a)

Spec == Init /\ [][Next]_vars

\* The address a write-back of the decoded block would be sent to.
VictimAddr ==
  ShiftLeft(Or(ShiftLeft(fields.tag, geometry.index), fields.set), geometry.offset)

-----------------------------------------------------------------------------
(* Properties.                                                             *)

Knobs ==
  [sizeBytes |-> size, blockSize |-> block, associativity |-> ways,
   replacement |-> "LRU", writePolicy |-> "WriteBack",
   allocPolicy |-> "WriteAllocate", classify3C |-> TRUE]

NoWrap == block * ways \in Words

\* As long as block * associativity fits a word, the constructor accepts the
\* geometries CacheGeometry calls constructible and no other, and never traps.
AcceptsTheConstructible ==
  NoWrap => /\ stage # "trapped"
            /\ stage \in {"built", "decoded"} => Constructible(Knobs)
            /\ stage = "thrown" => ~Constructible(Knobs)

\* Masks and shifts are the divisions they stand for, of every address: its
\* fields lie where CacheGeometry has them, an index is that of a set, and
\* the address rebuilt for a write-back is the first byte of its block.
DecodesByDivision ==
  stage = "decoded" /\ NoWrap =>
    /\ fields.block = BlockOf(Knobs, addr)
    /\ fields.set = SetOf(Knobs, fields.block)
    /\ fields.tag = TagOf(Knobs, fields.block)
    /\ fields.set \in Sets(Knobs)
    /\ VictimAddr = AddrOf(Knobs, fields.block)
    /\ VictimAddr + fields.offset = addr

\* The reported tag width holds the tag of every address of addrWidth bits,
\* and no such tag needs a bit less, if addrWidth has room for the fields.  If
\* it has not, nothing refuses it and the width wraps below zero: what is then
\* reported is more bits than an address has, so a reader can tell the two.
TagWidthIsExact ==
  LET room == geometry.offset + geometry.index <= addrWidth
  IN  /\ stage \in {"built", "decoded"} => (geometry.tag <= addrWidth <=> room)
      /\ stage = "decoded" /\ room /\ addr < 2 ^ addrWidth =>
           /\ fields.tag < 2 ^ geometry.tag
           /\ addr = 2 ^ addrWidth - 1 => fields.tag = 2 ^ geometry.tag - 1

\* The identity size = sets * ways * block, and with it a reference model of as
\* many lines as the cache has, holds of what the constructor accepts up to the
\* product that wraps to a divisor of the size, and of no product that wraps.
GeometryIdentity ==
  stage \in {"built", "decoded"} =>
    /\ NoWrap <=> size = geometry.numSets * ways * block
    /\ NoWrap <=> geometry.refLines = geometry.numSets * ways
=============================================================================
