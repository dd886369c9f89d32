--------------------------- MODULE CacheGeometry ---------------------------
(***************************************************************************)
(* The knobs of one cache and what its constructor derives from them       *)
(* (include/config.h, Cache::Cache and Cache::decode in src/cache.cpp).    *)
(*                                                                         *)
(* A configuration is a record.  The code computes the fields of an        *)
(* address with masks and shifts; the constructor only accepts powers of   *)
(* two, for which a mask is a remainder and a shift a quotient.            *)
(***************************************************************************)
EXTENDS Integers

Replacements  == {"LRU", "FIFO", "Random"}
WritePolicies == {"WriteBack", "WriteThrough"}
AllocPolicies == {"WriteAllocate", "NoWriteAllocate"}

ConfigType ==
  [sizeBytes     : Nat,
   blockSize     : Nat,
   associativity : Nat,
   replacement   : Replacements,
   writePolicy   : WritePolicies,
   allocPolicy   : AllocPolicies,
   classify3C    : BOOLEAN]

WritesBack(cfg)     == cfg.writePolicy = "WriteBack"
WriteAllocates(cfg) == cfg.allocPolicy = "WriteAllocate"

\* The geometry identity: size = sets * ways * block.
NumSets(cfg)    == cfg.sizeBytes \div (cfg.blockSize * cfg.associativity)
TotalLines(cfg) == cfg.sizeBytes \div cfg.blockSize

Sets(cfg) == 0 .. NumSets(cfg) - 1
Ways(cfg) == 0 .. cfg.associativity - 1

\* A power of two is a positive number whose only odd divisor is 1.
IsPow2(x) == x # 0 /\ \A d \in 1 .. x : x % d = 0 => (d = 1 \/ d % 2 = 0)

\* The configurations the constructor accepts: it throws for every other one.
Constructible(cfg) ==
  /\ cfg \in ConfigType
  /\ cfg.blockSize # 0 /\ cfg.associativity # 0 /\ cfg.sizeBytes # 0
  /\ IsPow2(cfg.blockSize)
  /\ cfg.sizeBytes % (cfg.blockSize * cfg.associativity) = 0
  /\ IsPow2(NumSets(cfg))

-----------------------------------------------------------------------------
(* Cache::decode, and the victim address Cache::access rebuilds.           *)

BlockOf(cfg, addr) == addr \div cfg.blockSize
SetOf(cfg, block)  == block % NumSets(cfg)
TagOf(cfg, block)  == block \div NumSets(cfg)

VictimBlock(cfg, tag, s) == tag * NumSets(cfg) + s
AddrOf(cfg, block)       == block * cfg.blockSize
=============================================================================
