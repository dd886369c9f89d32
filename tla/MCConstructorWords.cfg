\* Every size, block, associativity and address of five bits.
SPECIFICATION Spec
CONSTANTS
  Width = 5
  AddrWidths <- UpToAWord
INVARIANTS
  AcceptsTheConstructible
  DecodesByDivision
  TagWidthIsExact
  GeometryIdentity
\* One cache is built and one address decoded.
CHECK_DEADLOCK FALSE
