SPECIFICATION Spec
CONSTANTS
  Programs <- MCPrograms
  Structs <- MCStructs
  Excluded <- MCExcluded
  MaxDepth = 8
INVARIANTS AcceptedAsCopies CallsAsCopies GeneratedAsCopies
