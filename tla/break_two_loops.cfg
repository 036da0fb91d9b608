SPECIFICATION Spec
CONSTANTS
  MaxStatements = 4
  MaxFunctions = 1
  Branches <- OneTwo
  Times <- OneTwo
  Statements = {"while", "break"}
  Unbraced <- None
  ReturnIn <- Constructs
  ReturnMakes <- None
  JumpIn <- Constructs
  FreeJumps = TRUE
  DeferCallees = {"function"}
  Generics <- None
  NoName = NoName
INVARIANTS NoUndefined
