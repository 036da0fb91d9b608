SPECIFICATION Spec
CONSTANTS
  MaxStatements = 4
  MaxFunctions = 1
  Branches = {1, 3}
  Times <- One
  Statements <- Structured
  Unbraced <- None
  ReturnIn <- Selects
  ReturnMakes <- None
  JumpIn <- LoopBodies
  FreeJumps = FALSE
  DeferCallees = {"function"}
  Generics = {g}
  NoName = NoName
INVARIANTS BlocksClosed DefersBalanced
