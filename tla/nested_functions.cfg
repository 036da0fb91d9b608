SPECIFICATION Spec
CONSTANTS
  MaxStatements = 4
  MaxFunctions = 2
  Branches <- OneTwo
  Times <- One
  Statements <- Inner
  Unbraced <- None
  ReturnIn <- None
  ReturnMakes = {"lambda", "generic"}
  JumpIn <- LoopBodies
  FreeJumps = FALSE
  DeferCallees = {"function"}
  Generics = {g, h}
  NoName = NoName
INVARIANTS BlocksClosed DefersBalanced
