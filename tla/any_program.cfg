SPECIFICATION Spec
CONSTANTS
  MaxStatements = 4
  MaxFunctions = 1
  Branches <- OneTwo
  Times <- One
  Statements <- Everything
  Unbraced <- Simple
  ReturnIn <- Constructs
  ReturnMakes = {"lambda", "generic"}
  JumpIn <- Constructs
  FreeJumps = TRUE
  DeferCallees = {"function"}
  Generics = {g}
  NoName = NoName
INVARIANTS TypeOK NoUndefined StacksRestored DeferScopesMatch
PROPERTIES JumpTargets DefersRunAtExit
