SPECIFICATION Spec
CONSTANTS
  Names = {x}
  Functions = {f}
  Values = {"number", "array"}
  Returns = {"number", "void"}
  Kinds = {"field", "expression", "return", "jump", "if", "switch", "range", "lambda", "instance"}
  InLambda = {"field", "return"}
  InInstance = {"field", "return"}
  Unbraced = {"return"}
  FlagAtStart = {FALSE}
  MaxStatements = 5
INVARIANTS ScopesMatch CapturesExact CheckerSafe
PROPERTIES AcceptedReturns EntriesKept
