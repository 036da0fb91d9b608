SPECIFICATION Spec
CONSTANTS
  Leaves <- MCLeaves
  Enums <- MCEnums
  Actions = {"binary", "comparison", "if", "switch", "index", "array"}
  Tokens = {"TOKEN_PLUS", "TOKEN_SLASH", "TOKEN_EQUAL_EQUAL", "TOKEN_GREATER"}
  Excluded = {"signed_division", "mistyped", "boolean_order", "number_condition", "switch_order", "incomplete_switch", "after_generic", "index_name", "after_function", "choice_indexed", "array_of_names"}
  MaxNodes = 6
  MaxOperands = 5
  MaxGlobals = 2
INVARIANT InitialValues
