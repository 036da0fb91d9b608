SPECIFICATION Spec
CONSTANTS
  Leaves <- MCLeaves
  Operators <- MCOperators
  Enums <- MCEnums
  Targets <- MCTargets
  Structures <- MCStructures
  Actions = {"binary", "bitwise", "comparison", "logical", "prefix", "postfix", "cast", "size", "index", "dot", "array", "tuple", "initialize", "if", "switch", "call", "assign", "vector", "field", "return", "destructuring"}
  Tokens = {"TOKEN_PLUS", "TOKEN_SLASH", "TOKEN_MINUS", "TOKEN_STAR", "TOKEN_AND", "TOKEN_RIGHT_SHIFT", "TOKEN_EQUAL_EQUAL", "TOKEN_SMALLER", "TOKEN_AND_AND", "TOKEN_BANG", "TOKEN_NOT", "TOKEN_PLUS_PLUS"}
  Excluded = {"mistyped", "unloaded", "signed_division", "unsigned_shift", "float_bits", "not_number", "increment_value", "address_of_value", "value_behind", "unsigned_cast", "vector_comparison", "nested_tuple", "number_condition", "case_variable", "float_argument", "array_argument", "through_pointer", "element_variable", "not_a_place", "value_indexed", "null_value", "called_value", "argument_call", "unloaded_argument", "pointer_value", "void_value", "not_constant", "function_value", "void_pointer_cast", "copied_variable", "global_copied", "vector_values"}
  MaxNodes = 5
  MaxOperands = 4
INVARIANTS SignsAgree ArgumentsPassed Lowerable TypesKept
