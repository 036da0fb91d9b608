----------------------------- MODULE TypeRules -----------------------------
(***************************************************************************)
(* What the type checker makes of a node once its operands are visited     *)
(* (the visit methods of amun_typechecker.cpp that keep no state).  The    *)
(* result of a rule is the type the visitor returns, Error (it reported an *)
(* error and threw "Stop") or Crash (it took an operand for a node or a    *)
(* type that it is not, or read past the end of a vector).                 *)
(*                                                                         *)
(* A node has two more types: parsed, which its constructor gave it (none  *)
(* for a name), and noted, which the checker left in it, and which is all  *)
(* that the backend sees.                                                  *)
(***************************************************************************)
EXTENDS Types

Error == [kind |-> "ERROR"]
Crash == [kind |-> "CRASH"]
Failed(t) == t.kind \in {"ERROR", "CRASH"}

\* constant and parsed.constant: what is_constant answers, at the end and while
\* parsing; value: of an integer literal; detail: of a prefix operator its token and
\* the kind of its operand, of an index the type of what is indexed.
Node(ast, type, noted, parsed, constant, value, detail) ==
  [ast |-> ast, type |-> type, noted |-> noted, parsed |-> parsed, constant |-> constant,
   value |-> value, detail |-> detail]
Parsed(type, constant) == [type |-> type, constant |-> constant]

\* The type of a null literal is set to the pointer it is used as: the code casts
\* the operand to NullExpression, which is null for another node of type null.
NullUsedAs(n, result) == IF n.ast = "AST_NULL" THEN result ELSE Crash

\* The function of that name in types_table, or an error.
Overloaded(name, operators) ==
  IF \E o \in operators : o.name = name
  THEN (CHOOSE o \in operators : o.name = name).return
  ELSE Error

-----------------------------------------------------------------------------
(* Operators.                                                              *)

\* Operands of one class (numbers, vectors) need the same type, and never look for
\* an overloaded operator.
AnyWidth(l, r, result)  == result
SameClass(l, r, result) == IF is_types_equals(l.type, r.type) THEN result ELSE Error

BinaryExpression(op, l, r, operators) ==
  IF \/ is_number_type(l.type) /\ is_number_type(r.type)
     \/ is_vector_type(l.type) /\ is_vector_type(r.type)
  THEN SameClass(l, r, l.type)
  ELSE Overloaded(mangle_operator_function(op, <<l.type, r.type>>), operators)

\* Shifts: the second operand, when it is a literal, is smaller than the width of
\* the first, and it is not a literal with a minus.
ShiftOutOfRange(op, l, r) ==
  /\ op \in {"TOKEN_RIGHT_SHIFT", "TOKEN_LEFT_SHIFT"}
  /\ \/ r.ast = "AST_NUMBER" /\ r.value >= number_kind_width[l.type.number]
     \/ r.ast = "AST_PREFIX_UNARY" /\ r.detail = <<"TOKEN_MINUS", "AST_NUMBER">>

BitwiseExpression(op, l, r, operators) ==
  IF /\ is_number_type(l.type) /\ is_number_type(r.type)
     /\ is_types_equals(l.type, r.type) /\ ShiftOutOfRange(op, l, r)
  THEN Error
  ELSE BinaryExpression(op, l, r, operators)

ComparisonExpression(op, l, r, operators) ==
  LET both(class(_)) == class(l.type) /\ class(r.type)
  IN IF both(is_number_type) \/ both(is_enum_element_type) \/ both(is_pointer_type)
     THEN SameClass(l, r, i1_type)
     ELSE IF is_pointer_type(l.type) /\ is_null_type(r.type) THEN NullUsedAs(r, i1_type)
     ELSE IF is_null_type(l.type) /\ is_pointer_type(r.type) THEN NullUsedAs(l, i1_type)
     ELSE IF both(is_null_type) THEN i1_type
     ELSE IF both(is_vector_type) THEN SameClass(l, r, i1_type)
     ELSE IF is_null_type(l.type) \/ is_null_type(r.type) THEN Error
     ELSE Overloaded(mangle_operator_function(op, <<l.type, r.type>>), operators)

LogicalExpression(op, l, r, operators) ==
  IF is_integer1_type(l.type) /\ is_integer1_type(r.type) THEN l.type
  ELSE Overloaded(mangle_operator_function(op, <<l.type, r.type>>), operators)

PrefixUnaryExpression(op, r, operators) ==
  CASE op \in {"TOKEN_MINUS", "TOKEN_BANG", "TOKEN_NOT",
               "TOKEN_PLUS_PLUS", "TOKEN_MINUS_MINUS"} ->
         IF is_number_type(r.type) THEN r.type
         ELSE Overloaded(<<"_prefix">> \o mangle_operator_function(op, <<r.type>>), operators)
    [] op = "TOKEN_STAR" -> IF is_pointer_type(r.type) THEN r.type.base ELSE Error
    [] op = "TOKEN_AND" ->
         IF r.type.kind = "FUNCTION" /\ r.type.intrinsic THEN Error ELSE Pointer(r.type)
    [] OTHER -> Error

PostfixUnaryExpression(op, r, operators) ==
  IF op \notin {"TOKEN_PLUS_PLUS", "TOKEN_MINUS_MINUS"} THEN Error
  ELSE IF is_number_type(r.type) THEN r.type
  ELSE Overloaded(<<"_postfix">> \o mangle_operator_function(op, <<r.type>>), operators)

-----------------------------------------------------------------------------
(* Assignments and declarations.                                           *)

\* The nodes check_valid_assignment_right_side refuses on the left; an index needs
\* a value that is not a string, a prefix operator has to be *.
check_valid_assignment_right_side(l) ==
  CASE l.ast = "AST_INDEX" -> l.detail # <<"*", "Int8">>
    [] l.ast = "AST_PREFIX_UNARY" -> l.detail[1] = "TOKEN_STAR"
    [] OTHER -> l.ast \notin {"AST_CALL", "AST_CAST", "AST_CHARACTER", "AST_BOOL",
                              "AST_NUMBER", "AST_STRING", "AST_ENUM_ELEMENT", "AST_NULL"}

AssignExpression(l, r) ==
  IF ~check_valid_assignment_right_side(l) THEN Error
  ELSE IF is_pointer_type(l.type) /\ is_null_type(r.type) THEN NullUsedAs(r, l.type)
  ELSE IF is_types_equals(l.type, r.type) THEN r.type
  ELSE Error

DeclaredOnly(left, is_global, v, origin) ==                               \* mutant
  IF is_void_type(v.type) \/ is_null_type(v.type) THEN Error ELSE left

\* The type a field is defined with.  left is the declared type, none_type when
\* there is none; origin is the type the parser gave to the value, which only
\* matters when it is a generic structure: the declared type is then not compared.
FieldDeclaration(left, is_global, v, origin) ==
  LET generic == is_generic_struct_type(origin)
  IN IF is_void_type(v.type) THEN Error
     ELSE IF is_global /\ ~v.constant THEN Error
     ELSE IF is_none_type(left) /\ (is_none_type(v.type) \/ is_null_type(v.type)) THEN Error
     ELSE IF ~is_pointer_type(left) /\ is_null_type(v.type) THEN Error
     ELSE IF is_null_type(v.type) THEN NullUsedAs(v, left)
     ELSE IF generic \/ is_none_type(left) THEN v.type
     ELSE IF is_none_type(v.type) \/ is_types_equals(left, v.type) THEN left
     ELSE Error

\* The types the names of a destructuring get: types are the declared ones.
DestructuringDeclaraion(types, is_global, v) ==
  IF \/ is_global \/ ~is_tuple_type(v.type) \/ Len(v.type.fields) # Len(types)
     \/ \E i \in DOMAIN types : /\ ~is_none_type(types[i])
                                /\ ~is_types_equals(types[i], v.type.fields[i])
  THEN Error
  ELSE TupleType([i \in DOMAIN types |->
                    IF is_none_type(types[i]) THEN v.type.fields[i] ELSE types[i]])

\* An operator has a parameter that is neither a number nor an enum element.
OperatorFunctionDeclaraion(parameters) ==
  \E i \in DOMAIN parameters :
     ~(is_number_type(parameters[i]) \/ is_enum_element_type(parameters[i]))

EnumDeclaration(element, values) ==
  is_integer_type(element) /\ (Cardinality(values) > 2 => ~is_boolean_type(element))

-----------------------------------------------------------------------------
(* Expressions made of other expressions.                                  *)

IfExpression(conditions, values) ==
  IF \/ \E i \in DOMAIN conditions : ~is_number_type(conditions[i].type)
     \/ \E i \in DOMAIN values : ~is_types_equals(values[1].type, values[i].type)
  THEN Error
  ELSE values[1].type

\* enums: the number of elements of each enum.  The cases of an enum are counted,
\* not looked at; a switch without a case reads values[0].
SwitchExpression(argument, cases, values, default, enums) ==
  IF \E i \in DOMAIN cases : ~is_types_equals(argument.type, cases[i].type) THEN Error
  ELSE IF values = <<>> THEN Crash
  ELSE IF \E i \in DOMAIN values : ~is_types_equals(values[1].type, values[i].type) THEN Error
  ELSE IF \E i \in DOMAIN default : ~is_types_equals(values[1].type, default[i].type)
       THEN Error
  ELSE IF default = <<>> /\ ~(/\ is_enum_element_type(argument.type)
                              /\ enums[argument.type.name] <= Len(cases))
       THEN Error
  ELSE values[1].type

TupleExpression(values) == TupleType([i \in DOMAIN values |-> values[i].type])

\* Each element is compared with the one before it.
ArrayExpression(values, type) ==
  IF values = <<>> THEN type
  ELSE IF \E i \in 2 .. Len(values) : ~is_types_equals(values[i].type, values[i - 1].type)
  THEN Error
  ELSE StaticArray(values[Len(values)].type, Len(values))

VectorExpression(array) ==
  IF ~is_number_type(array.type.element) \/ is_signed_integer_type(array.type.element)
  THEN Error
  ELSE StaticVector(array.type)

IndexExpression(index, v) ==
  LET past(n) == index.ast = "AST_NUMBER" /\ index.value >= n
      element(array) == IF past(array.size) THEN Error ELSE array.element
  IN IF ~is_integer_type(index.type) THEN Error
     ELSE CASE is_array_type(v.type) -> element(v.type)
            [] is_vector_type(v.type) -> element(v.type.array)
            [] is_pointer_type(v.type) -> v.type.base
            [] OTHER -> Error

\* The type of a field, by its name; "count" of arrays, vectors and strings.
FieldOf(struct, field) ==
  IF Contains(struct.fields_names, field)
  THEN struct.fields[CHOOSE i \in DOMAIN struct.fields : struct.fields_names[i] = field]
  ELSE Error

DotExpression(v, field) ==
  LET t == v.type
      count == IF field = "count" THEN i64_type ELSE Error
  IN CASE is_struct_type(t) -> FieldOf(t, field)
       [] is_tuple_type(t) ->
            IF field \in DOMAIN t.fields THEN t.fields[field] ELSE Error
       [] is_pointer_type(t) /\ is_struct_type(t.base) -> FieldOf(t.base, field)
       [] is_pointer_of_type(t, i8_type) -> count
       [] is_array_type(t) \/ is_vector_type(t) -> count
       [] OTHER -> Error

CastKeepsType(v, target) ==
  IF is_types_equals(v.type, target) \/ can_types_casted(v.type, target)
  THEN v.type ELSE Error
CastExpression(v, target) ==
  IF is_types_equals(v.type, target) \/ can_types_casted(v.type, target)
  THEN target ELSE Error

\* The sizes and alignments of types and values.
SizeExpression == i64_type

-----------------------------------------------------------------------------
(* Calls and returns.                                                      *)

\* arguments are nodes; varargs is <<>> when the function has none, <<t>> when it
\* has with type t and <<none_type>> when it has with any type.  An array literal of
\* whatever type and size is accepted where an array is expected.
check_parameters_types(arguments, parameters, varargs, implicit) ==
  LET all   == Len(arguments) + implicit
      count == IF Len(parameters) > Len(arguments) THEN Len(arguments) ELSE Len(parameters)
      fits(p, a) ==
        \/ is_types_equals(p, a.type)
        \/ is_pointer_type(p) /\ is_null_type(a.type)
        \/ is_array_type(p) /\ a.ast = "AST_ARRAY"
      null(p, a) == /\ is_pointer_type(p) /\ is_null_type(a.type)
                    /\ a.ast # "AST_NULL"
      checked == \A i \in 1 .. count : fits(parameters[i + implicit], arguments[i])
  IN IF \/ varargs = <<>> /\ all # Len(parameters)
        \/ varargs # <<>> /\ Len(parameters) > all
        \/ ~checked
     THEN Error
     ELSE IF \E i \in 1 .. count : null(parameters[i + implicit], arguments[i]) THEN Crash
     ELSE IF /\ varargs \notin {<<>>, <<none_type>>}
             /\ \E i \in Len(parameters) + 1 .. Len(arguments) :
                   ~is_types_equals(arguments[i].type, varargs[1])
          THEN Error
     ELSE void_type

\* A call by name of a function, or of a variable that holds a pointer; the callee
\* of a call through a call or a field is taken for a pointer to a function.  The
\* arguments of a call through a call are not visited: they have their parsed types.
\* The type of a vector literal that is an argument is noted as that of its array.
Target(callee) == IF is_pointer_type(callee.type) THEN callee.type.base ELSE callee.type
\* Only what a name stands for is checked to be a function.
AnyPointer(callee) == Crash
NotCalled(callee)  == IF callee.ast = "AST_LITERAL" THEN Error ELSE Crash
CallExpression(callee, arguments) ==
  LET target == Target(callee)
      given == IF callee.ast = "AST_CALL"
               THEN [i \in DOMAIN arguments |->
                       [arguments[i] EXCEPT !.type = arguments[i].parsed.type]]
               ELSE [i \in DOMAIN arguments |->
                       IF arguments[i].ast = "AST_VECTOR"
                       THEN [arguments[i] EXCEPT !.type = StaticVector(@)]
                       ELSE arguments[i]]
      checked == check_parameters_types(given, target.parameters, target.varargs,
                                        target.implicit)
  IN IF callee.ast \notin {"AST_LITERAL", "AST_CALL", "AST_LAMBDA", "AST_DOT"} THEN Error
     ELSE IF target.kind # "FUNCTION" THEN NotCalled(callee)
     ELSE IF Failed(checked) THEN checked
     ELSE target.return

InitializeExpression(type, arguments) ==
  IF ~is_struct_type(type) THEN Error
  ELSE LET checked == check_parameters_types(arguments, type.fields, <<>>, 0)
       IN IF Failed(checked) THEN checked ELSE type

\* What a return statement makes of its value: expected is the top of
\* return_types_stack.
ReturnStatement(expected, value) ==
  IF value = <<>> THEN (IF is_void_type(expected) THEN expected ELSE Error)
  ELSE IF is_types_equals(expected, value[1].type) THEN expected
  ELSE IF is_pointer_type(expected) /\ is_null_type(value[1].type)
  THEN NullUsedAs(value[1], expected)
  ELSE Error
=============================================================================
