---------------------------- MODULE Expressions ----------------------------
(***************************************************************************)
(* The type checker and the backend on one expression.  Both walk the tree *)
(* from its leaves: operands are the sub-expressions already visited, each *)
(* with the node the checker leaves and the value the backend makes of it. *)
(* Any tree the parser can build is built, up to a number of nodes.        *)
(***************************************************************************)
EXTENDS Lowering

CONSTANTS
  Leaves,       \* what an expression starts from: see Leaf
  Operators,    \* the operators of the program, [name, return]
  Enums,        \* the elements of each enum
  Targets,      \* types of casts
  Structures,   \* types of initialisers
  Actions,      \* the kinds of node expressions are made of
  Tokens,       \* and their operators
  Excluded,     \* kinds of expression that are left out: see Kept
  MaxNodes,     \* bound: nodes of an expression
  MaxOperands   \* bound: operands waiting for the node they belong to

VARIABLES
  operands,   \* expressions that are not yet part of another one
  status,     \* "checking", or how it ended
  nodes,      \* nodes visited (bounded by MaxNodes)
  call        \* history: the last call, its arguments and what is passed

vars == <<operands, status, nodes, call>>
NoCall == [given |-> <<>>, passed |-> <<>>]

\* A name (its value an alloca, a global or a function), a number or another literal.
Name(type, any, by) ==
  [node |-> Node("AST_LITERAL", type, type, Parsed(none_type, FALSE),
                 type.kind \in {"NUMBER", "ENUM_ELEMENT"}, 0, <<>>),
   llvm |-> Value(any, by, PointerTo(llvm_type_from_amun_type(type)), FALSE),
   parts |-> <<>>]
Local(type)  == Name(type, "AllocaInst", "alloca")
Global(type) == Name(type, "GlobalVariable", "global")
Function(ps, r, varargs) == Name(FunctionType(ps, r, varargs, 0, FALSE), "Function", "function")
Literal(ast, any, type, value) ==
  [node |-> Node(ast, type, type, Parsed(type, TRUE), TRUE, value, <<>>),
   llvm |-> Constant(any, llvm_type_from_amun_type(type)),
   parts |-> <<>>]
Digits(kind, value) == Literal("AST_NUMBER", "Value", Number(kind), value)
String    == Literal("AST_STRING", "Constant", Pointer(i8_type), 0)
Bool      == Literal("AST_BOOL", "ConstantInt", i1_type, 0)
EnumAccess(type) == Literal("AST_ENUM_ELEMENT", "Value", type, 0)
\* Its LLVM type is a pointer to a 32-bit integer until it is used as another one.
Null == [Literal("AST_NULL", "Constant", null_type, 0) EXCEPT
           !.llvm = Constant("Constant", PointerTo(Integer(32)))]

-----------------------------------------------------------------------------
(* What the constructors and the checker leave in a node.                  *)

Operand(i) == operands[Len(operands) - i]    \* 0 is the last
Top(n) == SubSeq(operands, Len(operands) - n + 1, Len(operands))
Nodes(xs) == [i \in DOMAIN xs |-> xs[i].node]
AllConstant(xs) == \A i \in DOMAIN xs : xs[i].node.constant
AllParsed(xs) == \A i \in DOMAIN xs : xs[i].node.parsed.constant
\* A part keeps no parts of its own.
Part(x) == [x EXCEPT !.parts = <<>>]

\* A null literal becomes a null of the pointer it is used as.
NullAs(x, type) ==
  IF x.node.ast = "AST_NULL" /\ is_pointer_type(type)
  THEN [x EXCEPT !.llvm = Constant("Constant", llvm_type_from_amun_type(type))] ELSE x

\* A node of kind ast that replaces the last n operands: type is what its rule says,
\* llvm(noted) the value that is generated for it, with the type it is noted with.
Build(n, ast, type, noted, parsed, constant, detail, llvm) ==
  /\ nodes' = nodes + 1
  /\ CASE type.kind = "ERROR" -> status' = "stopped" /\ UNCHANGED operands
       [] type.kind = "CRASH" -> status' = "crashed" /\ UNCHANGED operands
       [] ~Failed(type) /\ Broken(llvm) -> status' = llvm.any /\ UNCHANGED operands
       [] OTHER ->
            /\ operands' = SubSeq(operands, 1, Len(operands) - n) \o
                 << [node  |-> Node(ast, type, noted, parsed, constant, 0, detail),
                     llvm  |-> llvm,
                     parts |-> [i \in 1 .. n |-> Part(Top(n)[i])]] >>
            /\ UNCHANGED status

Visits(n, action) ==
  /\ status = "checking" /\ nodes < MaxNodes /\ action \in Actions /\ Len(operands) >= n
  \* The last node takes all that is left.
  /\ nodes = MaxNodes - 1 => Len(operands) = n

-----------------------------------------------------------------------------
(* The program class.  Each of these is a disagreement between the checker *)
(* and the backend; Excluded names those that programs are free of.        *)

Steps == {"TOKEN_PLUS_PLUS", "TOKEN_MINUS_MINUS"}
Addressing == {"TOKEN_STAR", "TOKEN_AND"}
Kept(name, present) == present => name \notin Excluded
Fraction(t) == is_number_type(t) /\ ~is_integer_type(t)
IsName(x)   == x.node.ast = "AST_LITERAL"
\* Of arithmetic the type of its last literal is noted, of a call that of the function.
Mistyped(x) == x.node.noted # x.node.type
\* A pointer field, an element that is a pointer or a structure, and a structure behind
\* a pointer are left as addresses.
Unloaded(x) == x.llvm.type = PointerTo(llvm_type_from_amun_type(x.node.type)) /\ x.llvm.by \in {"gep", "load"}
\* A tuple is said to be constant, and an element of a variable when its index is.
CalledConstant(x) == x.node.parsed.constant /\ ~Resolve(x).constant
IsCount(x) == x.node.ast = "AST_DOT" /\ ~is_struct_type(x.parts[1].node.type) /\ x.node.type = i64_type
\* A pointer that is in no variable, and a tuple a pointer was followed to.
BehindPointer(x) ==
  \/ is_pointer_type(x.node.type) /\ is_struct_type(x.node.type.base) /\ x.llvm.by \notin {"alloca", "gep"}
  \/ x.llvm.type.k = "struct" /\ x.llvm.by = "load" /\ x.llvm.from # "gep"
UntypedNull(x) == x.node.ast = "AST_NULL" /\ x.llvm.type = PointerTo(Integer(32))
Typed(xs) ==
  /\ Kept("null_value", \E i \in DOMAIN xs : UntypedNull(xs[i]))
  /\ Kept("function_value", \E i \in DOMAIN xs : xs[i].node.type.kind = "FUNCTION")
  /\ Kept("mistyped", \E i \in DOMAIN xs : Mistyped(xs[i]))
Clean(xs) == Typed(xs) /\ Kept("unloaded", \E i \in DOMAIN xs : Unloaded(xs[i]))

KeptBinary(op, l) ==
  Kept("signed_division", op \in {"TOKEN_SLASH", "TOKEN_PERCENT"} /\ is_signed_integer_type(l.node.type))
KeptBitwise(op, l) ==
  /\ Kept("unsigned_shift", op = "TOKEN_RIGHT_SHIFT" /\ is_unsigned_integer_type(l.node.type))
  /\ Kept("float_bits", Fraction(l.node.type))
KeptPrefix(op, x) ==
  /\ Kept("not_number", op = "TOKEN_BANG" /\ is_number_type(x.node.type) /\ ~is_integer1_type(x.node.type))
  /\ Kept("float_bits", op \in Steps \cup {"TOKEN_NOT"} /\ Fraction(x.node.type))
  /\ Kept("increment_value", op \in Steps /\ ~IsName(x))
  /\ Kept("address_of_value", op = "TOKEN_AND" /\ ~IsName(x))
  /\ Kept("void_value", op = "TOKEN_STAR" /\ is_pointer_of_type(x.node.type, void_type))
  /\ Kept("value_behind", op = "TOKEN_STAR" /\ x.llvm.by # "alloca")
KeptCast(x, target) ==
  /\ Kept("unsigned_cast", \E t \in {x.node.type, target} : is_unsigned_integer_type(t))
  \* Every type can be cast to a pointer to void and back.
  /\ Kept("void_pointer_cast", \E t \in {x.node.type, target} :
            /\ (is_pointer_of_type(x.node.type, void_type) \/ is_pointer_of_type(target, void_type))
            /\ ~is_pointer_type(t) /\ ~is_integer_type(t))

-----------------------------------------------------------------------------
(* Nodes.                                                                  *)

Leaf(x) ==
  \* The last node is one that takes operands.
  /\ status = "checking" /\ nodes < MaxNodes - 1 /\ Len(operands) < MaxOperands
  /\ operands' = Append(operands, x)
  /\ nodes' = nodes + 1
  /\ UNCHANGED <<status, call>>

VisitBinary(op) ==
  /\ Visits(2, "binary") /\ op \in DOMAIN integers_binary
  /\ LET l == Operand(1)
         r == Operand(0)
         type == BinaryExpression(op, l.node, r.node, Operators)
         noted == IF is_vector_type(l.node.type) /\ is_vector_type(r.node.type) THEN type
                  ELSE r.node.parsed.type
     IN /\ KeptBinary(op, l) /\ Kept("unloaded", Unloaded(l) \/ Unloaded(r))
        /\ Kept("null_value", UntypedNull(l) \/ UntypedNull(r))
        /\ Kept("mistyped", ~is_number_type(l.node.type) /\ (Mistyped(l) \/ Mistyped(r)))
        /\ Build(2, "AST_BINARY", type, noted,
                 Parsed(r.node.parsed.type, AllParsed(<<l, r>>)),
                 AllConstant(Top(2)), <<>>, EmitBinary(op, l, r, Operators))
        /\ UNCHANGED call

VisitBitwise(op) ==
  /\ Visits(2, "bitwise") /\ op \in DOMAIN bitwise
  /\ LET l == Operand(1)
         r == Operand(0)
         type == BitwiseExpression(op, l.node, r.node, Operators)
         noted == IF is_vector_type(l.node.type) /\ is_vector_type(r.node.type) THEN type
                  ELSE r.node.parsed.type
     IN /\ KeptBitwise(op, l) /\ Clean(Top(2))
        /\ Build(2, "AST_BITWISE", type, noted,
                 Parsed(r.node.parsed.type, AllParsed(<<l, r>>)),
                 AllConstant(Top(2)), <<>>, EmitBitwise(op, l, r, Operators))
        /\ UNCHANGED call

VisitComparison(op) ==
  /\ Visits(2, "comparison") /\ op \in DOMAIN signed_comparison
  /\ LET l == NullAs(Operand(1), Operand(0).node.type)
         r == NullAs(Operand(0), Operand(1).node.type)
         type == ComparisonExpression(op, l.node, r.node, Operators)
         noted == IF is_vector_type(l.node.type) /\ is_vector_type(r.node.type)
                  THEN l.node.type ELSE i1_type
     IN /\ Kept("vector_comparison", is_vector_type(l.node.type))
        /\ (~(UntypedNull(l) /\ UntypedNull(r)) => Clean(<<l, r>>))
        /\ Build(2, "AST_COMPARISON", type, noted,
                 Parsed(i1_type, AllParsed(<<l, r>>)),
                 AllConstant(Top(2)), <<>>, EmitComparison(op, l, r, Operators))
        /\ UNCHANGED call

VisitLogical(op) ==
  /\ Visits(2, "logical") /\ op \in {"TOKEN_AND_AND", "TOKEN_OR_OR"}
  /\ LET l == Operand(1)
         r == Operand(0)
         type == LogicalExpression(op, l.node, r.node, Operators)
     IN /\ Clean(Top(2))
        /\ Build(2, "AST_LOGICAL", type, i1_type,
                 Parsed(i1_type, AllParsed(<<l, r>>)),
                 AllConstant(Top(2)), <<>>, EmitLogical(op, l, r, Operators))
        /\ UNCHANGED call

\* The type is noted when the operand is a number, or the operator an address one.
Noted(op, type, x) ==
  IF is_number_type(x.node.type) \/ op \in Addressing THEN type
  ELSE x.node.parsed.type

VisitPrefix(op) ==
  /\ Visits(1, "prefix") /\ op \in Addressing \cup Steps \cup {"TOKEN_MINUS", "TOKEN_BANG", "TOKEN_NOT"}
  /\ LET x == Operand(0)
         type == PrefixUnaryExpression(op, x.node, Operators)
     IN /\ KeptPrefix(op, x) /\ (op # "TOKEN_AND" => Clean(Top(1)))
        /\ Build(1, "AST_PREFIX_UNARY", type, Noted(op, type, x), x.node.parsed,
                 x.node.constant, <<op, x.node.ast>>,
                 EmitPrefix(op, x, Noted(op, type, x), Operators))
        /\ UNCHANGED call

VisitPostfix(op) ==
  /\ Visits(1, "postfix") /\ op \in Steps
  /\ LET x == Operand(0)
         type == PostfixUnaryExpression(op, x.node, Operators)
     IN /\ KeptPrefix(op, x) /\ Clean(Top(1))
        /\ Build(1, "AST_POSTFIX_UNARY", type, Noted(op, type, x), x.node.parsed,
                 x.node.constant, <<>>, EmitPostfix(op, x, Operators))
        /\ UNCHANGED call

VisitCast(target) ==
  /\ Visits(1, "cast")
  /\ LET x == Operand(0)
     IN /\ KeptCast(x, target) /\ Clean(Top(1))
        /\ Build(1, "AST_CAST", CastExpression(x.node, target), target,
                 Parsed(target, x.node.parsed.constant), x.node.constant, <<>>,
                 EmitCast(x, target))
        /\ UNCHANGED call

VisitSize ==
  /\ Visits(1, "size")
  /\ Build(1, "AST_VALUE_SIZE", SizeExpression, i64_type, Parsed(i64_type, TRUE), TRUE, <<>>,
           IF llvm_type_from_amun_type(Operand(0).node.noted).k = "none" THEN Internal
           ELSE Constant("Value", Integer(64)))
  /\ Clean(Top(1))
  /\ UNCHANGED call

VisitIndex ==
  /\ Visits(2, "index")
  /\ LET x == Operand(1)
         i == Operand(0)
         type == IndexExpression(i.node, x.node)
     IN /\ Clean(Top(2))
        /\ Kept("void_value", is_void_type(type))
        /\ Kept("value_indexed", /\ is_array_type(x.node.type) \/ is_vector_type(x.node.type)
                                 /\ x.node.ast \notin {"AST_LITERAL", "AST_INDEX", "AST_DOT"})
        /\ Build(2, "AST_INDEX", type, type, Parsed(none_type, i.node.parsed.constant),
                 i.node.constant, get_type_literal(x.node.type), EmitIndex(x, i))
        /\ UNCHANGED call

\* The field is a name, or the position of a tuple.
VisitDot(field, is_position) ==
  /\ Visits(1, "dot")
  /\ LET x == Operand(0)
         type == DotExpression(x.node, field)
         constant == \/ is_array_type(x.node.type) \/ is_vector_type(x.node.type)
                     \/ x.node.ast = "AST_STRING"
     IN /\ (is_position <=> is_tuple_type(x.node.type)) /\ Typed(Top(1))
        /\ Kept("pointer_value", BehindPointer(x))
        /\ Build(1, "AST_DOT", type, type, Parsed(none_type, FALSE), constant, <<>>,
                 IF Failed(type) THEN Internal ELSE EmitDot(x, type, field))
        /\ UNCHANGED call

VisitArray(n) ==
  /\ Visits(n, "array") /\ n > 0
  /\ LET xs == Top(n)
         type == ArrayExpression(Nodes(xs), none_type)
         parsed == Parsed(StaticArray(xs[1].node.parsed.type, n),
                          AllParsed(xs))
     IN /\ Clean(xs)
        /\ Kept("not_constant", \E i \in 1 .. n : CalledConstant(xs[i]))
        /\ Build(n, "AST_ARRAY", type, type, parsed, parsed.constant, <<>>,
                 IF Failed(type) THEN Internal ELSE EmitArray(xs, type))
        /\ UNCHANGED call

VisitTuple(n) ==
  /\ Visits(n, "tuple") /\ n > 1
  /\ LET xs == Top(n)
         type == TupleExpression(Nodes(xs))
     IN /\ Clean(xs)
        /\ Kept("nested_tuple", \E i \in 1 .. n : is_tuple_type(xs[i].node.type))
        /\ Build(n, "AST_TUPLE", type, type, Parsed(none_type, TRUE), TRUE, <<>>,
                 EmitAggregate(xs, type, type.fields))
        /\ UNCHANGED call

VisitInitialize(struct) ==
  /\ Visits(Len(struct.fields), "initialize")
  /\ LET xs == [i \in DOMAIN struct.fields |->
                  NullAs(Top(Len(struct.fields))[i], struct.fields[i])]
         type == InitializeExpression(struct, Nodes(xs))
     IN /\ Clean(xs)
        /\ Build(Len(xs), "AST_INIT", type, type,
                 Parsed(struct, AllParsed(xs)),
                 AllConstant(xs), <<>>, EmitAggregate(xs, type, struct.fields))
        /\ UNCHANGED call

\* if (condition) { value } else { value }
VisitIf ==
  /\ Visits(3, "if")
  /\ LET condition == Operand(2)
         xs == Top(2)
         type == IfExpression(<<condition.node>>, Nodes(xs))
     IN /\ Clean(Top(3)) /\ Kept("number_condition", ~is_integer1_type(condition.node.type))
        /\ Build(3, "AST_IF_EXPRESSION", type, type, Parsed(none_type, AllParsed(Top(3))),
                 AllConstant(Top(3)), <<>>,
                 IF Failed(type) THEN Internal ELSE EmitIf(<<condition>>, xs, type))
        /\ UNCHANGED call

\* switch (argument) { case -> value; else -> value; }, the else part for has_default.
VisitSwitch(has_default) ==
  LET n == IF has_default THEN 4 ELSE 3
      argument == Operand(n - 1)
      case == Operand(n - 2)
      x == Operand(n - 3)
      default == IF has_default THEN <<Operand(0)>> ELSE <<>>
      type == SwitchExpression(argument.node, <<case.node>>, <<x.node>>, Nodes(default), Enums)
  IN /\ Visits(n, "switch") /\ Clean(Top(n))
     /\ Kept("case_variable", case.node.ast \notin {"AST_NUMBER", "AST_ENUM_ELEMENT"})
     /\ Build(n, "AST_SWITCH_EXPRESSION", type, type, Parsed(x.node.parsed.type, AllParsed(<<argument, case, x>>)),
              AllConstant(<<argument, case, x>>), <<>>,
              IF Failed(type) THEN Internal
              ELSE EmitSwitch(argument, <<case>>, <<x>>, default, type))
     /\ UNCHANGED call

\* The argument of a call by name is noted with its own type.  When it is the call of
\* a pointer in a variable, the backend then finds no function type and calls nothing.
Renoted(callee, x) ==
  IF callee.node.ast = "AST_LITERAL" /\ x.node.ast = "AST_CALL" /\ x.parts[1].llvm.by = "alloca"
  THEN [x EXCEPT !.llvm = Load(x.parts[1].llvm)] ELSE x
AsArgument(callee, parameters, i, x) ==
  Renoted(callee, IF i <= Len(parameters) THEN NullAs(x, parameters[i]) ELSE x)

\* A call with n arguments; the function is the operand before them.
VisitCall(n) ==
  LET callee == Operand(n)
      target == Target(callee.node)
      parameters == IF target.kind = "FUNCTION" THEN target.parameters ELSE <<>>
      arguments == [i \in 1 .. n |-> AsArgument(callee, parameters, i, Top(n)[i])]
      type == CallExpression(callee.node, Nodes(arguments))
      argument(name, present(_)) == Kept(name, \E i \in 1 .. n : present(arguments[i]))
  IN /\ Visits(n + 1, "call")
     /\ Kept("called_value", callee.node.ast # "AST_LITERAL" /\ target.kind # "FUNCTION")
     /\ argument("unloaded", Unloaded)
     /\ argument("function_value", LAMBDA x : x.node.type.kind = "FUNCTION")
     /\ argument("array_argument", LAMBDA x : x.node.ast = "AST_ARRAY")
     /\ Kept("float_argument",
             \E i \in Len(parameters) + 1 .. n : arguments[i].llvm.type = Float(32))
     \* &x is an address stored in a variable without a name: that of the variable is passed.
     /\ Kept("unloaded_argument",
             \E i \in Len(parameters) + 1 .. n :
                arguments[i].llvm.by = "alloca" /\ ~IsName(arguments[i]))
     /\ Kept("argument_call", arguments # [i \in 1 .. n |->
                                            IF i <= Len(parameters)
                                            THEN NullAs(Top(n)[i], parameters[i]) ELSE Top(n)[i]])
     /\ Build(n + 1, "AST_CALL", type, target, callee.node.parsed, FALSE, <<>>,
              IF Failed(type) THEN Internal ELSE EmitCall(callee, arguments))
     /\ call' = IF Failed(type) \/ Broken(EmitCall(callee, arguments)) THEN NoCall
                ELSE [given  |-> [i \in 1 .. n |-> arguments[i].node.type],
                      passed |-> [i \in DOMAIN Passed(callee, arguments) |->
                                    Passed(callee, arguments)[i].type]]

\* An assignment is a statement: nothing is made of its value.
VisitAssign ==
  /\ Visits(2, "assign") /\ Len(operands) = 2
  /\ LET l == Operand(1)
         r == NullAs(Operand(0), l.node.type)
         type == AssignExpression(l.node, r.node)
         place == l.node.ast \in {"AST_LITERAL", "AST_INDEX", "AST_DOT", "AST_PREFIX_UNARY"}
     IN /\ Kept("unloaded", Unloaded(r))
        /\ Kept("through_pointer", l.node.ast = "AST_PREFIX_UNARY")
        /\ Kept("element_variable", l.node.ast = "AST_INDEX" /\ (IsName(r) \/ ~IsName(l.parts[1])))
        /\ Kept("function_value", r.node.type.kind = "FUNCTION")
        /\ Kept("not_a_place", ~place \/ l.llvm.by = "function" \/ IsCount(l))
        /\ Build(2, "AST_ASSIGN", type, r.node.parsed.type, r.node.parsed, FALSE, <<>>,
                 IF Failed(type) THEN Internal ELSE EmitAssign(l, r))
        /\ UNCHANGED call

\* @vec [a, b]: the array literal is not visited, its type is the parsed one.
VisitVector ==
  /\ Visits(1, "vector") /\ Operand(0).node.ast = "AST_ARRAY"
  /\ LET x == Operand(0)
         type == VectorExpression([x.node EXCEPT !.type = x.node.parsed.type])
     IN /\ Kept("vector_values", \E i \in DOMAIN x.parts : x.parts[i].node.ast # "AST_NUMBER")
        /\ Build(1, "AST_VECTOR", type, type, Parsed(type, x.node.parsed.constant),
                 x.node.constant, <<>>, EmitVector(x.parts, type))
        /\ UNCHANGED call

-----------------------------------------------------------------------------
(* Statements made of one expression.                                      *)

Ends(ast, type, llvm) ==
  /\ status = "checking" /\ Len(operands) = 1
  /\ CASE type.kind = "ERROR" -> status' = "stopped" /\ UNCHANGED operands
       [] type.kind = "CRASH" -> status' = "crashed" /\ UNCHANGED operands
       [] ~Failed(type) /\ Broken(llvm) -> status' = llvm.any /\ UNCHANGED operands
       [] OTHER -> /\ status' = "done"
                   /\ operands' = <<[node |-> Node(ast, type, type, Parsed(type, FALSE), FALSE, 0, <<>>),
                                     llvm |-> llvm, parts |-> <<Part(Operand(0))>>]>>
  /\ UNCHANGED <<nodes, call>>

\* A local field; declared is none_type when no type is given.
VisitField(declared) ==
  LET x    == NullAs(Operand(0), declared)
      type == FieldDeclaration(declared, FALSE, x.node, x.node.parsed.type)
  IN /\ "field" \in Actions /\ operands # <<>>
     /\ Kept("copied_variable", x.llvm.by = "alloca" /\ IsName(x))
     /\ Kept("global_copied", x.llvm.by = "global")
     /\ Kept("unloaded", Unloaded(x))
     /\ Kept("function_value", x.node.type.kind = "FUNCTION")
     /\ Ends("AST_FIELD", type, IF Failed(type) THEN Internal ELSE EmitField(x, type))

VisitReturn(expected) ==
  LET x    == NullAs(Operand(0), expected)
      type == ReturnStatement(expected, <<x.node>>)
  IN /\ "return" \in Actions /\ operands # <<>>
     /\ Clean(<<x>>)
     /\ Ends("AST_RETURN", type, IF Failed(type) THEN Internal ELSE EmitReturn(x, type))

\* var (a, b) = value; the types of the names, or none_type.
VisitDestructuring(types) ==
  LET x    == Operand(0)
      type == DestructuringDeclaraion(types, FALSE, x.node)
      variables == EmitDestructuring(x, type)
      failed == {i \in DOMAIN variables : Broken(variables[i])}
  IN /\ "destructuring" \in Actions /\ operands # <<>>
     /\ Kept("unloaded", Unloaded(x))
     /\ Kept("pointer_value", BehindPointer(x))
     /\ Ends("AST_DESTRUCTURING", type,
             IF Failed(type) THEN Internal
             ELSE IF failed # {} THEN variables[CHOOSE i \in failed : TRUE]
             ELSE create_entry_block_alloca(llvm_type_from_amun_type(type)))

-----------------------------------------------------------------------------
Init ==
  /\ operands = <<>>
  /\ status = "checking"
  /\ nodes = 0
  /\ call = NoCall

Finished == (status # "checking" \/ nodes >= MaxNodes - 1) /\ UNCHANGED vars

Next ==
  \/ \E x \in Leaves : Leaf(x)
  \/ \E op \in Tokens :
       \/ VisitBinary(op) \/ VisitBitwise(op) \/ VisitComparison(op) \/ VisitLogical(op)
       \/ VisitPrefix(op) \/ VisitPostfix(op)
  \/ \E t \in Targets : VisitCast(t)
  \/ VisitSize
  \/ VisitIndex
  \/ \E f \in {"count", "next", "data"} : VisitDot(f, FALSE)
  \/ \E i \in 1 .. 2 : VisitDot(i, TRUE)
  \/ \E n \in 1 .. 2 : VisitArray(n) \/ VisitTuple(n)
  \/ \E s \in Structures : VisitInitialize(s)
  \/ VisitIf
  \/ \E d \in BOOLEAN : VisitSwitch(d)
  \/ \E n \in 0 .. 2 : VisitCall(n)
  \/ VisitAssign
  \/ VisitVector
  \/ \E t \in Targets \cup {none_type} : VisitField(t)
  \/ \E t \in Targets : VisitReturn(t)
  \/ \E t \in Targets \cup {none_type} : VisitDestructuring(<<t, none_type>>)
  \/ Finished

Spec == Init /\ [][Next]_vars

-----------------------------------------------------------------------------
(* Properties.                                                             *)

StatusType == {"checking", "done", "stopped", "crashed", "internal", "invalid"}
TypeOK ==
  /\ status \in StatusType /\ nodes \in 0 .. MaxNodes
  /\ Len(operands) <= MaxOperands
  /\ \A i \in DOMAIN operands : 
        /\ ~Failed(operands[i].node.type) /\ ~is_none_type(operands[i].node.type)
        /\ ~Broken(operands[i].llvm)

\* The checker follows no pointer of the wrong type, and an expression it accepts can be
\* generated: the backend finds the operator and the instruction for the operands, and
\* LLVM takes them.
Lowerable == status \notin {"crashed", "internal", "invalid"}

\* The value generated for an expression has the type that was checked: its own, or
\* that of the address of a structure.
Lowers(x) ==
  LET t == llvm_type_from_amun_type(x.node.type)
  IN x.node.ast # "AST_NULL" =>
       \/ Resolve(x).type = t
       \/ x.llvm.type = PointerTo(t) /\ (t.k \in {"struct", "ptr"})
       \/ t.k = "function" /\ x.llvm.type = PointerTo(t)
TypesKept == TypeOK /\ \A i \in DOMAIN operands : Lowers(operands[i])

\* An instruction that reads its operands as signed or as unsigned numbers is given
\* numbers of that kind: the checked type decides, not the one left in the node.
SignedOnly   == {"AShr", "ICmpSGT", "ICmpSGE", "ICmpSLT", "ICmpSLE", "SExt", "SIToFP"}
UnsignedOnly == {"UDiv", "URem", "ICmpUGT", "ICmpUGE", "ICmpULT", "ICmpULE"}
SignsAgree ==
  \A i \in DOMAIN operands :
     LET x == operands[i]
     IN x.parts # <<>> =>
          /\ x.llvm.by \in SignedOnly => ~is_unsigned_integer_type(x.parts[1].node.type)
          /\ x.llvm.by \in UnsignedOnly => ~is_signed_integer_type(x.parts[1].node.type)

\* A function gets each given argument once and in its place, as the type it was
\* checked with, or as a double when it is a float after the parameters.
ArgumentsPassed ==
  /\ Len(call.passed) = Len(call.given)
  /\ \A i \in DOMAIN call.given :
        \/ is_null_type(call.given[i]) /\ call.passed[i].k = "ptr"
        \/ call.passed[i] = llvm_type_from_amun_type(call.given[i])
        \/ call.given[i] = f32_type /\ call.passed[i] = Float(64)
=============================================================================
