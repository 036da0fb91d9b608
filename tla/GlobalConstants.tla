--------------------------- MODULE GlobalConstants ---------------------------
(***************************************************************************)
(* The initial values of global variables: the type checker accepts an     *)
(* expression that is_constant, and the backend computes it while it       *)
(* compiles (resolve_constant_expression and what it calls).  Declarations *)
(* of globals and of functions follow each other in any order.             *)
(*                                                                         *)
(* Here an expression has a value.  meaning is its value in the language,  *)
(* folded what the backend makes of it.  Values are sequences: <<n>> for a *)
(* number (its bits, read as an unsigned number), <<v, ...>> for an array. *)
(***************************************************************************)
EXTENDS TypeRules

CONSTANTS
  Leaves,       \* literals an expression starts from: see Literal
  Actions,      \* the kinds of node expressions are made of
  Tokens,       \* and their operators
  Enums,        \* the number of elements of each enum
  Excluded,     \* kinds of program that are left out: see Kept
  MaxNodes,     \* bound: nodes of all expressions
  MaxOperands,  \* bound: operands that wait for the operator
  MaxGlobals    \* bound: global variables

VARIABLES
  globals,             \* the variables declared so far
  operands,            \* expressions that are not yet part of another one
  is_on_global_scope,
  insert_block,        \* whether Builder stands in a block: that of a function generated before
  status,              \* "checking", or how it ended
  nodes                \* nodes so far (bounded by MaxNodes)

vars == <<globals, operands, is_on_global_scope, insert_block, status, nodes>>

Kept(name, present) == present => name \notin Excluded

-----------------------------------------------------------------------------
(* Values.  None is undefined in the language.  Of the backend, is says    *)
(* whether there is a constant, an instruction (which no dyn_cast to       *)
(* Constant accepts), or an operation on a null pointer.                   *)

None         == <<>>
Folded(v)    == [is |-> "constant", value |-> v]
Instruction  == [is |-> "instruction", value |-> None]
NullPointer  == [is |-> "null", value |-> None]
IsConstant(f) == f.is = "constant"
FirstOther(fs) == fs[CHOOSE i \in DOMAIN fs : ~IsConstant(fs[i])]
AllFolded(fs)  == \A i \in DOMAIN fs : IsConstant(fs[i])

Width(t)   == IF t.kind = "NUMBER" THEN number_kind_width[t.number] ELSE 8
Signed_(n, w) == IF n >= 2 ^ (w - 1) THEN n - 2 ^ w ELSE n
\* A number as the language reads the bits of a value of type t.
Read(t, v) == IF is_signed_integer_type(t) /\ Width(t) > 1 THEN Signed_(v[1], Width(t)) ELSE v[1]
Bits(n, w) == <<n % (2 ^ w)>>

Abs(n) == IF n < 0 THEN -n ELSE n
\* Division towards zero.
Quotient(a, b) == IF (a < 0) = (b < 0) THEN Abs(a) \div Abs(b) ELSE -(Abs(a) \div Abs(b))

Arithmetic(op, a, b) ==
  CASE op = "TOKEN_PLUS" -> a + b
    [] op = "TOKEN_MINUS" -> a - b
    [] op = "TOKEN_STAR" -> a * b
    [] op = "TOKEN_SLASH" -> Quotient(a, b)
    [] OTHER -> a - b * Quotient(a, b)
Compared(op, a, b) ==
  CASE op = "TOKEN_EQUAL_EQUAL" -> a = b
    [] op = "TOKEN_BANG_EQUAL" -> a # b
    [] op = "TOKEN_GREATER" -> a > b
    [] op = "TOKEN_GREATER_EQUAL" -> a >= b
    [] op = "TOKEN_SMALLER" -> a < b
    [] OTHER -> a <= b
Truth(b) == IF b THEN <<1>> ELSE <<0>>
Arithmetics == {"TOKEN_PLUS", "TOKEN_MINUS", "TOKEN_STAR", "TOKEN_SLASH", "TOKEN_PERCENT"}
Comparisons == {"TOKEN_EQUAL_EQUAL", "TOKEN_BANG_EQUAL", "TOKEN_GREATER", "TOKEN_GREATER_EQUAL",
                "TOKEN_SMALLER", "TOKEN_SMALLER_EQUAL"}

-----------------------------------------------------------------------------
(* Expressions.  folded is what accept returns, global the value of a name *)
(* when it is one: accept returns the variable, llvm_resolve_value its     *)
(* initializer.  whole is what resolve_constant_expression makes of it.    *)

Expression(node, meaning, folded, whole) ==
  [node |-> node, meaning |-> meaning, folded |-> folded, whole |-> whole]
Literal(ast, type, value) ==
  Expression(Node(ast, type, type, Parsed(type, TRUE), TRUE, value[1], <<>>),
             value, Folded(value), Folded(value))
Digits(kind, n)  == Literal("AST_NUMBER", Number(kind), <<n>>)
Bool(b)          == Literal("AST_BOOL", i1_type, Truth(b))
EnumAccess(t, n) == Literal("AST_ENUM_ELEMENT", t, <<n>>)

\* A variable whose value was no constant has no initializer.
Initializer(g) == IF IsConstant(g.initial) THEN g.initial ELSE NullPointer
\* The name of a variable that was declared before.
Name(g) ==
  Expression(Node("AST_LITERAL", g.type, g.type, Parsed(none_type, FALSE),
                  g.type.kind \in {"NUMBER", "ENUM_ELEMENT"}, 0, <<>>),
             g.meaning, Initializer(g), Initializer(g))

Operand(i) == operands[Len(operands) - i]    \* 0 is the last
Top(n) == SubSeq(operands, Len(operands) - n + 1, Len(operands))
Nodes(xs) == [i \in DOMAIN xs |-> xs[i].node]
AllConstant(xs) == \A i \in DOMAIN xs : xs[i].node.constant
AllParsed(xs) == \A i \in DOMAIN xs : xs[i].node.parsed.constant
AllMean(xs)   == \A i \in DOMAIN xs : xs[i].meaning # None

Visits(n, action) ==
  /\ status = "checking" /\ nodes < MaxNodes /\ action \in Actions /\ Len(operands) >= n
\* The last n operands become one, unless it is refused.
Build(n, type, x) ==
  /\ nodes' = nodes + 1
  /\ IF Failed(type)
     THEN /\ status' = IF type.kind = "ERROR" THEN "stopped" ELSE "crashed"
          /\ UNCHANGED operands
     ELSE /\ operands' = SubSeq(operands, 1, Len(operands) - n) \o <<x>>
          /\ UNCHANGED status
  /\ UNCHANGED <<globals, is_on_global_scope, insert_block>>

Leaf(x) ==
  /\ status = "checking" /\ nodes < MaxNodes /\ Len(operands) < MaxOperands
  /\ operands' = Append(operands, x)
  /\ nodes' = nodes + 1
  /\ UNCHANGED <<globals, is_on_global_scope, insert_block, status>>

\* The builder folds an operation on constants, and makes an instruction otherwise.
Fold(fs, value) ==
  IF AllFolded(fs) THEN Folded(value)
  ELSE IF FirstOther(fs) = NullPointer THEN NullPointer ELSE Instruction

\* The operands are read as unsigned numbers, also those of a signed division.
Unwrapped(op, l, r, w) == <<Arithmetic(op, l[1], r[1])>>    \* mutant: no width
FoldBinary(op, l, r, w) == Bits(Arithmetic(op, l[1], r[1]), w)

VisitBinary(op) ==
  /\ Visits(2, "binary") /\ op \in Arithmetics
  /\ LET l == Operand(1)
         r == Operand(0)
         type == BinaryExpression(op, l.node, r.node, {})
         both == AllFolded(<<l.folded, r.folded>>)
         division == op \in {"TOKEN_SLASH", "TOKEN_PERCENT"}
         meaning == IF ~AllMean(Top(2)) THEN None
                    ELSE Bits(Arithmetic(op, Read(type, l.meaning), Read(type, r.meaning)), Width(type))
         folded == Fold(<<l.folded, r.folded>>,
                        IF both
                        THEN FoldBinary(op, l.folded.value, r.folded.value, Width(type)) ELSE None)
     IN /\ Kept("signed_division", division /\ is_signed_integer_type(l.node.type))
        \* Nothing is divided by zero.
        /\ division /\ ~Failed(type) =>
             AllMean(Top(2)) /\ both /\ r.folded.value # <<0>> /\ r.meaning # <<0>>
        /\ Build(2, type, Expression(Node("AST_BINARY", type, r.node.parsed.type,
                                    Parsed(r.node.parsed.type, AllParsed(Top(2))),
                                    AllConstant(Top(2)), 0, <<>>),
                               meaning, folded, folded))

AlwaysUnsigned(op, noted, l, r, w) == Compared(op, l[1], r[1])    \* mutant
\* The type left in the first operand says whether it is unsigned.
FoldComparison(op, noted, l, r, w) ==
  IF is_unsigned_integer_type(noted) THEN Compared(op, l[1], r[1])
  ELSE Compared(op, Signed_(l[1], w), Signed_(r[1], w))

VisitComparison(op) ==
  /\ Visits(2, "comparison") /\ op \in Comparisons
  /\ LET l == Operand(1)
         r == Operand(0)
         type == ComparisonExpression(op, l.node, r.node, {})
         both == AllFolded(<<l.folded, r.folded>>)
         meaning == IF ~AllMean(Top(2)) THEN None
                    ELSE Truth(Compared(op, Read(l.node.type, l.meaning), Read(r.node.type, r.meaning)))
         folded == Fold(<<l.folded, r.folded>>,
                        IF both
                        THEN Truth(FoldComparison(op, l.node.noted, l.folded.value, r.folded.value,
                                                  Width(l.node.type)))
                        ELSE None)
     IN /\ Kept("mistyped", l.node.noted # l.node.type)
        /\ Kept("boolean_order", /\ is_integer1_type(l.node.type)
                                 /\ op \notin {"TOKEN_EQUAL_EQUAL", "TOKEN_BANG_EQUAL"})
        /\ ~is_array_type(l.node.type)
        /\ Build(2, type, Expression(Node("AST_COMPARISON", type, i1_type,
                                    Parsed(i1_type, AllParsed(Top(2))),
                                    AllConstant(Top(2)), 0, <<>>),
                               meaning, folded, folded))

\* A choice that is made by instructions needs a block to put them in.
Branches == IF insert_block THEN Instruction ELSE NullPointer

TakesElse(conditions, values) ==                                          \* mutant
  IF ~AllFolded([j \in DOMAIN conditions |-> conditions[j].folded]) THEN NullPointer
  ELSE values[Len(values)].folded

\* The first value whose condition is one; the condition of the else part is true.
resolve_constant_if_expression(conditions, values) ==
  LET before(i) == {j \in 1 .. i - 1 : j <= Len(conditions)}
      i == CHOOSE i \in DOMAIN values :
             /\ i > Len(conditions) \/ conditions[i].folded.value[1] = 1
             /\ \A j \in before(i) : conditions[j].folded.value[1] # 1
  IN IF ~AllFolded([j \in DOMAIN conditions |-> conditions[j].folded]) THEN NullPointer
     ELSE values[i].folded
\* if (condition) { value } else { value }
VisitIf ==
  /\ Visits(3, "if")
  /\ LET condition == Operand(2)
         xs == Top(2)
         type == IfExpression(<<condition.node>>, Nodes(xs))
         constant == AllConstant(Top(3))
         chosen == resolve_constant_if_expression(<<condition>>, xs)
         meaning == IF condition.meaning = None THEN None
                    ELSE IF condition.meaning[1] = 0 THEN xs[2].meaning ELSE xs[1].meaning
     IN /\ Kept("number_condition", ~is_integer1_type(condition.node.type))
        /\ Build(3, type, Expression(Node("AST_IF_EXPRESSION", type, type, Parsed(none_type, AllParsed(Top(3))),
                                    constant, 0, <<>>),
                               meaning,
                               IF is_on_global_scope /\ constant THEN chosen ELSE Branches,
                               chosen))

\* Two constants are one object when they are equal.  Their order is that of their
\* addresses, and two of the operators test another order than their own.
SameConstant(argument, case) ==
  argument.node.type = case.node.type /\ argument.folded = case.folded /\ IsConstant(argument.folded)
AddressTest(op, argument, case, above) ==
  LET same == SameConstant(argument, case)
  IN CASE op = "TOKEN_EQUAL_EQUAL" -> same
       [] op = "TOKEN_BANG_EQUAL" -> ~same
       [] op = "TOKEN_GREATER" -> ~same /\ above
       [] OTHER -> same \/ above
resolve_constant_switch_expression(op, argument, cases, values, default, above) ==
  LET hit == {i \in DOMAIN cases : AddressTest(op, argument, cases[i], above)}
  IN IF hit # {} THEN values[CHOOSE i \in hit : \A j \in hit : i <= j].folded
     ELSE IF default = <<>> THEN NullPointer ELSE default[1].folded

\* switch (argument, op) { case -> value; ... else -> value; } with n cases; above
\* is the order of the addresses.
VisitSwitch(op, n, has_default, above) ==
  LET rest     == IF has_default THEN 1 ELSE 0
      count    == 1 + 2 * n + rest
      xs       == Top(count)
      argument == xs[1]
      cases    == SubSeq(xs, 2, n + 1)
      values   == SubSeq(xs, n + 2, 2 * n + 1)
      default  == SubSeq(xs, 2 * n + 2, count)
      type     == SwitchExpression(argument.node, Nodes(cases), Nodes(values), Nodes(default), Enums)
      constant == AllConstant(<<argument>> \o cases \o values)
      hit      == {i \in 1 .. n : Compared(op, Read(argument.node.type, argument.meaning),
                                               Read(argument.node.type, cases[i].meaning))}
      chosen   == resolve_constant_switch_expression(op, argument, cases, values, default, above)
      folded   == IF is_on_global_scope /\ constant THEN chosen ELSE Branches
      meaning  == IF argument.meaning = None THEN None
                  ELSE IF hit # {} THEN values[CHOOSE i \in hit : \A j \in hit : i <= j].meaning
                  ELSE IF default = <<>> THEN None ELSE default[1].meaning
  IN /\ Visits(count, "switch") /\ op \in Comparisons
     \* The parser takes only literals for cases.
     /\ \A i \in 1 .. n : cases[i].node.ast \in {"AST_NUMBER", "AST_ENUM_ELEMENT"}
     /\ Kept("switch_order", op \notin {"TOKEN_EQUAL_EQUAL", "TOKEN_BANG_EQUAL"})
     /\ ~Failed(type) => Kept("incomplete_switch", default = <<>> /\ hit = {})
     /\ Build(count, type, Expression(Node("AST_SWITCH_EXPRESSION", type, type,
                                     Parsed(values[1].node.parsed.type, AllParsed(xs)), constant, 0, <<>>),
                                meaning, folded, folded))

Elements(x) == IF IsConstant(x.folded) THEN x.folded.value ELSE None
At(x, n)    == IF n + 1 \in DOMAIN Elements(x) THEN Folded(Elements(x)[n + 1]) ELSE NullPointer

\* An element inside another expression: of a name it is loaded as soon as the builder
\* stands in a block; of anything but a name, an element or a literal it is refused.
access_array_element(x, i) ==
  CASE ~IsConstant(i.folded) /\ x.folded.is = "constant" ->
         (IF x.node.ast = "AST_LITERAL" /\ insert_block THEN Instruction ELSE NullPointer)
    [] x.node.ast = "AST_LITERAL" /\ insert_block -> Instruction
    [] x.node.ast \in {"AST_LITERAL", "AST_INDEX", "AST_ARRAY"} /\ IsConstant(x.folded) ->
         At(x, i.folded.value[1])
    [] OTHER -> IF x.folded.is = "instruction" /\ x.node.ast = "AST_INDEX" THEN Instruction
                ELSE NullPointer
\* An element that is the whole value: the index is not resolved, so it must not be a name.
resolve_constant_index_expression(x, i) ==
  IF i.node.ast = "AST_LITERAL" \/ ~IsConstant(i.folded) \/ ~IsConstant(x.folded) THEN NullPointer
  ELSE At(x, i.folded.value[1])

VisitIndex ==
  /\ Visits(2, "index")
  /\ LET x == Operand(1)
         i == Operand(0)
         type == IndexExpression(i.node, x.node)
         n == IF i.meaning = None THEN 0 ELSE Read(i.node.type, i.meaning)
         meaning == IF ~AllMean(Top(2)) \/ n + 1 \notin DOMAIN x.meaning THEN None
                    ELSE x.meaning[n + 1]
     IN /\ Kept("index_name", i.node.ast = "AST_LITERAL")
        /\ Kept("after_function", insert_block)
        /\ Kept("choice_indexed", x.node.ast \notin {"AST_LITERAL", "AST_INDEX", "AST_ARRAY"})
        \* The index is one of the array.
        /\ ~Failed(type) => meaning # None
        /\ Build(2, type, Expression(Node("AST_INDEX", type, type, Parsed(none_type, i.node.parsed.constant),
                                    i.node.constant, 0, <<>>),
                               meaning,
                               access_array_element(x, i),
                               resolve_constant_index_expression(x, i)))

VisitArray(n) ==
  /\ Visits(n, "array")
  /\ LET xs == Top(n)
         type == ArrayExpression(Nodes(xs), none_type)
         constant == AllParsed(xs)
         meaning == IF AllMean(xs) THEN [i \in 1 .. n |-> xs[i].meaning] ELSE None
         folded == IF ~constant THEN Branches
                   ELSE Fold([i \in 1 .. n |-> xs[i].folded], [i \in 1 .. n |-> xs[i].folded.value])
     IN /\ Kept("array_of_names", ~constant)
        \* Constants are refused when one of them is none.
        /\ Build(n, type, Expression(Node("AST_ARRAY", type, type,
                                    Parsed(StaticArray(xs[1].node.parsed.type, n), constant),
                                    constant, 0, <<>>),
                               meaning, IF folded = Instruction /\ constant THEN NullPointer ELSE folded,
                               IF folded = Instruction THEN NullPointer ELSE folded))

-----------------------------------------------------------------------------
(* Declarations.                                                           *)

\* var name = value; an initial value that is not a constant is left out.
Field(declared) ==
  /\ status = "checking" /\ Len(operands) = 1 /\ Len(globals) < MaxGlobals
  /\ LET x == Operand(0)
         type == FieldDeclaration(declared, TRUE, x.node, x.node.parsed.type)
     IN IF Failed(type) \/ x.whole = NullPointer
        THEN /\ status' = IF type.kind = "ERROR" THEN "stopped" ELSE "crashed"
             /\ UNCHANGED <<globals, operands, nodes>>
        ELSE /\ globals' = Append(globals, [type |-> type, meaning |-> x.meaning, initial |-> x.whole])
             /\ operands' = <<>>
             /\ UNCHANGED <<status, nodes>>
  /\ UNCHANGED <<is_on_global_scope, insert_block>>

KeepsScope(is_generic) ==                                                 \* mutant
  /\ status = "checking" /\ operands = <<>>
  /\ insert_block' = ~is_generic
  /\ is_on_global_scope' = FALSE
  /\ UNCHANGED <<globals, operands, status, nodes>>

\* A function leaves the builder in its last block.
FunctionDeclaration(is_generic) ==
  /\ status = "checking" /\ operands = <<>>
  /\ Kept("after_generic", is_generic)
  /\ insert_block' = (insert_block \/ ~is_generic)
  /\ is_on_global_scope' = ~is_generic
  /\ UNCHANGED <<globals, operands, status, nodes>>

-----------------------------------------------------------------------------
Init ==
  /\ globals = <<>>
  /\ operands = <<>>
  /\ is_on_global_scope = TRUE
  /\ insert_block = FALSE
  /\ status = "checking"
  /\ nodes = 0

Finished == (status # "checking" \/ nodes = MaxNodes) /\ UNCHANGED vars

Next ==
  \/ \E x \in Leaves : Leaf(x)
  \/ \E i \in DOMAIN globals : Leaf(Name(globals[i]))
  \/ \E op \in Tokens :
       \/ VisitBinary(op)
       \/ VisitComparison(op)
       \/ \E n \in 1 .. 2, d, above \in BOOLEAN : VisitSwitch(op, n, d, above)
  \/ VisitIf
  \/ VisitIndex
  \/ \E n \in 1 .. 2 : VisitArray(n)
  \/ \E t \in {none_type, i1_type} : Field(t)
  \/ \E g \in BOOLEAN : FunctionDeclaration(g)
  \/ Finished

Spec == Init /\ [][Next]_vars

-----------------------------------------------------------------------------
(* Properties.                                                             *)

\* A value as the type says: bits within the width, arrays of the size.
RECURSIVE Fits(_, _)
Fits(t, v) ==
  IF is_array_type(t)
  THEN Len(v) = t.size /\ \A i \in DOMAIN v : Fits(t.element, v[i])
  ELSE v \in Seq(0 .. 2 ^ Width(t) - 1) /\ Len(v) = 1

\* The shape of the state: what is folded is a value of the type that was checked.
TypeOK ==
  /\ status \in {"checking", "stopped", "crashed"}
  /\ nodes \in 0 .. MaxNodes /\ Len(globals) <= MaxGlobals
  /\ \A i \in DOMAIN operands :
       IsConstant(operands[i].folded) => Fits(operands[i].node.type, operands[i].folded.value)
  /\ \A i \in DOMAIN globals :
       IsConstant(globals[i].initial) => Fits(globals[i].type, globals[i].initial.value)

\* No accepted global makes the compiler read a null pointer.
EvaluationSafe == status # "crashed"

\* The value a global starts with is the value of its expression in the language: the
\* same for the compiler as if the program computed it.
InitialValues ==
  /\ TypeOK /\ EvaluationSafe
  /\ \A i \in DOMAIN globals :
       globals[i].meaning # None => globals[i].initial = Folded(globals[i].meaning)
=============================================================================
