------------------------------ MODULE Lowering ------------------------------
(***************************************************************************)
(* What the backend makes of an expression the type checker accepted (the  *)
(* expression visitors of amun_llvm_backend.cpp): an LLVM value, or the    *)
(* end of the compiler.  A visitor sees the noted type of a node, never    *)
(* the one that was checked; it branches on the LLVM type of the operands, *)
(* on the class of an instruction and on the C++ type std::any holds it    *)
(* as.  LLVM pointers have the type of what they point to.                 *)
(***************************************************************************)
EXTENDS TypeRules

Integer(w)         == [k |-> "int", width |-> w]
Float(w)       == [k |-> "float", width |-> w]
PointerTo(t)   == [k |-> "ptr", to |-> t]
ArrayOf(t, n)  == [k |-> "array", of |-> t, size |-> n]
VectorOf(t, n) == [k |-> "vector", of |-> t, size |-> n]
Struct(name)   == [k |-> "struct", name |-> name]
Other(k)       == [k |-> k]

RECURSIVE llvm_type_from_amun_type(_)
llvm_type_from_amun_type(t) ==
  CASE t.kind = "NUMBER" ->
         (IF t.number \in Floats THEN Float(number_kind_width[t.number])
          ELSE Integer(number_kind_width[t.number]))
    [] t.kind = "STATIC_ARRAY" -> ArrayOf(llvm_type_from_amun_type(t.element), t.size)
    [] t.kind = "STATIC_VECTOR" ->
         VectorOf(llvm_type_from_amun_type(t.array.element), t.array.size)
    [] t.kind = "POINTER" ->
         PointerTo(IF is_void_type(t.base) THEN Integer(8) ELSE llvm_type_from_amun_type(t.base))
    [] t.kind = "FUNCTION" ->
         [k |-> "function", return |-> llvm_type_from_amun_type(t.return),
          parameters |-> [i \in DOMAIN t.parameters |->
                            llvm_type_from_amun_type(t.parameters[i])]]
    [] t.kind = "STRUCT" -> Struct(t.name)
    [] t.kind = "TUPLE" -> Struct(mangle_type(t))
    [] t.kind = "ENUM_ELEMENT" -> llvm_type_from_amun_type(t.element)
    [] t.kind = "VOID" -> Other("void")
    [] OTHER -> Other("none")    \* reported as an internal compiler error

-----------------------------------------------------------------------------
(* Values.  any is the C++ type, by the instruction, from the instruction  *)
(* that made the address a load reads, type the LLVM type of the value (of *)
(* an alloca or a global, a pointer), constant whether it is an LLVM       *)
(* constant: the builder folds operations on constants.                    *)

Value(any, by, type, constant) ==
  [any |-> any, by |-> by, from |-> "none", type |-> type, constant |-> constant]
\* The compiler reports an internal error and exits, or throws a bad cast.
Internal == Value("internal", "none", Other("none"), FALSE)
\* An instruction with operands LLVM does not allow, or the call of no function.
Invalid  == Value("invalid", "none", Other("none"), FALSE)
Broken(v) == v.any \in {"internal", "invalid"}
AnyBroken(vs) == \E i \in DOMAIN vs : Broken(vs[i])

Constant(any, t) == Value(any, "constant", t, TRUE)
Alloca(t)   == Value("AllocaInst", "alloca", PointerTo(t), FALSE)
Address(t)  == Value("Value", "gep", PointerTo(t), FALSE)
Element(t)  == [Value("Value", "load", t, FALSE) EXCEPT !.from = "gep"]
Load(v) ==
  IF Broken(v) THEN v
  ELSE IF v.type.k # "ptr" THEN Invalid
  ELSE [Value("Value", "load", v.type.to, FALSE) EXCEPT !.from = v.by]
LoadAs(t, v) == IF v.type = PointerTo(t) THEN Load(v) ELSE Invalid
Field(v, aggregate, t) == IF v.type = PointerTo(aggregate) THEN Address(t) ELSE Invalid
Stored(v, address, result) ==
  IF Broken(v) THEN v ELSE IF address.type = PointerTo(v.type) THEN result ELSE Invalid

derefernecs_llvm_pointer(v) == Load(v)

llvm_resolve_value(v) ==
  CASE v.by = "alloca" -> Load(v)
    [] v.by = "global" -> Constant("Value", v.type.to)    \* its initializer
    [] OTHER -> v
Resolve(x) == llvm_resolve_value(x.llvm)
ResolveAll(xs) == [i \in DOMAIN xs |-> Resolve(xs[i])]

IsInteger(t)  == t.k = "int"
IsFloat(t)    == t.k = "float"
\* The class of a type; numbers and the vectors of them have classes of their own.
Class(t) == IF t.k = "vector" /\ t.of.k \in {"int", "float"} THEN t.of.k \o "s" ELSE t.k
Whole     == {"int"}
Integers  == {"int", "ints"}
Fractions == {"float", "floats"}
Addresses == Integers \cup {"ptr"}
Both(classes, l, r) == Class(l.type) \in classes /\ Class(r.type) \in classes

\* An instruction on two operands of one type.
Create(by, classes, l, r) ==
  IF l.type = r.type /\ Class(l.type) \in classes
  THEN Value("Value", by, l.type, l.constant /\ r.constant) ELSE Invalid
Compare(by, classes, l, r) ==
  LET v == Create(by, classes, l, r)
  IN IF Broken(v) THEN v
     ELSE [v EXCEPT !.type = IF @.k = "vector" THEN VectorOf(Integer(1), @.size) ELSE Integer(1)]

integers_binary == [TOKEN_PLUS |-> "Add", TOKEN_MINUS |-> "Sub", TOKEN_STAR |-> "Mul",
                    TOKEN_SLASH |-> "UDiv", TOKEN_PERCENT |-> "URem"]
floats_binary   == [TOKEN_PLUS |-> "FAdd", TOKEN_MINUS |-> "FSub", TOKEN_STAR |-> "FMul",
                    TOKEN_SLASH |-> "FDiv", TOKEN_PERCENT |-> "FRem"]
bitwise == [TOKEN_OR |-> "Or", TOKEN_AND |-> "And", TOKEN_XOR |-> "Xor",
            TOKEN_LEFT_SHIFT |-> "Shl", TOKEN_RIGHT_SHIFT |-> "AShr"]
signed_comparison ==
  [TOKEN_EQUAL_EQUAL |-> "ICmpEQ", TOKEN_BANG_EQUAL |-> "ICmpNE",
   TOKEN_GREATER |-> "ICmpSGT", TOKEN_GREATER_EQUAL |-> "ICmpSGE",
   TOKEN_SMALLER |-> "ICmpSLT", TOKEN_SMALLER_EQUAL |-> "ICmpSLE"]
unsigned_comparison ==
  [TOKEN_EQUAL_EQUAL |-> "ICmpEQ", TOKEN_BANG_EQUAL |-> "ICmpNE",
   TOKEN_GREATER |-> "ICmpUGT", TOKEN_GREATER_EQUAL |-> "ICmpUGE",
   TOKEN_SMALLER |-> "ICmpULT", TOKEN_SMALLER_EQUAL |-> "ICmpULE"]
floats_comparison ==
  [TOKEN_EQUAL_EQUAL |-> "FCmpOEQ", TOKEN_BANG_EQUAL |-> "FCmpONE",
   TOKEN_GREATER |-> "FCmpOGT", TOKEN_GREATER_EQUAL |-> "FCmpOGE",
   TOKEN_SMALLER |-> "FCmpOLT", TOKEN_SMALLER_EQUAL |-> "FCmpOLE"]

create_llvm_integers_bianry(op, l, r) == Create(integers_binary[op], Integers, l, r)
create_llvm_floats_bianry(op, l, r)   == Create(floats_binary[op], Fractions, l, r)
create_llvm_integers_comparison(op, l, r) ==
  Compare(signed_comparison[op], Addresses, l, r)
SignedTable(op, l, r) == Compare(signed_comparison[op], Addresses, l, r)
create_llvm_unsigned_integers_comparison(op, l, r) ==
  Compare(unsigned_comparison[op], Addresses, l, r)
create_llvm_floats_comparison(op, l, r) == Compare(floats_comparison[op], Fractions, l, r)
\* The result of strcmp is compared with zero.
create_llvm_strings_comparison(op, l, r) ==
  Value("Value", signed_comparison[op], Integer(1), FALSE)

\* The function is looked up by name; a call of none is not noticed.
create_overloading_function_call(name, operators) ==
  LET found == Overloaded(name, operators)
  IN IF Failed(found) THEN Invalid
     ELSE Value("Value", "call", llvm_type_from_amun_type(found), FALSE)

-----------------------------------------------------------------------------
(* Operators.  An expression x is its node, its LLVM value and its parts,  *)
(* the expressions it is made of.                                          *)

EmitBinary(op, l, r, operators) ==
  LET lhs == Resolve(l)
      rhs == Resolve(r)
  IN CASE Broken(lhs) -> lhs
       [] Broken(rhs) -> rhs
       [] Both(Whole, lhs, rhs) \/ Both(Integers, lhs, rhs) ->
            create_llvm_integers_bianry(op, lhs, rhs)
       [] Both(Fractions, lhs, rhs) -> create_llvm_floats_bianry(op, lhs, rhs)
       [] OTHER -> create_overloading_function_call(
                     mangle_operator_function(op, <<l.node.noted, r.node.noted>>), operators)

EmitBitwise(op, l, r, operators) ==
  LET lhs == Resolve(l)
      rhs == Resolve(r)
      both(class(_)) == class(l.node.noted) /\ class(r.node.noted)
  IN CASE Broken(lhs) -> lhs
       [] Broken(rhs) -> rhs
       [] both(is_integer_type) \/ both(is_vector_type) ->
            Create(bitwise[op], Integers, lhs, rhs)
       [] OTHER -> create_overloading_function_call(
                     mangle_operator_function(op, <<l.node.noted, r.node.noted>>), operators)

IsString(t) == is_types_equals(t, Pointer(i8_type))
UnsignedElements(t) == is_vector_type(t) /\ is_unsigned_integer_type(t.array.element)
EmitComparison(op, l, r, operators) ==
  LET lhs == Resolve(l)
      rhs == Resolve(r)
      pointers == lhs.type.k = "ptr" /\ rhs.type.k = "ptr"
      vectors  == lhs.type.k = "vector" /\ rhs.type.k = "vector"
      unsigned == is_unsigned_integer_type(l.node.noted)
  IN CASE Broken(lhs) -> lhs
       [] Broken(rhs) -> rhs
       [] Both(Whole, lhs, rhs) ->
            (IF unsigned THEN create_llvm_unsigned_integers_comparison(op, lhs, rhs)
             ELSE create_llvm_integers_comparison(op, lhs, rhs))
       [] Both({"float"}, lhs, rhs) -> create_llvm_floats_comparison(op, lhs, rhs)
       \* Two literals are compared by the compiler.
       [] pointers /\ l.node.ast = "AST_STRING" /\ r.node.ast = "AST_STRING" ->
            Value("Value", signed_comparison[op], Integer(1), TRUE)
       [] pointers /\ IsString(l.node.noted) /\ IsString(r.node.noted) ->
            create_llvm_strings_comparison(op, lhs, rhs)
       [] pointers -> create_llvm_integers_comparison(op, lhs, rhs)
       [] vectors ->
            (IF UnsignedElements(l.node.type)
             THEN create_llvm_unsigned_integers_comparison(op, lhs, rhs)
             ELSE create_llvm_floats_comparison(op, lhs, rhs))
       [] OTHER -> create_overloading_function_call(
                     mangle_operator_function(op, <<l.node.noted, r.node.noted>>), operators)

EmitLogical(op, l, r, operators) ==
  LET lhs == Resolve(l)
      rhs == Resolve(r)
  IN CASE Broken(lhs) -> lhs
       [] Broken(rhs) -> rhs
       [] is_integer1_type(l.node.noted) /\ is_integer1_type(r.node.noted) ->
            Create("Select", Whole, lhs, rhs)
       [] OTHER -> create_overloading_function_call(
                     mangle_operator_function(op, <<l.node.noted, r.node.noted>>), operators)

-----------------------------------------------------------------------------
(* Fields and elements.                                                    *)

\* A pointer to a field of a structure, or of the structure a pointer points to.
access_struct_member_pointer(x, t) ==
  LET aggregate == llvm_type_from_amun_type(x.node.noted)
      field     == llvm_type_from_amun_type(t)
  IN CASE aggregate.k = "none" -> Internal
       [] aggregate.k = "struct" ->
            (IF x.llvm.by = "phi" \/ (x.llvm.by = "load" /\ x.llvm.from = "gep")
             THEN Address(field) ELSE Field(x.llvm, aggregate, field))
       [] aggregate.k = "ptr" -> Field(derefernecs_llvm_pointer(x.llvm), aggregate.to, field)
       \* A call: what is noted is the type of the function.
       [] aggregate.k = "function" /\ x.llvm.type.k = "struct" -> Address(field)
       [] OTHER -> Invalid

\* t is the type of the field.  A field that is a pointer is not loaded.
EmitDot(x, t, field) ==
  LET callee == llvm_type_from_amun_type(x.node.noted)
      string == IF x.llvm.type = PointerTo(Integer(8)) THEN x.llvm ELSE Load(x.llvm)
      member == access_struct_member_pointer(x, t)
  IN CASE callee.k = "none" -> Internal
       [] callee.k \in {"array", "vector"} -> Constant("ConstantInt", Integer(64))
       [] IsString(x.node.noted) ->
            (IF x.node.ast = "AST_STRING" THEN Constant("ConstantInt", Integer(64))
             ELSE IF string.type = PointerTo(Integer(8)) THEN Value("Value", "call", Integer(64), FALSE)
             ELSE Invalid)
       [] Broken(member) \/ is_pointer_type(t) -> member
       [] OTHER -> [Load(member) EXCEPT !.any = "LoadInst"]

\* An element of x.  An array of a name, of an array or of a field is found by its
\* address; elements of a local array that are pointers or structures are not loaded.
EmitIndex(x, i) ==
  LET index == Resolve(i)
      v     == Resolve(x)
      t     == x.node.noted
      ast   == x.node.ast
  IN CASE Broken(index) -> index
       [] is_pointer_type(t) ->
            (IF v.type = llvm_type_from_amun_type(t) THEN Element(v.type.to) ELSE Invalid)
       [] ast = "AST_LITERAL" /\ x.llvm.any \in {"AllocaInst", "GlobalVariable"} ->
            (IF x.llvm.type.to.k \notin {"array", "vector"} THEN Invalid
             ELSE IF x.llvm.any = "AllocaInst" /\ x.llvm.type.to.of.k \in {"ptr", "struct"}
             THEN Address(x.llvm.type.to.of) ELSE Element(x.llvm.type.to.of))
       [] ast \in {"AST_INDEX", "AST_ARRAY"} /\ x.llvm.by = "load" -> Element(x.llvm.type.of)
       [] ast \in {"AST_INDEX", "AST_ARRAY"} /\ x.llvm.constant ->
            (IF index.constant THEN Constant("Value", x.llvm.type.of) ELSE Invalid)
       [] ast = "AST_DOT" /\ x.llvm.any = "LoadInst" -> Element(x.llvm.type.of)
       [] OTHER -> Internal

-----------------------------------------------------------------------------
(* Unary operators and casts.                                              *)

\* What is incremented is found by the C++ type of its value: any other value of an
\* expression is taken for its address.
Increment(op, x, is_prefix) ==
  LET number  == llvm_type_from_amun_type(x.node.noted)
      place   == IF x.node.ast = "AST_DOT"
                 THEN access_struct_member_pointer(x.parts[1], x.node.type) ELSE x.llvm
      current == CASE place.any = "LoadInst" -> place
                   [] place.any \in {"AllocaInst", "GlobalVariable"} -> Load(place)
                   [] place.any = "Value" -> LoadAs(number, place)
                   [] OTHER -> Internal
      updated == create_llvm_integers_bianry(op, current, Constant("Value", number))
  IN IF Broken(current) \/ is_prefix \/ Broken(updated)
     THEN IF Broken(current) THEN current ELSE updated
     ELSE current
create_llvm_value_increment(x, is_prefix) == Increment("TOKEN_PLUS", x, is_prefix)
create_llvm_value_decrement(x, is_prefix) == Increment("TOKEN_MINUS", x, is_prefix)

Unary(by, classes, v) ==
  IF Class(v.type) \in classes THEN [v EXCEPT !.by = by, !.any = "Value"] ELSE Invalid

\* t is the type noted in the node.
EmitPrefix(op, x, t, operators) ==
  LET rhs      == Resolve(x)
      number   == is_number_type(x.node.noted)
      overload == create_overloading_function_call(
                    <<"_prefix">> \o mangle_operator_function(op, <<x.node.noted>>), operators)
  IN CASE op = "TOKEN_STAR" ->
            (IF is_struct_type(t) THEN Load(x.llvm) ELSE Load(Load(x.llvm)))
       [] op = "TOKEN_AND" -> Alloca(x.llvm.type)
       [] op = "TOKEN_PLUS_PLUS" /\ number -> create_llvm_value_increment(x, TRUE)
       [] op = "TOKEN_MINUS_MINUS" /\ number -> create_llvm_value_decrement(x, TRUE)
       [] Broken(rhs) -> rhs
       [] op = "TOKEN_MINUS" /\ IsFloat(rhs.type) -> Unary("FNeg", {"float"}, rhs)
       [] op = "TOKEN_MINUS" /\ IsInteger(rhs.type) -> Unary("Neg", Whole, rhs)
       [] op = "TOKEN_BANG" /\ rhs.type = Integer(1) -> [Unary("ICmpEQ", Whole, rhs) EXCEPT !.type = Integer(1)]
       [] op = "TOKEN_NOT" /\ number -> Unary("Not", Integers, rhs)
       [] OTHER -> overload

EmitPostfix(op, x, operators) ==
  CASE ~is_number_type(x.node.noted) ->
         create_overloading_function_call(
           <<"_postfix">> \o mangle_operator_function(op, <<x.node.noted>>), operators)
    [] op = "TOKEN_PLUS_PLUS" -> create_llvm_value_increment(x, FALSE)
    [] OTHER -> create_llvm_value_decrement(x, FALSE)

\* The instruction of a cast; integers are always taken for signed ones.
EmitCast(x, target) ==
  LET v    == Resolve(x)
      from == llvm_type_from_amun_type(x.node.noted)
      to   == llvm_type_from_amun_type(target)
      to_wider == from.width < to.width
      by(class(_), instruction) ==
        IF class(v.type) THEN [v EXCEPT !.by = instruction, !.any = "Value", !.type = to] ELSE Invalid
  IN CASE Broken(v) -> v
       [] from.k = "none" \/ to.k = "none" -> Internal
       [] from = to -> v
       [] from.k = "int" /\ to.k = "int" -> by(IsInteger, IF to_wider THEN "SExt" ELSE "Trunc")
       [] from.k = "float" /\ to.k = "float" -> by(IsFloat, IF to_wider THEN "FPExt" ELSE "FPTrunc")
       [] from.k = "float" /\ to.k = "int" -> by(IsFloat, "FPToSI")
       [] from.k = "int" /\ to.k = "float" -> by(IsInteger, "SIToFP")
       [] from.k = "ptr" /\ to.k = "int" -> by(LAMBDA t : t.k = "ptr", "PtrToInt")
       [] from.k = "int" /\ to.k = "ptr" -> by(IsInteger, "IntToPtr")
       [] from.k = "array" /\ to.k = "ptr" ->
            (IF v.type.k = "array" THEN Address(v.type.of) ELSE Invalid)
       [] OTHER -> by(LAMBDA t : t.k = "ptr" /\ to.k = "ptr", "BitCast")

-----------------------------------------------------------------------------
(* Literals of several values, and choices between values.                 *)

EmitArray(xs, t) ==
  LET array   == llvm_type_from_amun_type(t)
      values  == ResolveAll(xs)
      element == [i \in DOMAIN values |->
                    IF values[i].type = PointerTo(array.of) THEN Load(values[i]) ELSE values[i]]
      fits    == \A i \in DOMAIN element : element[i].type = array.of
  IN IF array.of.k = "none" THEN Internal
     ELSE IF \A i \in DOMAIN xs : xs[i].node.parsed.constant
     THEN IF \A i \in DOMAIN xs : values[i].constant /\ values[i].type = array.of
          THEN Constant("Constant", array) ELSE Invalid
     ELSE IF fits THEN Alloca(array) ELSE Invalid

\* Every value has to be a number literal.
EmitVector(xs, t) ==
  IF \E i \in DOMAIN xs : xs[i].node.ast # "AST_NUMBER" THEN Invalid
  ELSE Constant("Constant", llvm_type_from_amun_type(t))

\* A tuple or a structure: an alloca whose fields are stored one by one.
EmitAggregate(xs, t, fields) ==
  IF \A i \in DOMAIN xs : Resolve(xs[i]).type = llvm_type_from_amun_type(fields[i])
  THEN Alloca(llvm_type_from_amun_type(t)) ELSE Invalid

Phi(values, t) ==
  IF t.k # "none" /\ \A i \in DOMAIN values : values[i].type = t
  THEN Value("PHINode", "phi", t, FALSE) ELSE Invalid

EmitIf(conditions, xs, t) ==
  IF \E i \in DOMAIN conditions : Resolve(conditions[i]).type # Integer(1) THEN Invalid
  ELSE Phi(ResolveAll(xs), llvm_type_from_amun_type(t))

\* The last of the values is taken when no case but the last was compared.  A case
\* that is a variable is not loaded.
EmitSwitch(argument, cases, xs, default, t) ==
  LET v == Resolve(argument)
      compared == IF default = <<>> THEN Len(cases) - 1 ELSE Len(cases)
  IN IF \E i \in 1 .. compared :
           Broken(create_llvm_integers_comparison("TOKEN_EQUAL_EQUAL", v, cases[i].llvm))
     THEN Invalid
     ELSE Phi(ResolveAll(xs \o default), llvm_type_from_amun_type(t))

-----------------------------------------------------------------------------
(* Calls and assignments.                                                  *)

Argument(x, t) == IF x.llvm.type = t THEN x.llvm ELSE LoadAs(t, x.llvm)
\* An argument after the parameters, of a function called by its name: what is passed
\* for it.  A float that is not a variable is passed twice, converted and as it is.
ExtraTwice(x) == <<Value("Value", "FPExt", Float(64), FALSE), x.llvm>>
Extra(x) ==
  LET loaded == LoadAs(llvm_type_from_amun_type(x.node.noted), x.llvm)
      double == Value("Value", "FPExt", Float(64), FALSE)
  IN IF x.node.ast = "AST_LITERAL"
     THEN <<IF loaded.type = Float(32) THEN double ELSE loaded>>
     ELSE IF x.llvm.type = Float(32) THEN <<double, x.llvm>> ELSE <<x.llvm>>

FunctionCalled(callee) == Target(callee.node)
Passed(callee, arguments) ==
  LET parameters == FunctionCalled(callee).parameters
      passed(i) ==
        IF i <= Len(parameters)
        THEN <<Argument(arguments[i], llvm_type_from_amun_type(parameters[i]))>>
        ELSE Extra(arguments[i])
  IN FlattenSeq([i \in DOMAIN arguments |-> passed(i)])

\* A call through a call needs to know the function that returned the pointer.
EmitCall(callee, arguments) ==
  LET passed == Passed(callee, arguments)
      direct == callee.parts # <<>> /\ callee.parts[1].llvm.by = "function"
  IN IF callee.node.ast = "AST_CALL" /\ ~direct THEN Invalid
     ELSE IF AnyBroken(passed) THEN Invalid
     ELSE Value("CallInst", "call", llvm_type_from_amun_type(FunctionCalled(callee).return), FALSE)

\* The value an assignment stores; only the value for an element is not loaded.
EmitAssign(l, r) ==
  LET v == Resolve(r)
      loaded == IF l.llvm.type = v.type THEN Load(v) ELSE v
      of == l.parts[1]
      place == CASE of.node.ast = "AST_LITERAL" /\ of.llvm.any \in {"AllocaInst", "GlobalVariable"} ->
                      (IF of.llvm.type.to.k \in {"array", "vector"}
                       THEN Address(of.llvm.type.to.of) ELSE Invalid)
                 [] of.node.ast = "AST_INDEX" /\ of.llvm.by = "load" /\ of.llvm.type.k = "array" ->
                      Address(of.llvm.type.of)
                 [] of.node.ast = "AST_DOT" /\ of.llvm.any = "LoadInst" /\ of.llvm.type.k = "array" ->
                      Address(of.llvm.type.of)
                 [] OTHER -> Internal
      element == IF r.llvm.type = place.type THEN Load(r.llvm) ELSE r.llvm
  IN CASE Broken(v) -> v
       [] l.node.ast = "AST_LITERAL" /\ l.llvm.any = "AllocaInst" -> Stored(loaded, l.llvm, loaded)
       [] l.node.ast = "AST_LITERAL" /\ l.llvm.any = "GlobalVariable" -> Stored(v, l.llvm, v)
       [] l.node.ast = "AST_INDEX" ->
            (IF Broken(place) THEN place
             ELSE IF of.node.ast = "AST_DOT" THEN Stored(element, place, element)
             ELSE Stored(r.llvm, place, r.llvm))
       [] l.node.ast = "AST_DOT" ->
            Stored(v, access_struct_member_pointer(of, l.node.type), v)
       [] l.node.ast = "AST_PREFIX_UNARY" -> Stored(v, LoadAs(llvm_type_from_amun_type(of.node.noted.base), of.llvm), v)
       [] OTHER -> Internal

-----------------------------------------------------------------------------
(* Declarations and returns.                                               *)

create_entry_block_alloca(t) == [Alloca(t) EXCEPT !.from = "entry"]
Own(v, t) == Stored(v, create_entry_block_alloca(t), create_entry_block_alloca(t))

\* The variable a local field of type t is kept in: that of its value, when the value
\* is a variable.
EmitField(x, t) ==
  LET type  == llvm_type_from_amun_type(t)
      value == IF x.llvm.type = PointerTo(type) THEN Load(x.llvm) ELSE x.llvm
  IN CASE x.llvm.any = "Value" -> Own(value, type)
       [] x.llvm.any \in {"CallInst", "Constant", "ConstantInt", "LoadInst", "PHINode"} ->
            Own(x.llvm, type)
       [] x.llvm.any = "AllocaInst" -> x.llvm
       [] x.llvm.any = "Function" -> Own(x.llvm, x.llvm.type)
       [] OTHER -> Internal

\* One variable for each field of a tuple of type t.
EmitDestructuring(x, t) ==
  [i \in DOMAIN t.fields |->
     LET member == access_struct_member_pointer(x, t.fields[i])
     IN IF member.any = "internal" THEN Internal
        ELSE Own(Load(member), llvm_type_from_amun_type(t.fields[i]))]

\* The value a return gives to a function with results of type t.
EmitReturn(x, t) ==
  LET noted    == llvm_type_from_amun_type(x.node.noted)
      returned ==
        CASE x.llvm.any \in {"Value", "CallInst", "Function", "Constant", "ConstantInt", "LoadInst"} ->
               x.llvm
          [] x.llvm.any \in {"AllocaInst", "GlobalVariable"} -> Load(x.llvm)
          [] x.llvm.any = "PHINode" -> IF x.llvm.type = noted THEN x.llvm ELSE Load(x.llvm)
          [] OTHER -> Internal
  IN IF Broken(returned) \/ returned.type = llvm_type_from_amun_type(t) THEN returned
     ELSE Invalid
=============================================================================
