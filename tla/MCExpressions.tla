--------------------------- MODULE MCExpressions ---------------------------
(* Instances of Expressions for TLC. *)
EXTENDS Expressions

u8  == config_type_alias_table["uint8"]
i64 == config_type_alias_table["int64"]
Item == StructType(<<"Item">>, <<"data">>, <<StaticArray(u8, 2)>>, <<>>)
Pair == StructType(<<"Pair">>, <<"data", "next">>, <<i64, Pointer(Item)>>, <<>>)
Color == EnumType(<<"Color">>, <<"RED">>)
ColorElement == EnumElement(<<"Color">>, i8_type)
MCEnums == [name \in {<<"Color">>} |-> 1]
\* operator + of structures
MCOperators == {[name |-> mangle_operator_function("TOKEN_PLUS", <<Pair, Pair>>), return |-> i64]}

\* The enum and the operator are declarations the checker accepts.
ASSUME DeclarationsAccepted ==
  EnumDeclaration(i8_type, {"RED"}) /\ OperatorFunctionDeclaraion(<<Pair, Pair>>)

Variables == {Local(u8), Global(i64), Local(f32_type), Local(Pair), Local(StaticArray(Item, 2)),
              Local(Pointer(Pair)), Local(TupleType(<<u8, i64>>)), Local(StaticVector(StaticArray(u8, 2)))}
Functions == {Function(<<u8, Pointer(Pair)>>, u8, <<>>), Function(<<u8>>, i64, <<none_type>>),
              Local(Pointer(FunctionType(<<i64>>, u8, <<>>, 0, FALSE)))}
Literals  == {Digits("U_INTEGER_8", 1), Bool, Null, String, EnumAccess(ColorElement)}
MCLeaves  == Variables \cup Functions \cup Literals
MCTargets == {u8, i64, f32_type, Pointer(void_type)}
MCStructures == {Pair}
=============================================================================
