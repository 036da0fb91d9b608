------------------------------- MODULE Types -------------------------------
(***************************************************************************)
(* The types of the language (amun_type.hpp, amun_type.cpp), their names   *)
(* in messages and in the object file (amun_name_mangle.cpp) and the names *)
(* the parser knows them by (amun_alias_table.cpp).                        *)
(*                                                                         *)
(* A text is a sequence of pieces: an identifier of the program is one or  *)
(* more pieces, and two texts are equal when their pieces are.  This keeps *)
(* apart what the code concatenates, and lets an identifier be spelled     *)
(* like the code's own prefixes.                                           *)
(***************************************************************************)
EXTENDS Integers, Sequences, FiniteSets, SequencesExt

Signed   == {"INTEGER_1", "INTEGER_8", "INTEGER_16", "INTEGER_32", "INTEGER_64"}
Unsigned == {"U_INTEGER_8", "U_INTEGER_16", "U_INTEGER_32", "U_INTEGER_64"}
Floats   == {"FLOAT_32", "FLOAT_64"}
NumberKind == Signed \cup Unsigned \cup Floats

number_kind_width ==
  [k \in NumberKind |->
     CASE k = "INTEGER_1" -> 1
       [] k \in {"INTEGER_8", "U_INTEGER_8"} -> 8
       [] k \in {"INTEGER_16", "U_INTEGER_16"} -> 16
       [] k \in {"INTEGER_32", "U_INTEGER_32", "FLOAT_32"} -> 32
       [] OTHER -> 64]

Number(k)         == [kind |-> "NUMBER", number |-> k]
Pointer(base)     == [kind |-> "POINTER", base |-> base]
StaticArray(e, n) == [kind |-> "STATIC_ARRAY", element |-> e, size |-> n]
StaticVector(a)   == [kind |-> "STATIC_VECTOR", array |-> a]
\* varargs: <<>> without, <<t>> with the type of the further arguments, <<none_type>>
\* for any; implicit: how many of the parameters a lambda captured.
FunctionType(ps, r, varargs, implicit, intrinsic) ==
  [kind |-> "FUNCTION", parameters |-> ps, return |-> r, varargs |-> varargs,
   implicit |-> implicit, intrinsic |-> intrinsic]
\* instance: the types a generic structure was instantiated with.
StructType(name, fields_names, fields, instance) ==
  [kind |-> "STRUCT", name |-> name, fields_names |-> fields_names, fields |-> fields,
   instance |-> instance]
TupleType(ts)     == [kind |-> "TUPLE", fields |-> ts]
EnumType(name, values) == [kind |-> "ENUM", name |-> name, values |-> values]
EnumElement(name, element) == [kind |-> "ENUM_ELEMENT", name |-> name, element |-> element]
GenericParameter(name) == [kind |-> "GENERIC_PARAMETER", name |-> name]
GenericStruct(s, ps) ==
  [kind |-> "GENERIC_STRUCT", struct |-> s, parameters |-> ps]
none_type == [kind |-> "NONE"]
void_type == [kind |-> "VOID"]
null_type == [kind |-> "NILL"]

i1_type  == Number("INTEGER_1")
i8_type  == Number("INTEGER_8")
i32_type == Number("INTEGER_32")
i64_type == Number("INTEGER_64")
f32_type == Number("FLOAT_32")

-----------------------------------------------------------------------------
(* Texts.                                                                  *)

get_number_kind_literal(k) ==
  CASE k = "INTEGER_1" -> "Int1"     [] k = "INTEGER_8" -> "Int8"
    [] k = "INTEGER_16" -> "Int16"   [] k = "INTEGER_32" -> "Int32"
    [] k = "INTEGER_64" -> "Int64"   [] k = "U_INTEGER_8" -> "UInt8"
    [] k = "U_INTEGER_16" -> "UInt16" [] k = "U_INTEGER_32" -> "UInt32"
    [] k = "U_INTEGER_64" -> "UInt64" [] k = "FLOAT_32" -> "Float32"
    [] OTHER -> "Float64"

number_type_managler ==
  [k \in NumberKind |->
     CASE k = "INTEGER_1" -> "i1"     [] k = "INTEGER_8" -> "i8"
       [] k = "INTEGER_16" -> "i16"   [] k = "INTEGER_32" -> "i32"
       [] k = "INTEGER_64" -> "i64"   [] k = "U_INTEGER_8" -> "u8"
       [] k = "U_INTEGER_16" -> "u16" [] k = "U_INTEGER_32" -> "u32"
       [] k = "U_INTEGER_64" -> "u64" [] k = "FLOAT_32" -> "f32"
       [] OTHER -> "f64"]

\* The texts, with a separator after each but the last.
Joined(texts, separator) ==
  FlattenSeq([i \in 1 .. Len(texts) |->
                IF i < Len(texts) THEN texts[i] \o <<separator>> ELSE texts[i]])

RECURSIVE get_type_literal(_)
get_type_literal(t) ==
  LET literals(ts) == [i \in DOMAIN ts |-> get_type_literal(ts[i])]
  IN CASE t.kind = "NUMBER" -> <<get_number_kind_literal(t.number)>>
       [] t.kind = "STATIC_ARRAY" ->
            <<"[", ToString(t.size), "]">> \o get_type_literal(t.element)
       [] t.kind = "STATIC_VECTOR" -> <<"@vec">> \o get_type_literal(t.array)
       [] t.kind = "POINTER" -> <<"*">> \o get_type_literal(t.base)
       [] t.kind = "FUNCTION" ->
            <<"(">> \o FlattenSeq([i \in DOMAIN t.parameters |->
                         <<" ">> \o literals(t.parameters)[i] \o <<" ">>])
                    \o <<")", " -> ">> \o get_type_literal(t.return)
       [] t.kind \in {"STRUCT", "ENUM", "ENUM_ELEMENT", "GENERIC_PARAMETER"} -> t.name
       [] t.kind = "TUPLE" -> <<"(">> \o Joined(literals(t.fields), ", ") \o <<")">>
       [] t.kind = "GENERIC_STRUCT" ->
            get_type_literal(t.struct) \o <<"<">>
               \o Joined(literals(t.parameters), ",") \o <<">">>
       [] t.kind = "NONE" -> <<"none">>
       [] t.kind = "VOID" -> <<"void">>
       [] OTHER -> <<"null">>

\* The name of a type in the name of an instance or of an operator.  It is
\* empty for functions, vectors, generic structures, enums, null and void.
RECURSIVE mangle_type(_)
mangle_types(ts) == FlattenSeq([i \in DOMAIN ts |-> mangle_type(ts[i])])
mangle_type(t) ==
  CASE t.kind = "NUMBER" -> <<number_type_managler[t.number]>>
    [] t.kind = "POINTER" -> <<"p">> \o mangle_type(t.base)
    [] t.kind = "STATIC_ARRAY" ->
         <<"_a", ToString(t.size)>> \o mangle_type(t.element)
    [] t.kind \in {"ENUM_ELEMENT", "STRUCT"} -> t.name
    [] t.kind = "TUPLE" -> <<"_tuple_">> \o mangle_types(t.fields)
    [] OTHER -> <<>>

mangle_operator_function(operator, parameters) ==
  <<"_operator_", operator>> \o mangle_types(parameters)

-----------------------------------------------------------------------------
(* Equality, classes and conversions.                                      *)

RECURSIVE is_types_equals(_, _)
AllEqual(ts, others) ==
  /\ Len(ts) = Len(others)
  /\ \A i \in DOMAIN ts : is_types_equals(ts[i], others[i])
is_functions_types_equals(t, other) ==
  AllEqual(t.parameters, other.parameters) /\ is_types_equals(t.return, other.return)
is_types_equals(t, other) ==
  /\ t.kind = other.kind
  /\ CASE t.kind = "NUMBER" -> t.number = other.number
       [] t.kind = "POINTER" -> is_types_equals(t.base, other.base)
       [] t.kind = "STATIC_ARRAY" ->
            t.size = other.size /\ is_types_equals(t.element, other.element)
       [] t.kind = "STATIC_VECTOR" -> is_types_equals(t.array, other.array)
       [] t.kind = "FUNCTION" -> is_functions_types_equals(t, other)
       [] t.kind \in {"STRUCT", "TUPLE"} ->
            get_type_literal(t) = get_type_literal(other)
       [] t.kind = "ENUM_ELEMENT" -> t.name = other.name
       [] t.kind = "GENERIC_STRUCT" ->
            /\ is_types_equals(t.struct, other.struct)
            /\ AllEqual(t.parameters, other.parameters)
       [] OTHER -> TRUE

is_number_type(t)   == t.kind = "NUMBER"
is_integer_type(t)  == t.kind = "NUMBER" /\ t.number \notin Floats
is_signed_integer_type(t)   == t.kind = "NUMBER" /\ t.number \in Signed
is_unsigned_integer_type(t) == t.kind = "NUMBER" /\ t.number \in Unsigned
is_integer1_type(t) == t.kind = "NUMBER" /\ t.number = "INTEGER_1"
is_boolean_type(t)  == t.kind = "NUMBER" /\ t.number = "INTEGER_1"
is_enum_element_type(t) == t.kind = "ENUM_ELEMENT"
is_struct_type(t)   == t.kind = "STRUCT"
is_generic_struct_type(t) == t.kind = "GENERIC_STRUCT"
is_tuple_type(t)    == t.kind = "TUPLE"
is_array_type(t)    == t.kind = "STATIC_ARRAY"
is_vector_type(t)   == t.kind = "STATIC_VECTOR"
is_pointer_type(t)  == t.kind = "POINTER"
is_void_type(t)     == t.kind = "VOID"
is_null_type(t)     == t.kind = "NILL"
is_function_pointer_type(t) == t.kind = "POINTER" /\ t.base.kind = "FUNCTION"
\* Unknown, or an array or a pointer of something unknown.
is_none_type(t) ==
  \/ t.kind = "NONE"
  \/ t.kind = "STATIC_ARRAY" /\ t.element.kind = "NONE"
  \/ t.kind = "POINTER" /\ t.base.kind = "NONE"
is_pointer_of_type(t, base) == t.kind = "POINTER" /\ is_types_equals(t.base, base)
is_array_of_type(t, base) == t.kind = "STATIC_ARRAY" /\ is_types_equals(t.element, base)

NotCastable == {"VOID", "NONE", "ENUM", "ENUM_ELEMENT", "FUNCTION"}

can_types_casted(from, to) ==
  /\ from.kind \notin NotCastable /\ to.kind \notin NotCastable
  /\ \/ is_number_type(from) /\ is_number_type(to)
     \/ is_pointer_of_type(from, void_type) \/ is_pointer_of_type(to, void_type)
     \/ /\ is_array_type(from) /\ is_pointer_type(to)
        /\ is_types_equals(from.element, to.base)

\* The names of types the parser starts with.
config_type_alias_table ==
  [ name \in {"int1", "int8", "int16", "int32", "int64", "char", "uchar", "uint8",
              "uint16", "uint32", "uint64", "float32", "float64", "void"} |->
      CASE name = "int1" -> i1_type
        [] name \in {"int8", "char"} -> i8_type
        [] name = "int16" -> Number("INTEGER_16")
        [] name = "int32" -> i32_type
        [] name = "int64" -> i64_type
        [] name \in {"uint8", "uchar"} -> Number("U_INTEGER_8")
        [] name = "uint16" -> Number("U_INTEGER_16")
        [] name = "uint32" -> Number("U_INTEGER_32")
        [] name = "uint64" -> Number("U_INTEGER_64")
        [] name = "float32" -> f32_type
        [] name = "float64" -> Number("FLOAT_64")
        [] OTHER -> void_type ]
=============================================================================
