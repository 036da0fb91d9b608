----------------------------- MODULE MCGenerics -----------------------------
(* Programs of two generic functions and a main, for TLC. *)
EXTENDS Instances

Int64   == Number("INTEGER_64")
Int8    == Number("INTEGER_8")
T       == GenericParameter("T")
Single  == <<"Single">>
Outer   == <<"Outer">>
Of(s, t) == GenericStruct(StructType(s, <<>>, <<>>, <<>>), <<t>>)
FunctionPointer(t) == Pointer(FunctionType(<<t>>, t, <<>>, 0, FALSE))

MCStructs ==
  (Single :> [generics |-> <<"E">>, fields |-> <<GenericParameter("E")>>]) @@
  (Outer :> [generics |-> <<"O">>, fields |-> <<Of(Single, GenericParameter("O"))>>])

Name(x)          == [kind |-> "name", name |-> x]
Literal(t)       == [kind |-> "value", type |-> t]
Size(t)          == [kind |-> "size", type |-> t]
New(t, args)     == [kind |-> "init", type |-> t, arguments |-> args]
Call(f, ts, args) == [kind |-> "call", callee |-> f, generic |-> ts, arguments |-> args]
Do(e)            == [kind |-> "expression", name |-> "_", type |-> none_type, value |-> e]
Return(e)        == [kind |-> "return", name |-> "_", type |-> none_type, value |-> e]
Var(x, t, e)     == [kind |-> "field", name |-> x, type |-> t, value |-> e]
Function(generics, names, parameters, return, body) ==
  [generics |-> generics, names |-> names, parameters |-> parameters, return |-> return,
   body |-> body]

f(args) == Call("f", <<>>, args)
g(args) == Call("g", <<>>, args)

\* f<T>(x ...) ...
Firsts ==
  LET One(parameter, return, body) == Function(<<"T">>, <<"x">>, <<parameter>>, return, body) IN
  { One(T, T, <<Return(Name("x"))>>),
    One(T, T, <<Var("r", T, Name("x")), Return(Name("r"))>>),
    One(T, T, <<Var("r", none_type, Name("x")), Return(Name("r"))>>),
    One(T, Int64, <<Return(Size(T))>>),
    One(T, Of(Single, T), <<Return(New(Of(Single, T), <<Name("x")>>))>>),
    One(T, T, <<Do(New(Of(Single, T), <<Name("x")>>)), Return(Name("x"))>>),
    One(Pointer(T), T, <<Do(Name("x"))>>),
    One(Pointer(T), T, <<Return(Name("x"))>>),
    One(Of(Single, T), void_type, <<Var("r", Of(Single, T), Name("x"))>>),
    One(FunctionPointer(T), void_type, <<Do(Size(Pointer(T)))>>),
    Function(<<"T">>, <<"x", "y">>, <<T, T>>, T, <<Return(Name("y"))>>),
    Function(<<"T", "E">>, <<"x", "y">>, <<T, GenericParameter("E")>>,
             TupleType(<<T, GenericParameter("E")>>), <<Do(Name("y"))>>),
    Function(<<"T">>, <<>>, <<>>, Pointer(T), <<Do(Size(T))>>) }

\* g<G>(a G) ..., which calls f
G == GenericParameter("G")
Seconds ==
  LET One(return, body) == Function(<<"G">>, <<"a">>, <<G>>, return, body) IN
  { One(G, <<Return(f(<<Name("a")>>))>>),
    One(G, <<Var("s", none_type, f(<<Name("a")>>)), Return(Name("a"))>>),
    One(G, <<Var("s", G, Name("a")), Do(f(<<Literal(Int64)>>)), Return(Name("s"))>>),
    One(G, <<Do(f(<<Literal(Int64)>>)), Var("s", G, Name("a")), Return(Name("s"))>>),
    One(G, <<Return(f(<<f(<<Name("a")>>)>>))>>),
    One(G, <<Do(Call("f", <<G>>, <<Name("a")>>)), Return(Name("a"))>>),
    One(G, <<Do(Call("f", <<Int8>>, <<Literal(Int8)>>)), Return(Name("a"))>>),
    One(G, <<Do(Call("g", <<>>, <<Name("a")>>)), Return(Name("a"))>>) }
Unused == Function(<<"G">>, <<"a">>, <<G>>, G, <<Return(Name("a"))>>)

Values == {Literal(t) : t \in {Int64, Int8, Pointer(Int64), FunctionPointer(Int8)}}
ToF == {<<Do(f(<<a>>))>> : a \in Values}
       \cup {<<Do(Call("f", <<t>>, <<Literal(Int8)>>))>> : t \in {Int64, Int8}}
       \cup {<<Do(f(<<f(<<Literal(Int8)>>)>>))>>,
             <<Do(f(<<New(Of(Single, Int8), <<Literal(Int8)>>)>>))>>,
             <<Do(f(<<Literal(Int8), Literal(Int8)>>))>>,
             <<Do(f(<<Literal(Int64), Literal(Int8)>>))>>,
             <<Do(f(<<Literal(Int64), f(<<Literal(Int8), Literal(Int8)>>)>>))>>,
             <<Do(Call("f", <<Int8>>, <<>>))>>, <<Do(Call("f", <<Int64>>, <<>>))>>}
ToG == {<<Do(g(<<Literal(t)>>))>> : t \in {Int64, Int8}}
       \cup {<<Do(f(<<g(<<Literal(Int64)>>)>>))>>,
             <<Do(g(<<Literal(Int8)>>)), Do(g(<<Literal(Int64)>>))>>,
             <<Do(g(<<Literal(Int8)>>)), Do(f(<<Literal(Int8)>>))>>,
             <<Var("v", Int8, f(<<Literal(Int8)>>)), Var("w", none_type, g(<<Name("v")>>))>>}
Alone == {<<Do(f(<<a>>))>> : a \in Values}
         \cup {<<Do(Call("f", <<t>>, <<Literal(t)>>))>> : t \in {Int64, Int8}}
Pairs == {c \o d : c, d \in Alone}
Boxes == {<<Var("b", none_type, New(Of(Single, t), <<Literal(t)>>)),
            Var("o", none_type, New(Of(Outer, t), <<Name("b")>>)),
            Var("c", none_type, New(Of(Single, u), <<Literal(u)>>)),
            Var("p", none_type, New(Of(Outer, u), <<Name("c")>>)), Do(f(<<Name("o")>>))>> :
            t, u \in {Int64, Int8}}

Three(first, second, m) == [f |-> first, g |-> second, main |-> Function(<<>>, <<>>, <<>>, Int64, m)]
MCPrograms ==
  {Three(first, second, m) : first \in Firsts, second \in Seconds, m \in ToG}
  \cup {Three(first, Unused, m) : first \in Firsts, m \in ToF \cup Pairs \cup Boxes}
MCExcluded ==
  {"recursive", "shared_call", "shared_variable", "shared_size", "shared_initialisation",
   "shared_signature", "shared_template", "parameter_given", "type_after_call", "unnamed"}
=============================================================================
