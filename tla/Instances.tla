----------------------------- MODULE Instances -----------------------------
(***************************************************************************)
(* Generic functions from the call in the source to the functions in the   *)
(* module: Generics checks the program, then the backend                   *)
(* (resolve_generic_function, amun_llvm_backend.cpp) generates an instance *)
(* where a call needs one that does not exist.  Both must do as if every   *)
(* instance were a function of its own, with the types written out.        *)
(***************************************************************************)
EXTENDS Generics

CONSTANTS Excluded   \* features programs do not have

VARIABLES
  functions,           \* in the module, with what was generated for them
  alloca_inst_table,   \* the names of the backend: of instances, to functions
  bound,               \* generic_types of the backend
  generating           \* the functions being generated, outermost first

vars == <<checker, functions, alloca_inst_table, bound, generating>>

-----------------------------------------------------------------------------
(* The backend.  It needs a type for each declaration, initialisation and  *)
(* type_size, and a function for each call; uses is what it took.          *)

RECURSIVE ItemsOf(_)
ItemsOf(id) ==
  LET arguments == FlattenSeq([j \in DOMAIN At(id).arguments |-> ItemsOf(Append(id, j))])
  IN CASE At(id).kind \in {"call", "init"} -> <<id>> \o arguments
       [] At(id).kind = "size" -> <<id>>
       [] OTHER -> <<>>
Items(f) ==
  FlattenSeq([k \in DOMAIN Body(f) |->
    (IF Body(f)[k].kind = "field" THEN << <<f, k, 0>> >> ELSE <<>>) \o ItemsOf(<<f, k>>)])
IsVariable(id) == id[Len(id)] = 0
IsCall(id)     == ~IsVariable(id) /\ At(id).kind = "call"
Calls(f)       == {id \in ToSet(Items(f)) : IsCall(id)}
WrittenAt(id)  == IF IsVariable(id) THEN Body(id[1])[id[2]].type ELSE At(id).type

\* The type the backend makes of t; null_pointer stands for an unknown type parameter.
RECURSIVE llvm_type_from_amun_type(_, _), Lowered(_, _), resolve_generic_struct(_, _)
Lowered(ts, map) == IF ts = <<>> THEN <<>>
                    ELSE <<llvm_type_from_amun_type(Head(ts), map)>> \o Lowered(Tail(ts), map)
llvm_type_from_amun_type(t, map) ==
  CASE t.kind = "GENERIC_PARAMETER" ->
         IF t.name \in DOMAIN map THEN map[t.name] ELSE null_pointer
    [] t.kind = "POINTER" -> Pointer(llvm_type_from_amun_type(t.base, map))
    [] t.kind = "STATIC_ARRAY" -> StaticArray(llvm_type_from_amun_type(t.element, map), t.size)
    [] t.kind = "TUPLE" -> TupleType(Lowered(t.fields, map))
    [] t.kind = "FUNCTION" ->
         [t EXCEPT !.return = llvm_type_from_amun_type(t.return, map),
                   !.parameters = Lowered(t.parameters, map)]
    [] t.kind = "GENERIC_STRUCT" -> resolve_generic_struct(t, map)
    [] OTHER -> t
\* Only a field that is a type parameter itself gets what the parameters of t say.
RECURSIVE FieldTypes(_, _, _)
FieldTypes(fields, t, names) ==
  IF fields = <<>> THEN <<>>
  ELSE LET first == Head(fields)
       IN <<IF first.kind = "GENERIC_PARAMETER" THEN t.parameters[index_of(names, first.name)]
                                                ELSE first>>
          \o FieldTypes(Tail(fields), t, names)
resolve_generic_struct(t, map) ==
  LET fields == FieldTypes(templates[t.struct.name], t, Structs[t.struct.name].generics)
  IN StructType(t.struct.name \o mangle_types(t.parameters), <<>>, Lowered(fields, map), t.parameters)

RECURSIVE Known(_)
Known(t) ==
  CASE t.kind \in {"NULL_POINTER", "GENERIC_PARAMETER"} -> FALSE
    [] t.kind = "POINTER" -> Known(t.base)
    [] t.kind = "STATIC_ARRAY" -> Known(t.element)
    [] t.kind \in {"TUPLE", "STRUCT"} -> \A i \in DOMAIN t.fields : Known(t.fields[i])
    [] t.kind = "FUNCTION" -> Known(t.return) /\ \A i \in DOMAIN t.parameters : Known(t.parameters[i])
    [] OTHER -> TRUE

Generating == status = "generating"
Item       == Items(functions[Last(generating)].f)[Len(functions[Last(generating)].uses) + 1]
ItemLeft   == Len(functions[Last(generating)].uses) < Len(Items(functions[Last(generating)].f))
Use(u)     == [functions EXCEPT ![Last(generating)].uses = Append(@, u)]

NewFunction(f, name, given, parameters, return) ==
  [f |-> f, name |-> name, given |-> given, parameters |-> parameters, return |-> return,
   uses |-> <<>>]

StartGenerating ==
  /\ status = "checked"
  /\ status' = "generating"
  /\ functions' = <<NewFunction("main", <<"main">>, <<>>, <<>>, i64_type)>>
  /\ alloca_inst_table' = << <<>>, <<>> >>
  /\ generating' = <<1>>
  /\ UNCHANGED <<program, tree, types_table, generic_types, frames, result, bound>>

GenerateType ==
  /\ Generating /\ ItemLeft /\ ~IsCall(Item)
  /\ LET t == llvm_type_from_amun_type(node_types[Item], bound)
     IN IF Known(t) THEN functions' = Use(t) /\ UNCHANGED status
                    ELSE status' = "crashed" /\ UNCHANGED functions
  /\ UNCHANGED <<program, tree, types_table, generic_types, frames, result,
                 alloca_inst_table, bound, generating>>

\* A function with the plain name is taken before any instance is looked for.
Named(name) == {i \in DOMAIN functions : functions[i].name = name}
PlainName(f, given) == <<f>>                              \* mutant: types left out of the name
MangledName(f, given) == <<f>> \o mangle_types(given)

resolve_generic_function(f, given) ==
  LET map == Bindings(program[f].generics, given) @@ bound
      parameters == Lowered(signatures[f].parameters, map)
      return == llvm_type_from_amun_type(signatures[f].return, map)
  IN IF \A t \in ToSet(parameters) \cup {return} : Known(t)
     THEN /\ bound' = map
          /\ functions' = Append(Use(Len(functions) + 1),
                            NewFunction(f, MangledName(f, given), given, parameters, return))
          /\ alloca_inst_table' = push_new_scope(alloca_inst_table)
          /\ generating' = Append(generating, Len(functions) + 1)
          /\ UNCHANGED status
     ELSE status' = "crashed" /\ UNCHANGED <<bound, functions, alloca_inst_table, generating>>

GenerateCall ==
  /\ Generating /\ ItemLeft /\ IsCall(Item) /\ Len(generating) < MaxDepth
  /\ LET f == At(Item).callee
         given == generic_arguments[Item]
         name == MangledName(f, given)
     IN CASE Named(<<f>>) # {} ->
               /\ functions' = Use(CHOOSE i \in Named(<<f>>) : TRUE)
               /\ UNCHANGED <<bound, alloca_inst_table, generating, status>>
          [] Named(<<f>>) = {} /\ is_defined(alloca_inst_table, name) ->
               /\ functions' = Use(lookup(alloca_inst_table, name))
               /\ UNCHANGED <<bound, alloca_inst_table, generating, status>>
          [] OTHER -> resolve_generic_function(f, given)
  /\ UNCHANGED <<program, tree, types_table, generic_types, frames, result>>

\* The instance is defined in the scope of the function that needed it.
LeaveFunction ==
  /\ Generating /\ ~ItemLeft
  /\ IF Len(generating) = 1
     THEN status' = "generated" /\ UNCHANGED <<alloca_inst_table, bound>>
     ELSE /\ alloca_inst_table' = define(pop_current_scope(alloca_inst_table),
                                         functions[Last(generating)].name, Last(generating))
          /\ bound' = <<>>
          /\ UNCHANGED status
  /\ generating' = Front(generating)
  /\ UNCHANGED <<program, tree, types_table, generic_types, frames, result, functions>>

-----------------------------------------------------------------------------
(* The reference: every instance is a copy of the declaration as it was    *)
(* written, with the types written out.                                    *)

bad == [kind |-> "BAD"]
\* The type t of the source where type parameters are b.
RECURSIVE Written(_, _), WrittenAll(_, _)
WrittenAll(ts, b) ==
  IF ts = <<>> THEN <<>> ELSE <<Written(Head(ts), b)>> \o WrittenAll(Tail(ts), b)
Written(t, b) ==
  CASE t.kind = "GENERIC_PARAMETER" -> IF t.name \in DOMAIN b THEN b[t.name] ELSE null_pointer
    [] t.kind = "POINTER" -> Pointer(Written(t.base, b))
    [] t.kind = "STATIC_ARRAY" -> StaticArray(Written(t.element, b), t.size)
    [] t.kind = "TUPLE" -> TupleType(WrittenAll(t.fields, b))
    [] t.kind = "FUNCTION" ->
         [t EXCEPT !.return = Written(t.return, b), !.parameters = WrittenAll(t.parameters, b)]
    [] t.kind = "GENERIC_STRUCT" ->
         LET ps == WrittenAll(t.parameters, b)
             struct == Structs[t.struct.name]
         IN StructType(t.struct.name \o mangle_types(ps), <<>>,
                       WrittenAll(struct.fields, Bindings(struct.generics, ps)), ps)
    [] OTHER -> t

Equal(t, other) == t # bad /\ other # bad /\ is_types_equals(t, other)
EqualAll(ts, others) == Len(ts) = Len(others) /\ \A i \in DOMAIN ts : Equal(ts[i], others[i])

\* The generic arguments of the call e of d, <<>> when it has none, and its type.
CopyGiven(e, d, types, b) ==
  CASE Len(types) # Len(d.parameters) \/ bad \in ToSet(types) -> <<>>
    [] e.generic # <<>> -> IF Len(e.generic) = Len(d.generics) THEN WrittenAll(e.generic, b)
                                                               ELSE <<>>
    [] OTHER -> Inferred(d.generics, d.parameters, types)
ReturnedBy(d, c, types) ==
  IF EqualAll(WrittenAll(d.parameters, c), types) THEN Written(d.return, c) ELSE bad
CopyCall(d, given, types) ==
  IF given = <<>> THEN bad ELSE ReturnedBy(d, Bindings(d.generics, given), types)
CopyInit(s, types) == IF EqualAll(s.fields, types) THEN s ELSE bad

\* The type of an expression where names have the types env and type parameters are b;
\* bad when it has none.
RECURSIVE CopyType(_, _, _)
CopyTypes(es, env, b) == [i \in DOMAIN es |-> CopyType(es[i], env, b)]
CopyNode(e, types, env, b) ==
  CASE e.kind = "name"  -> env[e.name]
    [] e.kind = "value" -> e.type
    [] e.kind = "size"  -> i64_type
    [] e.kind = "init"  -> CopyInit(Written(e.type, b), types)
    [] e.kind = "call"  ->
         CopyCall(program[e.callee], CopyGiven(e, program[e.callee], types, b), types)
CopyType(e, env, b) ==
  CopyNode(e, IF e.kind \in {"init", "call"} THEN CopyTypes(e.arguments, env, b) ELSE <<>>, env, b)
Arguments(f, given) == Bindings(program[f].generics, given)

\* The names after a statement, and before statement k, with their types.
After(s, env, b) ==
  IF s.kind # "field" THEN env
  ELSE s.name :> (IF s.type # none_type THEN Written(s.type, b) ELSE CopyType(s.value, env, b)) @@ env
RECURSIVE EnvBefore(_, _, _)
EnvBefore(d, k, b) ==
  IF k = 1 THEN Bindings(d.names, WrittenAll(d.parameters, b))
           ELSE After(d.body[k - 1], EnvBefore(d, k - 1, b), b)

\* What the copy uses for an item: a type, or the generic arguments of the callee.
CopyItem(id, s, env, b) ==
  CASE IsCall(id) ->
         CopyGiven(At(id), program[At(id).callee], CopyTypes(At(id).arguments, env, b), b)
    [] IsVariable(id) /\ s.type = none_type -> CopyType(s.value, env, b)
    [] OTHER -> Written(WrittenAt(id), b)
CopyUse(f, given, id) ==
  CopyItem(id, Body(f)[id[2]], EnvBefore(program[f], id[2], Arguments(f, given)), Arguments(f, given))

StatementAccepted(s, return, t, b) ==
  CASE s.kind = "field" -> t # bad /\ (s.type # none_type => Equal(Written(s.type, b), t))
    [] s.kind = "return" -> Equal(Written(return, b), t)
    [] OTHER -> t # bad
BodyAccepted(d, b) ==
  \A k \in DOMAIN d.body :
    StatementAccepted(d.body[k], d.return, CopyType(d.body[k].value, EnvBefore(d, k, b), b), b)
RECURSIVE CopyAccepted(_, _)
CopyAccepted(f, given) ==
  /\ BodyAccepted(program[f], Arguments(f, given))
  /\ \A id \in Calls(f) : CopyAccepted(At(id).callee, CopyUse(f, given, id))

-----------------------------------------------------------------------------
(* Features of programs: where the shared tree cannot keep what two copies *)
(* of a function need, and where names or the scope of generic_types fail. *)

RECURSIVE Copies(_, _)
CopiesCalled(id, given) == IF given = <<>> THEN {} ELSE Copies(At(id).callee, given)
Copies(f, given) ==
  {<<f, given>>} \cup UNION {CopiesCalled(id, CopyUse(f, given, id)) : id \in Calls(f)}

RECURSIVE Mentions(_, _)
Mentions(t, kinds) ==
  \/ t.kind \in kinds
  \/ CASE t.kind = "POINTER" -> Mentions(t.base, kinds)
       [] t.kind = "STATIC_ARRAY" -> Mentions(t.element, kinds)
       [] t.kind \in {"FUNCTION", "GENERIC_STRUCT"} ->
            \E i \in DOMAIN t.parameters : Mentions(t.parameters[i], kinds)
       [] OTHER -> FALSE
InPlace(t)    == Mentions(t, {"GENERIC_STRUCT", "FUNCTION"})
Parametric(t) == Mentions(t, {"GENERIC_PARAMETER"})

\* The feature of a program in which two copies of its function need different things
\* of a node that keeps one; "none" for a node that keeps what was written.
Keeper(id) ==
  LET written == Body(id[1])[id[2]].type IN
  CASE IsCall(id) -> IF At(id).generic = <<>> THEN "shared_call" ELSE "none"
    [] IsVariable(id) -> IF written = none_type \/ InPlace(written) THEN "shared_variable"
                                                                     ELSE "none"
    [] OTHER -> IF At(id).kind = "size" THEN "shared_size" ELSE "shared_initialisation"

RECURSIVE Called(_)
Called(fs) ==
  LET more == fs \cup {At(id).callee : id \in UNION {Calls(f) : f \in fs}}
  IN IF more = fs THEN fs ELSE Called(more)
CallsItself == \E f \in DOMAIN program : f \in Called({At(id).callee : id \in Calls(f)})

\* A node of the source, a copy of its function, and what that copy uses there.
UsesOf(copies) ==
  UNION {{[id |-> id, copy |-> c, use |-> CopyUse(c[1], c[2], id)] : id \in ToSet(Items(c[1]))} :
         c \in copies}
Shared(uses)      == {Keeper(u.id) : u \in {v \in uses : \E w \in uses : w.id = v.id /\ w.use # v.use}}
CallsOf(f, uses)  == {u \in uses : IsCall(u.id) /\ At(u.id).callee = f}
InstancesOf(s, uses) ==
  {u.use : u \in {v \in uses : /\ ~IsVariable(v.id) /\ At(v.id).kind = "init"
                               /\ is_struct_type(v.use) /\ IsPrefix(s, v.use.name)}}
NameOf(copy)      == <<copy[1]>> \o mangle_types(copy[2])
FeaturesOf(copies, uses, ids) ==
  Shared(uses) \cup
  {w \in {"recursive"} : CallsItself} \cup
  {w \in {"shared_signature"} : \E f \in DOMAIN program :
     /\ Cardinality(CallsOf(f, uses)) > 1
     /\ \E t \in ToSet(program[f].parameters) \cup {program[f].return} : InPlace(t) /\ Parametric(t)}
  \cup
  {w \in {"shared_template"} : \E s \in DOMAIN Structs :
     Cardinality(InstancesOf(s, uses)) > 1 /\ \E t \in ToSet(Structs[s].fields) : InPlace(t)} \cup
  {w \in {"parameter_given"} : \E id \in ids :
     IsCall(id) /\ \E i \in DOMAIN At(id).generic : Parametric(At(id).generic[i])} \cup
  {w \in {"type_after_call"} : \E id, call \in ids :
     /\ IsCall(call) /\ ~IsCall(id) /\ call[1] = id[1] /\ call[2] < id[2]
     /\ Parametric(WrittenAt(id))} \cup
  {w \in {"unnamed"} : \E c, d \in copies :
     /\ c # d /\ c[1] # "main" /\ d[1] # "main"
     /\ NameOf(c) \in {NameOf(d), <<d[1]>>}}
\* (The sets of one element are for TLC, which then computes copies and uses once.)
Features ==
  UNION {UNION {FeaturesOf(copies, uses, UNION {ToSet(Items(f)) : f \in DOMAIN program}) :
                uses \in {UsesOf(copies)}} :
         copies \in {IF CallsItself THEN {} ELSE Copies("main", <<>>)}}

-----------------------------------------------------------------------------
Init ==
  /\ CheckerInit
  /\ Features \cap Excluded = {}
  /\ functions = <<>> /\ alloca_inst_table = <<>> /\ bound = <<>> /\ generating = <<>>

Finished == status \in {"stopped", "crashed", "generated"} /\ UNCHANGED vars

Check    == CheckerNext /\ UNCHANGED <<functions, alloca_inst_table, bound, generating>>
Next     == Check \/ StartGenerating \/ GenerateType \/ GenerateCall \/ LeaveFunction \/ Finished

Spec     == Init /\ [][Next]_vars

-----------------------------------------------------------------------------
TypeOK ==
  /\ status \in {"checking", "stopped", "crashed", "checked", "generating", "generated"}
  /\ \A i \in DOMAIN frames :
       /\ frames[i].f \in DOMAIN program
       /\ frames[i].phase \in {"infer", "bind", "body", "arguments", "check"}
  /\ status = "checking" =>
       Len(types_table) = 1 + Cardinality({i \in DOMAIN frames : frames[i].phase = "body"})
  /\ status = "generating" => Len(alloca_inst_table) = 1 + Len(generating)
  /\ \A i \in DOMAIN functions : Len(functions[i].uses) <= Len(Items(functions[i].f))

(* A program is accepted exactly when every copy of its functions is: what *)
(* earlier calls left in the tree changes no verdict, and nothing crashes. *)
AcceptedAsCopies ==
  /\ status = "stopped" => ~CopyAccepted("main", <<>>)
  /\ status = "checked" => CopyAccepted("main", <<>>)
  /\ status # "crashed"

(* A call whose body is being checked has the types of its own copy,       *)
(* whatever calls before it or inside it had.                              *)
CallerOf(i) == CHOOSE j \in 1 .. i - 1 :
                 /\ frames[j].phase = "body"
                 /\ \A k \in j + 1 .. i - 1 : frames[k].phase # "body"
CallsAsCopies ==
  /\ TypeOK
  /\ Len(frames) > 1 /\ InBody =>
    LET caller == frames[CallerOf(Len(frames))]
        b == Arguments(top.f, top.given)
    IN /\ top.given = CopyUse(caller.f, caller.given, top.id)
       /\ top.parameters = WrittenAll(program[top.f].parameters, b)
       /\ top.return = Written(program[top.f].return, b)

(* A generated function has the signature and the types of its copy, and   *)
(* calls the instances the copy calls.                                     *)
GeneratedAsCopies ==
  status = "generated" => \A i \in DOMAIN functions :
    LET f == functions[i]
        b == Arguments(f.f, f.given)
    IN /\ f.parameters = WrittenAll(program[f.f].parameters, b)
       /\ f.f # "main" => f.return = Written(program[f.f].return, b)
       /\ \A k \in DOMAIN f.uses :
            LET id == Items(f.f)[k]
                expected == CopyUse(f.f, f.given, id)
            IN IF IsCall(id) THEN /\ functions[f.uses[k]].f = At(id).callee
                                  /\ functions[f.uses[k]].given = expected
               ELSE f.uses[k] = expected
=============================================================================
