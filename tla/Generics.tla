------------------------------ MODULE Generics ------------------------------
(***************************************************************************)
(* Calls of generic functions in the type checker (amun_typechecker.cpp):  *)
(* the types are inferred from the arguments or given, the declaration is  *)
(* resolved with them, and its body is visited again for every call.       *)
(*                                                                         *)
(* All calls share one syntax tree, whose types are objects.  What the     *)
(* checker changes in place or notes in a node is state here: signatures,  *)
(* templates, node_types and generic_arguments.                            *)
(*                                                                         *)
(* A program is, for each function, main among them, its declaration and   *)
(* the statements of its body.  <<f, k>> is the value of statement k of f, *)
(* <<f, k, 0>> the declared type of statement k, Append(id, j) argument j  *)
(* of the expression id.                                                   *)
(***************************************************************************)
EXTENDS Types, ScopedMap, TLC

CONSTANTS
  Programs,   \* the programs to compile
  Structs,    \* generic structures: their parameters and fields
  MaxDepth    \* bound: calls inside calls

VARIABLES
  program,
  signatures,         \* of the prototypes: parameters and return types
  templates,          \* of the generic structures: fields_types
  node_types,         \* the type in a node: of a declaration, type_size or initialisation
  generic_arguments,  \* per call
  types_table,
  generic_types,      \* type parameters and what they stand for
  frames,             \* the calls being checked, outermost first
  result,             \* the type of the call that was just left
  status              \* "checking", "stopped" by an error, "crashed", "checked"

tree    == <<signatures, templates, node_types, generic_arguments>>
checker == <<program, tree, types_table, generic_types, frames, result, status>>

null_pointer == [kind |-> "NULL_POINTER"]

Body(f) == program[f].body
RECURSIVE At(_)
At(id) == IF Len(id) = 2 THEN Body(id[1])[id[2]].value
                         ELSE At(Front(id)).arguments[id[Len(id)]]

-----------------------------------------------------------------------------
(* Resolving a type.  S is what it may change besides the type: the table  *)
(* of names, the type parameters and the templates.  It gives the resolved *)
(* type, and the object it was given as it is afterwards.                  *)

Tables == [table |-> types_table, generics |-> generic_types, templates |-> templates]
SetTables(S) ==
  types_table' = S.table /\ generic_types' = S.generics /\ templates' = S.templates

index_of(names, name) == IF name \in ToSet(names) THEN CHOOSE i \in DOMAIN names : names[i] = name
                                                  ELSE 0
RECURSIVE Bindings(_, _)
Bindings(names, ts) == IF names = <<>> THEN <<>>
                       ELSE Head(names) :> Head(ts) @@ Bindings(Tail(names), Tail(ts))
StandsFor(S, name) == IF name \in DOMAIN S.generics THEN S.generics[name] ELSE null_pointer
Resolved(t, object, S) == [type |-> t, object |-> object, S |-> S]

RECURSIVE resolve_generic_type(_, _, _, _), ResolveAll(_, _, _, _)
ResolveAll(ts, names, ps, S) ==
  IF ts = <<>> THEN [types |-> <<>>, objects |-> <<>>, S |-> S]
  ELSE LET first == resolve_generic_type(Head(ts), names, ps, S)
           others == ResolveAll(Tail(ts), names, ps, first.S)
       IN [types |-> <<first.type>> \o others.types, S |-> others.S,
           objects |-> <<first.object>> \o others.objects]

\* Only a parameter that is a type parameter itself is replaced, and in the object.
RECURSIVE Replaced(_, _, _, _)
Replaced(parameters, names, ps, S) ==
  IF parameters = <<>> THEN <<>>
  ELSE LET p == Head(parameters)
           i == IF p.kind = "GENERIC_PARAMETER" THEN index_of(names, p.name) ELSE 0
       IN <<IF i # 0 THEN ps[i]
            ELSE IF p.kind = "GENERIC_PARAMETER" THEN StandsFor(S, p.name) ELSE p>>
          \o Replaced(Tail(parameters), names, ps, S)

InstanceOf(t, names, ps, S) ==
  LET args == Replaced(t.parameters, names, ps, S)
      mangled_name == t.struct.name \o mangle_types(args)
      object == GenericStruct(t.struct, args)
      fields == ResolveAll(S.templates[t.struct.name], Structs[t.struct.name].generics, args, S)
      new_struct == StructType(mangled_name, <<>>, fields.types, args)
  IN IF is_defined(S.table, mangled_name)
     THEN Resolved(lookup(S.table, mangled_name), object, S)
     ELSE Resolved(new_struct, object,
                   [fields.S EXCEPT !.templates[t.struct.name] = fields.objects,
                                    !.table = define(@, mangled_name, new_struct)])

resolve_generic_type(t, names, ps, S) ==
  CASE t.kind = "GENERIC_PARAMETER" ->
         IF index_of(names, t.name) # 0
         THEN LET p == ps[index_of(names, t.name)]
              IN Resolved(p, t, [S EXCEPT !.generics = Bind(@, t.name, p)])
         ELSE Resolved(StandsFor(S, t.name), t, S)
    [] t.kind = "POINTER" ->
         LET r == resolve_generic_type(t.base, names, ps, S)
         IN Resolved(Pointer(r.type), Pointer(r.object), r.S)
    [] t.kind = "STATIC_ARRAY" ->
         LET r == resolve_generic_type(t.element, names, ps, S)
         IN Resolved(StaticArray(r.type, t.size), StaticArray(r.object, t.size), r.S)
    [] t.kind = "FUNCTION" ->
         LET all == ResolveAll(<<t.return>> \o t.parameters, names, ps, S)
             same == [t EXCEPT !.return = Head(all.types), !.parameters = Tail(all.types)]
         IN Resolved(same, same, all.S)
    [] t.kind = "GENERIC_STRUCT" -> InstanceOf(t, names, ps, S)
    [] t.kind = "TUPLE" ->
         LET all == ResolveAll(t.fields, names, ps, S)
         IN Resolved(TupleType(all.types), TupleType(all.objects), all.S)
    [] OTHER -> Resolved(t, t, S)
Resolve(t, S) == resolve_generic_type(t, <<>>, <<>>, S)
RECURSIVE StructsResolved(_, _)
StructsResolved(ts, S) ==
  IF ts = <<>> THEN [types |-> <<>>, S |-> S]
  ELSE LET first == IF is_generic_struct_type(Head(ts)) THEN Resolve(Head(ts), S)
                    ELSE Resolved(Head(ts), Head(ts), S)
           others == StructsResolved(Tail(ts), first.S)
       IN [types |-> <<first.type>> \o others.types, S |-> others.S]

\* What the type parameters in t must be for t to be other; the first finding counts.
RECURSIVE infier_type_by_other_type(_, _), InferAll(_, _)
InferAll(ts, others) ==
  IF others = <<>> THEN <<>>
  ELSE infier_type_by_other_type(Head(ts), Head(others)) @@ InferAll(Tail(ts), Tail(others))
infier_type_by_other_type(t, other) ==
  CASE t.kind = "GENERIC_PARAMETER" -> t.name :> other
    [] is_function_pointer_type(t) /\ is_function_pointer_type(other) ->
         IF Len(t.base.parameters) = Len(other.base.parameters)
         THEN InferAll(<<t.base.return>> \o t.base.parameters,
                       <<other.base.return>> \o other.base.parameters)
         ELSE <<>>
    [] is_pointer_type(t) /\ is_pointer_type(other) ->
         infier_type_by_other_type(t.base, other.base)
    [] is_array_type(t) /\ is_array_type(other) ->
         infier_type_by_other_type(t.element, other.element)
    [] is_generic_struct_type(t) /\ is_struct_type(other) ->
         InferAll(t.parameters, other.instance)
    [] is_generic_struct_type(t) /\ is_generic_struct_type(other) ->
         IF t.struct.name = other.struct.name THEN InferAll(t.parameters, other.parameters)
                                              ELSE <<>>
    [] is_tuple_type(t) /\ is_tuple_type(other) ->
         IF Len(t.fields) = Len(other.fields) THEN InferAll(t.fields, other.fields) ELSE <<>>
    [] OTHER -> <<>>

\* The generic arguments of a call, of these argument types: <<>> if not all are found.
RECURSIVE Found(_, _)
Found(parameters, types) ==
  IF types = <<>> THEN <<>>
  ELSE (IF is_types_equals(Head(parameters), Head(types)) THEN <<>>
        ELSE infier_type_by_other_type(Head(parameters), Head(types)))
       @@ Found(Tail(parameters), Tail(types))
Inferred(names, parameters, types) ==
  LET found == Found(parameters, types)
  IN IF ToSet(names) \subseteq DOMAIN found THEN [i \in DOMAIN names |-> found[names[i]]]
                                            ELSE <<>>

-----------------------------------------------------------------------------
(* Frames.  The phases of a call: "infer" visits the arguments, "bind"     *)
(* resolves the declaration, "body" visits the body, "arguments" visits    *)
(* the arguments again, and so does "check", which compares their types.   *)

Frame(id, f, phase, return) ==
  [id |-> id, f |-> f, phase |-> phase, at |-> 1, types |-> <<>>,
   given |-> <<>>, parameters |-> <<>>, return |-> return]

top   == frames[Len(frames)]
Above == Front(frames)
Replace(f) == Append(Above, f)

InBody    == top.phase = "body"
OperandId == IF InBody THEN <<top.f, top.at>> ELSE Append(top.id, top.at)
More      == CASE InBody -> top.at <= Len(Body(top.f))
               [] top.phase = "bind" -> FALSE
               [] OTHER -> top.at <= Len(At(top.id).arguments)
Operand   == At(OperandId)
Running   == status = "checking"
Ready     == Running /\ More /\ (Operand.kind = "call" => result # none_type)

Stop(why) == status' = why /\ UNCHANGED <<program, tree, types_table, generic_types, frames, result>>

ArgumentTypes(id, S) ==
  [j \in DOMAIN At(id).arguments |->
     LET a == At(id).arguments[j]
     IN IF a.kind = "name" THEN lookup(S.table, <<a.name>>) ELSE a.type]

\* The type of the operand, the type its node has now, and whether it is accepted.
Plain(t, S)    == [type |-> t, S |-> S, node |-> none_type, ok |-> TRUE]
ValueOfNode(r) ==
  IF Operand.kind = "size" THEN [type |-> i64_type, S |-> r.S, node |-> r.type, ok |-> TRUE]
  ELSE [type |-> r.type, S |-> r.S, node |-> r.type,
        ok |-> AllEqual(r.type.fields, ArgumentTypes(OperandId, r.S))]
Value(S) ==
  CASE Operand.kind = "name"  -> Plain(lookup(S.table, <<Operand.name>>), S)
    [] Operand.kind = "value" -> Plain(Operand.type, S)
    [] Operand.kind = "call"  -> Plain(result, S)
    [] OTHER -> ValueOfNode(Resolve(node_types[OperandId], S))
Noted(v) == IF v.node = none_type THEN node_types
                                  ELSE [node_types EXCEPT ![OperandId] = v.node]

-----------------------------------------------------------------------------
(* Calls.                                                                  *)

EnterCall ==
  /\ Running /\ More /\ Operand.kind = "call" /\ result = none_type
  /\ Len(frames) < MaxDepth
  /\ LET inferring == generic_arguments[OperandId] = <<>>
         parameters == signatures[Operand.callee].parameters
     IN IF \/ Len(parameters) # Len(Operand.arguments)
           \/ (inferring /\ parameters = <<>>)
        THEN Stop("stopped")
        ELSE /\ frames' = Append(frames, Frame(OperandId, Operand.callee,
                                   IF inferring THEN "infer" ELSE "bind", none_type))
             /\ UNCHANGED <<program, tree, types_table, generic_types, result, status>>

VisitArgument ==
  /\ Ready /\ ~InBody
  /\ LET v == Value(Tables)
     IN IF ~v.ok THEN Stop("stopped")
        ELSE /\ SetTables(v.S)
             /\ node_types' = Noted(v)
             /\ frames' = Replace([top EXCEPT !.at = @ + 1, !.types = Append(@, v.type)])
             /\ result' = none_type
             /\ UNCHANGED <<program, signatures, generic_arguments, status>>

\* The declaration is resolved with the generic arguments, the return type first,
\* and the parameters are defined in a new scope on top of those of the caller.
ResolvesInPlace(f, return, all) ==                       \* mutant: not only what is inside
  [signatures EXCEPT ![f] = [parameters |-> all.types, return |-> return.type]]
ResolvedSignature(f, return, all) ==
  [signatures EXCEPT ![f] = [parameters |-> all.objects, return |-> return.object]]
BindCall ==
  /\ Running /\ top.phase \in {"infer", "bind"} /\ ~More
  /\ LET names == program[top.f].generics
         signature == signatures[top.f]
         given == IF top.phase = "bind" THEN generic_arguments[top.id]
                  ELSE Inferred(names, signature.parameters, top.types)
         bound == [Tables EXCEPT !.generics = Bindings(names, given) @@ @]
         return == resolve_generic_type(signature.return, names, given, bound)
         all == ResolveAll(signature.parameters, names, given, return.S)
         scope == Append(all.S.table, Bindings([i \in DOMAIN all.types |->
                                                 <<program[top.f].names[i]>>], all.types))
     IN IF Len(given) # Len(names) THEN Stop("stopped")
        ELSE /\ SetTables([all.S EXCEPT !.table = scope])
             /\ signatures' = ResolvedSignature(top.f, return, all)
             /\ generic_arguments' = [generic_arguments EXCEPT ![top.id] = given]
             /\ frames' = Replace([top EXCEPT !.phase = "body", !.at = 1, !.types = <<>>,
                                     !.given = given, !.parameters = all.types,
                                     !.return = return.type])
             /\ UNCHANGED <<program, node_types, result, status>>

KeepsParameters == types_table                            \* mutant: no scope is popped
WithoutParameters == pop_current_scope(types_table)
LeaveBody ==
  /\ Running /\ InBody /\ ~More
  /\ types_table' = WithoutParameters
  /\ IF Above = <<>>
     THEN status' = "checked" /\ UNCHANGED frames
     ELSE frames' = Replace([top EXCEPT !.phase = "arguments", !.at = 1]) /\ UNCHANGED status
  /\ UNCHANGED <<program, tree, generic_types, result>>

CheckAgain ==
  /\ Running /\ top.phase = "arguments" /\ ~More
  /\ frames' = Replace([top EXCEPT !.phase = "check", !.at = 1, !.types = <<>>])
  /\ UNCHANGED <<program, tree, types_table, generic_types, result, status>>

\* check_parameters_types, and the end of the call.
FirstAccepted(parameters, arguments) ==                   \* mutant: stops at the first
  parameters = <<>> \/ is_types_equals(Head(parameters), Head(arguments))
check_parameters_types(parameters, arguments) == AllEqual(parameters, arguments)
LeaveCall ==
  /\ Running /\ top.phase = "check" /\ ~More
  /\ LET arguments  == StructsResolved(top.types, Tables)
         parameters == StructsResolved(top.parameters, arguments.S)
     IN IF ~check_parameters_types(parameters.types, arguments.types) THEN Stop("stopped")
        ELSE /\ SetTables([parameters.S EXCEPT !.generics = <<>>])
             /\ frames' = Above
             /\ result' = top.return
             /\ UNCHANGED <<program, signatures, node_types, generic_arguments, status>>

-----------------------------------------------------------------------------
(* Statements of a body.                                                   *)

Statement(kind) == Ready /\ InBody /\ Body(top.f)[top.at].kind = kind
NextStatement   == frames' = Replace([top EXCEPT !.at = @ + 1]) /\ result' = none_type

ExpressionStatement ==
  /\ Statement("expression")
  /\ LET v == Value(Tables)
     IN IF ~v.ok THEN Stop("stopped")
        ELSE /\ SetTables(v.S) /\ node_types' = Noted(v) /\ NextStatement
             /\ UNCHANGED <<program, signatures, generic_arguments, status>>

ReturnStatement ==
  /\ Statement("return")
  /\ LET v == Value(Tables)
         expected == Resolve(top.return, v.S)
     IN IF expected.type = null_pointer THEN Stop("crashed")
        ELSE IF ~v.ok \/ ~is_types_equals(expected.type, v.type) THEN Stop("stopped")
        ELSE /\ SetTables(expected.S) /\ node_types' = Noted(v) /\ NextStatement
             /\ UNCHANGED <<program, signatures, generic_arguments, status>>

\* A variable.  An initialisation of a generic structure that is visited for the
\* first time gives the variable its type, whatever type is declared.
FieldDeclaration ==
  /\ Statement("field")
  /\ LET id == Append(OperandId, 0)
         name == Body(top.f)[top.at].name
         declared == Body(top.f)[top.at].type # none_type
         left == IF declared THEN Resolve(node_types[id], Tables)
                 ELSE Resolved(none_type, node_types[id], Tables)
         v == Value(left.S)
         first_visit == Operand.kind = "init" /\ is_generic_struct_type(node_types[OperandId])
         takes_value == first_visit \/ ~declared
         noted == CASE first_visit -> Resolve(node_types[OperandId], Tables).object
                    [] ~declared -> v.type
                    [] OTHER -> left.object
     IN IF left.type = null_pointer THEN Stop("crashed")
        ELSE IF ~v.ok \/ (~takes_value /\ ~is_types_equals(left.type, v.type)) THEN Stop("stopped")
        ELSE /\ SetTables([v.S EXCEPT !.table =
                  define(@, <<name>>, IF takes_value THEN v.type ELSE left.type)])
             /\ node_types' = [Noted(v) EXCEPT ![id] = noted]
             /\ NextStatement
             /\ UNCHANGED <<program, signatures, generic_arguments, status>>

-----------------------------------------------------------------------------
\* The expressions of a body, outermost first.
RECURSIVE Inside(_, _)
Inside(e, id) ==
  {id} \cup (IF e.kind \in {"call", "init"}
             THEN UNION {Inside(e.arguments[j], Append(id, j)) : j \in DOMAIN e.arguments} ELSE {})
Nodes(p) == UNION {UNION {Inside(p[f].body[k].value, <<f, k>>) : k \in DOMAIN p[f].body}
                   : f \in DOMAIN p}

CheckerInit ==
  /\ program \in Programs
  /\ signatures = [f \in DOMAIN program |->
                     [parameters |-> program[f].parameters, return |-> program[f].return]]
  /\ templates = [s \in DOMAIN Structs |-> Structs[s].fields]
  /\ LET nodes == Nodes(program)
         declarations == {<<f, k, 0>> : f \in DOMAIN program, k \in 1 .. 9}
         typed == {id \in nodes : At(id).kind \in {"size", "init"}}
         fields == {d \in declarations :
                      d[2] \in DOMAIN Body(d[1]) /\ Body(d[1])[d[2]].kind = "field"}
     IN /\ node_types = [id \in typed \cup fields |->
                           IF id \in typed THEN At(id).type ELSE Body(id[1])[id[2]].type]
        /\ generic_arguments = [id \in {n \in nodes : At(n).kind = "call"} |-> At(id).generic]
  /\ types_table = << <<>>, <<>> >>
  /\ generic_types = <<>>
  /\ frames = <<Frame(<<>>, "main", "body", i64_type)>>
  /\ result = none_type
  /\ status = "checking"

CheckerNext ==
  \/ EnterCall \/ VisitArgument \/ BindCall \/ LeaveBody \/ CheckAgain \/ LeaveCall
  \/ ExpressionStatement \/ ReturnStatement \/ FieldDeclaration
=============================================================================
