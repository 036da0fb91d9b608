---------------------------- MODULE TypeChecker ----------------------------
(***************************************************************************)
(* The scopes of the type checker (amun_typechecker.cpp): which names a    *)
(* statement sees, what a lambda captures, which type a return is compared *)
(* with, and whether a function may end without one.                       *)
(*                                                                         *)
(* As in CodegenControl the visitors in progress are the variable frames,  *)
(* and any statement the parser accepts may be the next one.  Types are    *)
(* classes ("number", "pointer", ...); the rules of the expressions are in *)
(* TypeRules.  The first error, thrown as "Stop", ends the check.          *)
(***************************************************************************)
EXTENDS ScopedMap, FiniteSets

CONSTANTS
  Names,          \* names of variables and parameters
  Functions,      \* names of functions
  Values,         \* types of the values that are not names
  Returns,        \* types that functions, lambdas and instances return
  Kinds,          \* the kinds of statement the programs are made of
  InLambda,       \* those of them that may stand inside a lambda
  InInstance,     \* and inside the body of an instance of a generic function
  Unbraced,       \* kinds that may be a body without braces
  FlagAtStart,    \* what is_inside_lambda_body may hold: it is not initialised
  MaxStatements   \* bound: statements and functions of a program

Type == {"number", "pointer", "array", "string", "void", "null", "lambda", "function"}

ASSUME ConstantsAssumption ==
  /\ Values \cup Returns \subseteq Type /\ FlagAtStart \subseteq BOOLEAN /\ MaxStatements \in Nat
  /\ Names \cap (Type \cup Functions \cup {"none", "_"}) = {}
  /\ Functions \cap (Type \cup {"none", "_"}) = {}

VARIABLES
  types_table,                 \* the scopes: names to types
  return_types_stack,
  is_inside_lambda_body,
  lambda_implicit_parameters,  \* per open lambda, the names it captured
  generic_types,               \* the type parameter of the last call, {} or {type}
  frames,                      \* the visitors in progress, outermost first
  status,                      \* "checking", "stopped" by an error, or "crashed"
  visited                      \* statements visited (bounded by MaxStatements)

vars == <<types_table, return_types_stack, is_inside_lambda_body,
          lambda_implicit_parameters, generic_types, frames, status, visited>>
lambdas == <<is_inside_lambda_body, lambda_implicit_parameters>>

Callables == {"function", "lambda", "instance"}
Selects   == {"if", "switch"}
Loops     == {"while", "range", "each", "forever"}

Peek(s) == s[Len(s)]
Pop(s)  == SubSeq(s, 1, Len(s) - 1)

-----------------------------------------------------------------------------
(* Frames.  base is the number of scopes below the frame's own.  verdict,  *)
(* last, body and covered are what check_missing_return_statement will     *)
(* read off the tree: of a block its last statement that decides, and      *)
(* whether the last one is a return; of a body whether it is "covered" by  *)
(* returns ("crash": it is no block).  falls and used are history: whether *)
(* the end can be reached, and the names a callable uses that belong to    *)
(* the functions around it.                                                *)

Frame(kind) ==
  [kind |-> kind, open |-> TRUE, return |-> "void", base |-> Len(types_table),
   name |-> "_", left |-> 0, has_else |-> FALSE, verdict |-> "none", last |-> FALSE,
   body |-> "none", covered |-> "covered", falls |-> kind \notin Selects, used |-> {}]

top == Peek(frames)
InCallable(kind) == \E i \in DOMAIN frames : frames[i].kind = kind

\* A statement of kind s may come next: any in a block, some as the body of a
\* statement; the body of a function is a block or a return, that of a lambda a block.
Visits(s) ==
  /\ status = "checking" /\ frames # <<>> /\ top.open /\ visited < MaxStatements
  /\ s \in Kinds
  /\ CASE top.kind = "block" -> TRUE
       [] top.kind = "lambda" -> FALSE
       [] top.kind \in {"function", "instance"} -> s = "return"
       [] OTHER -> s \in Unbraced
  /\ InCallable("lambda") => s \in InLambda
  /\ InCallable("instance") => s \in InInstance
Leaves(kinds) ==
  status = "checking" /\ frames # <<>> /\ top.kind \in kinds /\ ~top.open
Count == visited' = visited + 1

\* A statement as the one around it sees it: what it decides for its block ("-":
\* nothing), what it is worth as a body, whether control can pass it.
Statement(decides, body, falls, is_return) ==
  [decides |-> decides, body |-> body, falls |-> falls, is_return |-> is_return]
Plain        == Statement("-", "crash", TRUE, FALSE)
JumpPast     == Statement("-", "crash", FALSE, FALSE)
ReturnPast   == Statement("-", "covered", FALSE, TRUE)

Absorb(f, s) ==
  CASE f.kind = "block" ->
         [f EXCEPT !.last = s.is_return, !.falls = @ /\ s.falls,
                   !.verdict = IF s.decides = "-" THEN @ ELSE s.decides]
    [] f.kind \in Selects ->
         [f EXCEPT !.open = FALSE, !.falls = @ \/ s.falls, !.body = s.body,
                   !.covered = IF @ = "covered" THEN s.body ELSE @]
    [] OTHER -> [f EXCEPT !.open = FALSE, !.falls = s.falls, !.body = s.body]
Absorbed(fs, s) == [fs EXCEPT ![Len(fs)] = Absorb(@, s)]

\* check_missing_return_statement, of a block and of what a block contains.
BlockCovered(f) == IF f.last THEN "covered" ELSE f.verdict
BlockSeen(f) ==
  LET b == BlockCovered(f) IN Statement(IF b = "none" THEN "-" ELSE b, b, f.falls, FALSE)
ElseForgotten(f) ==                                                       \* mutant
  IF f.covered = "none" THEN "-" ELSE f.covered
IfDecides(f) ==
  CASE f.covered = "crash" -> "crash"
    [] f.covered = "covered" /\ f.has_else -> "covered"
    [] OTHER -> "-"
\* The last case is looked at first; without a default case nothing before counts.
SwitchDecides(f) ==
  CASE ~f.has_else -> "none"
    [] f.has_else /\ f.body = "none" -> "-"
    [] f.has_else /\ f.body = "crash" -> "crash"
    [] OTHER -> IF f.covered = "none" THEN "-" ELSE f.covered
SelectSeen(f) ==
  Statement(IF f.kind = "if" THEN IfDecides(f) ELSE SwitchDecides(f), "crash",
            f.falls \/ ~f.has_else, FALSE)

-----------------------------------------------------------------------------
(* Values: a name, or a type for any other expression of that type.        *)

Unresolved(v) == v \in Names /\ ~is_defined(types_table, v)
TypeOf(v)     == IF v \in Names THEN lookup(types_table, v) ELSE v
Level(v)      == lookup_with_level(types_table, v)

CapturesAll(v) == v \in Names /\ is_inside_lambda_body /\ Level(v) # 1    \* mutant
CapturesOutside(v) ==                                                     \* mutant
  /\ v \in Names /\ ~lookup_on_current(types_table, v)
  /\ Level(v) # 1 /\ Level(v) < Len(types_table) - 1
\* A lambda captures a name that is neither in the current scope, nor global, nor
\* in one of the two scopes a lambda starts with.
Captures(v) ==
  /\ v \in Names /\ is_inside_lambda_body
  /\ ~lookup_on_current(types_table, v)
  /\ Level(v) # 1 /\ Level(v) < Len(types_table) - 1
NoLambda(v) == Captures(v) /\ lambda_implicit_parameters = <<>>

TableAfter(v) ==
  IF Captures(v) THEN define(types_table, v, TypeOf(v)) ELSE types_table
CapturesType(v) ==                                                        \* mutant
  IF Captures(v)
  THEN [lambda_implicit_parameters EXCEPT ![Len(lambda_implicit_parameters)] =
          Append(@, TypeOf(v))]
  ELSE lambda_implicit_parameters
ImplicitAfter(v) ==
  IF Captures(v)
  THEN [lambda_implicit_parameters EXCEPT ![Len(lambda_implicit_parameters)] =
          Append(@, v)]
  ELSE lambda_implicit_parameters

\* History: v belongs to a function around the callable of frame f.
Foreign(f, v) ==
  f.kind \in Callables /\ v \in Names /\ Level(v) # 1 /\ Level(v) <= f.base
Using(v) ==
  [i \in DOMAIN frames |->
     IF Foreign(frames[i], v) THEN [frames[i] EXCEPT !.used = @ \cup {v}]
     ELSE frames[i]]

Stop  == status' = "stopped" /\ UNCHANGED <<types_table, return_types_stack, lambdas,
                                            generic_types, frames, visited>>
Crash == status' = "crashed" /\ UNCHANGED <<types_table, return_types_stack, lambdas,
                                            generic_types, frames, visited>>

\* The visit of a value, then of what follows it: refused if it is reported.
Checks(v, refused, next) ==
  IF Unresolved(v) THEN Stop
  ELSE IF NoLambda(v) THEN Crash
  ELSE IF refused THEN Stop
  ELSE next /\ lambda_implicit_parameters' = ImplicitAfter(v) /\ UNCHANGED status

-----------------------------------------------------------------------------
(* Functions, lambdas and instances.                                       *)

Scope(ns, t) == [n \in ns |-> t]
PushScope(scopes, map) == Append(push_new_scope(scopes), map)

EnterFunction(f, parameters, return) ==
  /\ status = "checking" /\ frames = <<>> /\ visited < MaxStatements
  /\ IF ~Free(types_table, f) THEN Stop
     ELSE /\ types_table' = Append(define(types_table, f, "function"),
                                   Scope(parameters, "number"))
          /\ return_types_stack' = Append(return_types_stack, return)
          /\ frames' = <<[Frame("function") EXCEPT !.return = return, !.name = f]>>
          /\ Count
          /\ UNCHANGED <<lambdas, generic_types, status>>

\* A function with a value must not be missing a return.
LeaveFunction ==
  /\ Leaves({"function"})
  /\ IF top.return = "void" \/ top.body = "covered"
     THEN /\ types_table' = pop_current_scope(types_table)
          /\ return_types_stack' = Pop(return_types_stack)
          /\ frames' = <<>>
          /\ UNCHANGED <<lambdas, generic_types, status, visited>>
     ELSE IF top.body = "none" THEN Stop ELSE Crash

\* A lambda is the value of a field, which is defined when the lambda is left.
EnterLambda(n, parameters, return) ==
  /\ Visits("lambda")
  /\ types_table' = Append(types_table, Scope(parameters, "number"))
  /\ return_types_stack' = Append(return_types_stack, return)
  /\ is_inside_lambda_body' = TRUE
  /\ lambda_implicit_parameters' = Append(lambda_implicit_parameters, <<>>)
  /\ frames' = Append(frames, [Frame("lambda") EXCEPT !.return = return, !.name = n])
  /\ Count
  /\ UNCHANGED <<generic_types, status>>

KeepsFlag ==                                                              \* mutant
  LET outer == pop_current_scope(types_table) IN
  /\ Leaves({"lambda"})
  /\ IF ~Free(outer, top.name) THEN Stop
     ELSE /\ types_table' = define(outer, top.name, "lambda")
          /\ return_types_stack' = Pop(return_types_stack)
          /\ lambda_implicit_parameters' = Pop(lambda_implicit_parameters)
          /\ frames' = Absorbed(Pop(frames), Plain)
          /\ UNCHANGED <<is_inside_lambda_body, generic_types, status, visited>>

LeaveLambda ==
  LET outer == pop_current_scope(types_table) IN
  /\ Leaves({"lambda"})
  /\ IF ~Free(outer, top.name) THEN Stop
     ELSE /\ types_table' = define(outer, top.name, "lambda")
          /\ return_types_stack' = Pop(return_types_stack)
          /\ is_inside_lambda_body' = FALSE
          /\ lambda_implicit_parameters' = Pop(lambda_implicit_parameters)
          /\ frames' = Absorbed(Pop(frames), Plain)
          /\ UNCHANGED <<generic_types, status, visited>>

\* The call of a generic function: its body is visited on top of the scopes of the
\* caller, once for every call.
EnterInstance(n, type, return) ==
  /\ Visits("instance")
  /\ generic_types' = {type}
  /\ types_table' = Append(types_table, Scope({n}, type))
  /\ return_types_stack' = Append(return_types_stack, return)
  /\ frames' = Append(frames, [Frame("instance") EXCEPT !.return = return])
  /\ Count
  /\ UNCHANGED <<lambdas, status>>

KeepsReturn ==                                                            \* mutant
  /\ Leaves({"instance"})
  /\ types_table' = pop_current_scope(types_table)
  /\ generic_types' = {}
  /\ frames' = Absorbed(Pop(frames), Plain)
  /\ UNCHANGED <<return_types_stack, lambdas, status, visited>>

LeaveInstance ==
  /\ Leaves({"instance"})
  /\ types_table' = pop_current_scope(types_table)
  /\ return_types_stack' = Pop(return_types_stack)
  /\ generic_types' = {}
  /\ frames' = Absorbed(Pop(frames), Plain)
  /\ UNCHANGED <<lambdas, status, visited>>

\* A field of the type of the parameter: resolve_generic_type finds none once the
\* parameters are cleared, and what it returns is dereferenced.
GenericField(n) ==
  /\ Visits("field") /\ InCallable("instance")
  /\ IF generic_types = {} THEN Crash
     ELSE IF ~Free(types_table, n) THEN Stop
     ELSE /\ types_table' = define(types_table, n, CHOOSE t \in generic_types : TRUE)
          /\ frames' = Absorbed(frames, Plain)
          /\ Count
          /\ UNCHANGED <<return_types_stack, lambdas, generic_types, status>>

-----------------------------------------------------------------------------
(* Blocks and control statements.                                          *)

EnterBlock ==
  /\ status = "checking" /\ frames # <<>> /\ top.open
  /\ IF top.kind = "block" THEN Visits("block") /\ Count ELSE UNCHANGED visited
  /\ types_table' = push_new_scope(types_table)
  /\ frames' = Append(frames, Frame("block"))
  /\ UNCHANGED <<return_types_stack, lambdas, generic_types, status>>

LeaveBlock ==
  /\ status = "checking" /\ frames # <<>> /\ top.kind = "block"
  /\ types_table' = pop_current_scope(types_table)
  /\ frames' = Absorbed(Pop(frames), BlockSeen(top))
  /\ UNCHANGED <<return_types_stack, lambdas, generic_types, status, visited>>

\* An if or a switch with a number of branches: the scope of a branch is opened
\* after its condition is visited.
EnterSelect(kind, branches, has_else, v) ==
  /\ Visits(kind)
  /\ Checks(v, TypeOf(v) # "number",
       /\ types_table' = push_new_scope(TableAfter(v))
       /\ frames' = Append(Using(v), [Frame(kind) EXCEPT
                                        !.left = branches - 1, !.has_else = has_else])
       /\ Count
       /\ UNCHANGED <<return_types_stack, is_inside_lambda_body, generic_types>>)

Reopened(f) == [f EXCEPT !.open = TRUE, !.left = @ - 1]
NextBranch(v) ==
  LET outer == pop_current_scope(types_table) IN
  /\ Leaves(Selects) /\ top.left > 0
  /\ v = "number"
  /\ types_table' = push_new_scope(outer)
  /\ frames' = [frames EXCEPT ![Len(frames)] = Reopened(@)]
  /\ UNCHANGED <<return_types_stack, lambdas, generic_types, status, visited>>

KeepsScope ==                                                             \* mutant
  /\ Leaves(Selects) /\ top.left = 0
  /\ frames' = Absorbed(Pop(frames), SelectSeen(top))
  /\ UNCHANGED <<types_table, return_types_stack, lambdas, generic_types, status, visited>>

LeaveSelect ==
  /\ Leaves(Selects) /\ top.left = 0
  /\ types_table' = pop_current_scope(types_table)
  /\ frames' = Absorbed(Pop(frames), SelectSeen(top))
  /\ UNCHANGED <<return_types_stack, lambdas, generic_types, status, visited>>

\* The four loops; n is the name of the element, "_" for none, and i the index.
Elements(kind, n, i, t) ==
  CASE kind = "range" -> Scope({n}, t)
    [] kind = "each" -> Scope({n, i} \ {"_"}, "number")
    [] OTHER -> <<>>
LoopOver(kind) ==
  CASE kind \in {"while", "range"} -> {"number"}
    [] kind = "each" -> {"array", "string"}
    [] OTHER -> {"number"}
LoopNames(kind, n, i) ==
  CASE kind = "range" -> n # "_" /\ i = "_"
    [] kind = "each" -> TRUE
    [] OTHER -> n = "_" /\ i = "_"
EnterLoop(kind, v, n, i) ==
  /\ Visits(kind) /\ LoopNames(kind, n, i)
  /\ Checks(v, TypeOf(v) \notin LoopOver(kind),
       /\ types_table' = Append(TableAfter(v), Elements(kind, n, i, TypeOf(v)))
       /\ frames' = Append(Using(v), Frame(kind))
       /\ Count
       /\ UNCHANGED <<return_types_stack, is_inside_lambda_body, generic_types>>)

LeaveLoop ==
  /\ Leaves(Loops)
  /\ types_table' = pop_current_scope(types_table)
  /\ frames' = Absorbed(Pop(frames), Plain)
  /\ UNCHANGED <<return_types_stack, lambdas, generic_types, status, visited>>

-----------------------------------------------------------------------------
(* The other statements.                                                   *)

\* What a declared type ("none": not given) and the type of the value do not allow.
FieldRefused(declared, t) ==
  \/ t = "void"
  \/ t = "null" /\ declared # "pointer"
  \/ t # "null" /\ declared \notin {"none", t}

Field(n, declared, v) ==
  /\ Visits("field")
  /\ Checks(v, FieldRefused(declared, TypeOf(v)) \/ ~Free(TableAfter(v), n),
       /\ types_table' = define(TableAfter(v), n,
                                IF declared = "none" THEN TypeOf(v) ELSE declared)
       /\ frames' = Absorbed(Using(v), Plain)
       /\ Count
       /\ UNCHANGED <<return_types_stack, is_inside_lambda_body, generic_types>>)

\* A field of the global scope: its value is a constant.
GlobalField(n, declared, v) ==
  /\ status = "checking" /\ frames = <<>> /\ visited < MaxStatements
  /\ "field" \in Kinds /\ v \notin Names
  /\ IF FieldRefused(declared, v) \/ ~Free(types_table, n) THEN Stop
     ELSE /\ types_table' = define(types_table, n, IF declared = "none" THEN v ELSE declared)
          /\ Count
          /\ UNCHANGED <<return_types_stack, lambdas, generic_types, frames, status>>

\* A call, an assignment, a defer: any expression that is a statement.
Expression(v) ==
  /\ Visits("expression")
  /\ Checks(v, FALSE,
       /\ types_table' = TableAfter(v)
       /\ frames' = Absorbed(Using(v), Plain)
       /\ Count
       /\ UNCHANGED <<return_types_stack, is_inside_lambda_body, generic_types>>)

\* break and continue, which the parser accepts inside a loop of the same function.
Jump ==
  /\ Visits("jump")
  /\ \E i \in DOMAIN frames : /\ frames[i].kind \in Loops
                              /\ \A j \in i .. Len(frames) : frames[j].kind \notin Callables
  /\ frames' = Absorbed(frames, JumpPast)
  /\ Count
  /\ UNCHANGED <<types_table, return_types_stack, lambdas, generic_types, status>>

\* A return without a value is checked as "void".
ReturnRefused(expected, t) ==
  t # expected /\ ~(t = "null" /\ expected = "pointer")
Return(v) ==
  /\ Visits("return")
  /\ Checks(v, ReturnRefused(Peek(return_types_stack), TypeOf(v)),
       /\ types_table' = TableAfter(v)
       /\ frames' = Absorbed(Using(v), ReturnPast)
       /\ Count
       /\ UNCHANGED <<return_types_stack, is_inside_lambda_body, generic_types>>)

-----------------------------------------------------------------------------
Init ==
  /\ types_table = <<<<>>>>
  /\ return_types_stack = <<>>
  /\ is_inside_lambda_body \in FlagAtStart
  /\ lambda_implicit_parameters = <<>>
  /\ generic_types = {}
  /\ frames = <<>>
  /\ status = "checking"
  /\ visited = 0

Value == Names \cup Values
NameOrNone == Names \cup {"_"}

Finished == (frames = <<>> \/ status # "checking") /\ UNCHANGED vars

Next ==
  \/ \E f \in Functions, ps \in SUBSET Names, r \in Returns :
       EnterFunction(f, ps, r)
  \/ LeaveFunction
  \/ \E n \in Names, ps \in SUBSET Names, r \in Returns : EnterLambda(n, ps, r)
  \/ LeaveLambda
  \/ \E n \in Names, t \in {"number", "pointer"}, r \in Returns :
       EnterInstance(n, t, r)
  \/ LeaveInstance
  \/ EnterBlock
  \/ LeaveBlock
  \/ \E k \in Selects, b \in 1 .. 2, e \in BOOLEAN, v \in Value : EnterSelect(k, b, e, v)
  \/ \E v \in Values : NextBranch(v)
  \/ LeaveSelect
  \/ \E k \in Loops, v \in Value, n, i \in NameOrNone : EnterLoop(k, v, n, i)
  \/ LeaveLoop
  \/ \E n \in Names : GenericField(n)
  \/ \E n \in Names, d \in Values \cup {"none"}, v \in Value :
       Field(n, d, v) \/ GlobalField(n, d, v)
  \/ \E v \in Value : Expression(v) \/ Return(v)
  \/ Jump
  \/ Finished

Spec == Init /\ [][Next]_vars

-----------------------------------------------------------------------------
(* Properties.                                                             *)

\* The visitors of some kinds among the n outermost ones.
Depth(kinds, n) == Cardinality({i \in 1 .. n : frames[i].kind \in kinds})

\* The shape of the state.
TypeOK ==
  /\ types_table \in Seq(UNION {[ns -> Type] : ns \in SUBSET (Names \cup Functions)})
  /\ return_types_stack \in Seq(Type)
  /\ is_inside_lambda_body \in BOOLEAN
  /\ lambda_implicit_parameters \in Seq(Seq(Names))
  /\ generic_types \subseteq Type
  /\ status \in {"checking", "stopped", "crashed"}
  /\ visited \in 0 .. MaxStatements

\* A return is compared with the type of the function, lambda or instance it leaves.
ReturnsMatch ==
  /\ Len(return_types_stack) = Depth(Callables, Len(frames))
  /\ \A i \in DOMAIN frames : frames[i].kind \in Callables =>
       return_types_stack[Depth(Callables, i)] = frames[i].return

\* A construct owns exactly one scope, which is gone when it ends: a name is never
\* found in, and never defined in, the scope of a construct that is over.  So it is
\* with the functions around a return.
ScopesMatch ==
  /\ TypeOK /\ ReturnsMatch
  /\ Len(types_table) = Len(frames) + 1
  /\ \A i \in DOMAIN frames : frames[i].base = i

\* The flag says whether the checker is inside the body of a lambda.
FlagMatches == status = "checking" => (is_inside_lambda_body <=> InCallable("lambda"))

\* A lambda gets, as parameters of its own, each variable it uses of the functions
\* around it, once, and nothing else; the flag that decides it is right everywhere.
CapturesExact ==
  /\ FlagMatches
  /\ Len(lambda_implicit_parameters) = Depth({"lambda"}, Len(frames))
  /\ \A i \in DOMAIN frames : frames[i].kind = "lambda" =>
       LET captured == lambda_implicit_parameters[Depth({"lambda"}, i)]
       IN /\ {captured[k] : k \in DOMAIN captured} = frames[i].used
          /\ Len(captured) = Cardinality(frames[i].used)

\* No program makes the checker read what is not there.
CheckerSafe == status # "crashed"

\* A function that is to return a value and is accepted cannot be left without one.
AcceptedReturns ==
  [][frames # <<>> /\ frames' = <<>> /\ top.return # "void" => ~top.falls]_vars

\* Scope i stays: a branch that follows another has a new one.
Lasts(i) ==
  /\ i \in DOMAIN types_table \cap DOMAIN types_table'
  /\ i > 1 => frames'[i - 1].left = frames[i - 1].left

\* Whatever is visited inside, a name keeps the type it was declared with as long as
\* its scope lasts.
EntriesKept ==
  [][\A i \in DOMAIN types_table : Lasts(i) =>
       \A n \in DOMAIN types_table[i] :
          n \in DOMAIN types_table'[i] /\ types_table'[i][n] = types_table[i][n]]_vars
=============================================================================
