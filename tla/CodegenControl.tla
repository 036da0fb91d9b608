--------------------------- MODULE CodegenControl ---------------------------
(***************************************************************************)
(* The control-flow half of the LLVM backend: how the visitors of the      *)
(* statements (src/src/amun_llvm_backend.cpp) turn a checked syntax tree   *)
(* into basic blocks.                                                      *)
(*                                                                         *)
(* A visitor is recursive: it emits code, visits the body, then emits      *)
(* more code.  The C++ call stack is the variable frames, and a visitor is *)
(* the pair of an Enter action (up to the call of accept on the body) and  *)
(* a Leave action (from the return of that call).  The tree itself is not  *)
(* represented: at every place where the next statement is visited, any    *)
(* statement the parser accepts there may follow.                          *)
(*                                                                         *)
(* Abstracted: expressions (one "work" instruction), conditions, operands  *)
(* and types.  A function that an expression makes (a lambda, the first    *)
(* call of a generic one) is a statement of its own before the statement   *)
(* of that expression; only in the value of a return it is made inside the *)
(* statement, whose visitor sets a flag before it.  Functions here end     *)
(* with a return statement, which the parser guarantees for every void     *)
(* function and void lambda.                                               *)
(***************************************************************************)
EXTENDS Naturals, Sequences, FiniteSets

CONSTANTS
  MaxStatements,  \* bound: statements visited, the closing returns not counted
  MaxFunctions,   \* bound: top-level functions of the compilation unit
  Branches,       \* numbers of branches of an if or cases of a switch
  Times,          \* the n of `break n` and `continue n`
  Statements,     \* the kinds of statement the programs are made of
  Unbraced,       \* the kinds that may be a body without braces
  ReturnIn,       \* the constructs whose braced body may return
  ReturnMakes,    \* the functions the value of a return may make, or call
  JumpIn,         \* the constructs whose braced body may break or continue
  FreeJumps,      \* may a jump precede another branch, or leave defers behind
  DeferCallees,   \* "function" and "pointer": what a defer may call
  Generics,       \* names of generic functions
  NoName          \* the name of a frame that is not a generic function

ASSUME BoundsAssumption ==
  /\ MaxStatements \in Nat /\ MaxFunctions \in Nat
  /\ Branches \subseteq Nat \ {0} /\ Times \subseteq Nat \ {0}
  /\ ReturnMakes \subseteq {"lambda", "generic"} /\ FreeJumps \in BOOLEAN
  /\ DeferCallees \subseteq {"function", "pointer"}
  /\ NoName \notin Generics

VARIABLES
  frames,                 \* visit() calls in progress, outermost first
  blocks,                 \* basic blocks, by the number they were created with
  insert,                 \* Builder.GetInsertBlock(); 0 before any function
  break_blocks_stack,     \* end blocks of the loops
  continue_blocks_stack,  \* blocks a continue branches to
  has_return_statement,
  has_break_or_continue_statement,
  defer_calls_stack,      \* per function in generation, per scope, its defers
  alloca_inst_table,      \* per scope, the generic instances defined there
  is_on_global_scope,
  undefined,              \* a std::stack was popped or read while empty
  visited,                \* statements visited (bounded by MaxStatements)
  functions               \* functions entered (bounded by MaxFunctions)

vars == <<frames, blocks, insert, break_blocks_stack, continue_blocks_stack,
          has_return_statement, has_break_or_continue_statement,
          defer_calls_stack, alloca_inst_table, is_on_global_scope, undefined,
          visited, functions>>
loopStacks == <<break_blocks_stack, continue_blocks_stack>>
flags      == <<has_return_statement, has_break_or_continue_statement>>
tables     == <<defer_calls_stack, alloca_inst_table>>

Loops     == {"while", "range", "each", "forever"}
Selects   == {"if", "switch"}
Callables == {"function", "lambda", "generic"}

Peek(s) == s[Len(s)]
Pop(s)  == SubSeq(s, 1, Len(s) - 1)

-----------------------------------------------------------------------------
(* Instructions and blocks.  calls lists the deferred calls an instruction *)
(* stands for, 0 being a call that leaves no code.  A block whose fn is 0  *)
(* has been created and not yet placed in a function.                      *)

Instruction == [op : {"work", "eval", "defers", "br", "ret"},
                to : SUBSET Nat, calls : Seq(Nat)]
Block       == [fn : Nat, insts : Seq(Instruction)]
DeferCall   == [id : Nat, kind : {"function", "pointer"}]

Work      == [op |-> "work", to |-> {}, calls |-> <<>>]
Eval(id)  == [op |-> "eval", to |-> {}, calls |-> <<id>>]
Br(b)     == [op |-> "br", to |-> {b}, calls |-> <<>>]
CondBr(t, f) == [op |-> "br", to |-> {t, f}, calls |-> <<>>]
Ret       == [op |-> "ret", to |-> {}, calls |-> <<>>]

NewBlock(f)    == [fn |-> f, insts |-> <<>>]
Emit(bs, b, s) == [bs EXCEPT ![b].insts = @ \o s]
NeverPlaced(bs, b, f) == bs              \* mutant: the block is not pushed back
Place(bs, b, f) == [bs EXCEPT ![b].fn = f]
CurrentFunction == blocks[insert].fn

\* execute_defer_call: both its tests are for DEFER_FUNCTION_CALL, so the
\* call of a function pointer is never generated.
execute_defer_call(d) == IF d.kind = "function" THEN d.id ELSE 0

\* The calls of one scope, in the order of its list.
execute_scope_defer_calls(scope) ==
  [op |-> "defers", to |-> {},
   calls |-> [i \in 1..Len(scope) |-> execute_defer_call(scope[i])]]

\* Mutant: a return runs the defers of its own scope only.
InnermostScopeOnly(scopes) ==
  <<execute_scope_defer_calls(scopes[Len(scopes)])>>

\* Every scope of the function being generated, innermost first.
execute_all_defer_calls(scopes) ==
  [i \in 1..Len(scopes) |->
     execute_scope_defer_calls(scopes[Len(scopes) + 1 - i])]

PushBack(d, list)  == Append(list, d)     \* mutant: the order of declaration
PushFront(d, list) == <<d>> \o list

-----------------------------------------------------------------------------
(* Frames.  end, cond and next are block numbers held in the visitor's     *)
(* locals, insert the insertion point it saved; open says that a statement *)
(* is still to be visited in it, returning that one is being visited that  *)
(* is a return, and its value not evaluated yet.  The last fields are      *)
(* history, read by no visitor: the defers a block has seen, the loop      *)
(* stacks as the visit found them, and the numbers of entries of           *)
(* defer_calls_stack and of scopes in the last one.                        *)

Frame(kind) ==
  [kind |-> kind, fn |-> 0, end |-> 0, cond |-> 0, next |-> 0, left |-> 0,
   insert |-> insert, open |-> TRUE, returning |-> FALSE,
   should_execute_defers |-> TRUE, name |-> NoName, declared |-> <<>>,
   brk |-> break_blocks_stack, cnt |-> continue_blocks_stack,
   depth |-> Len(defer_calls_stack),
   scopes |-> IF defer_calls_stack = <<>> THEN 0
              ELSE Len(Peek(defer_calls_stack))]

top     == Peek(frames)
Parent  == frames[Len(frames) - 1]
\* The frames below the next one: only a block takes another statement, and only
\* the value of a return another function.
Visiting == [frames EXCEPT ![Len(frames)].open = (top.kind = "block" \/ top.returning)]
\* The same after a break or continue, which ends a block, and at both ends of a
\* return, which does as well.
Closed    == [frames EXCEPT ![Len(frames)].open = FALSE]
Returning == [frames EXCEPT ![Len(frames)] =
                [top EXCEPT !.returning = TRUE, !.should_execute_defers = FALSE]]
Returned  == [frames EXCEPT ![Len(frames)] =
                [top EXCEPT !.returning = FALSE, !.open = FALSE]]

\* A statement of kind s may be visited next: in a block any, as the body of an
\* if, a case or a loop one without braces; or a function in the value of a return.
Visits(s) ==
  /\ s \in Statements /\ frames # <<>> /\ top.open /\ ~undefined
  /\ visited < MaxStatements
  /\ top.returning => s \in ReturnMakes
  /\ top.kind # "block" /\ ~top.returning =>
       top.kind \in Loops \cup Selects /\ s \in Unbraced
Count == visited' = visited + 1

\* loop_levels_stack of the parser: the loops open in the current function.
InCurrentFunction(i) ==
  \A j \in i..Len(frames) : frames[j].kind \notin Callables
\* Mutant: an if or a switch counts as a level too.
OpenConditions == {i \in 1..Len(frames) :
   frames[i].kind \in Loops \cup Selects /\ InCurrentFunction(i)}
OpenLoops == {i \in 1..Len(frames) :
                frames[i].kind \in Loops /\ InCurrentFunction(i)}
\* Loop i is the n-th of them, the innermost being the first.
NthLoop(n, i) == i \in OpenLoops /\ Cardinality({j \in OpenLoops : i <= j}) = n

-----------------------------------------------------------------------------
(* Functions, lambdas and instances of generic functions.                  *)

EnterFunction ==
  LET entry == Len(blocks) + 1 IN
  /\ frames = <<>> /\ functions < MaxFunctions /\ ~undefined
  /\ is_on_global_scope' = FALSE
  /\ blocks' = Append(blocks, [NewBlock(entry) EXCEPT !.insts = <<Work>>])
  /\ insert' = entry
  /\ defer_calls_stack' = Append(defer_calls_stack, <<>>)
  /\ alloca_inst_table' = Append(alloca_inst_table, {})
  /\ frames' = <<[Frame("function") EXCEPT !.fn = entry]>>
  /\ functions' = functions + 1
  /\ UNCHANGED <<loopStacks, flags, undefined, visited>>

LeaveFunction ==
  /\ frames # <<>> /\ top.kind = "function" /\ ~top.open /\ ~undefined
  /\ alloca_inst_table' = Pop(alloca_inst_table)
  /\ defer_calls_stack' = Pop(defer_calls_stack)
  /\ has_return_statement' = FALSE
  /\ is_on_global_scope' = TRUE
  /\ frames' = Pop(frames)
  /\ UNCHANGED <<blocks, insert, loopStacks, has_break_or_continue_statement,
                 undefined, visited, functions>>

\* The visit of a generic function's declaration only registers it.
DeclareGeneric ==
  /\ frames = <<>> /\ Generics # {} /\ ~undefined
  /\ is_on_global_scope' = FALSE
  /\ UNCHANGED <<frames, blocks, insert, loopStacks, flags, tables, undefined,
                 visited, functions>>

\* What a lambda and a generic instance have in common: a function of their own,
\* generated in the middle of another one.
EnterInner(frame) ==
  LET entry == Len(blocks) + 1 IN
  /\ blocks' = Append(blocks, [NewBlock(entry) EXCEPT !.insts = <<Work>>])
  /\ insert' = entry
  /\ defer_calls_stack' = Append(defer_calls_stack, <<>>)
  /\ alloca_inst_table' = Append(alloca_inst_table, {})
  /\ frames' = Append(Visiting, [frame EXCEPT !.fn = entry])
  /\ Count
  /\ UNCHANGED <<loopStacks, flags, undefined, functions>>

\* Mutants of the next definition: the defers of the inner function stay, or the
\* insertion point does.
DefersStay ==
  /\ blocks' = Emit(blocks, top.insert, <<Work>>)
  /\ insert' = top.insert
  /\ frames' = Pop(frames)
  /\ UNCHANGED <<defer_calls_stack, loopStacks, undefined, visited, functions,
                 has_break_or_continue_statement>>
InsertStays ==
  /\ blocks' = Emit(blocks, insert, <<Work>>)
  /\ defer_calls_stack' = Pop(defer_calls_stack)
  /\ frames' = Pop(frames)
  /\ UNCHANGED <<insert, loopStacks, undefined, visited, functions,
                 has_break_or_continue_statement>>

\* Back in the outer function, where the function just made is used.
LeaveInner ==
  /\ blocks' = Emit(blocks, top.insert, <<Work>>)
  /\ insert' = top.insert
  /\ defer_calls_stack' = Pop(defer_calls_stack)
  /\ frames' = Pop(frames)
  /\ UNCHANGED <<loopStacks, has_break_or_continue_statement, undefined,
                 visited, functions>>

EnterLambda ==
  /\ Visits("lambda")
  /\ EnterInner(Frame("lambda"))
  /\ UNCHANGED is_on_global_scope

LeaveLambda ==
  /\ frames # <<>> /\ top.kind = "lambda" /\ ~top.open /\ ~undefined
  /\ LeaveInner
  /\ alloca_inst_table' = Pop(alloca_inst_table)
  /\ UNCHANGED <<has_return_statement, is_on_global_scope>>

Instantiated(g) ==
  \E i \in 1..Len(alloca_inst_table) : g \in alloca_inst_table[i]

\* resolve_generic_function, for a name that is in no scope and for one that is.
EnterGeneric(g) ==
  /\ Visits("generic") /\ ~Instantiated(g)
  /\ EnterInner([Frame("generic") EXCEPT !.name = g])
  /\ is_on_global_scope' = FALSE

LeaveGeneric ==
  LET outer == Pop(alloca_inst_table) IN
  /\ frames # <<>> /\ top.kind = "generic" /\ ~top.open /\ ~undefined
  /\ LeaveInner
  /\ alloca_inst_table' = [outer EXCEPT ![Len(outer)] = @ \cup {top.name}]
  /\ has_return_statement' = FALSE
  /\ is_on_global_scope' = TRUE

CallInstance(g) ==
  /\ Visits("generic") /\ Instantiated(g)
  /\ is_on_global_scope' = FALSE
  /\ blocks' = Emit(blocks, insert, <<Work>>)
  /\ frames' = Visiting
  /\ Count
  /\ UNCHANGED <<insert, loopStacks, flags, tables, undefined, functions>>

-----------------------------------------------------------------------------
(* Blocks, and the statements that are neither jumps nor constructs.       *)

\* A body in braces, or a block among the statements of another.
EnterBlock ==
  /\ frames # <<>> /\ top.open /\ ~top.returning /\ ~undefined
  /\ IF top.kind = "block" THEN Visits("block") /\ Count ELSE UNCHANGED visited
  /\ alloca_inst_table' = Append(alloca_inst_table, {})
  /\ defer_calls_stack' =
       [defer_calls_stack EXCEPT ![Len(defer_calls_stack)] = Append(@, <<>>)]
  /\ frames' = Append(Visiting, Frame("block"))
  /\ UNCHANGED <<blocks, insert, loopStacks, flags, is_on_global_scope,
                 undefined, functions>>

\* The body of a function ends with a return, any other block anywhere.
LeaveBlock ==
  LET scope == Peek(Peek(defer_calls_stack)) IN
  /\ frames # <<>> /\ top.kind = "block" /\ ~top.returning /\ ~undefined
  /\ Parent.kind \in Callables => ~top.open
  /\ blocks' = IF top.should_execute_defers
               THEN Emit(blocks, insert, <<execute_scope_defer_calls(scope)>>)
               ELSE blocks
  /\ defer_calls_stack' =
       [defer_calls_stack EXCEPT ![Len(defer_calls_stack)] = Pop(@)]
  /\ alloca_inst_table' = Pop(alloca_inst_table)
  /\ frames' = Pop(frames)
  /\ UNCHANGED <<insert, loopStacks, flags, is_on_global_scope, undefined,
                 visited, functions>>

\* A declaration, an assignment, a call, a for-each over an empty array.
Plain ==
  /\ Visits("work")
  /\ blocks' = Emit(blocks, insert, <<Work>>)
  /\ frames' = Visiting
  /\ Count
  /\ UNCHANGED <<insert, loopStacks, flags, tables, is_on_global_scope,
                 undefined, functions>>

\* The block that a defer written in the current frame belongs to.
InnermostBlock == CHOOSE i \in 1..Len(frames) :
  /\ frames[i].kind = "block"
  /\ \A j \in i + 1..Len(frames) : frames[j].kind # "block"

\* The arguments are evaluated here, the call is generated where the scope ends.
Defer(kind) ==
  LET id     == visited + 1
      scopes == Peek(defer_calls_stack)
      call   == [id |-> id, kind |-> kind]
  IN
  /\ Visits("defer")
  /\ blocks' = Emit(blocks, insert, <<Eval(id)>>)
  /\ defer_calls_stack' =
       [defer_calls_stack EXCEPT ![Len(defer_calls_stack)] =
          [scopes EXCEPT ![Len(scopes)] = PushFront(call, @)]]
  /\ frames' = [Visiting EXCEPT ![InnermostBlock].declared = Append(@, id)]
  /\ Count
  /\ UNCHANGED <<insert, loopStacks, flags, alloca_inst_table,
                 is_on_global_scope, undefined, functions>>

-----------------------------------------------------------------------------
(* If and switch statements: a chain of tests, one branch at a time.  The  *)
(* switch is that of single-valued cases.                                  *)

\* Mutants: the test is inverted, or forgotten.
InvertedEnd == IF has_return_statement \/ has_break_or_continue_statement
               THEN <<Br(top.end)>> ELSE <<>>
AlwaysEnd   == <<Br(top.end)>>

BranchEnd == IF has_return_statement \/ has_break_or_continue_statement
             THEN <<>> ELSE <<Br(top.end)>>

OffByOne(n) == n - 2      \* mutant: the first of n branches is counted twice
Others(n)   == n - 1

EnterSelect(s, n) ==
  LET start == Len(blocks) + 1
      end   == Len(blocks) + 2
      true  == Len(blocks) + 3
      false == IF n > 1 THEN Len(blocks) + 4 ELSE end
      fn    == CurrentFunction
      test  == [NewBlock(fn) EXCEPT !.insts = <<Work, CondBr(true, false)>>]
  IN
  /\ Visits(s)
  /\ blocks' = Emit(blocks, insert, <<Br(start)>>)
               \o <<test, NewBlock(0), NewBlock(fn)>>
               \o (IF n > 1 THEN <<NewBlock(fn)>> ELSE <<>>)
  /\ insert' = true
  /\ alloca_inst_table' = Append(alloca_inst_table, {})
  /\ frames' = Append(Visiting, [Frame(s) EXCEPT !.fn = fn, !.end = end,
                                   !.next = false, !.left = Others(n)])
  /\ Count
  /\ UNCHANGED <<loopStacks, flags, defer_calls_stack, is_on_global_scope,
                 undefined, functions>>

\* The end of a branch and the test before the next one.
NextBranch ==
  LET true  == Len(blocks) + 1
      false == IF top.left > 1 THEN Len(blocks) + 2 ELSE top.end
  IN
  /\ frames # <<>> /\ top.kind \in Selects /\ ~top.open /\ ~undefined
  /\ top.left > 0
  /\ blocks' = Emit(Emit(blocks, insert, BranchEnd),
                    top.next, <<Work, CondBr(true, false)>>)
               \o <<NewBlock(top.fn)>>
               \o (IF top.left > 1 THEN <<NewBlock(top.fn)>> ELSE <<>>)
  /\ insert' = true
  /\ has_return_statement' = FALSE
  /\ alloca_inst_table' = 
       [alloca_inst_table EXCEPT ![Len(alloca_inst_table)] = {}]
  /\ frames' = [frames EXCEPT ![Len(frames)] =
                  [top EXCEPT !.open = TRUE, !.next = false,
                              !.left = top.left - 1]]
  /\ UNCHANGED <<loopStacks, has_break_or_continue_statement,
                 defer_calls_stack, is_on_global_scope, undefined, visited,
                 functions>>

LeaveSelect ==
  /\ frames # <<>> /\ top.kind \in Selects /\ ~top.open /\ ~undefined
  /\ top.left = 0
  /\ blocks' = Place(Emit(blocks, insert, BranchEnd), top.end, top.fn)
  /\ insert' = top.end
  /\ has_return_statement' = FALSE
  /\ has_break_or_continue_statement' = FALSE
  /\ alloca_inst_table' = Pop(alloca_inst_table)
  /\ frames' = Pop(frames)
  /\ UNCHANGED <<loopStacks, defer_calls_stack, is_on_global_scope, undefined,
                 visited, functions>>

-----------------------------------------------------------------------------
(* Loops.                                                                  *)

PushLoop(s, end, cond, fn) ==
  /\ break_blocks_stack' = Append(break_blocks_stack, end)
  /\ continue_blocks_stack' = Append(continue_blocks_stack, cond)
  /\ alloca_inst_table' = Append(alloca_inst_table, {})
  /\ frames' = Append(Visiting, [Frame(s) EXCEPT !.fn = fn, !.end = end,
                                                 !.cond = cond])
  /\ Count
  /\ UNCHANGED <<flags, defer_calls_stack, is_on_global_scope, undefined,
                 functions>>

\* while, for over a range and for over a collection that is not empty.
EnterConditionLoop(s) ==
  LET cond  == Len(blocks) + 1
      body  == Len(blocks) + 2
      end   == Len(blocks) + 3
      fn    == CurrentFunction
      test  == [NewBlock(fn) EXCEPT !.insts = <<Work, CondBr(body, end)>>]
      first == IF s = "while" THEN <<>> ELSE <<Work>>
  IN
  /\ Visits(s)
  /\ blocks' = Emit(blocks, insert, first \o <<Br(cond)>>)
               \o <<test, [NewBlock(fn) EXCEPT !.insts = first], NewBlock(0)>>
  /\ insert' = body
  /\ PushLoop(s, end, cond, fn)

EnterForever ==
  LET body == Len(blocks) + 1
      end  == Len(blocks) + 2
      fn   == CurrentFunction
  IN
  /\ Visits("forever")
  /\ blocks' = Emit(blocks, insert, <<Br(body)>>)
               \o <<NewBlock(fn), NewBlock(0)>>
  /\ insert' = body
  /\ PushLoop("forever", end, body, fn)

LeaveLoop ==
  LET back == IF has_break_or_continue_statement
              THEN <<>> ELSE <<Br(top.cond)>>
  IN
  /\ frames # <<>> /\ top.kind \in Loops /\ ~top.open /\ ~undefined
  /\ blocks' = Place(Emit(blocks, insert, back), top.end, top.fn)
  /\ insert' = top.end
  /\ has_break_or_continue_statement' = FALSE
  /\ break_blocks_stack' = Pop(break_blocks_stack)
  /\ continue_blocks_stack' = Pop(continue_blocks_stack)
  /\ undefined' = (break_blocks_stack = <<>> \/ continue_blocks_stack = <<>>)
  /\ alloca_inst_table' = Pop(alloca_inst_table)
  /\ frames' = Pop(frames)
  /\ UNCHANGED <<has_return_statement, defer_calls_stack, is_on_global_scope,
                 visited, functions>>

-----------------------------------------------------------------------------
(* Jumps.                                                                  *)

\* A return that ends the body of a function, in braces or after `=`.
IsLast == \/ top.kind \in {"function", "generic"}
          \/ top.kind = "block" /\ Parent.kind \in Callables

\* Only the visitor of a block runs the defers, and before the return itself; the
\* flag is set before the value is evaluated, which may make functions.
EnterReturn ==
  LET defers == IF top.kind = "block"
                THEN execute_all_defer_calls(Peek(defer_calls_stack)) ELSE <<>>
  IN
  /\ frames # <<>> /\ top.open /\ ~top.returning /\ ~undefined
  /\ IF IsLast THEN UNCHANGED visited
     ELSE /\ Visits("return") /\ Count
          /\ top.kind = "block" => Parent.kind \in ReturnIn
  /\ has_return_statement' = TRUE
  /\ blocks' = Emit(blocks, insert, defers)
  /\ frames' = Returning
  /\ UNCHANGED <<insert, loopStacks, has_break_or_continue_statement, tables,
                 is_on_global_scope, undefined, functions>>

LeaveReturn ==
  /\ frames # <<>> /\ top.returning /\ ~undefined
  /\ blocks' = Emit(blocks, insert, <<Ret>>)
  /\ frames' = Returned
  /\ UNCHANGED <<insert, loopStacks, flags, tables, is_on_global_scope, undefined,
                 visited, functions>>

\* Nothing stays behind: no branch still to come, no defer in the loop.
NothingLeft(n) ==
  /\ (IF top.kind = "block" THEN Parent ELSE top).left = 0
  /\ \A i \in OpenLoops, j \in 1..Len(frames) :
       NthLoop(n, i) /\ i < j => frames[j].declared = <<>>

\* parse_break_statement and parse_continue_statement check the level.
MayJump(s, n) ==
  /\ Visits(s)
  /\ n <= Cardinality(OpenLoops)
  /\ top.kind = "block" => Parent.kind \in JumpIn
  /\ FreeJumps \/ NothingLeft(n)

\* n - 1 targets are popped, for good, and the next one is read.
Jump(n, stack) ==
  LET left == SubSeq(stack, 1, Len(stack) - (n - 1)) IN
  /\ has_break_or_continue_statement' = TRUE
  /\ undefined' = (Len(stack) < n)
  /\ blocks' = IF Len(stack) < n THEN blocks
               ELSE Emit(blocks, insert, <<Br(Peek(left))>>)
  /\ frames' = Closed
  /\ Count
  /\ UNCHANGED <<insert, has_return_statement, tables, is_on_global_scope,
                 functions>>

\* Mutants: a break pops its own target, a continue takes that of a break.
BreakPopsOwn(n) ==
  /\ MayJump("break", n)
  /\ Jump(n, break_blocks_stack)
  /\ break_blocks_stack' =
       SubSeq(break_blocks_stack, 1, Len(break_blocks_stack) - n)
  /\ UNCHANGED continue_blocks_stack
ContinueBreaks(n) ==
  /\ MayJump("continue", n)
  /\ Jump(n, break_blocks_stack)
  /\ UNCHANGED loopStacks

Break(n) ==
  /\ MayJump("break", n)
  /\ Jump(n, break_blocks_stack)
  /\ break_blocks_stack' =
       SubSeq(break_blocks_stack, 1, Len(break_blocks_stack) - (n - 1))
  /\ UNCHANGED continue_blocks_stack

Continue(n) ==
  /\ MayJump("continue", n)
  /\ Jump(n, continue_blocks_stack)
  /\ continue_blocks_stack' =
       SubSeq(continue_blocks_stack, 1, Len(continue_blocks_stack) - (n - 1))
  /\ UNCHANGED break_blocks_stack

-----------------------------------------------------------------------------
Init ==
  /\ frames = <<>> /\ blocks = <<>> /\ insert = 0
  /\ break_blocks_stack = <<>> /\ continue_blocks_stack = <<>>
  /\ has_return_statement = FALSE /\ has_break_or_continue_statement = FALSE
  /\ defer_calls_stack = <<>> /\ alloca_inst_table = <<{}>>
  /\ is_on_global_scope = TRUE /\ undefined = FALSE
  /\ visited = 0 /\ functions = 0

\* The unit is compiled, or the run of the compiler has no meaning any more.
Finished ==
  /\ ~undefined => frames = <<>> /\ functions = MaxFunctions
  /\ UNCHANGED vars

Next ==
  \/ EnterFunction \/ LeaveFunction \/ DeclareGeneric
  \/ EnterLambda \/ LeaveLambda
  \/ \E g \in Generics : EnterGeneric(g) \/ CallInstance(g)
  \/ LeaveGeneric
  \/ EnterBlock \/ LeaveBlock \/ Plain
  \/ \E kind \in DeferCallees : Defer(kind)
  \/ \E s \in Selects, n \in Branches : EnterSelect(s, n)
  \/ NextBranch \/ LeaveSelect
  \/ \E s \in Loops \ {"forever"} : EnterConditionLoop(s)
  \/ EnterForever \/ LeaveLoop
  \/ EnterReturn \/ LeaveReturn
  \/ \E n \in Times : Break(n) \/ Continue(n)
  \/ Finished

Spec == Init /\ [][Next]_vars

-----------------------------------------------------------------------------
(* Properties.                                                             *)

FrameType ==
  [kind : Callables \cup Loops \cup Selects \cup {"block"}, fn : Nat,
   end : Nat, cond : Nat, next : Nat, left : Nat, insert : Nat,
   open : BOOLEAN, returning : BOOLEAN, should_execute_defers : BOOLEAN,
   name : Generics \cup {NoName}, declared : Seq(Nat),
   brk : Seq(Nat), cnt : Seq(Nat), depth : Nat, scopes : Nat]

\* Every variable has its type; so blocks hold only instructions, and the
\* deferred calls in them are numbers of defer statements.
TypeOK ==
  /\ frames \in Seq(FrameType)
  /\ blocks \in Seq(Block) /\ insert \in Nat
  /\ break_blocks_stack \in Seq(Nat) /\ continue_blocks_stack \in Seq(Nat)
  /\ has_return_statement \in BOOLEAN
  /\ has_break_or_continue_statement \in BOOLEAN
  /\ defer_calls_stack \in Seq(Seq(Seq(DeferCall)))
  /\ alloca_inst_table \in Seq(SUBSET Generics)
  /\ is_on_global_scope \in BOOLEAN /\ undefined \in BOOLEAN
  /\ visited \in Nat /\ functions \in Nat

\* What a frame leaves on the stacks for the visits made inside it.
BreaksIn(f)    == IF f.kind \in Loops THEN Append(f.brk, f.end) ELSE f.brk
ContinuesIn(f) == IF f.kind \in Loops THEN Append(f.cnt, f.cond) ELSE f.cnt
DepthIn(f)     == IF f.kind \in Callables THEN f.depth + 1 ELSE f.depth
ScopesIn(f)    == IF f.kind \in Callables THEN 0
                  ELSE IF f.kind = "block" THEN f.scopes + 1 ELSE f.scopes

\* Every visitor hands the loop stacks back as it found them: at any moment
\* they hold the targets of the loops being visited and nothing else, so the
\* pops of a loop (lines 581, 710, 748, 788) take that loop's own targets, and
\* nothing is left over for the next function.
StacksRestored ==
  /\ frames = <<>> => break_blocks_stack = <<>> /\ continue_blocks_stack = <<>>
  /\ frames # <<>> => /\ break_blocks_stack = BreaksIn(top)
                      /\ continue_blocks_stack = ContinuesIn(top)
                      /\ frames[1].brk = <<>> /\ frames[1].cnt = <<>>
  /\ \A i \in 1..Len(frames) - 1 : /\ frames[i + 1].brk = BreaksIn(frames[i])
                                   /\ frames[i + 1].cnt = ContinuesIn(frames[i])

\* No std::stack is popped or read while it is empty (lines 581, 1018, 1030),
\* which is undefined behaviour.
NoUndefined == ~undefined

\* The defer stacks are as deep as the visits in progress say, so that no
\* visitor reads or pops a scope that is not there, and a function made in the
\* middle of another (a lambda, a generic) gives it its scopes back.
DeferScopesMatch ==
  /\ frames = <<>> => defer_calls_stack = <<>>
  /\ frames # <<>> =>
       /\ frames[1].kind = "function" /\ frames[1].depth = 0
       /\ Len(defer_calls_stack) = DepthIn(top)
       /\ Len(Peek(defer_calls_stack)) = ScopesIn(top)
  /\ \A i \in 1..Len(frames) - 1 :
       /\ frames[i + 1].depth = DepthIn(frames[i])
       /\ frames[i + 1].scopes = ScopesIn(frames[i])
       /\ frames[i + 1].kind \in Callables =>
            Len(defer_calls_stack[frames[i + 1].depth]) = frames[i + 1].scopes

\* `break n` goes to the end of the n-th loop around it in the same function,
\* `continue n` to where that loop starts its next round: the bound the parser
\* put on n and the stacks of the generator agree.
JumpTargets ==
  [][\A n \in Times : \A i \in OpenLoops :
       NthLoop(n, i) =>
         /\ Break(n) => /\ ~undefined'
                        /\ Peek(blocks'[insert].insts) = Br(frames[i].end)
         /\ Continue(n) => /\ ~undefined'
                           /\ Peek(blocks'[insert].insts) = Br(frames[i].cond)
    ]_vars

HasCode(x) == x.op = "defers" => \E i \in 1..Len(x.calls) : x.calls[i] # 0
IsJump(x)  == x.op \in {"br", "ret"}
Jumps(b)   == {i \in 1..Len(b.insts) : IsJump(b.insts[i])}

\* "In the same block there are no needs to generate code for unreachable code"
\* (line 56): nothing follows the jump that ends a basic block, which LLVM
\* takes for granted.
NoCodeAfterJump ==
  \A b \in 1..Len(blocks) : \A i \in Jumps(blocks[b]) :
    \A j \in i + 1..Len(blocks[b].insts) : ~HasCode(blocks[b].insts[j])

\* Once a function is done all its blocks are placed, each ends in a jump, and
\* every jump stays in the function.
Complete ==
  frames = <<>> =>
    \A b \in 1..Len(blocks) :
      /\ Jumps(blocks[b]) # {} /\ blocks[b].fn # 0
      /\ \A i \in Jumps(blocks[b]) : \A t \in blocks[b].insts[i].to :
           blocks[t].fn = blocks[b].fn

\* Every finished function is one LLVM accepts: a closed graph of basic blocks with
\* nothing behind a terminator; a branch of an if or a switch that ends without a
\* jump (lines 489 and 847) would leave a block open.
BlocksClosed == NoCodeAfterJump /\ Complete
=============================================================================
