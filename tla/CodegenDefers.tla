---------------------------- MODULE CodegenDefers ----------------------------
(***************************************************************************)
(* What a defer statement promises, as properties of the code that         *)
(* CodegenControl generates: the deferred calls of a scope run when the    *)
(* scope is left, the latest first.                                        *)
(***************************************************************************)
EXTENDS CodegenControl, SequencesExt

\* The deferred calls that an instruction makes, 0 standing for no code.
CallsOf(x) == IF x.op = "defers" THEN x.calls ELSE <<>>

\* The instructions make the calls of the set ids, each once, the latest first:
\* a defer has the number of its statement, and those grow as they are visited.
CallsLatestFirst(insts, ids) ==
  /\ (UNION {Range(CallsOf(insts[i])) : i \in 1..Len(insts)}) \ {0} = ids
  /\ \A i, j \in 1..Len(insts) :
       \A k \in 1..Len(CallsOf(insts[i])), l \in 1..Len(CallsOf(insts[j])) :
         /\ i < j \/ (i = j /\ k < l)
         /\ CallsOf(insts[i])[k] # 0
         => CallsOf(insts[j])[l] < CallsOf(insts[i])[k]

\* What a step appends to the block it writes to.
Emitted == SubSeq(blocks'[insert].insts, Len(blocks[insert].insts) + 1,
                  Len(blocks'[insert].insts))

\* The defers the current function has seen in the scopes still open.
Pending == UNION {Range(frames[i].declared) :
                    i \in {i \in 1..Len(frames) : InCurrentFunction(i)}}

\* A return runs every pending deferred call of its function and of no other,
\* the latest first (execute_all_defer_calls); the end of a block runs those of
\* its scope (execute_scope_defer_calls).
DefersRunAtExit ==
  [][/\ EnterReturn => CallsLatestFirst(Emitted, Pending)
     /\ LeaveBlock /\ top.open =>
          CallsLatestFirst(Emitted, Range(top.declared))
    ]_vars

-----------------------------------------------------------------------------
(* The same promise, for the code as it runs.  A state of a run is a block *)
(* and the defers that have been evaluated and not yet called.             *)

\* What is pending after a call, an instruction and a list of them; Bad when a call
\* is made that is not the latest pending one, or a return leaves one behind.
Bad == <<0>>
CallOne(stack, c) ==
  CASE c = 0 -> stack
    [] c # 0 /\ stack \notin {<<>>, Bad} /\ Peek(stack) = c -> Pop(stack)
    [] OTHER -> Bad
AfterCalls(stack, calls) ==
  LET after[k \in 0..Len(calls)] ==
        IF k = 0 THEN stack ELSE CallOne(after[k - 1], calls[k])
  IN  after[Len(calls)]
After(stack, x) ==
  CASE x.op = "eval" /\ stack # Bad -> Append(stack, x.calls[1])
    [] x.op = "defers" -> AfterCalls(stack, x.calls)
    [] x.op = "ret" /\ stack # <<>> -> Bad
    [] OTHER -> stack
AfterAll(stack, insts) ==
  LET after[k \in 0..Len(insts)] ==
        IF k = 0 THEN stack ELSE After(after[k - 1], insts[k])
  IN  after[Len(insts)]
AfterBlock(b, stack) == AfterAll(stack, blocks[b].insts)
Successors(b) == UNION {blocks[b].insts[i].to : i \in Jumps(blocks[b])}

\* The states one block further on, and all that are reached.  (A path that visits
\* Len(blocks) blocks passes every edge of the graph.)
Onward(states) == states \cup
  UNION {{<<t, AfterBlock(s[1], s[2])>> : t \in Successors(s[1])} : s \in states}
Entries == {b \in 1..Len(blocks) : blocks[b].fn = b}
Reached ==
  LET within[n \in 0..Len(blocks)] ==
        IF n = 0 THEN {<<b, <<>>>> : b \in Entries} ELSE Onward(within[n - 1])
  IN  within[Len(blocks)]

\* On every path through a finished function, whichever way the conditions go,
\* each deferred call runs exactly once for each time its defer statement was
\* reached, the latest first, and none is pending at the return.
DefersBalanced ==
  frames = <<>> /\ functions = MaxFunctions =>
    \A s \in Reached : AfterBlock(s[1], s[2]) # Bad
=============================================================================
