------------------------ MODULE CodegenControl_proofs ------------------------
(***************************************************************************)
(* What holds of CodegenControl for every bound and every class of         *)
(* programs.                                                               *)
(***************************************************************************)
EXTENDS CodegenControl, SequenceTheorems, FiniteSetTheorems, TLAPS

-----------------------------------------------------------------------------
(* Stacks.                                                                 *)

\* Popping a stack gives a stack of the same elements, one shorter.
LEMMA PopType ==
  ASSUME NEW S, NEW s \in Seq(S)
  PROVE  /\ Pop(s) \in Seq(S)
         /\ s # <<>> => /\ Len(Pop(s)) = Len(s) - 1
                        /\ \A i \in 1..Len(s) - 1 : Pop(s)[i] = s[i]
<1>1. Len(s) \in Nat /\ Len(s) - 1 \in Int /\ \A i \in 1..Len(s) - 1 : s[i] \in S
  OBVIOUS
<1>2. s # <<>> => Len(s) >= 1
  OBVIOUS
<1> DEFINE n == Len(s) - 1
           t == SubSeq(s, 1, n)
<1>3. /\ t \in Seq(S)
      /\ Len(t) = IF 1 <= n THEN n - 1 + 1 ELSE 0
      /\ \A i \in 1 .. n - 1 + 1 : t[i] = s[1 + i - 1]
  <2>1. n \in Int /\ 1 \in Int
    BY <1>1
  <2> HIDE DEF n
  <2> QED
    BY <1>1, <2>1, SubSeqProperties DEF n
<1>4. \A i \in 1 .. n : i \in 1 .. n - 1 + 1 /\ 1 + i - 1 = i
  BY <1>1
<1>5. s # <<>> => (Len(t) = n /\ \A i \in 1 .. n : t[i] = s[i])
  <2> HIDE DEF t
  <2>1. n \in Int /\ (s # <<>> => n >= 0)
    BY <1>1, <1>2
  <2>2. s # <<>> => Len(t) = n
    <3> HIDE DEF n
    <3> QED
      BY <1>3, <2>1
  <2>3. ASSUME NEW i \in 1 .. n
        PROVE  t[i] = s[i]
    <3>1. i \in 1 .. n - 1 + 1 /\ 1 + i - 1 = i
      BY <1>4
    <3> HIDE DEF n
    <3>2. t[i] = s[1 + i - 1]
      BY <1>3, <3>1
    <3> QED
      BY <3>1, <3>2
  <2> HIDE DEF n
  <2> QED
    BY <2>2, <2>3
<1> QED
  BY <1>3, <1>5 DEF Pop

\* The top of a stack that is not empty is one of its elements.
LEMMA PeekType ==
  ASSUME NEW S, NEW s \in Seq(S), s # <<>>
  PROVE  Peek(s) \in S /\ Len(s) \in Nat \ {0}
BY DEF Peek

\* Pushing, then popping, changes nothing.
LEMMA PopAppend ==
  ASSUME NEW S, NEW s \in Seq(S), NEW e \in S
  PROVE  Pop(Append(s, e)) = s /\ Peek(Append(s, e)) = e
BY DEF Pop, Peek

\* Replacing an entry of a stack keeps its type, its length and the others.
LEMMA ReplaceType ==
  ASSUME NEW S, NEW s \in Seq(S), NEW e \in S, NEW i
  PROVE  /\ [s EXCEPT ![i] = e] \in Seq(S)
         /\ Len([s EXCEPT ![i] = e]) = Len(s)
         /\ \A j \in 1..Len(s) :
              [s EXCEPT ![i] = e][j] = IF j = i THEN e ELSE s[j]
<1>1. CASE i \in 1..Len(s)
  BY <1>1, ExceptSeq
<1>2. CASE i \notin 1..Len(s)
  <2>1. [s EXCEPT ![i] = e] = s
    BY <1>2
  <2> QED
    BY <1>2, <2>1
<1> QED
  BY <1>1, <1>2

\* Replacing an entry that is not there does nothing.
LEMMA ReplaceNothing ==
  ASSUME NEW S, NEW s \in Seq(S), NEW e, NEW i, i \notin 1..Len(s)
  PROVE  [s EXCEPT ![i] = e] = s
OBVIOUS

-----------------------------------------------------------------------------
(* Blocks and instructions.                                                *)

\* Emitting instructions into a block and placing it leave as many blocks.
LEMMA EmitType ==
  ASSUME NEW bs \in Seq(Block), NEW b \in Nat, NEW s \in Seq(Instruction)
  PROVE  Emit(bs, b, s) \in Seq(Block) /\ Len(Emit(bs, b, s)) = Len(bs)
<1>1. CASE b \in 1..Len(bs)
  <2>1. bs[b] \in Block
    BY <1>1
  <2>2. bs[b].insts \o s \in Seq(Instruction)
    BY <2>1 DEF Block
  <2>3. [bs[b] EXCEPT !.insts = bs[b].insts \o s] \in Block
    BY <2>1, <2>2 DEF Block
  <2> QED
    BY <2>3, ReplaceType DEF Emit
<1>2. CASE b \notin 1..Len(bs)
  <2>1. Emit(bs, b, s) = bs
    BY <1>2 DEF Emit
  <2> QED
    BY <2>1
<1> QED
  BY <1>1, <1>2

LEMMA PlaceType ==
  ASSUME NEW bs \in Seq(Block), NEW b \in Nat, NEW f \in Nat
  PROVE  Place(bs, b, f) \in Seq(Block) /\ Len(Place(bs, b, f)) = Len(bs)
<1>1. CASE b \in 1..Len(bs)
  <2>1. bs[b] \in Block
    BY <1>1
  <2>2. [bs[b] EXCEPT !.fn = f] \in Block
    BY <2>1 DEF Block
  <2> QED
    BY <2>2, ReplaceType DEF Place
<1>2. CASE b \notin 1..Len(bs)
  <2>1. Place(bs, b, f) = bs
    BY <1>2 DEF Place
  <2> QED
    BY <2>1
<1> QED
  BY <1>1, <1>2

\* The instructions the visitors emit.
LEMMA InstructionTypes ==
  /\ Work \in Instruction /\ Ret \in Instruction
  /\ \A b \in Nat : Br(b) \in Instruction /\ Eval(b) \in Instruction
  /\ \A t, f \in Nat : CondBr(t, f) \in Instruction
BY DEF Instruction, Work, Ret, Br, Eval, CondBr

LEMMA NewBlockType ==
  ASSUME NEW f \in Nat, NEW s \in Seq(Instruction)
  PROVE  NewBlock(f) \in Block /\ [NewBlock(f) EXCEPT !.insts = s] \in Block
BY DEF NewBlock, Block

\* A function's first block holds the stores of its arguments.
LEMMA EntryBlockType ==
  ASSUME NEW n \in Nat
  PROVE  [NewBlock(n) EXCEPT !.insts = <<Work>>] \in Block
<1>1. <<Work>> \in Seq(Instruction)
  BY InstructionTypes
<1> QED
  BY <1>1, NewBlockType

\* Blocks are appended to blocks.
LEMMA ConcatBlocks ==
  ASSUME NEW s \in Seq(Block), NEW t \in Seq(Block)
  PROVE  s \o t \in Seq(Block) /\ Len(s \o t) = Len(s) + Len(t)
BY ConcatProperties

\* The code of a scope's deferred calls, and of all scopes of a function.
LEMMA ScopeCallsType ==
  ASSUME NEW scope \in Seq(DeferCall)
  PROVE  execute_scope_defer_calls(scope) \in Instruction
<1>1. \A i \in 1..Len(scope) : scope[i] \in DeferCall
  OBVIOUS
<1>2. \A i \in 1..Len(scope) : execute_defer_call(scope[i]) \in Nat
  BY <1>1 DEF execute_defer_call, DeferCall
<1>3. [i \in 1..Len(scope) |-> execute_defer_call(scope[i])] \in Seq(Nat)
  BY <1>2
<1> QED
  BY <1>3 DEF execute_scope_defer_calls, Instruction

LEMMA AllCallsType ==
  ASSUME NEW scopes \in Seq(Seq(DeferCall))
  PROVE  execute_all_defer_calls(scopes) \in Seq(Instruction)
<1>1. \A i \in 1..Len(scopes) : scopes[Len(scopes) + 1 - i] \in Seq(DeferCall)
  OBVIOUS
<1>2. \A i \in 1..Len(scopes) :
        execute_scope_defer_calls(scopes[Len(scopes) + 1 - i]) \in Instruction
  BY <1>1, ScopeCallsType
<1> QED
  BY <1>2 DEF execute_all_defer_calls

-----------------------------------------------------------------------------
(* Frames.                                                                 *)

\* Two sequences of visits that agree on everything the stacks depend on.
Alike(fs, gs) ==
  /\ Len(fs) = Len(gs)
  /\ \A i \in 1..Len(fs) :
       /\ gs[i].kind = fs[i].kind
       /\ gs[i].depth = fs[i].depth /\ gs[i].scopes = fs[i].scopes
       /\ gs[i].brk = fs[i].brk /\ gs[i].cnt = fs[i].cnt
       /\ gs[i].end = fs[i].end /\ gs[i].cond = fs[i].cond
       /\ gs[i].insert = fs[i].insert /\ gs[i].name = fs[i].name

\* A visitor's frame, before it fills in its blocks.
LEMMA FrameIsTyped ==
  ASSUME TypeOK, NEW kind \in Callables \cup Loops \cup Selects \cup {"block"},
         defer_calls_stack # <<>>
  PROVE  /\ Frame(kind) \in FrameType
         /\ Frame(kind).depth = Len(defer_calls_stack)
         /\ Frame(kind).scopes = Len(Peek(defer_calls_stack))
         /\ Frame(kind).brk = break_blocks_stack
         /\ Frame(kind).cnt = continue_blocks_stack
         /\ Frame(kind).kind = kind /\ Frame(kind).insert = insert
<1>1. Peek(defer_calls_stack) \in Seq(Seq(DeferCall))
  BY PeekType DEF TypeOK
<1>2. Len(Peek(defer_calls_stack)) \in Nat /\ Len(defer_calls_stack) \in Nat
  BY <1>1 DEF TypeOK
<1> QED
  BY <1>2 DEF Frame, FrameType, TypeOK

\* What statements do to the frames is seen in the top one only, and not in what
\* the stacks depend on.
LEMMA VisitingIsTyped ==
  ASSUME frames \in Seq(FrameType), frames # <<>>
  PROVE  /\ Visiting \in Seq(FrameType) /\ Alike(frames, Visiting)
         /\ Closed \in Seq(FrameType) /\ Alike(frames, Closed)
         /\ Returning \in Seq(FrameType) /\ Alike(frames, Returning)
         /\ Returned \in Seq(FrameType) /\ Alike(frames, Returned)
<1> DEFINE f     == frames[Len(frames)]
           at(b) == [f EXCEPT !.open = b]
           begun == [f EXCEPT !.returning = TRUE, !.should_execute_defers = FALSE]
           done  == [f EXCEPT !.returning = FALSE, !.open = FALSE]
           Like(g) == /\ g.kind = f.kind /\ g.depth = f.depth /\ g.scopes = f.scopes
                      /\ g.brk = f.brk /\ g.cnt = f.cnt /\ g.end = f.end
                      /\ g.cond = f.cond /\ g.insert = f.insert /\ g.name = f.name
<1>1. f \in FrameType /\ Len(frames) \in 1..Len(frames)
  OBVIOUS
<1> HIDE DEF f
<1>2. \A b \in BOOLEAN : at(b) \in FrameType /\ Like(at(b))
  BY <1>1 DEF FrameType
<1>3. begun \in FrameType /\ Like(begun) /\ done \in FrameType /\ Like(done)
  BY <1>1 DEF FrameType
<1>4. ASSUME NEW g \in FrameType, Like(g)
      PROVE  /\ [frames EXCEPT ![Len(frames)] = g] \in Seq(FrameType)
             /\ Alike(frames, [frames EXCEPT ![Len(frames)] = g])
  <2>1. /\ [frames EXCEPT ![Len(frames)] = g] \in Seq(FrameType)
        /\ Len([frames EXCEPT ![Len(frames)] = g]) = Len(frames)
        /\ \A j \in 1..Len(frames) :
             [frames EXCEPT ![Len(frames)] = g][j] =
                IF j = Len(frames) THEN g ELSE frames[j]
    BY ReplaceType
  <2> QED
    BY <1>4, <2>1 DEF Alike, f
<1>5. /\ Visiting = [frames EXCEPT ![Len(frames)] = at(top.kind = "block" \/ top.returning)]
      /\ Closed = [frames EXCEPT ![Len(frames)] = at(FALSE)]
      /\ Returning = [frames EXCEPT ![Len(frames)] = begun]
      /\ Returned = [frames EXCEPT ![Len(frames)] = done]
  BY DEF Visiting, Closed, Returning, Returned, top, Peek, f
<1>6. (top.kind = "block" \/ top.returning) \in BOOLEAN
  OBVIOUS
<1> HIDE DEF at, begun, done, Like
<1> QED
  BY <1>2, <1>3, <1>4, <1>5, <1>6

-----------------------------------------------------------------------------
(* The stack of defers and the frames.  DeferOK is DeferScopesMatch with   *)
(* the frames and the stack as parameters, and one fact more: the depth    *)
(* grows with every function entered.  It is what makes the property       *)
(* inductive, for the entries of the functions that wait are then below    *)
(* the one that a visitor changes.                                         *)

DeferOK(fs, ds) ==
  /\ fs = <<>> => ds = <<>>
  /\ fs # <<>> =>
       /\ fs[1].kind = "function" /\ fs[1].depth = 0
       /\ Len(ds) = DepthIn(Peek(fs))
       /\ Len(Peek(ds)) = ScopesIn(Peek(fs))
  /\ \A i \in 1..Len(fs) - 1 :
       /\ fs[i + 1].depth = DepthIn(fs[i])
       /\ fs[i + 1].scopes = ScopesIn(fs[i])
       /\ fs[i + 1].kind \in Callables =>
            Len(ds[fs[i + 1].depth]) = fs[i + 1].scopes
  /\ \A i, j \in 1..Len(fs) : i < j => DepthIn(fs[i]) <= fs[j].depth

DeferStacks == Seq(Seq(Seq(DeferCall)))

LEMMA DeferOKSound ==
  DeferOK(frames, defer_calls_stack) => DeferScopesMatch
BY DEF DeferOK, DeferScopesMatch, top, Peek

\* The fields of a frame.
LEMMA FrameFields ==
  ASSUME NEW fs \in Seq(FrameType), NEW i \in 1..Len(fs)
  PROVE  /\ fs[i].depth \in Nat /\ fs[i].scopes \in Nat
         /\ fs[i].end \in Nat /\ fs[i].cond \in Nat
         /\ fs[i].brk \in Seq(Nat) /\ fs[i].cnt \in Seq(Nat)
         /\ DepthIn(fs[i]) \in {fs[i].depth, fs[i].depth + 1}
         /\ ScopesIn(fs[i]) \in Nat
<1>1. fs[i] \in FrameType
  OBVIOUS
<1>2. /\ fs[i].depth \in Nat /\ fs[i].scopes \in Nat
      /\ fs[i].end \in Nat /\ fs[i].cond \in Nat
      /\ fs[i].brk \in Seq(Nat) /\ fs[i].cnt \in Seq(Nat)
  BY <1>1 DEF FrameType
<1>3. DepthIn(fs[i]) \in {fs[i].depth, fs[i].depth + 1}
  BY DEF DepthIn
<1>4. ScopesIn(fs[i]) \in Nat
  BY <1>2 DEF ScopesIn
<1> QED
  BY <1>2, <1>3, <1>4

\* While a function is generated, every visit is in one of the entries.
LEMMA DeferDepths ==
  ASSUME NEW fs \in Seq(FrameType), fs # <<>>, NEW ds \in DeferStacks,
         DeferOK(fs, ds)
  PROVE  /\ Len(ds) \in Nat \ {0} /\ ds # <<>>
         /\ \A i \in 1..Len(fs) : DepthIn(fs[i]) \in 1..Len(ds)
<1>1. Len(fs) \in 1..Len(fs) /\ 1 \in 1..Len(fs)
  OBVIOUS
<1>2. DepthIn(fs[Len(fs)]) = Len(ds) /\ DepthIn(fs[1]) = 1
  BY DEF DeferOK, Peek, DepthIn, Callables
<1>3. ASSUME NEW i \in 1..Len(fs)
      PROVE  /\ DepthIn(fs[i]) \in Nat /\ fs[i].depth \in Nat
             /\ fs[i].depth <= DepthIn(fs[i])
  <2>1. /\ fs[i].depth \in Nat
        /\ DepthIn(fs[i]) = fs[i].depth \/ DepthIn(fs[i]) = fs[i].depth + 1
    BY FrameFields
  <2> QED
    BY <2>1
<1>4. ASSUME NEW i \in 1..Len(fs) PROVE DepthIn(fs[i]) \in 1..Len(ds)
  <2>1. i = Len(fs) \/ DepthIn(fs[i]) <= fs[Len(fs)].depth
    BY <1>1 DEF DeferOK
  <2>2. i = 1 \/ DepthIn(fs[1]) <= fs[i].depth
    BY <1>1 DEF DeferOK
  <2> QED
    BY <1>1, <1>2, <1>3, <2>1, <2>2
<1>5. Len(ds) >= 1
  BY <1>1, <1>2, <1>4
<1> QED
  BY <1>4, <1>5 DEF DeferStacks

\* Only the lengths of the entries matter, and only some fields of the frames.
LEMMA DeferOKAlike ==
  ASSUME NEW fs \in Seq(FrameType), NEW gs \in Seq(FrameType), Alike(fs, gs),
         NEW ds \in DeferStacks, NEW es \in DeferStacks, DeferOK(fs, ds),
         Len(es) = Len(ds), \A i \in 1..Len(ds) : Len(es[i]) = Len(ds[i])
  PROVE  DeferOK(gs, es)
<1>1. Len(fs) = Len(gs) /\ Len(fs) \in Nat /\ Len(ds) \in Nat
  BY DEF Alike, DeferStacks
<1>2. \A i \in 1..Len(fs) :
        /\ DepthIn(gs[i]) = DepthIn(fs[i]) /\ ScopesIn(gs[i]) = ScopesIn(fs[i])
        /\ gs[i].kind = fs[i].kind /\ gs[i].depth = fs[i].depth
        /\ gs[i].scopes = fs[i].scopes
  BY DEF Alike, DepthIn, ScopesIn
<1>3. CASE fs = <<>>
  <2>1. Len(fs) = 0 /\ ds = <<>> /\ Len(ds) = 0
    BY <1>3 DEF DeferOK
  <2>2. gs = <<>> /\ es = <<>>
    BY <1>1, <2>1, EmptySeq DEF DeferStacks
  <2> QED
    BY <1>1, <2>1, <2>2 DEF DeferOK
<1>4. CASE fs # <<>>
  <2>1. Len(fs) \in 1..Len(fs) /\ 1 \in 1..Len(fs)
    BY <1>4
  <2>2. Len(ds) \in 1..Len(ds) /\ Peek(es) = es[Len(ds)] /\ Peek(ds) = ds[Len(ds)]
    BY <1>4, DeferDepths DEF Peek
  <2>3. \A i \in 1..Len(fs) - 1 : i + 1 \in 1..Len(fs) /\ i \in 1..Len(fs)
    BY <1>1
  <2>4. \A i \in 1..Len(fs) - 1 : fs[i + 1].kind \in Callables =>
          fs[i + 1].depth \in 1..Len(ds)
    BY <1>4, <2>3, DeferDepths DEF DeferOK
  <2>5. Peek(fs) = fs[Len(fs)] /\ Peek(gs) = gs[Len(fs)] /\ gs # <<>>
    BY <1>1, <1>4 DEF Peek
  <2>6. gs[1].kind = "function" /\ gs[1].depth = 0
    BY <1>2, <1>4, <2>1 DEF DeferOK
  <2>7. Len(es) = DepthIn(Peek(gs)) /\ Len(Peek(es)) = ScopesIn(Peek(gs))
    BY <1>2, <1>4, <2>1, <2>2, <2>5 DEF DeferOK
  <2>8. ASSUME NEW i \in 1..Len(gs) - 1
        PROVE  /\ gs[i + 1].depth = DepthIn(gs[i])
               /\ gs[i + 1].scopes = ScopesIn(gs[i])
               /\ gs[i + 1].kind \in Callables =>
                    Len(es[gs[i + 1].depth]) = gs[i + 1].scopes
    BY SMTT(60), <1>1, <1>2, <2>3, <2>4 DEF DeferOK
  <2>9. \A i, j \in 1..Len(gs) : i < j => DepthIn(gs[i]) <= gs[j].depth
    BY <1>1, <1>2 DEF DeferOK
  <2> QED
    BY <2>5, <2>6, <2>7, <2>8, <2>9 DEF DeferOK
<1> QED
  BY <1>3, <1>4

\* A visit begins: f is its frame, es the stack after it.
LEMMA DeferOKPush ==
  ASSUME NEW fs \in Seq(FrameType), fs # <<>>, NEW f \in FrameType,
         NEW ds \in DeferStacks, NEW es \in DeferStacks, DeferOK(fs, ds),
         f.depth = Len(ds), f.scopes = Len(Peek(ds)),
         Len(es) = DepthIn(f), Len(Peek(es)) = ScopesIn(f),
         \A i \in 1..Len(ds) - 1 : Len(es[i]) = Len(ds[i]),
         f.kind \in Callables => Len(es[Len(ds)]) = Len(ds[Len(ds)])
  PROVE  DeferOK(Append(fs, f), es)
<1> DEFINE gs == Append(fs, f)
<1>1. /\ gs \in Seq(FrameType) /\ gs # <<>> /\ Len(gs) = Len(fs) + 1
      /\ Len(fs) \in Nat \ {0} /\ gs[Len(fs) + 1] = f
      /\ \A i \in 1..Len(fs) : gs[i] = fs[i]
  OBVIOUS
<1>2. Peek(gs) = f /\ Peek(fs) = fs[Len(fs)] /\ Peek(ds) = ds[Len(ds)]
  BY <1>1 DEF Peek
<1>3. /\ Len(ds) \in Nat \ {0}
      /\ \A i \in 1..Len(fs) : DepthIn(fs[i]) \in 1..Len(ds)
  BY DeferDepths
<1>4. f.depth = DepthIn(Peek(fs)) /\ f.scopes = ScopesIn(Peek(fs))
  BY DEF DeferOK
<1>5. gs[1].kind = "function" /\ gs[1].depth = 0
  BY <1>1 DEF DeferOK
<1>6. ASSUME NEW i \in 1..Len(fs) - 1
      PROVE  /\ fs[i + 1].kind \in Callables =>
                  Len(es[fs[i + 1].depth]) = fs[i + 1].scopes
             /\ fs[i + 1].depth = DepthIn(fs[i])
             /\ fs[i + 1].scopes = ScopesIn(fs[i])
  <2>1. i + 1 \in 1..Len(fs) /\ i \in 1..Len(fs)
    BY <1>1
  <2>2. fs[i + 1].depth = DepthIn(fs[i]) /\ fs[i + 1].scopes = ScopesIn(fs[i])
    BY DEF DeferOK
  <2>3. ASSUME fs[i + 1].kind \in Callables
        PROVE  Len(es[fs[i + 1].depth]) = fs[i + 1].scopes
    <3>1. fs[i + 1].depth \in 1..Len(ds) - 1
      BY <1>3, <2>1, <2>2, <2>3 DEF DepthIn
    <3>2. Len(ds[fs[i + 1].depth]) = fs[i + 1].scopes
      BY <2>3 DEF DeferOK
    <3> QED
      BY <3>1, <3>2
  <2> QED
    BY <2>2, <2>3
<1>7. ASSUME NEW i \in 1..Len(gs) - 1
      PROVE  /\ gs[i + 1].depth = DepthIn(gs[i])
             /\ gs[i + 1].scopes = ScopesIn(gs[i])
             /\ gs[i + 1].kind \in Callables =>
                  Len(es[gs[i + 1].depth]) = gs[i + 1].scopes
  <2>1. CASE i = Len(fs)
    BY <1>1, <1>2, <1>4, <2>1
  <2>2. CASE i # Len(fs)
    <3>1. i \in 1..Len(fs) - 1 /\ i + 1 \in 1..Len(fs) /\ i \in 1..Len(fs)
      BY <1>1, <2>2
    <3> QED
      BY <1>1, <1>6, <3>1
  <2> QED
    BY <2>1, <2>2
<1>8. ASSUME NEW i \in 1..Len(gs), NEW j \in 1..Len(gs), i < j
      PROVE  DepthIn(gs[i]) <= gs[j].depth
  <2>1. i \in 1..Len(fs)
    BY <1>1, <1>8
  <2>2. CASE j = Len(fs) + 1
    BY <1>1, <1>3, <2>1, <2>2
  <2>3. CASE j # Len(fs) + 1
    <3>1. j \in 1..Len(fs)
      BY <1>1, <2>3
    <3> QED
      BY <1>1, <1>8, <2>1, <3>1 DEF DeferOK
  <2> QED
    BY <2>2, <2>3
<1> HIDE DEF gs
<1>9. DeferOK(gs, es)
  BY <1>1, <1>2, <1>5, <1>7, <1>8 DEF DeferOK
<1> QED
  BY <1>9 DEF gs

\* A visit ends: es is the stack after it.
LEMMA DeferOKPop ==
  ASSUME NEW fs \in Seq(FrameType), fs # <<>>,
         NEW ds \in DeferStacks, NEW es \in DeferStacks, DeferOK(fs, ds),
         Len(es) = Peek(fs).depth,
         Len(fs) > 1 => Len(Peek(es)) = Peek(fs).scopes,
         \A i \in 1..Len(es) - 1 : Len(es[i]) = Len(ds[i])
  PROVE  DeferOK(Pop(fs), es)
<1> DEFINE gs == Pop(fs)
<1>1. /\ gs \in Seq(FrameType) /\ Len(gs) = Len(fs) - 1
      /\ Len(fs) \in Nat \ {0} /\ Len(gs) \in Nat
      /\ \A i \in 1..Len(gs) : gs[i] = fs[i] /\ i \in 1..Len(fs)
  BY PopType
<1>2. CASE Len(fs) = 1
  <2>1. gs = <<>>
    BY <1>1, <1>2
  <2>2. Len(es) = 0
    BY <1>2 DEF DeferOK, Peek
  <2>3. es = <<>> /\ Len(gs) = 0
    BY <2>1, <2>2 DEF DeferStacks
  <2> HIDE DEF gs
  <2>4. DeferOK(gs, es)
    BY <2>1, <2>3 DEF DeferOK
  <2> QED
    BY <2>4 DEF gs
<1>3. CASE Len(fs) # 1
  <2>1. Len(gs) \in 1..Len(gs) /\ Len(gs) + 1 = Len(fs) /\ gs # <<>>
    BY <1>1, <1>3
  <2>2. Peek(gs) = fs[Len(gs)] /\ Peek(fs) = fs[Len(gs) + 1]
    BY <1>1, <2>1 DEF Peek
  <2>3. /\ Peek(fs).depth = DepthIn(Peek(gs))
        /\ Peek(fs).scopes = ScopesIn(Peek(gs))
    BY <1>1, <2>1, <2>2 DEF DeferOK
  <2>4. gs[1].kind = "function" /\ gs[1].depth = 0
    BY <1>1, <2>1 DEF DeferOK
  <2>5. ASSUME NEW i \in 1..Len(gs) - 1
        PROVE  /\ gs[i + 1].depth = DepthIn(gs[i])
               /\ gs[i + 1].scopes = ScopesIn(gs[i])
               /\ gs[i + 1].kind \in Callables =>
                    Len(es[gs[i + 1].depth]) = gs[i + 1].scopes
    <3>1. i + 1 \in 1..Len(gs) /\ i \in 1..Len(gs) /\ i \in 1..Len(fs) - 1
      BY <1>1
    <3>2. gs[i + 1] = fs[i + 1] /\ gs[i] = fs[i]
      BY <1>1, <3>1
    <3>3. ASSUME fs[i + 1].kind \in Callables
          PROVE  fs[i + 1].depth \in 1..Len(es) - 1
      <4>1. DepthIn(fs[i + 1]) <= fs[Len(fs)].depth
        BY <1>1, <3>1 DEF DeferOK
      <4>2. fs[i + 1].depth \in Nat /\ fs[i].depth \in Nat
        BY <1>1, <3>1, FrameFields
      <4>3. DepthIn(fs[i + 1]) = fs[i + 1].depth + 1
        BY <3>3 DEF DepthIn
      <4>4. fs[i + 1].depth = DepthIn(fs[i]) /\ DepthIn(fs[i]) \in 1..Len(ds)
        BY <1>1, <3>1, DeferDepths DEF DeferOK
      <4>5. Len(es) = fs[Len(fs)].depth
        BY DEF Peek
      <4> QED
        BY <4>1, <4>2, <4>3, <4>4, <4>5
    <3> QED
      BY <3>1, <3>2, <3>3 DEF DeferOK
  <2>6. \A i, j \in 1..Len(gs) : i < j => DepthIn(gs[i]) <= gs[j].depth
    BY <1>1 DEF DeferOK
  <2>7. Len(es) = DepthIn(Peek(gs)) /\ Len(Peek(es)) = ScopesIn(Peek(gs))
    BY <1>1, <1>3, <2>3
  <2> HIDE DEF gs
  <2>8. DeferOK(gs, es)
    BY <2>1, <2>4, <2>5, <2>6, <2>7 DEF DeferOK
  <2> QED
    BY <2>8 DEF gs
<1> QED
  BY <1>2, <1>3

-----------------------------------------------------------------------------
(* What the visitors refer to.  insert and the blocks kept in frames       *)
(* exist, so that the function being generated is known, and an instance   *)
(* of a generic function has its name.                                     *)

FramesOK(fs, ins, n) ==
  fs # <<>> =>
    /\ ins \in 1..n
    /\ \A i \in 1..Len(fs) :
         /\ i > 1 => fs[i].insert \in 1..n
         /\ fs[i].kind \in Loops \cup Selects => fs[i].end \in 1..n
         /\ fs[i].kind = "generic" => fs[i].name \in Generics

LEMMA FramesOKAlike ==
  ASSUME NEW fs \in Seq(FrameType), NEW gs \in Seq(FrameType), Alike(fs, gs),
         NEW ins, NEW n \in Nat, NEW m \in Nat, n <= m,
         FramesOK(fs, ins, n), NEW new \in 1..m, fs # <<>>
  PROVE  FramesOK(gs, new, m)
<1>1. Len(fs) = Len(gs)
  BY DEF Alike
<1> QED
  BY <1>1 DEF Alike, FramesOK

LEMMA FramesOKPush ==
  ASSUME NEW fs \in Seq(FrameType), fs # <<>>, NEW f \in FrameType,
         NEW ins, NEW n \in Nat, NEW m \in Nat, n <= m,
         FramesOK(fs, ins, n), NEW new \in 1..m, f.insert \in 1..m,
         f.kind \in Loops \cup Selects => f.end \in 1..m,
         f.kind = "generic" => f.name \in Generics
  PROVE  FramesOK(Append(fs, f), new, m)
<1> DEFINE gs == Append(fs, f)
<1>1. /\ gs \in Seq(FrameType) /\ gs # <<>> /\ Len(gs) = Len(fs) + 1
      /\ Len(fs) \in Nat \ {0} /\ gs[Len(fs) + 1] = f
      /\ \A i \in 1..Len(fs) : gs[i] = fs[i]
  OBVIOUS
<1>2. ASSUME NEW i \in 1..Len(gs)
      PROVE  /\ i > 1 => gs[i].insert \in 1..m
             /\ gs[i].kind \in Loops \cup Selects => gs[i].end \in 1..m
             /\ gs[i].kind = "generic" => gs[i].name \in Generics
  <2>1. CASE i = Len(fs) + 1
    BY <1>1, <2>1
  <2>2. CASE i # Len(fs) + 1
    <3>1. i \in 1..Len(fs) /\ gs[i] = fs[i]
      BY <1>1, <2>2
    <3> QED
      BY <3>1 DEF FramesOK
  <2> QED
    BY <2>1, <2>2
<1> HIDE DEF gs
<1>3. FramesOK(gs, new, m)
  BY <1>2 DEF FramesOK
<1> QED
  BY <1>3 DEF gs

LEMMA FramesOKPop ==
  ASSUME NEW fs \in Seq(FrameType), fs # <<>>, NEW ins, NEW n \in Nat,
         FramesOK(fs, ins, n), NEW new, Len(fs) > 1 => new \in 1..n
  PROVE  FramesOK(Pop(fs), new, n)
<1> DEFINE gs == Pop(fs)
<1>1. /\ gs \in Seq(FrameType) /\ Len(gs) = Len(fs) - 1
      /\ Len(fs) \in Nat \ {0}
      /\ \A i \in 1..Len(gs) : gs[i] = fs[i] /\ i \in 1..Len(fs)
  BY PopType
<1>2. gs # <<>> => Len(fs) > 1
  BY <1>1
<1> HIDE DEF gs
<1>3. FramesOK(gs, new, n)
  BY <1>1, <1>2 DEF FramesOK
<1> QED
  BY <1>3 DEF gs

-----------------------------------------------------------------------------
(* Type correctness.                                                       *)

\* TypeOK is not inductive: that the defers a return runs are calls, and that a
\* block created in the middle of a function belongs to it, needs the stack of
\* defers and the blocks to fit the visits in progress.
TypeInv ==
  /\ TypeOK
  /\ DeferOK(frames, defer_calls_stack)
  /\ FramesOK(frames, insert, Len(blocks))

LEMMA InitTypes == Init => TypeInv
<1> SUFFICES ASSUME Init PROVE TypeInv
  OBVIOUS
<1>1. TypeOK
  <2>1. alloca_inst_table \in Seq(SUBSET Generics)
    BY DEF Init
  <2>2. frames \in Seq(FrameType) /\ blocks \in Seq(Block)
    BY DEF Init
  <2>3. break_blocks_stack \in Seq(Nat) /\ continue_blocks_stack \in Seq(Nat)
    BY DEF Init
  <2>4. defer_calls_stack \in Seq(Seq(Seq(DeferCall)))
    BY DEF Init
  <2> QED
    BY <2>1, <2>2, <2>3, <2>4 DEF Init, TypeOK
<1>2. DeferOK(frames, defer_calls_stack)
  <2>1. frames = <<>> /\ defer_calls_stack = <<>> /\ Len(frames) = 0
    BY DEF Init
  <2> QED
    BY <2>1 DEF DeferOK
<1>3. FramesOK(frames, insert, Len(blocks))
  BY DEF Init, FramesOK
<1> QED
  BY <1>1, <1>2, <1>3 DEF TypeInv

\* The facts the actions need of a state in which a visit is in progress.
LEMMA VisitFacts ==
  ASSUME TypeInv, frames # <<>>
  PROVE  /\ Len(frames) \in 1..Len(frames) /\ top = frames[Len(frames)]
         /\ top \in FrameType /\ Visiting \in Seq(FrameType)
         /\ defer_calls_stack \in DeferStacks /\ defer_calls_stack # <<>>
         /\ Len(defer_calls_stack) \in Nat \ {0}
         /\ Peek(defer_calls_stack) \in Seq(Seq(DeferCall))
         /\ Len(defer_calls_stack) = DepthIn(top)
         /\ Len(Peek(defer_calls_stack)) = ScopesIn(top)
         /\ insert \in 1..Len(blocks) /\ CurrentFunction \in Nat
         /\ Len(blocks) \in Nat
<1>1. Len(frames) \in 1..Len(frames) /\ top = frames[Len(frames)]
  BY DEF TypeInv, TypeOK, top, Peek
<1>2. top \in FrameType
  BY <1>1 DEF TypeInv, TypeOK
<1>3. Visiting \in Seq(FrameType)
  BY VisitingIsTyped DEF TypeInv, TypeOK
<1>4. defer_calls_stack \in DeferStacks
  BY DEF TypeInv, TypeOK, DeferStacks
<1>5. defer_calls_stack # <<>> /\ Len(defer_calls_stack) \in Nat \ {0}
  BY <1>4, DeferDepths DEF TypeInv, TypeOK
<1>6. Peek(defer_calls_stack) \in Seq(Seq(DeferCall))
  BY <1>4, <1>5, PeekType DEF DeferStacks
<1>7. /\ Len(defer_calls_stack) = DepthIn(top)
      /\ Len(Peek(defer_calls_stack)) = ScopesIn(top)
  BY DEF TypeInv, DeferOK, top
<1>8. insert \in 1..Len(blocks) /\ Len(blocks) \in Nat
  BY DEF TypeInv, FramesOK, TypeOK
<1>9. CurrentFunction \in Nat
  <2>1. blocks[insert] \in Block
    BY <1>8 DEF TypeInv, TypeOK
  <2> QED
    BY <2>1 DEF CurrentFunction, Block
<1> QED
  BY <1>1, <1>2, <1>3, <1>4, <1>5, <1>6, <1>7, <1>8, <1>9

LEMMA EnterFunctionTypes == TypeInv /\ EnterFunction => TypeInv'
<1> SUFFICES ASSUME TypeInv, EnterFunction PROVE TypeInv'
  OBVIOUS
<1> DEFINE entry == Len(blocks) + 1
           f     == [Frame("function") EXCEPT !.fn = entry]
           b     == [NewBlock(entry) EXCEPT !.insts = <<Work>>]
<1>1. frames = <<>> /\ defer_calls_stack = <<>> /\ entry \in Nat
  BY DEF EnterFunction, TypeInv, DeferOK, TypeOK
<1>2. f \in FrameType /\ f.kind = "function" /\ f.depth = 0 /\ f.scopes = 0
  <2>1. /\ insert \in Nat /\ break_blocks_stack \in Seq(Nat)
        /\ continue_blocks_stack \in Seq(Nat)
    BY DEF TypeInv, TypeOK
  <2>2. Len(defer_calls_stack) = 0
    BY <1>1
  <2>3. <<>> \in Seq(Nat)
    OBVIOUS
  <2> QED
    BY <1>1, <2>1, <2>2, <2>3 DEF Frame, FrameType, Callables
<1>3. b \in Block
  BY <1>1, EntryBlockType
<1>4. /\ frames' = <<f>> /\ blocks' = Append(blocks, b) /\ insert' = entry
      /\ defer_calls_stack' = Append(defer_calls_stack, <<>>)
      /\ alloca_inst_table' = Append(alloca_inst_table, {})
      /\ is_on_global_scope' = FALSE /\ functions' = functions + 1
      /\ UNCHANGED <<loopStacks, flags, undefined, visited>>
  BY DEF EnterFunction
<1> HIDE DEF f, b
<1>5. frames' \in Seq(FrameType) /\ Len(frames') = 1 /\ Peek(frames') = f
      /\ frames' # <<>> /\ frames'[1] = f
  BY <1>2, <1>4 DEF Peek
<1>6. defer_calls_stack' = << <<>> >>
  BY <1>1, <1>4
<1>7. /\ defer_calls_stack' \in Seq(Seq(Seq(DeferCall)))
      /\ Len(defer_calls_stack') = 1 /\ Peek(defer_calls_stack') = <<>>
  BY <1>6 DEF Peek
<1>8. blocks' \in Seq(Block) /\ Len(blocks') = entry
  BY <1>3, <1>4 DEF TypeInv, TypeOK
<1>9. TypeOK'
  <2>1. /\ alloca_inst_table' \in Seq(SUBSET Generics)
        /\ insert' \in Nat /\ functions' \in Nat
    BY <1>1, <1>4 DEF TypeInv, TypeOK
  <2> HIDE DEF entry
  <2> QED
    BY <1>4, <1>5, <1>7, <1>8, <2>1 DEF TypeInv, TypeOK, loopStacks, flags
<1>10. DeferOK(frames, defer_calls_stack)'
  BY <1>2, <1>5, <1>7 DEF DeferOK, DepthIn, ScopesIn, Callables
<1>11. FramesOK(frames, insert, Len(blocks))'
  BY <1>1, <1>2, <1>4, <1>5, <1>8 DEF FramesOK, Loops, Selects
<1> QED
  BY <1>9, <1>10, <1>11 DEF TypeInv

\* The end of a function gives the stack of defers back as it was found.
LEMMA LeaveCallable ==
  ASSUME TypeInv, frames # <<>>, top.kind \in Callables
  PROVE  /\ DeferOK(Pop(frames), Pop(defer_calls_stack))
         /\ Pop(defer_calls_stack) \in Seq(Seq(Seq(DeferCall)))
         /\ Pop(frames) \in Seq(FrameType)
<1> DEFINE ds == defer_calls_stack
           es == Pop(defer_calls_stack)
<1>1. /\ frames \in Seq(FrameType) /\ DeferOK(frames, ds)
      /\ ds \in DeferStacks /\ Len(ds) \in Nat \ {0} /\ ds # <<>>
      /\ Len(ds) = DepthIn(top) /\ top = frames[Len(frames)]
      /\ Len(frames) \in 1..Len(frames)
  BY VisitFacts DEF TypeInv, TypeOK
<1>2. /\ es \in DeferStacks /\ Len(es) = Len(ds) - 1
      /\ \A i \in 1..Len(ds) - 1 : es[i] = ds[i]
  BY <1>1, PopType DEF DeferStacks
<1>3. Len(es) = top.depth /\ top.depth \in Nat
  BY <1>1, <1>2, FrameFields DEF DepthIn
<1>4. ASSUME Len(frames) > 1 PROVE Len(Peek(es)) = top.scopes
  <2>1. Len(frames) - 1 \in 1..Len(frames) - 1 /\ Len(frames) - 1 \in 1..Len(frames)
        /\ (Len(frames) - 1) + 1 = Len(frames)
    BY <1>1, <1>4
  <2>2. Len(ds[top.depth]) = top.scopes /\ top.depth = DepthIn(frames[Len(frames) - 1])
    BY <1>1, <2>1 DEF DeferOK
  <2>3. top.depth \in 1..Len(ds)
    BY <1>1, <2>1, <2>2, DeferDepths
  <2>4. top.depth \in 1..Len(ds) - 1
    BY <1>1, <1>2, <1>3, <2>3
  <2> QED
    BY <1>2, <1>3, <2>2, <2>4 DEF Peek
<1>5. \A i \in 1..Len(es) - 1 : Len(es[i]) = Len(ds[i])
  BY <1>1, <1>2
<1> HIDE DEF ds, es
<1>6. DeferOK(Pop(frames), es)
  BY <1>1, <1>2, <1>3, <1>4, <1>5, DeferOKPop DEF top
<1> QED
  BY <1>1, <1>2, <1>6, PopType DEF es, DeferStacks

LEMMA LeaveFunctionTypes == TypeInv /\ LeaveFunction => TypeInv'
<1> SUFFICES ASSUME TypeInv, LeaveFunction PROVE TypeInv'
  OBVIOUS
<1>1. /\ frames # <<>> /\ top.kind \in Callables
      /\ alloca_inst_table' = Pop(alloca_inst_table)
      /\ defer_calls_stack' = Pop(defer_calls_stack)
      /\ has_return_statement' = FALSE /\ is_on_global_scope' = TRUE
      /\ frames' = Pop(frames)
      /\ UNCHANGED <<blocks, insert, loopStacks, has_break_or_continue_statement,
                     undefined, visited, functions>>
  BY DEF LeaveFunction, Callables
<1>2. /\ DeferOK(frames', defer_calls_stack')
      /\ defer_calls_stack' \in Seq(Seq(Seq(DeferCall)))
      /\ frames' \in Seq(FrameType)
  BY <1>1, LeaveCallable
<1>3. alloca_inst_table' \in Seq(SUBSET Generics)
  BY <1>1, PopType DEF TypeInv, TypeOK
<1>4. TypeOK'
  BY <1>1, <1>2, <1>3 DEF TypeInv, TypeOK, loopStacks
<1>5. FramesOK(frames', insert, Len(blocks))
  BY <1>1, VisitFacts, FramesOKPop DEF TypeInv, TypeOK
<1> QED
  BY <1>1, <1>2, <1>4, <1>5 DEF TypeInv

LEMMA DeclareGenericTypes == TypeInv /\ DeclareGeneric => TypeInv'
<1> SUFFICES ASSUME TypeInv, DeclareGeneric PROVE TypeInv'
  OBVIOUS
<1>1. /\ is_on_global_scope' = FALSE
      /\ UNCHANGED <<frames, blocks, insert, loopStacks, flags, tables,
                     undefined, visited, functions>>
  BY DEF DeclareGeneric
<1>2. TypeOK'
  BY <1>1 DEF TypeInv, TypeOK, loopStacks, flags, tables
<1> QED
  BY <1>1, <1>2 DEF TypeInv, tables

\* A function begins inside another: f is its frame with the blocks filled in.
LEMMA EnterInnerTypes ==
  ASSUME TypeInv, frames # <<>>, NEW frame \in FrameType,
         frame.kind \in Callables, frame.insert = insert,
         frame.depth = Len(defer_calls_stack),
         frame.scopes = Len(Peek(defer_calls_stack)),
         frame.kind = "generic" => frame.name \in Generics,
         EnterInner(frame), is_on_global_scope' \in BOOLEAN
  PROVE  TypeInv'
<1> DEFINE entry == Len(blocks) + 1
           f     == [frame EXCEPT !.fn = entry]
           b     == [NewBlock(entry) EXCEPT !.insts = <<Work>>]
<1>1. /\ defer_calls_stack \in DeferStacks /\ defer_calls_stack # <<>>
      /\ Len(defer_calls_stack) \in Nat \ {0} /\ Len(blocks) \in Nat
      /\ insert \in 1..Len(blocks) /\ Visiting \in Seq(FrameType)
      /\ Alike(frames, Visiting)
  BY VisitFacts, VisitingIsTyped DEF TypeInv, TypeOK
<1>2. /\ f \in FrameType /\ f.kind \in Callables
      /\ f.depth = Len(defer_calls_stack)
      /\ f.scopes = Len(Peek(defer_calls_stack)) /\ f.insert = insert
      /\ f.kind = "generic" => f.name \in Generics
  <2>1. entry \in Nat
    BY <1>1
  <2> QED
    BY <2>1 DEF FrameType
<1>3. b \in Block
  BY <1>1, EntryBlockType
<1>4. /\ frames' = Append(Visiting, f) /\ blocks' = Append(blocks, b)
      /\ insert' = entry /\ visited' = visited + 1
      /\ defer_calls_stack' = Append(defer_calls_stack, <<>>)
      /\ alloca_inst_table' = Append(alloca_inst_table, {})
      /\ UNCHANGED <<loopStacks, flags, undefined, functions>>
  BY DEF EnterInner, Count
<1> HIDE DEF f, b
<1>5. frames' \in Seq(FrameType) /\ Visiting # <<>>
  BY <1>1, <1>2, <1>4 DEF Alike
<1>6. blocks' \in Seq(Block) /\ Len(blocks') = entry
  BY <1>3, <1>4 DEF TypeInv, TypeOK
<1>7. /\ defer_calls_stack' \in DeferStacks
      /\ Len(defer_calls_stack') = Len(defer_calls_stack) + 1
      /\ Peek(defer_calls_stack') = <<>>
      /\ \A i \in 1..Len(defer_calls_stack) :
            defer_calls_stack'[i] = defer_calls_stack[i]
  BY <1>1, <1>4 DEF Peek, DeferStacks
<1>8. TypeOK'
  BY <1>1, <1>4, <1>5, <1>6, <1>7 DEF TypeInv, TypeOK, loopStacks, flags, DeferStacks
<1>9. DeferOK(Visiting, defer_calls_stack)
  BY <1>1, DeferOKAlike DEF TypeInv, TypeOK
<1>10. DeferOK(frames', defer_calls_stack')
  <2>1. /\ Len(defer_calls_stack') = DepthIn(f)
        /\ Len(Peek(defer_calls_stack')) = ScopesIn(f)
    BY <1>2, <1>7 DEF DepthIn, ScopesIn
  <2>2. /\ \A i \in 1..Len(defer_calls_stack) - 1 :
               Len(defer_calls_stack'[i]) = Len(defer_calls_stack[i])
        /\ Len(defer_calls_stack'[Len(defer_calls_stack)]) =
              Len(defer_calls_stack[Len(defer_calls_stack)])
    BY SMTT(60), <1>1, <1>7
  <2>3. DeferOK(Append(Visiting, f), defer_calls_stack')
    BY <1>1, <1>2, <1>5, <1>7, <1>9, <2>1, <2>2, DeferOKPush
  <2> QED
    BY <1>4, <2>3
<1>11. FramesOK(frames', insert', Len(blocks'))
  <2>1. FramesOK(Visiting, insert, Len(blocks))
    <3>1. frames \in Seq(FrameType) /\ FramesOK(frames, insert, Len(blocks))
          /\ Len(blocks) <= Len(blocks)
      BY <1>1 DEF TypeInv, TypeOK
    <3> QED
      BY <1>1, <3>1, FramesOKAlike
  <2>2. f.kind \notin Loops \cup Selects
    BY <1>2 DEF Callables, Loops, Selects
  <2>3. entry \in 1..Len(blocks') /\ f.insert \in 1..Len(blocks')
        /\ Len(blocks') \in Nat /\ Len(blocks) <= Len(blocks')
    BY <1>1, <1>2, <1>6
  <2> QED
    BY <1>1, <1>2, <1>4, <1>5, <2>1, <2>2, <2>3, FramesOKPush
<1> QED
  BY <1>8, <1>10, <1>11 DEF TypeInv

LEMMA EnterLambdaTypes == TypeInv /\ EnterLambda => TypeInv'
<1> SUFFICES ASSUME TypeInv, EnterLambda PROVE TypeInv'
  OBVIOUS
<1>1. frames # <<>> /\ EnterInner(Frame("lambda")) /\ UNCHANGED is_on_global_scope
  BY DEF EnterLambda, Visits
<1>2. /\ Frame("lambda") \in FrameType /\ Frame("lambda").kind = "lambda"
      /\ Frame("lambda").depth = Len(defer_calls_stack)
      /\ Frame("lambda").scopes = Len(Peek(defer_calls_stack))
      /\ Frame("lambda").insert = insert
  BY <1>1, VisitFacts, FrameIsTyped DEF TypeInv, Callables
<1>3. is_on_global_scope' \in BOOLEAN /\ "lambda" \in Callables
  BY <1>1 DEF TypeInv, TypeOK, Callables
<1> QED
  BY <1>1, <1>2, <1>3, EnterInnerTypes

LEMMA EnterGenericTypes ==
  ASSUME TypeInv, NEW g \in Generics, EnterGeneric(g)
  PROVE  TypeInv'
<1>1. /\ frames # <<>> /\ EnterInner([Frame("generic") EXCEPT !.name = g])
      /\ is_on_global_scope' = FALSE
  BY DEF EnterGeneric, Visits
<1>2. /\ Frame("generic") \in FrameType /\ Frame("generic").kind = "generic"
      /\ Frame("generic").depth = Len(defer_calls_stack)
      /\ Frame("generic").scopes = Len(Peek(defer_calls_stack))
      /\ Frame("generic").insert = insert
  BY <1>1, VisitFacts, FrameIsTyped DEF TypeInv, Callables
<1> DEFINE f == [Frame("generic") EXCEPT !.name = g]
<1>3. /\ f \in FrameType /\ f.kind = "generic" /\ f.insert = insert
      /\ f.depth = Len(defer_calls_stack) /\ f.name = g
      /\ f.scopes = Len(Peek(defer_calls_stack))
  BY <1>2 DEF FrameType
<1>4. is_on_global_scope' \in BOOLEAN /\ "generic" \in Callables
  BY <1>1 DEF Callables
<1> HIDE DEF f
<1>5. EnterInner(f)
  BY <1>1 DEF f
<1> QED
  BY <1>1, <1>3, <1>4, <1>5, EnterInnerTypes

\* A lambda or a generic ends.
LEMMA LeaveInnerTypes ==
  ASSUME TypeInv, frames # <<>>, top.kind \in Callables, LeaveInner,
         alloca_inst_table' \in Seq(SUBSET Generics),
         has_return_statement' \in BOOLEAN, is_on_global_scope' \in BOOLEAN
  PROVE  TypeInv'
<1>1. /\ blocks' = Emit(blocks, top.insert, <<Work>>)
      /\ insert' = top.insert /\ frames' = Pop(frames)
      /\ defer_calls_stack' = Pop(defer_calls_stack)
      /\ UNCHANGED <<loopStacks, has_break_or_continue_statement, undefined,
                     visited, functions>>
  BY DEF LeaveInner
<1>2. /\ DeferOK(frames', defer_calls_stack')
      /\ defer_calls_stack' \in Seq(Seq(Seq(DeferCall)))
      /\ frames' \in Seq(FrameType)
  BY <1>1, LeaveCallable
<1>3. top \in FrameType /\ top = frames[Len(frames)] /\ Len(blocks) \in Nat
      /\ Len(frames) \in 1..Len(frames)
  BY VisitFacts
<1>4. top.insert \in Nat
  BY <1>3 DEF FrameType
<1>5. <<Work>> \in Seq(Instruction)
  BY InstructionTypes
<1>6. blocks' \in Seq(Block) /\ Len(blocks') = Len(blocks)
  BY <1>1, <1>4, <1>5, EmitType DEF TypeInv, TypeOK
<1>7. TypeOK'
  BY <1>1, <1>2, <1>4, <1>6 DEF TypeInv, TypeOK, loopStacks
<1>8. FramesOK(frames', insert', Len(blocks'))
  <2>1. Len(frames) > 1 => top.insert \in 1..Len(blocks)
    BY <1>3 DEF TypeInv, FramesOK
  <2>2. FramesOK(Pop(frames), top.insert, Len(blocks))
    BY <1>3, <2>1, FramesOKPop DEF TypeInv, TypeOK
  <2> QED
    BY <1>1, <1>6, <2>2
<1> QED
  BY <1>2, <1>7, <1>8 DEF TypeInv

LEMMA LeaveLambdaTypes == TypeInv /\ LeaveLambda => TypeInv'
<1> SUFFICES ASSUME TypeInv, LeaveLambda PROVE TypeInv'
  OBVIOUS
<1>1. /\ frames # <<>> /\ top.kind \in Callables /\ LeaveInner
      /\ alloca_inst_table' = Pop(alloca_inst_table)
      /\ UNCHANGED <<has_return_statement, is_on_global_scope>>
  BY DEF LeaveLambda, Callables
<1>2. alloca_inst_table' \in Seq(SUBSET Generics)
  BY <1>1, PopType DEF TypeInv, TypeOK
<1> QED
  BY <1>1, <1>2, LeaveInnerTypes DEF TypeInv, TypeOK

LEMMA LeaveGenericTypes == TypeInv /\ LeaveGeneric => TypeInv'
<1> SUFFICES ASSUME TypeInv, LeaveGeneric PROVE TypeInv'
  OBVIOUS
<1> DEFINE outer == Pop(alloca_inst_table)
<1>1. /\ frames # <<>> /\ top.kind \in Callables /\ LeaveInner
      /\ alloca_inst_table' =
           [outer EXCEPT ![Len(outer)] = outer[Len(outer)] \cup {top.name}]
      /\ has_return_statement' = FALSE /\ is_on_global_scope' = TRUE
      /\ top.kind = "generic"
  BY DEF LeaveGeneric, Callables
<1>2. outer \in Seq(SUBSET Generics)
  BY PopType DEF TypeInv, TypeOK
<1>3. top.name \in Generics
  BY <1>1, VisitFacts DEF TypeInv, FramesOK
<1>4. alloca_inst_table' \in Seq(SUBSET Generics)
  <2>1. CASE outer = <<>>
    <3>1. Len(outer) \notin 1..Len(outer)
      BY <2>1
    <3> HIDE DEF outer
    <3> QED
      BY <1>1, <1>2, <3>1, ReplaceNothing
  <2>2. CASE outer # <<>>
    <3>1. outer[Len(outer)] \cup {top.name} \in SUBSET Generics
      BY <1>2, <1>3, <2>2
    <3> HIDE DEF outer
    <3> QED
      BY <1>1, <1>2, <3>1, ReplaceType
  <2> QED
    BY <2>1, <2>2
<1> QED
  BY <1>1, <1>4, LeaveInnerTypes

\* The visits in progress stay the same, up to fields of no importance here.
LEMMA SameVisits ==
  ASSUME TypeInv, frames # <<>>, NEW gs \in Seq(FrameType), Alike(frames, gs),
         NEW m \in Nat, Len(blocks) <= m, NEW new \in 1..m
  PROVE  DeferOK(gs, defer_calls_stack) /\ FramesOK(gs, new, m)
<1>1. /\ frames \in Seq(FrameType) /\ DeferOK(frames, defer_calls_stack)
      /\ defer_calls_stack \in DeferStacks /\ Len(blocks) \in Nat
      /\ FramesOK(frames, insert, Len(blocks))
  BY VisitFacts DEF TypeInv, TypeOK
<1>2. DeferOK(gs, defer_calls_stack)
  BY <1>1, DeferOKAlike
<1>3. FramesOK(gs, new, m)
  BY <1>1, FramesOKAlike
<1> QED
  BY <1>2, <1>3

\* A visit of an if, a switch or a loop begins; f is its frame.
LEMMA EnterConstruct ==
  ASSUME TypeInv, frames # <<>>, NEW f \in FrameType,
         f.kind \in Loops \cup Selects, f.insert = insert,
         f.depth = Len(defer_calls_stack),
         f.scopes = Len(Peek(defer_calls_stack)),
         NEW m \in Nat, Len(blocks) <= m, f.end \in 1..m, NEW new \in 1..m
  PROVE  /\ Append(Visiting, f) \in Seq(FrameType)
         /\ DeferOK(Append(Visiting, f), defer_calls_stack)
         /\ FramesOK(Append(Visiting, f), new, m)
<1>1. /\ defer_calls_stack \in DeferStacks /\ defer_calls_stack # <<>>
      /\ Len(defer_calls_stack) \in Nat \ {0} /\ Len(blocks) \in Nat
      /\ insert \in 1..Len(blocks) /\ Visiting \in Seq(FrameType)
      /\ Alike(frames, Visiting) /\ frames \in Seq(FrameType)
  BY VisitFacts, VisitingIsTyped DEF TypeInv, TypeOK
<1>2. Visiting # <<>>
  BY <1>1 DEF Alike
<1>3. f.kind \notin Callables /\ f.kind # "block" /\ f.kind # "generic"
  BY DEF Callables, Loops, Selects
<1>4. DeferOK(Visiting, defer_calls_stack) /\ FramesOK(Visiting, new, m)
  BY <1>1, SameVisits
<1>5. DeferOK(Append(Visiting, f), defer_calls_stack)
  <2>1. /\ Len(defer_calls_stack) = DepthIn(f)
        /\ Len(Peek(defer_calls_stack)) = ScopesIn(f)
    BY <1>3 DEF DepthIn, ScopesIn
  <2> QED
    BY <1>1, <1>2, <1>3, <1>4, <2>1, DeferOKPush
<1>6. FramesOK(Append(Visiting, f), new, m)
  <2>1. f.insert \in 1..m /\ m <= m
    BY <1>1
  <2> QED
    BY <1>1, <1>2, <1>3, <1>4, <2>1, FramesOKPush
<1> QED
  BY <1>1, <1>5, <1>6

\* A visit of an if, a switch or a loop ends.
LEMMA LeaveConstruct ==
  ASSUME TypeInv, frames # <<>>, top.kind \in Loops \cup Selects
  PROVE  /\ Pop(frames) \in Seq(FrameType) /\ top.end \in 1..Len(blocks)
         /\ DeferOK(Pop(frames), defer_calls_stack)
         /\ FramesOK(Pop(frames), top.end, Len(blocks))
<1>1. /\ defer_calls_stack \in DeferStacks /\ Len(blocks) \in Nat
      /\ frames \in Seq(FrameType) /\ top = frames[Len(frames)]
      /\ Len(defer_calls_stack) = DepthIn(top)
      /\ Len(Peek(defer_calls_stack)) = ScopesIn(top)
      /\ Len(frames) \in 1..Len(frames)
  BY VisitFacts DEF TypeInv, TypeOK
<1>2. top.end \in 1..Len(blocks)
  BY <1>1 DEF TypeInv, FramesOK
<1>3. top.kind \notin Callables /\ top.kind # "block"
  BY DEF Callables, Loops, Selects
<1>4. /\ Len(defer_calls_stack) = Peek(frames).depth
      /\ Len(Peek(defer_calls_stack)) = Peek(frames).scopes
  BY <1>1, <1>3 DEF DepthIn, ScopesIn, top
<1>5. DeferOK(Pop(frames), defer_calls_stack)
  BY <1>1, <1>4, DeferOKPop DEF TypeInv
<1>6. FramesOK(Pop(frames), top.end, Len(blocks))
  BY <1>1, <1>2, FramesOKPop DEF TypeInv
<1> QED
  BY <1>1, <1>2, <1>5, <1>6, PopType

\* Code is added to the block being filled, and nothing else happens but that a
\* statement has been visited.
LEMMA EmitTypes ==
  ASSUME TypeInv, frames # <<>>, NEW s \in Seq(Instruction),
         blocks' = Emit(blocks, insert, s), NEW gs \in Seq(FrameType),
         Alike(frames, gs), frames' = gs, UNCHANGED insert
  PROVE  /\ blocks' \in Seq(Block) /\ Len(blocks') = Len(blocks)
         /\ DeferOK(frames', defer_calls_stack)
         /\ FramesOK(frames', insert', Len(blocks'))
<1>1. insert \in 1..Len(blocks) /\ Len(blocks) \in Nat /\ insert \in Nat
      /\ Len(blocks) <= Len(blocks)
  BY VisitFacts
<1>2. blocks' \in Seq(Block) /\ Len(blocks') = Len(blocks)
  BY <1>1, EmitType DEF TypeInv, TypeOK
<1>3. DeferOK(gs, defer_calls_stack) /\ FramesOK(gs, insert, Len(blocks))
  BY <1>1, SameVisits
<1> QED
  BY <1>2, <1>3

LEMMA CallInstanceTypes ==
  ASSUME TypeInv, NEW g \in Generics, CallInstance(g)
  PROVE  TypeInv'
<1>1. /\ frames # <<>> /\ blocks' = Emit(blocks, insert, <<Work>>)
      /\ frames' = Visiting /\ visited' = visited + 1
      /\ is_on_global_scope' = FALSE
      /\ UNCHANGED <<insert, loopStacks, flags, tables, undefined, functions>>
  BY DEF CallInstance, Visits, Count
<1>2. Visiting \in Seq(FrameType) /\ Alike(frames, Visiting)
  BY <1>1, VisitingIsTyped DEF TypeInv, TypeOK
<1>3. <<Work>> \in Seq(Instruction)
  BY InstructionTypes
<1>4. /\ blocks' \in Seq(Block) /\ Len(blocks') = Len(blocks)
      /\ DeferOK(frames', defer_calls_stack)
      /\ FramesOK(frames', insert', Len(blocks'))
  BY <1>1, <1>2, <1>3, EmitTypes
<1>5. TypeOK'
  <2>1. /\ visited' \in Nat
        /\ is_on_global_scope' \in BOOLEAN
        /\ frames' \in Seq(FrameType)
    <3>1. visited \in Nat
      BY DEF TypeInv, TypeOK
    <3>2. visited' \in Nat
      BY <1>1, <3>1
    <3>3. is_on_global_scope' \in BOOLEAN /\ frames' \in Seq(FrameType)
      BY <1>1, <1>2
    <3> QED
      BY <3>2, <3>3
  <2>2. UNCHANGED <<insert, loopStacks, flags, tables, undefined, functions>>
    BY <1>1
  <2> QED
    BY <1>4, <2>1, <2>2 DEF TypeInv, TypeOK, loopStacks, flags, tables
<1> QED
  BY <1>1, <1>4, <1>5 DEF TypeInv, tables

LEMMA PlainTypes == TypeInv /\ Plain => TypeInv'
<1> SUFFICES ASSUME TypeInv, Plain PROVE TypeInv'
  OBVIOUS
<1>1. /\ frames # <<>> /\ blocks' = Emit(blocks, insert, <<Work>>)
      /\ frames' = Visiting /\ visited' = visited + 1
      /\ UNCHANGED <<insert, loopStacks, flags, tables, is_on_global_scope,
                     undefined, functions>>
  BY DEF Plain, Visits, Count
<1>2. Visiting \in Seq(FrameType) /\ Alike(frames, Visiting)
  BY <1>1, VisitingIsTyped DEF TypeInv, TypeOK
<1>3. <<Work>> \in Seq(Instruction)
  BY InstructionTypes
<1>4. /\ blocks' \in Seq(Block) /\ Len(blocks') = Len(blocks)
      /\ DeferOK(frames', defer_calls_stack)
      /\ FramesOK(frames', insert', Len(blocks'))
  BY <1>1, <1>2, <1>3, EmitTypes
<1>5. TypeOK'
  BY <1>1, <1>2, <1>4 DEF TypeInv, TypeOK, loopStacks, flags, tables
<1> QED
  BY <1>1, <1>4, <1>5 DEF TypeInv, tables

LEMMA EnterBlockTypes == TypeInv /\ EnterBlock => TypeInv'
<1> SUFFICES ASSUME TypeInv, EnterBlock PROVE TypeInv'
  OBVIOUS
<1> DEFINE ds == defer_calls_stack
           f  == Frame("block")
           e  == Append(ds[Len(ds)], <<>>)
<1>1. /\ frames # <<>> /\ visited' \in {visited, visited + 1}
      /\ alloca_inst_table' = Append(alloca_inst_table, {})
      /\ defer_calls_stack' = [ds EXCEPT ![Len(ds)] = e]
      /\ frames' = Append(Visiting, f)
      /\ UNCHANGED <<blocks, insert, loopStacks, flags, is_on_global_scope,
                     undefined, functions>>
  BY DEF EnterBlock, Count
<1>2. /\ ds \in DeferStacks /\ ds # <<>> /\ Len(ds) \in Nat \ {0}
      /\ Peek(ds) \in Seq(Seq(DeferCall)) /\ Len(blocks) \in Nat
      /\ insert \in 1..Len(blocks) /\ Visiting \in Seq(FrameType)
      /\ Alike(frames, Visiting) /\ Peek(ds) = ds[Len(ds)]
  BY <1>1, VisitFacts, VisitingIsTyped DEF TypeInv, TypeOK, Peek
<1>3. /\ f \in FrameType /\ f.kind = "block" /\ f.depth = Len(ds)
      /\ f.scopes = Len(Peek(ds)) /\ f.insert = insert
  BY <1>2, FrameIsTyped DEF TypeInv
<1>4. e \in Seq(Seq(DeferCall)) /\ Len(e) = Len(Peek(ds)) + 1
  BY <1>2
<1> HIDE DEF f, e
<1>5. /\ defer_calls_stack' \in DeferStacks /\ Len(defer_calls_stack') = Len(ds)
      /\ \A i \in 1..Len(ds) :
           defer_calls_stack'[i] = IF i = Len(ds) THEN e ELSE ds[i]
  BY <1>1, <1>2, <1>4, ReplaceType DEF DeferStacks
<1>6. Peek(defer_calls_stack') = e
  BY <1>2, <1>5 DEF Peek
<1>7. frames' \in Seq(FrameType) /\ Visiting # <<>>
  BY <1>1, <1>2, <1>3 DEF Alike
<1>8. TypeOK'
  <2>1. /\ alloca_inst_table' \in Seq(SUBSET Generics) /\ visited' \in Nat
        /\ defer_calls_stack' \in Seq(Seq(Seq(DeferCall)))
    BY <1>1, <1>5 DEF TypeInv, TypeOK, DeferStacks
  <2> QED
    BY <1>1, <1>7, <2>1 DEF TypeInv, TypeOK, loopStacks, flags
<1>9. DeferOK(Visiting, ds) /\ FramesOK(Visiting, insert, Len(blocks))
  <2>1. Len(blocks) <= Len(blocks)
    BY <1>2
  <2> QED
    BY <1>1, <1>2, <2>1, SameVisits
<1>10. DeferOK(frames', defer_calls_stack')
  <2>1. Len(defer_calls_stack') = DepthIn(f) /\ f.kind \notin Callables
    BY <1>3, <1>5 DEF DepthIn, Callables
  <2>2. Len(Peek(defer_calls_stack')) = ScopesIn(f)
    BY <1>3, <1>4, <1>6 DEF ScopesIn, Callables
  <2>3. \A i \in 1..Len(ds) - 1 : Len(defer_calls_stack'[i]) = Len(ds[i])
    BY <1>2, <1>5
  <2>4. DeferOK(Append(Visiting, f), defer_calls_stack')
    BY <1>2, <1>3, <1>5, <1>7, <1>9, <2>1, <2>2, <2>3, DeferOKPush
  <2> QED
    BY <1>1, <2>4
<1>11. FramesOK(frames', insert', Len(blocks'))
  <2>1. f.kind \notin Loops \cup Selects /\ f.kind # "generic"
        /\ Len(blocks) <= Len(blocks)
    BY <1>2, <1>3 DEF Loops, Selects
  <2>2. FramesOK(Append(Visiting, f), insert, Len(blocks))
    BY <1>2, <1>3, <1>7, <1>9, <2>1, FramesOKPush
  <2> QED
    BY <1>1, <2>2
<1> QED
  BY <1>8, <1>10, <1>11 DEF TypeInv

LEMMA LeaveBlockTypes == TypeInv /\ LeaveBlock => TypeInv'
<1> SUFFICES ASSUME TypeInv, LeaveBlock PROVE TypeInv'
  OBVIOUS
<1> DEFINE ds    == defer_calls_stack
           e     == Pop(ds[Len(ds)])
           code  == execute_scope_defer_calls(Peek(Peek(ds)))
<1>1. /\ frames # <<>> /\ top.kind = "block"
      /\ blocks' = IF top.should_execute_defers
                   THEN Emit(blocks, insert, <<code>>) ELSE blocks
      /\ alloca_inst_table' = Pop(alloca_inst_table)
      /\ defer_calls_stack' = [ds EXCEPT ![Len(ds)] = e]
      /\ frames' = Pop(frames)
      /\ UNCHANGED <<insert, loopStacks, flags, is_on_global_scope, undefined,
                     visited, functions>>
  BY DEF LeaveBlock
<1>2. /\ ds \in DeferStacks /\ ds # <<>> /\ Len(ds) \in Nat \ {0}
      /\ Peek(ds) \in Seq(Seq(DeferCall)) /\ Len(blocks) \in Nat
      /\ insert \in 1..Len(blocks) /\ Peek(ds) = ds[Len(ds)]
      /\ top = frames[Len(frames)] /\ Len(frames) \in 1..Len(frames)
      /\ Len(ds) = DepthIn(top) /\ Len(Peek(ds)) = ScopesIn(top)
  BY <1>1, VisitFacts DEF Peek
<1>3. /\ Len(ds) = top.depth /\ Len(Peek(ds)) = top.scopes + 1
      /\ top.scopes \in Nat /\ top.depth \in Nat
  <2>1. top.depth \in Nat /\ top.scopes \in Nat
    BY <1>2, FrameFields DEF TypeInv, TypeOK
  <2> QED
    BY <1>1, <1>2, <2>1 DEF DepthIn, ScopesIn, Callables
<1>4. Peek(ds) # <<>>
  BY <1>3
<1>5. <<code>> \in Seq(Instruction)
  <2>1. Peek(Peek(ds)) \in Seq(DeferCall)
    BY <1>2, <1>4, PeekType
  <2>2. code \in Instruction
    BY <2>1, ScopeCallsType
  <2> QED
    BY <2>2
<1>6. e \in Seq(Seq(DeferCall)) /\ Len(e) = top.scopes
  BY <1>2, <1>3, <1>4, PopType
<1> HIDE DEF e, code
<1>7. /\ defer_calls_stack' \in DeferStacks /\ Len(defer_calls_stack') = Len(ds)
      /\ \A i \in 1..Len(ds) :
           defer_calls_stack'[i] = IF i = Len(ds) THEN e ELSE ds[i]
  BY <1>1, <1>2, <1>6, ReplaceType DEF DeferStacks
<1>8. Peek(defer_calls_stack') = e
  BY <1>2, <1>7 DEF Peek
<1>9. blocks' \in Seq(Block) /\ Len(blocks') = Len(blocks)
  <2>1. blocks \in Seq(Block) /\ insert \in Nat
    BY DEF TypeInv, TypeOK
  <2>2. /\ Emit(blocks, insert, <<code>>) \in Seq(Block)
        /\ Len(Emit(blocks, insert, <<code>>)) = Len(blocks)
    BY <1>5, <2>1, EmitType
  <2> QED
    BY <1>1, <2>1, <2>2
<1>10. frames \in Seq(FrameType) /\ frames' \in Seq(FrameType)
  BY <1>1, PopType DEF TypeInv, TypeOK
<1>11. TypeOK'
  <2>1. alloca_inst_table' \in Seq(SUBSET Generics)
    BY <1>1, PopType DEF TypeInv, TypeOK
  <2>2. defer_calls_stack' \in Seq(Seq(Seq(DeferCall)))
    BY <1>7 DEF DeferStacks
  <2> QED
    BY <1>1, <1>9, <1>10, <2>1, <2>2 DEF TypeInv, TypeOK, loopStacks, flags
<1>12. DeferOK(frames', defer_calls_stack')
  <2>1. /\ Len(defer_calls_stack') = Peek(frames).depth
        /\ Len(Peek(defer_calls_stack')) = Peek(frames).scopes
    BY <1>3, <1>6, <1>7, <1>8 DEF top
  <2>2. \A i \in 1..Len(defer_calls_stack') - 1 :
          Len(defer_calls_stack'[i]) = Len(ds[i])
    BY <1>2, <1>7
  <2>3. DeferOK(frames, ds)
    BY DEF TypeInv
  <2>4. DeferOK(Pop(frames), defer_calls_stack')
    BY <1>1, <1>2, <1>7, <1>10, <2>1, <2>2, <2>3, DeferOKPop
  <2> QED
    BY <1>1, <2>4
<1>13. FramesOK(frames', insert', Len(blocks'))
  <2>1. FramesOK(Pop(frames), insert, Len(blocks))
    BY <1>1, <1>2, <1>10, FramesOKPop DEF TypeInv
  <2> QED
    BY <1>1, <1>9, <2>1
<1> QED
  BY <1>11, <1>12, <1>13 DEF TypeInv

\* A defer is noted in the frame of its block, which changes nothing else.
LEMMA DeferAlike ==
  ASSUME TypeInv, NEW kind \in DeferCallees, Defer(kind)
  PROVE  frames' \in Seq(FrameType) /\ Alike(frames, frames')
<1> DEFINE id == visited + 1
           at == Visiting[InnermostBlock]
           d  == [at EXCEPT !.declared = Append(at.declared, id)]
           gs == [Visiting EXCEPT ![InnermostBlock] = d]
<1>1. frames # <<>> /\ frames' = gs
  BY DEF Defer, Visits
<1>2. Visiting \in Seq(FrameType) /\ Alike(frames, Visiting)
  BY <1>1, VisitFacts, VisitingIsTyped DEF TypeInv, TypeOK
<1>3. id \in Nat
  BY DEF TypeInv, TypeOK
<1> HIDE DEF id
<1>4. gs \in Seq(FrameType) /\ Alike(frames, gs)
  <2>1. CASE InnermostBlock \notin 1..Len(Visiting)
    <3>1. gs = Visiting
      BY <1>2, <2>1, ReplaceNothing
    <3> QED
      BY <1>2, <3>1
  <2>2. CASE InnermostBlock \in 1..Len(Visiting)
    <3>1. at \in FrameType
      BY <1>2, <2>2
    <3>2. Append(at.declared, id) \in Seq(Nat)
      BY <1>3, <3>1 DEF FrameType
    <3>3. /\ d \in FrameType
          /\ d.kind = at.kind /\ d.depth = at.depth /\ d.scopes = at.scopes
          /\ d.brk = at.brk /\ d.cnt = at.cnt /\ d.end = at.end
          /\ d.cond = at.cond /\ d.insert = at.insert /\ d.name = at.name
      BY <3>1, <3>2 DEF FrameType
    <3> HIDE DEF d
    <3>4. /\ gs \in Seq(FrameType) /\ Len(gs) = Len(Visiting)
          /\ \A j \in 1..Len(Visiting) :
               gs[j] = IF j = InnermostBlock THEN d ELSE Visiting[j]
      BY <1>2, <3>3, ReplaceType
    <3> HIDE DEF gs
    <3> QED
      BY <1>2, <3>3, <3>4 DEF Alike
  <2> QED
    BY <2>1, <2>2
<1> QED
  BY <1>1, <1>4

LEMMA DeferTypes ==
  ASSUME TypeInv, NEW kind \in DeferCallees, Defer(kind)
  PROVE  TypeInv'
<1> DEFINE ds   == defer_calls_stack
           id   == visited + 1
           call == [id |-> id, kind |-> kind]
           ss   == Peek(ds)
           e    == [ss EXCEPT ![Len(ss)] = PushFront(call, ss[Len(ss)])]
<1>1. /\ frames # <<>> /\ blocks' = Emit(blocks, insert, <<Eval(id)>>)
      /\ defer_calls_stack' = [ds EXCEPT ![Len(ds)] = e]
      /\ visited' = visited + 1
      /\ UNCHANGED <<insert, loopStacks, flags, alloca_inst_table,
                     is_on_global_scope, undefined, functions>>
  BY DEF Defer, Visits, Count
<1>2. /\ ds \in DeferStacks /\ ds # <<>> /\ Len(ds) \in Nat \ {0}
      /\ ss \in Seq(Seq(DeferCall)) /\ ss = ds[Len(ds)]
  BY <1>1, VisitFacts DEF Peek
<1>3. id \in Nat /\ call \in DeferCall
  <2>1. kind \in {"function", "pointer"}
    BY BoundsAssumption
  <2>2. id \in Nat
    BY DEF TypeInv, TypeOK
  <2> QED
    BY <2>1, <2>2 DEF DeferCall
<1> HIDE DEF id, call
<1>4. e \in Seq(Seq(DeferCall)) /\ Len(e) = Len(ss)
  <2>1. CASE ss = <<>>
    <3>1. Len(ss) \notin 1..Len(ss)
      BY <2>1
    <3>2. e = ss
      BY <1>2, <3>1, ReplaceNothing
    <3> QED
      BY <1>2, <3>2
  <2>2. CASE ss # <<>>
    <3>1. ss[Len(ss)] \in Seq(DeferCall)
      BY <1>2, <2>2
    <3>2. PushFront(call, ss[Len(ss)]) \in Seq(DeferCall)
      BY <1>3, <3>1 DEF PushFront
    <3> HIDE DEF ss
    <3> QED
      BY <1>2, <3>2, ReplaceType
  <2> QED
    BY <2>1, <2>2
<1>5. frames' \in Seq(FrameType) /\ Alike(frames, frames')
  BY DeferAlike
<1>6. <<Eval(id)>> \in Seq(Instruction)
  <2>1. Eval(id) \in Instruction
    BY <1>3, InstructionTypes
  <2> QED
    BY <2>1
<1> HIDE DEF e
<1>7. /\ blocks' \in Seq(Block) /\ Len(blocks') = Len(blocks)
      /\ DeferOK(frames', defer_calls_stack)
      /\ FramesOK(frames', insert', Len(blocks'))
  BY <1>1, <1>5, <1>6, EmitTypes
<1>8. /\ defer_calls_stack' \in DeferStacks /\ Len(defer_calls_stack') = Len(ds)
      /\ \A i \in 1..Len(ds) :
           defer_calls_stack'[i] = IF i = Len(ds) THEN e ELSE ds[i]
  BY <1>1, <1>2, <1>4, ReplaceType DEF DeferStacks
<1>9. DeferOK(frames', defer_calls_stack')
  <2>1. \A i \in 1..Len(ds) : Len(defer_calls_stack'[i]) = Len(ds[i])
    BY <1>2, <1>4, <1>8
  <2>2. frames' \in Seq(FrameType) /\ Alike(frames', frames')
    BY <1>1, <1>5 DEF Alike
  <2> QED
    BY <1>2, <1>7, <1>8, <2>1, <2>2, DeferOKAlike
<1>10. TypeOK'
  <2>1. visited' \in Nat /\ frames' \in Seq(FrameType)
        /\ defer_calls_stack' \in Seq(Seq(Seq(DeferCall)))
    BY <1>1, <1>5, <1>8 DEF TypeInv, TypeOK, DeferStacks
  <2> QED
    BY <1>1, <1>7, <2>1 DEF TypeInv, TypeOK, loopStacks, flags
<1> QED
  BY <1>7, <1>9, <1>10 DEF TypeInv

LEMMA EnterSelectTypes ==
  ASSUME TypeInv, NEW s \in Selects, NEW n \in Branches, EnterSelect(s, n)
  PROVE  TypeInv'
<1> DEFINE start == Len(blocks) + 1
           end   == Len(blocks) + 2
           true  == Len(blocks) + 3
           false == IF n > 1 THEN Len(blocks) + 4 ELSE end
           fn    == CurrentFunction
           test  == [NewBlock(fn) EXCEPT !.insts = <<Work, CondBr(true, false)>>]
           first == Emit(blocks, insert, <<Br(start)>>)
           new   == <<test, NewBlock(0), NewBlock(fn)>>
           more  == IF n > 1 THEN <<NewBlock(fn)>> ELSE <<>>
           f     == [Frame(s) EXCEPT !.fn = fn, !.end = end,
                                     !.next = false, !.left = n - 1]
<1>1. /\ frames # <<>> /\ blocks' = first \o new \o more
      /\ insert' = true /\ frames' = Append(Visiting, f)
      /\ alloca_inst_table' = Append(alloca_inst_table, {})
      /\ visited' = visited + 1
      /\ UNCHANGED <<loopStacks, flags, defer_calls_stack, is_on_global_scope,
                     undefined, functions>>
  BY DEF EnterSelect, Visits, Count, Others
<1>2. /\ Len(blocks) \in Nat /\ fn \in Nat /\ insert \in Nat
      /\ n \in Nat /\ n - 1 \in Nat
  <2>1. n \in Nat \ {0}
    BY BoundsAssumption
  <2> QED
    BY SMTT(60), <1>1, <2>1, VisitFacts
<1>3. start \in Nat /\ end \in Nat /\ true \in Nat /\ false \in Nat
  BY <1>2
<1> HIDE DEF fn
<1>4. first \in Seq(Block) /\ Len(first) = Len(blocks)
  <2>1. Br(start) \in Instruction
    BY <1>3, InstructionTypes
  <2>2. <<Br(start)>> \in Seq(Instruction)
    BY <2>1
  <2> QED
    BY <1>2, <2>2, EmitType DEF TypeInv, TypeOK
<1>5. test \in Block /\ NewBlock(0) \in Block /\ NewBlock(fn) \in Block
  <2>1. Work \in Instruction /\ CondBr(true, false) \in Instruction
    BY <1>3, InstructionTypes
  <2>2. <<Work, CondBr(true, false)>> \in Seq(Instruction)
    BY <2>1
  <2> QED
    BY <1>2, <2>2, NewBlockType
<1>6. /\ f \in FrameType /\ f.kind = s /\ f.insert = insert /\ f.end = end
      /\ f.depth = Len(defer_calls_stack)
      /\ f.scopes = Len(Peek(defer_calls_stack))
  <2>1. defer_calls_stack # <<>> /\ false \in Nat /\ end \in Nat
    BY <1>1, <1>3, VisitFacts
  <2>2. /\ Frame(s) \in FrameType /\ Frame(s).kind = s
        /\ Frame(s).insert = insert
        /\ Frame(s).depth = Len(defer_calls_stack)
        /\ Frame(s).scopes = Len(Peek(defer_calls_stack))
    BY <2>1, FrameIsTyped DEF TypeInv
  <2> HIDE DEF false, end
  <2> QED
    BY <1>2, <2>1, <2>2 DEF FrameType
<1> HIDE DEF test, first, f, start, false
<1>7. blocks' \in Seq(Block) /\ Len(blocks') >= Len(blocks) + 3
      /\ Len(blocks') \in Nat
  <2>1. new \in Seq(Block) /\ Len(new) = 3
    BY <1>5
  <2>2. more \in Seq(Block) /\ Len(more) \in Nat
    BY <1>5
  <2> HIDE DEF new, more
  <2>3. first \o new \in Seq(Block) /\ Len(first \o new) = Len(blocks) + 3
    BY <1>4, <2>1, ConcatBlocks
  <2>4. /\ (first \o new) \o more \in Seq(Block)
        /\ Len((first \o new) \o more) = Len(blocks) + 3 + Len(more)
    BY <2>2, <2>3, ConcatBlocks
  <2> QED
    BY <1>1, <1>2, <2>2, <2>4
<1>8. /\ frames' \in Seq(FrameType)
      /\ DeferOK(frames', defer_calls_stack)
      /\ FramesOK(frames', insert', Len(blocks'))
  <2>1. /\ end \in 1..Len(blocks') /\ true \in 1..Len(blocks')
        /\ Len(blocks) <= Len(blocks') /\ 0 \in Nat
        /\ s \in Loops \cup Selects
    BY <1>2, <1>7
  <2> QED
    BY <1>1, <1>2, <1>3, <1>6, <1>7, <2>1, EnterConstruct
<1>9. TypeOK'
  <2>1. /\ alloca_inst_table' \in Seq(SUBSET Generics) /\ visited' \in Nat
        /\ insert' \in Nat
    BY <1>1, <1>3 DEF TypeInv, TypeOK
  <2> QED
    BY <1>1, <1>7, <1>8, <2>1 DEF TypeInv, TypeOK, loopStacks, flags
<1> QED
  BY <1>1, <1>8, <1>9 DEF TypeInv
\* A branch ends with a jump to the end of its statement, or with nothing more.
LEMMA BranchEndType ==
  ASSUME TypeInv, frames # <<>>
  PROVE  BranchEnd \in Seq(Instruction)
<1>1. top.end \in Nat
  BY VisitFacts DEF FrameType
<1>2. Br(top.end) \in Instruction
  BY <1>1, InstructionTypes
<1> HIDE DEF Br
<1>3. <<Br(top.end)>> \in Seq(Instruction) /\ <<>> \in Seq(Instruction)
  BY <1>2
<1> QED
  BY <1>3 DEF BranchEnd

\* The frame of the statement goes on to its next branch.
LEMMA NextBranchAlike ==
  ASSUME TypeInv, NextBranch
  PROVE  frames' \in Seq(FrameType) /\ Alike(frames, frames')
<1> DEFINE false == IF top.left > 1 THEN Len(blocks) + 2 ELSE top.end
           f     == [top EXCEPT !.open = TRUE, !.next = false,
                                !.left = top.left - 1]
<1>1. /\ frames # <<>> /\ top.left > 0
      /\ frames' = [frames EXCEPT ![Len(frames)] = f]
  BY DEF NextBranch, top, Peek
<1>2. /\ Len(blocks) \in Nat /\ top \in FrameType
      /\ frames \in Seq(FrameType) /\ top = frames[Len(frames)]
      /\ Len(frames) \in 1..Len(frames)
  BY <1>1, VisitFacts DEF TypeInv, TypeOK
<1>3. top.end \in Nat /\ top.left \in Nat
  BY <1>2 DEF FrameType
<1>4. false \in Nat /\ top.left - 1 \in Nat
  BY <1>1, <1>2, <1>3
<1> HIDE DEF false
<1>5. /\ f \in FrameType /\ f.kind = top.kind /\ f.depth = top.depth
      /\ f.scopes = top.scopes /\ f.brk = top.brk /\ f.cnt = top.cnt
      /\ f.end = top.end /\ f.cond = top.cond /\ f.insert = top.insert
      /\ f.name = top.name
  BY <1>2, <1>4 DEF FrameType
<1> HIDE DEF f
<1>6. /\ frames' \in Seq(FrameType) /\ Len(frames') = Len(frames)
      /\ \A j \in 1..Len(frames) :
           frames'[j] = IF j = Len(frames) THEN f ELSE frames[j]
  BY <1>1, <1>2, <1>5, ReplaceType
<1> QED
  BY <1>2, <1>5, <1>6 DEF Alike

LEMMA NextBranchTypes == TypeInv /\ NextBranch => TypeInv'
<1> SUFFICES ASSUME TypeInv, NextBranch PROVE TypeInv'
  OBVIOUS
<1> DEFINE true  == Len(blocks) + 1
           false == IF top.left > 1 THEN Len(blocks) + 2 ELSE top.end
           first == Emit(blocks, insert, BranchEnd)
           test  == Emit(first, top.next, <<Work, CondBr(true, false)>>)
           new   == <<NewBlock(top.fn)>>
           more  == IF top.left > 1 THEN <<NewBlock(top.fn)>> ELSE <<>>
<1>1. /\ frames # <<>> /\ top.left > 0
      /\ blocks' = test \o new \o more
      /\ insert' = true /\ has_return_statement' = FALSE
      /\ alloca_inst_table' =
           [alloca_inst_table EXCEPT ![Len(alloca_inst_table)] = {}]
      /\ UNCHANGED <<loopStacks, has_break_or_continue_statement,
                     defer_calls_stack, is_on_global_scope, undefined, visited,
                     functions>>
  BY DEF NextBranch
<1>2. /\ Len(blocks) \in Nat /\ insert \in Nat /\ top \in FrameType
      /\ frames \in Seq(FrameType) /\ top = frames[Len(frames)]
      /\ Len(frames) \in 1..Len(frames)
  BY <1>1, VisitFacts DEF TypeInv, TypeOK
<1>3. /\ top.end \in Nat /\ top.next \in Nat /\ top.fn \in Nat
      /\ top.left \in Nat /\ top.left - 1 \in Nat
  <2>1. /\ top.end \in Nat /\ top.next \in Nat /\ top.fn \in Nat
        /\ top.left \in Nat
    BY <1>2 DEF FrameType
  <2> QED
    BY <1>1, <2>1
<1>4. true \in Nat /\ false \in Nat
  BY <1>2, <1>3
<1> HIDE DEF false
<1>5. frames' \in Seq(FrameType) /\ Alike(frames, frames')
  BY NextBranchAlike
<1>6. test \in Seq(Block) /\ Len(test) = Len(blocks)
  <2>1. first \in Seq(Block) /\ Len(first) = Len(blocks)
    BY <1>1, <1>2, BranchEndType, EmitType DEF TypeInv, TypeOK
  <2>2. Work \in Instruction /\ CondBr(true, false) \in Instruction
    BY <1>4, InstructionTypes
  <2>3. <<Work, CondBr(true, false)>> \in Seq(Instruction)
    BY <2>2
  <2> HIDE DEF first
  <2> QED
    BY <1>3, <2>1, <2>3, EmitType
<1>7. /\ new \in Seq(Block) /\ Len(new) = 1
      /\ more \in Seq(Block) /\ Len(more) \in Nat
  <2>1. NewBlock(top.fn) \in Block
    <3>1. <<>> \in Seq(Instruction)
      OBVIOUS
    <3> QED
      BY <1>3, <3>1, NewBlockType
  <2> QED
    BY <2>1
<1> HIDE DEF test, new, more
<1>8. blocks' \in Seq(Block) /\ Len(blocks') \in Nat
      /\ Len(blocks') >= Len(blocks) + 1
  <2>1. test \o new \in Seq(Block) /\ Len(test \o new) = Len(blocks) + 1
    BY <1>6, <1>7, ConcatBlocks
  <2>2. /\ (test \o new) \o more \in Seq(Block)
        /\ Len((test \o new) \o more) = Len(blocks) + 1 + Len(more)
    BY <1>7, <2>1, ConcatBlocks
  <2> QED
    BY <1>1, <1>2, <1>7, <2>2
<1>9. /\ DeferOK(frames', defer_calls_stack)
      /\ FramesOK(frames', insert', Len(blocks'))
  <2>1. true \in 1..Len(blocks') /\ Len(blocks) <= Len(blocks')
    BY <1>2, <1>8
  <2> QED
    BY <1>1, <1>5, <1>8, <2>1, SameVisits
<1>10. TypeOK'
  <2>1. alloca_inst_table' \in Seq(SUBSET Generics) /\ insert' \in Nat
    BY <1>1, <1>4, ReplaceType DEF TypeInv, TypeOK
  <2> QED
    BY <1>1, <1>5, <1>8, <2>1 DEF TypeInv, TypeOK, loopStacks
<1> QED
  BY <1>1, <1>9, <1>10 DEF TypeInv

\* The block that follows a statement is placed behind the code of its last
\* part, and filled from then on.
LEMMA PlaceTypes ==
  ASSUME TypeInv, frames # <<>>, top.kind \in Loops \cup Selects,
         NEW s \in Seq(Instruction),
         blocks' = Place(Emit(blocks, insert, s), top.end, top.fn),
         frames' = Pop(frames), insert' = top.end
  PROVE  /\ blocks' \in Seq(Block) /\ frames' \in Seq(FrameType)
         /\ insert' \in Nat
         /\ DeferOK(frames', defer_calls_stack)
         /\ FramesOK(frames', insert', Len(blocks'))
<1>1. /\ insert \in Nat /\ top.fn \in Nat /\ top.end \in Nat
      /\ blocks \in Seq(Block)
  BY VisitFacts DEF TypeInv, TypeOK, FrameType
<1>2. /\ Emit(blocks, insert, s) \in Seq(Block)
      /\ Len(Emit(blocks, insert, s)) = Len(blocks)
  BY <1>1, EmitType
<1>3. blocks' \in Seq(Block) /\ Len(blocks') = Len(blocks)
  BY <1>1, <1>2, PlaceType
<1> QED
  BY <1>1, <1>3, LeaveConstruct

LEMMA LeaveSelectTypes == TypeInv /\ LeaveSelect => TypeInv'
<1> SUFFICES ASSUME TypeInv, LeaveSelect PROVE TypeInv'
  OBVIOUS
<1>1. /\ frames # <<>> /\ top.kind \in Loops \cup Selects
      /\ blocks' = Place(Emit(blocks, insert, BranchEnd), top.end, top.fn)
      /\ frames' = Pop(frames) /\ insert' = top.end
      /\ has_return_statement' = FALSE
      /\ has_break_or_continue_statement' = FALSE
      /\ alloca_inst_table' = Pop(alloca_inst_table)
      /\ UNCHANGED <<loopStacks, defer_calls_stack, is_on_global_scope,
                     undefined, visited, functions>>
  BY DEF LeaveSelect
<1>2. /\ blocks' \in Seq(Block) /\ frames' \in Seq(FrameType)
      /\ insert' \in Nat
      /\ DeferOK(frames', defer_calls_stack)
      /\ FramesOK(frames', insert', Len(blocks'))
  BY <1>1, BranchEndType, PlaceTypes
<1>3. TypeOK'
  <2>1. alloca_inst_table' \in Seq(SUBSET Generics)
    BY <1>1, PopType DEF TypeInv, TypeOK
  <2> QED
    BY <1>1, <1>2, <2>1 DEF TypeInv, TypeOK, loopStacks
<1> QED
  BY <1>1, <1>2, <1>3 DEF TypeInv
\* What all loops do once their blocks are made.
LEMMA PushLoopTypes ==
  ASSUME TypeInv, frames # <<>>, NEW s \in Loops, NEW end \in Nat,
         NEW cond \in Nat, NEW fn \in Nat, PushLoop(s, end, cond, fn),
         blocks' \in Seq(Block), Len(blocks) <= Len(blocks'),
         end \in 1..Len(blocks'), insert' \in 1..Len(blocks')
  PROVE  TypeInv'
<1> DEFINE f == [Frame(s) EXCEPT !.fn = fn, !.end = end, !.cond = cond]
<1>1. /\ break_blocks_stack' = Append(break_blocks_stack, end)
      /\ continue_blocks_stack' = Append(continue_blocks_stack, cond)
      /\ alloca_inst_table' = Append(alloca_inst_table, {})
      /\ frames' = Append(Visiting, f) /\ visited' = visited + 1
      /\ UNCHANGED <<flags, defer_calls_stack, is_on_global_scope, undefined,
                     functions>>
  BY DEF PushLoop, Count
<1>2. Len(blocks') \in Nat /\ insert' \in Nat
  OBVIOUS
<1>3. /\ f \in FrameType /\ f.kind = s /\ f.insert = insert /\ f.end = end
      /\ f.depth = Len(defer_calls_stack)
      /\ f.scopes = Len(Peek(defer_calls_stack))
  <2>1. defer_calls_stack # <<>>
    BY VisitFacts
  <2>2. /\ Frame(s) \in FrameType /\ Frame(s).kind = s
        /\ Frame(s).insert = insert
        /\ Frame(s).depth = Len(defer_calls_stack)
        /\ Frame(s).scopes = Len(Peek(defer_calls_stack))
    BY <2>1, FrameIsTyped DEF TypeInv
  <2> QED
    BY <2>2 DEF FrameType
<1> HIDE DEF f
<1>4. /\ frames' \in Seq(FrameType)
      /\ DeferOK(frames', defer_calls_stack)
      /\ FramesOK(frames', insert', Len(blocks'))
  <2>1. s \in Loops \cup Selects
    OBVIOUS
  <2> QED
    BY <1>1, <1>2, <1>3, <2>1, EnterConstruct
<1>5. TypeOK'
  <2>1. /\ alloca_inst_table' \in Seq(SUBSET Generics) /\ visited' \in Nat
        /\ break_blocks_stack' \in Seq(Nat)
        /\ continue_blocks_stack' \in Seq(Nat)
    BY <1>1 DEF TypeInv, TypeOK
  <2> QED
    BY <1>1, <1>2, <1>4, <2>1 DEF TypeInv, TypeOK, flags
<1> QED
  BY <1>1, <1>4, <1>5 DEF TypeInv

LEMMA EnterConditionLoopTypes ==
  ASSUME TypeInv, NEW s \in Loops, EnterConditionLoop(s)
  PROVE  TypeInv'
<1> DEFINE cond  == Len(blocks) + 1
           body  == Len(blocks) + 2
           end   == Len(blocks) + 3
           fn    == CurrentFunction
           test  == [NewBlock(fn) EXCEPT !.insts = <<Work, CondBr(body, end)>>]
           first == IF s = "while" THEN <<>> ELSE <<Work>>
           code  == first \o <<Br(cond)>>
           old   == Emit(blocks, insert, code)
           entry == [NewBlock(fn) EXCEPT !.insts = first]
           new   == <<test, entry, NewBlock(0)>>
<1>1. /\ frames # <<>> /\ blocks' = old \o new /\ insert' = body
      /\ PushLoop(s, end, cond, fn)
  BY DEF EnterConditionLoop, Visits
<1>2. Len(blocks) \in Nat /\ fn \in Nat /\ insert \in Nat
  BY SMTT(60), <1>1, VisitFacts
<1>3. cond \in Nat /\ body \in Nat /\ end \in Nat
  BY <1>2
<1> HIDE DEF fn
<1>4. /\ Work \in Instruction /\ CondBr(body, end) \in Instruction
      /\ Br(cond) \in Instruction
  BY <1>3, InstructionTypes
<1>5. first \in Seq(Instruction) /\ code \in Seq(Instruction)
      /\ <<Work, CondBr(body, end)>> \in Seq(Instruction)
  <2>1. first \in Seq(Instruction) /\ <<Br(cond)>> \in Seq(Instruction)
    BY <1>4
  <2> HIDE DEF first
  <2>2. code \in Seq(Instruction)
    BY <2>1
  <2> QED
    BY <1>4, <2>1, <2>2
<1> HIDE DEF first, code
<1>6. old \in Seq(Block) /\ Len(old) = Len(blocks)
  BY <1>2, <1>5, EmitType DEF TypeInv, TypeOK
<1>7. test \in Block /\ entry \in Block /\ NewBlock(0) \in Block
  BY <1>2, <1>5, NewBlockType
<1> HIDE DEF old, test, entry
<1>8. new \in Seq(Block) /\ Len(new) = 3
  BY <1>7
<1> HIDE DEF new
<1>9. blocks' \in Seq(Block) /\ Len(blocks') = Len(blocks) + 3
  BY <1>1, <1>6, <1>8, ConcatBlocks
<1>10. /\ Len(blocks) <= Len(blocks') /\ end \in 1..Len(blocks')
       /\ insert' \in 1..Len(blocks')
  BY <1>1, <1>2, <1>9
<1> HIDE DEF cond, body, end
<1> QED
  BY <1>1, <1>2, <1>3, <1>9, <1>10, PushLoopTypes

LEMMA EnterForeverTypes == TypeInv /\ EnterForever => TypeInv'
<1> SUFFICES ASSUME TypeInv, EnterForever PROVE TypeInv'
  OBVIOUS
<1> DEFINE body == Len(blocks) + 1
           end  == Len(blocks) + 2
           fn   == CurrentFunction
           old  == Emit(blocks, insert, <<Br(body)>>)
           new  == <<NewBlock(fn), NewBlock(0)>>
<1>1. /\ frames # <<>> /\ blocks' = old \o new /\ insert' = body
      /\ PushLoop("forever", end, body, fn)
  BY DEF EnterForever, Visits
<1>2. Len(blocks) \in Nat /\ fn \in Nat /\ insert \in Nat
  BY <1>1, VisitFacts
<1>3. body \in Nat /\ end \in Nat /\ "forever" \in Loops
  BY <1>2 DEF Loops
<1> HIDE DEF fn
<1>4. old \in Seq(Block) /\ Len(old) = Len(blocks)
  <2>1. Br(body) \in Instruction
    BY <1>3, InstructionTypes
  <2>2. <<Br(body)>> \in Seq(Instruction)
    BY <2>1
  <2> QED
    BY <1>2, <2>2, EmitType DEF TypeInv, TypeOK
<1>5. new \in Seq(Block) /\ Len(new) = 2
  <2>1. <<>> \in Seq(Instruction)
    OBVIOUS
  <2>2. NewBlock(fn) \in Block /\ NewBlock(0) \in Block
    BY <1>2, <2>1, NewBlockType
  <2> QED
    BY <2>2
<1> HIDE DEF old, new
<1>6. blocks' \in Seq(Block) /\ Len(blocks') = Len(blocks) + 2
  BY <1>1, <1>4, <1>5, ConcatBlocks
<1>7. /\ Len(blocks) <= Len(blocks') /\ end \in 1..Len(blocks')
      /\ insert' \in 1..Len(blocks')
  BY <1>1, <1>2, <1>6
<1> HIDE DEF body, end
<1> QED
  BY <1>1, <1>2, <1>3, <1>6, <1>7, PushLoopTypes

LEMMA LeaveLoopTypes == TypeInv /\ LeaveLoop => TypeInv'
<1> SUFFICES ASSUME TypeInv, LeaveLoop PROVE TypeInv'
  OBVIOUS
<1> DEFINE back == IF has_break_or_continue_statement
                   THEN <<>> ELSE <<Br(top.cond)>>
<1>1. /\ frames # <<>> /\ top.kind \in Loops \cup Selects
      /\ blocks' = Place(Emit(blocks, insert, back), top.end, top.fn)
      /\ frames' = Pop(frames) /\ insert' = top.end
      /\ has_break_or_continue_statement' = FALSE
      /\ break_blocks_stack' = Pop(break_blocks_stack)
      /\ continue_blocks_stack' = Pop(continue_blocks_stack)
      /\ undefined' \in BOOLEAN
      /\ alloca_inst_table' = Pop(alloca_inst_table)
      /\ UNCHANGED <<has_return_statement, defer_calls_stack,
                     is_on_global_scope, visited, functions>>
  BY DEF LeaveLoop
<1>2. back \in Seq(Instruction)
  <2>1. top.cond \in Nat
    BY <1>1, VisitFacts DEF FrameType
  <2>2. Br(top.cond) \in Instruction
    BY <2>1, InstructionTypes
  <2> HIDE DEF Br
  <2> QED
    BY <2>2
<1> HIDE DEF back
<1>3. /\ blocks' \in Seq(Block) /\ frames' \in Seq(FrameType)
      /\ insert' \in Nat
      /\ DeferOK(frames', defer_calls_stack)
      /\ FramesOK(frames', insert', Len(blocks'))
  BY <1>1, <1>2, PlaceTypes
<1>4. TypeOK'
  <2>1. /\ alloca_inst_table' \in Seq(SUBSET Generics)
        /\ break_blocks_stack' \in Seq(Nat)
        /\ continue_blocks_stack' \in Seq(Nat)
    BY <1>1, PopType DEF TypeInv, TypeOK
  <2> QED
    BY <1>1, <1>3, <2>1 DEF TypeInv, TypeOK
<1> QED
  BY <1>1, <1>3, <1>4 DEF TypeInv

\* A return begins, with the defers to be called, and ends with its own instruction.
LEMMA EnterReturnTypes == TypeInv /\ EnterReturn => TypeInv'
<1> SUFFICES ASSUME TypeInv, EnterReturn PROVE TypeInv'
  OBVIOUS
<1> DEFINE defers == IF top.kind = "block"
                     THEN execute_all_defer_calls(Peek(defer_calls_stack))
                     ELSE <<>>
<1>1. /\ frames # <<>> /\ has_return_statement' = TRUE /\ frames' = Returning
      /\ blocks' = Emit(blocks, insert, defers)
      /\ UNCHANGED <<insert, loopStacks, has_break_or_continue_statement,
                     tables, is_on_global_scope, undefined, functions>>
  BY DEF EnterReturn
<1>2. Peek(defer_calls_stack) \in Seq(Seq(DeferCall))
  BY <1>1, VisitFacts
<1>3. defers \in Seq(Instruction)
  <2>1. execute_all_defer_calls(Peek(defer_calls_stack)) \in Seq(Instruction)
    BY <1>2, AllCallsType
  <2> QED
    BY <2>1
<1>4. frames' \in Seq(FrameType) /\ Alike(frames, frames')
  BY <1>1, VisitingIsTyped DEF TypeInv, TypeOK
<1> HIDE DEF defers
<1>5. /\ blocks' \in Seq(Block) /\ Len(blocks') = Len(blocks)
      /\ DeferOK(frames', defer_calls_stack)
      /\ FramesOK(frames', insert', Len(blocks'))
  BY <1>1, <1>3, <1>4, EmitTypes
<1>6. TypeOK'
  <2>1. visited' \in Nat
    BY DEF EnterReturn, Count, TypeInv, TypeOK
  <2> QED
    BY <1>1, <1>4, <1>5, <2>1 DEF TypeInv, TypeOK, loopStacks, tables
<1> QED
  BY <1>1, <1>5, <1>6 DEF TypeInv, tables

LEMMA LeaveReturnTypes == TypeInv /\ LeaveReturn => TypeInv'
<1> SUFFICES ASSUME TypeInv, LeaveReturn PROVE TypeInv'
  OBVIOUS
<1>1. /\ frames # <<>> /\ frames' = Returned
      /\ blocks' = Emit(blocks, insert, <<Ret>>)
      /\ UNCHANGED <<insert, loopStacks, flags, tables, is_on_global_scope,
                     undefined, visited, functions>>
  BY DEF LeaveReturn
<1>2. <<Ret>> \in Seq(Instruction)
  BY InstructionTypes
<1>3. frames' \in Seq(FrameType) /\ Alike(frames, frames')
  BY <1>1, VisitingIsTyped DEF TypeInv, TypeOK
<1>4. /\ blocks' \in Seq(Block) /\ Len(blocks') = Len(blocks)
      /\ DeferOK(frames', defer_calls_stack)
      /\ FramesOK(frames', insert', Len(blocks'))
  BY <1>1, <1>2, <1>3, EmitTypes
<1>5. TypeOK'
  BY <1>1, <1>3, <1>4 DEF TypeInv, TypeOK, loopStacks, tables, flags
<1> QED
  BY <1>1, <1>4, <1>5 DEF TypeInv, tables

\* What break and continue have in common; the stack that is theirs is left
\* with fewer targets.
LEMMA JumpTypes ==
  ASSUME TypeInv, NEW n \in Times, NEW stack \in Seq(Nat), frames # <<>>,
         Jump(n, stack),
         break_blocks_stack' \in Seq(Nat), continue_blocks_stack' \in Seq(Nat)
  PROVE  TypeInv'
<1> DEFINE left == SubSeq(stack, 1, Len(stack) - (n - 1))
           code == IF Len(stack) < n THEN <<>> ELSE <<Br(Peek(left))>>
<1>1. /\ blocks' = IF Len(stack) < n THEN blocks
                   ELSE Emit(blocks, insert, <<Br(Peek(left))>>)
      /\ has_break_or_continue_statement' = TRUE /\ undefined' \in BOOLEAN
      /\ frames' = Closed /\ visited' = visited + 1
      /\ UNCHANGED <<insert, has_return_statement, tables, is_on_global_scope,
                     functions>>
  BY DEF Jump, Count
<1>2. frames' \in Seq(FrameType) /\ Alike(frames, frames')
  BY <1>1, VisitingIsTyped DEF TypeInv, TypeOK
<1>3. /\ blocks' \in Seq(Block) /\ Len(blocks') = Len(blocks)
      /\ DeferOK(frames', defer_calls_stack)
      /\ FramesOK(frames', insert', Len(blocks'))
  <2>1. CASE Len(stack) < n
    <3>1. blocks' = blocks /\ insert' = insert
      BY <1>1, <2>1
    <3>2. insert \in 1..Len(blocks) /\ Len(blocks) \in Nat
          /\ Len(blocks) <= Len(blocks)
      BY VisitFacts
    <3>3. /\ DeferOK(frames', defer_calls_stack)
          /\ FramesOK(frames', insert, Len(blocks))
      BY <1>2, <3>2, SameVisits
    <3> QED
      BY <3>1, <3>3 DEF TypeInv, TypeOK
  <2>2. CASE ~(Len(stack) < n)
    <3>1. Peek(left) \in Nat
      <4>1. n \in Nat \ {0}
        BY BoundsAssumption
      <4> DEFINE k == Len(stack) - (n - 1)
      <4>2. k \in 1..Len(stack)
        BY <2>2, <4>1
      <4> HIDE DEF k
      <4>3. SubSeq(stack, 1, k) \in Seq(Nat) /\ Len(SubSeq(stack, 1, k)) = k
        BY <4>2
      <4>4. left \in Seq(Nat) /\ left # <<>>
        BY <4>2, <4>3 DEF k
      <4> QED
        BY <4>4, PeekType
    <3>2. <<Br(Peek(left))>> \in Seq(Instruction)
      <4> HIDE DEF left
      <4>1. Br(Peek(left)) \in Instruction
        BY <3>1, InstructionTypes
      <4> QED
        BY <4>1
    <3> HIDE DEF left
    <3> QED
      BY <1>1, <1>2, <2>2, <3>2, EmitTypes
  <2> QED
    BY <2>1, <2>2
<1>4. TypeOK'
  <2>1. visited' \in Nat
    BY <1>1 DEF TypeInv, TypeOK
  <2> QED
    BY <1>1, <1>2, <1>3, <2>1 DEF TypeInv, TypeOK, tables
<1> QED
  BY <1>1, <1>3, <1>4 DEF TypeInv, tables

LEMMA BreakTypes ==
  ASSUME TypeInv, NEW n \in Times, Break(n)
  PROVE  TypeInv'
<1>1. n \in Nat \ {0}
  BY BoundsAssumption
<1>2. frames # <<>> /\ Jump(n, break_blocks_stack)
  BY DEF Break, MayJump, Visits
<1>3. break_blocks_stack \in Seq(Nat) /\ continue_blocks_stack \in Seq(Nat)
  BY DEF TypeInv, TypeOK
<1>4. break_blocks_stack' \in Seq(Nat) /\ continue_blocks_stack' \in Seq(Nat)
  <2>1. SubSeq(break_blocks_stack, 1, Len(break_blocks_stack) - (n - 1))
          \in Seq(Nat)
    BY <1>1, <1>3
  <2> QED
    BY <1>3, <2>1 DEF Break
<1> QED
  BY <1>2, <1>3, <1>4, JumpTypes

LEMMA ContinueTypes ==
  ASSUME TypeInv, NEW n \in Times, Continue(n)
  PROVE  TypeInv'
<1>1. n \in Nat \ {0}
  BY BoundsAssumption
<1>2. frames # <<>> /\ Jump(n, continue_blocks_stack)
  BY DEF Continue, MayJump, Visits
<1>3. break_blocks_stack \in Seq(Nat) /\ continue_blocks_stack \in Seq(Nat)
  BY DEF TypeInv, TypeOK
<1>4. break_blocks_stack' \in Seq(Nat) /\ continue_blocks_stack' \in Seq(Nat)
  <2>1. SubSeq(continue_blocks_stack, 1, Len(continue_blocks_stack) - (n - 1))
          \in Seq(Nat)
    BY <1>1, <1>3
  <2> QED
    BY <1>3, <2>1 DEF Continue
<1> QED
  BY <1>2, <1>3, <1>4, JumpTypes

LEMMA StutterTypes == TypeInv /\ UNCHANGED vars => TypeInv'
BY DEF TypeInv, TypeOK, DeferOK, FramesOK, DepthIn, ScopesIn, vars, loopStacks,
       flags, tables

LEMMA StepTypes == TypeInv /\ [Next]_vars => TypeInv'
<1> SUFFICES ASSUME TypeInv, [Next]_vars PROVE TypeInv'
  OBVIOUS
<1>1. CASE EnterFunction
  BY <1>1, EnterFunctionTypes
<1>2. CASE LeaveFunction
  BY <1>2, LeaveFunctionTypes
<1>3. CASE DeclareGeneric
  BY <1>3, DeclareGenericTypes
<1>4. CASE EnterLambda
  BY <1>4, EnterLambdaTypes
<1>5. CASE LeaveLambda
  BY <1>5, LeaveLambdaTypes
<1>6. ASSUME NEW g \in Generics, EnterGeneric(g) \/ CallInstance(g)
      PROVE  TypeInv'
  BY <1>6, EnterGenericTypes, CallInstanceTypes
<1>7. CASE LeaveGeneric
  BY <1>7, LeaveGenericTypes
<1>8. CASE EnterBlock
  BY <1>8, EnterBlockTypes
<1>9. CASE LeaveBlock
  BY <1>9, LeaveBlockTypes
<1>10. CASE Plain
  BY <1>10, PlainTypes
<1>11. ASSUME NEW kind \in DeferCallees, Defer(kind) PROVE TypeInv'
  BY <1>11, DeferTypes
<1>12. ASSUME NEW s \in Selects, NEW n \in Branches, EnterSelect(s, n)
       PROVE  TypeInv'
  BY <1>12, EnterSelectTypes
<1>13. CASE NextBranch
  BY <1>13, NextBranchTypes
<1>14. CASE LeaveSelect
  BY <1>14, LeaveSelectTypes
<1>15. ASSUME NEW s \in Loops \ {"forever"}, EnterConditionLoop(s)
       PROVE  TypeInv'
  BY <1>15, EnterConditionLoopTypes
<1>16. CASE EnterForever
  BY <1>16, EnterForeverTypes
<1>17. CASE LeaveLoop
  BY <1>17, LeaveLoopTypes
<1>18. CASE EnterReturn \/ LeaveReturn
  BY <1>18, EnterReturnTypes, LeaveReturnTypes
<1>19. ASSUME NEW n \in Times, Break(n) \/ Continue(n) PROVE TypeInv'
  BY <1>19, BreakTypes, ContinueTypes
<1>20. CASE Finished
  BY <1>20, StutterTypes DEF Finished
<1>21. CASE UNCHANGED vars
  BY <1>21, StutterTypes
<1> QED
  BY <1>1, <1>2, <1>3, <1>4, <1>5, <1>6, <1>7, <1>8, <1>9, <1>10, <1>11, <1>12,
     <1>13, <1>14, <1>15, <1>16, <1>17, <1>18, <1>19, <1>20, <1>21 DEF Next

\* Whatever program is compiled, the variables keep their types: the deferred
\* calls a visitor generates are calls that were written, and a block made in
\* the middle of a function names that function (lines 1-1035 of the backend).
THEOREM TypeCorrect == Spec => []TypeOK
<1>1. Init => TypeInv
  BY InitTypes
<1>2. TypeInv /\ [Next]_vars => TypeInv'
  BY StepTypes
<1>3. TypeInv => TypeOK
  BY DEF TypeInv
<1> QED
  BY <1>1, <1>2, <1>3, PTL DEF Spec

\* The stacks of deferred calls always fit the functions and the blocks being
\* visited: no visitor reads or pops a scope that is not there, and a lambda or
\* an instance of a generic gives the function around it its scopes back.
THEOREM DefersMatch == Spec => []DeferScopesMatch
<1>1. Init => TypeInv
  BY InitTypes
<1>2. TypeInv /\ [Next]_vars => TypeInv'
  BY StepTypes
<1>3. TypeInv => DeferScopesMatch
  BY DeferOKSound DEF TypeInv
<1> QED
  BY <1>1, <1>2, <1>3, PTL DEF Spec

-----------------------------------------------------------------------------
(* The stacks of jump targets, for the programs whose break and continue   *)
(* leave one loop: the stacks hold the targets of the loops being visited, *)
(* none is popped while empty, and a jump goes where the program says.     *)
(* With `break 2` all three fail, so the assumption is needed.             *)
(*                                                                         *)
(* LoopsOK is StacksRestored with the frames and the stacks as parameters, *)
(* and two facts more about a frame and one inside it: the stacks only     *)
(* grow inwards, and they are the same while no loop is entered.  The      *)
(* first says that inside a loop the stacks are not empty, the second      *)
(* finds the targets of the innermost loop on the top of them.             *)

LoopsOK(fs, b, c) ==
  /\ fs = <<>> => b = <<>> /\ c = <<>>
  /\ fs # <<>> => /\ b = BreaksIn(Peek(fs)) /\ c = ContinuesIn(Peek(fs))
                  /\ fs[1].brk = <<>> /\ fs[1].cnt = <<>>
  /\ \A i \in 1..Len(fs) - 1 : /\ fs[i + 1].brk = BreaksIn(fs[i])
                               /\ fs[i + 1].cnt = ContinuesIn(fs[i])
  /\ \A i, j \in 1..Len(fs) : i < j =>
       /\ Len(BreaksIn(fs[i])) <= Len(fs[j].brk)
       /\ Len(ContinuesIn(fs[i])) <= Len(fs[j].cnt)
       /\ (\A k \in i + 1..j - 1 : fs[k].kind \notin Loops) =>
            fs[j].brk = BreaksIn(fs[i]) /\ fs[j].cnt = ContinuesIn(fs[i])

LEMMA LoopsOKSound ==
  ASSUME LoopsOK(frames, break_blocks_stack, continue_blocks_stack)
  PROVE  StacksRestored
BY DEF LoopsOK, StacksRestored, top

\* A visit keeps what its frame found on the stacks, and a loop adds to it.
LEMMA InsideFrame ==
  ASSUME NEW f \in FrameType
  PROVE  /\ f.brk \in Seq(Nat) /\ f.cnt \in Seq(Nat)
         /\ BreaksIn(f) \in Seq(Nat) /\ ContinuesIn(f) \in Seq(Nat)
         /\ Len(f.brk) <= Len(BreaksIn(f)) /\ Len(f.cnt) <= Len(ContinuesIn(f))
         /\ f.kind \notin Loops => BreaksIn(f) = f.brk /\ ContinuesIn(f) = f.cnt
         /\ f.kind \in Loops =>
              /\ BreaksIn(f) # <<>> /\ Peek(BreaksIn(f)) = f.end
              /\ Pop(BreaksIn(f)) = f.brk
              /\ ContinuesIn(f) # <<>> /\ Peek(ContinuesIn(f)) = f.cond
              /\ Pop(ContinuesIn(f)) = f.cnt
<1>1. f.brk \in Seq(Nat) /\ f.cnt \in Seq(Nat) /\ f.end \in Nat /\ f.cond \in Nat
  BY DEF FrameType
<1>2. /\ Append(f.brk, f.end) \in Seq(Nat) /\ Append(f.brk, f.end) # <<>>
      /\ Len(Append(f.brk, f.end)) = Len(f.brk) + 1
      /\ Append(f.cnt, f.cond) \in Seq(Nat) /\ Append(f.cnt, f.cond) # <<>>
      /\ Len(Append(f.cnt, f.cond)) = Len(f.cnt) + 1
  BY SMTT(60), <1>1
<1>3. /\ Peek(Append(f.brk, f.end)) = f.end /\ Pop(Append(f.brk, f.end)) = f.brk
      /\ Peek(Append(f.cnt, f.cond)) = f.cond
      /\ Pop(Append(f.cnt, f.cond)) = f.cnt
  BY <1>1, PopAppend
<1>4. Len(f.brk) \in Nat /\ Len(f.cnt) \in Nat
  BY <1>1
<1>5. CASE f.kind \in Loops
  <2>1. BreaksIn(f) = Append(f.brk, f.end) /\ ContinuesIn(f) = Append(f.cnt, f.cond)
    BY <1>5 DEF BreaksIn, ContinuesIn
  <2> QED
    BY SMTT(60), <1>1, <1>2, <1>3, <1>4, <1>5, <2>1
<1>6. CASE f.kind \notin Loops
  <2>1. BreaksIn(f) = f.brk /\ ContinuesIn(f) = f.cnt
    BY <1>6 DEF BreaksIn, ContinuesIn
  <2> QED
    BY <1>1, <1>4, <1>6, <2>1
<1> QED
  BY <1>5, <1>6

LEMMA LoopsOKAlike ==
  ASSUME NEW fs \in Seq(FrameType), NEW gs \in Seq(FrameType), Alike(fs, gs),
         NEW b, NEW c, LoopsOK(fs, b, c)
  PROVE  LoopsOK(gs, b, c)
<1>1. /\ Len(fs) \in Nat /\ Len(gs) = Len(fs)
      /\ fs = <<>> <=> gs = <<>>
      /\ fs # <<>> => Len(fs) \in 1..Len(fs) /\ 1 \in 1..Len(fs)
  BY DEF Alike
<1>2. \A i \in 1..Len(fs) :
        /\ gs[i].kind = fs[i].kind
        /\ gs[i].brk = fs[i].brk /\ gs[i].cnt = fs[i].cnt
        /\ BreaksIn(gs[i]) = BreaksIn(fs[i])
        /\ ContinuesIn(gs[i]) = ContinuesIn(fs[i])
  BY DEF Alike, BreaksIn, ContinuesIn
<1>3. gs = <<>> => b = <<>> /\ c = <<>>
  BY <1>1 DEF LoopsOK
<1>4. ASSUME gs # <<>>
      PROVE  /\ b = BreaksIn(Peek(gs)) /\ c = ContinuesIn(Peek(gs))
             /\ gs[1].brk = <<>> /\ gs[1].cnt = <<>>
  BY <1>1, <1>2, <1>4 DEF LoopsOK, Peek
<1>5. ASSUME NEW i \in 1..Len(gs) - 1
      PROVE  /\ gs[i + 1].brk = BreaksIn(gs[i])
             /\ gs[i + 1].cnt = ContinuesIn(gs[i])
  <2>1. i \in 1..Len(fs) /\ i + 1 \in 1..Len(fs) /\ i \in 1..Len(fs) - 1
    BY <1>1
  <2> QED
    BY <1>2, <2>1 DEF LoopsOK
<1>6. ASSUME NEW i \in 1..Len(gs), NEW j \in 1..Len(gs), i < j
      PROVE  /\ Len(BreaksIn(gs[i])) <= Len(gs[j].brk)
             /\ Len(ContinuesIn(gs[i])) <= Len(gs[j].cnt)
             /\ (\A k \in i + 1..j - 1 : gs[k].kind \notin Loops) =>
                  gs[j].brk = BreaksIn(gs[i]) /\ gs[j].cnt = ContinuesIn(gs[i])
  <2>1. i \in 1..Len(fs) /\ j \in 1..Len(fs)
    BY <1>1
  <2>2. \A k \in i + 1..j - 1 : k \in 1..Len(fs)
    BY <2>1, <1>1
  <2>3. /\ Len(BreaksIn(fs[i])) <= Len(fs[j].brk)
        /\ Len(ContinuesIn(fs[i])) <= Len(fs[j].cnt)
        /\ (\A k \in i + 1..j - 1 : fs[k].kind \notin Loops) =>
             fs[j].brk = BreaksIn(fs[i]) /\ fs[j].cnt = ContinuesIn(fs[i])
    BY <1>6, <2>1 DEF LoopsOK
  <2> QED
    BY <1>2, <2>1, <2>2, <2>3
<1> QED
  BY <1>3, <1>4, <1>5, <1>6 DEF LoopsOK

LEMMA LoopsOKPush ==
  ASSUME NEW fs \in Seq(FrameType), fs # <<>>, NEW f \in FrameType,
         NEW b, NEW c, LoopsOK(fs, b, c), f.brk = b, f.cnt = c
  PROVE  LoopsOK(Append(fs, f), BreaksIn(f), ContinuesIn(f))
<1> DEFINE gs == Append(fs, f)
           n  == Len(fs)
<1>1. /\ gs \in Seq(FrameType) /\ gs # <<>> /\ Len(gs) = n + 1
      /\ n \in Nat \ {0} /\ gs[n + 1] = f
      /\ \A i \in 1..n : gs[i] = fs[i] /\ fs[i] \in FrameType
  OBVIOUS
<1>2. Peek(gs) = f
  BY <1>1 DEF Peek
<1> HIDE DEF gs
<1>3. gs[1].brk = <<>> /\ gs[1].cnt = <<>>
  BY <1>1 DEF LoopsOK
<1>4. b = BreaksIn(fs[n]) /\ c = ContinuesIn(fs[n])
  BY DEF LoopsOK, Peek
<1>5. ASSUME NEW i \in 1..Len(gs) - 1
      PROVE  /\ gs[i + 1].brk = BreaksIn(gs[i])
             /\ gs[i + 1].cnt = ContinuesIn(gs[i])
  <2>1. CASE i = n
    BY <1>1, <1>4, <2>1
  <2>2. CASE i # n
    <3>1. i \in 1..n - 1 /\ i \in 1..n /\ i + 1 \in 1..n
      BY <1>1, <2>2
    <3> QED
      BY <1>1, <3>1 DEF LoopsOK
  <2> QED
    BY <2>1, <2>2
<1>6. ASSUME NEW i \in 1..Len(gs), NEW j \in 1..Len(gs), i < j
      PROVE  /\ Len(BreaksIn(gs[i])) <= Len(gs[j].brk)
             /\ Len(ContinuesIn(gs[i])) <= Len(gs[j].cnt)
             /\ (\A k \in i + 1..j - 1 : gs[k].kind \notin Loops) =>
                  gs[j].brk = BreaksIn(gs[i]) /\ gs[j].cnt = ContinuesIn(gs[i])
  <2>1. i \in 1..n /\ gs[i] = fs[i] /\ fs[i] \in FrameType
    BY <1>1, <1>6
  <2>2. CASE j <= n
    <3>1. j \in 1..n /\ gs[j] = fs[j]
      BY <1>1, <2>2
    <3>2. \A k \in i + 1..j - 1 : gs[k] = fs[k]
      BY <1>1, <2>1, <3>1
    <3> QED
      <4>1. /\ Len(BreaksIn(fs[i])) <= Len(fs[j].brk)
            /\ Len(ContinuesIn(fs[i])) <= Len(fs[j].cnt)
            /\ (\A k \in i + 1..j - 1 : fs[k].kind \notin Loops) =>
                 fs[j].brk = BreaksIn(fs[i]) /\ fs[j].cnt = ContinuesIn(fs[i])
        BY <1>6, <2>1, <3>1 DEF LoopsOK
      <4>2. (\A k \in i + 1..j - 1 : gs[k].kind \notin Loops) =>
              \A k \in i + 1..j - 1 : fs[k].kind \notin Loops
        BY <3>2
      <4> QED
        BY <2>1, <3>1, <4>1, <4>2
  <2>3. CASE j = n + 1 /\ i = n
    <3>1. gs[j] = f
      BY <1>1, <2>3
    <3>2. Len(BreaksIn(fs[n])) \in Nat /\ Len(ContinuesIn(fs[n])) \in Nat
      BY <2>1, <2>3, InsideFrame
    <3> QED
      BY <1>4, <2>1, <2>3, <3>1, <3>2
  <2>4. CASE j = n + 1 /\ i < n
    <3>1. /\ gs[j] = f /\ n \in 1..n /\ fs[n] \in FrameType /\ gs[n] = fs[n]
          /\ n \in i + 1..j - 1
      BY <1>1, <2>1, <2>4
    <3>2. /\ Len(BreaksIn(fs[i])) <= Len(fs[n].brk)
          /\ Len(ContinuesIn(fs[i])) <= Len(fs[n].cnt)
          /\ (\A k \in i + 1..n - 1 : fs[k].kind \notin Loops) =>
               fs[n].brk = BreaksIn(fs[i]) /\ fs[n].cnt = ContinuesIn(fs[i])
      BY <2>1, <2>4, <3>1 DEF LoopsOK
    <3>3. /\ fs[n].brk \in Seq(Nat) /\ fs[n].cnt \in Seq(Nat)
          /\ BreaksIn(fs[n]) \in Seq(Nat) /\ ContinuesIn(fs[n]) \in Seq(Nat)
          /\ BreaksIn(fs[i]) \in Seq(Nat) /\ ContinuesIn(fs[i]) \in Seq(Nat)
          /\ Len(fs[n].brk) <= Len(BreaksIn(fs[n]))
          /\ Len(fs[n].cnt) <= Len(ContinuesIn(fs[n]))
          /\ fs[n].kind \notin Loops =>
               BreaksIn(fs[n]) = fs[n].brk /\ ContinuesIn(fs[n]) = fs[n].cnt
      BY <2>1, <3>1, InsideFrame
    <3>4. /\ Len(BreaksIn(fs[i])) <= Len(BreaksIn(fs[n]))
          /\ Len(ContinuesIn(fs[i])) <= Len(ContinuesIn(fs[n]))
      <4>1. /\ Len(fs[n].brk) \in Nat /\ Len(fs[n].cnt) \in Nat
            /\ Len(BreaksIn(fs[n])) \in Nat /\ Len(ContinuesIn(fs[n])) \in Nat
            /\ Len(BreaksIn(fs[i])) \in Nat /\ Len(ContinuesIn(fs[i])) \in Nat
        BY <3>3
      <4>2. /\ Len(BreaksIn(fs[i])) <= Len(fs[n].brk)
            /\ Len(ContinuesIn(fs[i])) <= Len(fs[n].cnt)
        BY <3>2
      <4>3. /\ Len(fs[n].brk) <= Len(BreaksIn(fs[n]))
            /\ Len(fs[n].cnt) <= Len(ContinuesIn(fs[n]))
        BY <3>3
      <4> QED
        BY <4>1, <4>2, <4>3
    <3>5. ASSUME \A k \in i + 1..j - 1 : gs[k].kind \notin Loops
          PROVE  f.brk = BreaksIn(fs[i]) /\ f.cnt = ContinuesIn(fs[i])
      <4>1. fs[n].kind \notin Loops
        BY <3>1, <3>5
      <4>2. \A k \in i + 1..n - 1 : fs[k].kind \notin Loops
        BY <1>1, <2>1, <2>4, <3>5
      <4> QED
        BY <1>4, <3>2, <3>3, <4>1, <4>2
    <3> QED
      BY <1>4, <2>1, <3>1, <3>4, <3>5
  <2> QED
    BY <1>1, <1>6, <2>1, <2>2, <2>3, <2>4
<1>7. LoopsOK(gs, BreaksIn(f), ContinuesIn(f))
  BY <1>1, <1>2, <1>3, <1>5, <1>6 DEF LoopsOK
<1> QED
  BY <1>7 DEF gs

LEMMA LoopsOKPop ==
  ASSUME NEW fs \in Seq(FrameType), fs # <<>>, NEW b, NEW c, LoopsOK(fs, b, c)
  PROVE  LoopsOK(Pop(fs), Peek(fs).brk, Peek(fs).cnt)
<1> DEFINE gs == Pop(fs)
           n  == Len(fs)
<1>1. /\ gs \in Seq(FrameType) /\ Len(gs) = n - 1 /\ n \in Nat \ {0}
      /\ \A i \in 1..n - 1 : gs[i] = fs[i]
      /\ Peek(fs) = fs[n]
  BY PopType DEF Peek
<1> HIDE DEF gs
<1>2. gs = <<>> => Peek(fs).brk = <<>> /\ Peek(fs).cnt = <<>>
  <2>1. gs = <<>> => n = 1
    BY <1>1
  <2> QED
    BY <1>1, <2>1 DEF LoopsOK
<1>3. ASSUME gs # <<>>
      PROVE  /\ Peek(fs).brk = BreaksIn(Peek(gs))
             /\ Peek(fs).cnt = ContinuesIn(Peek(gs))
             /\ gs[1].brk = <<>> /\ gs[1].cnt = <<>>
  <2>1. n - 1 \in 1..n - 1 /\ 1 \in 1..n - 1 /\ (n - 1) + 1 = n
    BY <1>1, <1>3
  <2>2. Peek(gs) = fs[n - 1]
    BY <1>1, <2>1 DEF Peek
  <2> QED
    BY <1>1, <2>1, <2>2 DEF LoopsOK
<1>4. \A i \in 1..Len(gs) - 1 : /\ gs[i + 1].brk = BreaksIn(gs[i])
                                /\ gs[i + 1].cnt = ContinuesIn(gs[i])
  <2>1. \A i \in 1..Len(gs) - 1 : i \in 1..n - 1 /\ i + 1 \in 1..n - 1
    BY <1>1
  <2> QED
    BY <1>1, <2>1 DEF LoopsOK
<1>5. ASSUME NEW i \in 1..Len(gs), NEW j \in 1..Len(gs), i < j
      PROVE  /\ Len(BreaksIn(gs[i])) <= Len(gs[j].brk)
             /\ Len(ContinuesIn(gs[i])) <= Len(gs[j].cnt)
             /\ (\A k \in i + 1..j - 1 : gs[k].kind \notin Loops) =>
                  gs[j].brk = BreaksIn(gs[i]) /\ gs[j].cnt = ContinuesIn(gs[i])
  <2>1. i \in 1..n - 1 /\ j \in 1..n - 1 /\ i \in 1..n /\ j \in 1..n
    BY <1>1
  <2>2. gs[i] = fs[i] /\ gs[j] = fs[j] /\ \A k \in i + 1..j - 1 : gs[k] = fs[k]
    BY <1>1, <2>1
  <2>3. /\ Len(BreaksIn(fs[i])) <= Len(fs[j].brk)
        /\ Len(ContinuesIn(fs[i])) <= Len(fs[j].cnt)
        /\ (\A k \in i + 1..j - 1 : fs[k].kind \notin Loops) =>
             fs[j].brk = BreaksIn(fs[i]) /\ fs[j].cnt = ContinuesIn(fs[i])
    <3>1. i \in 1..Len(fs) /\ j \in 1..Len(fs)
      BY <1>1, <2>1
    <3>2. \A p, q \in 1..Len(fs) : p < q =>
            /\ Len(BreaksIn(fs[p])) <= Len(fs[q].brk)
            /\ Len(ContinuesIn(fs[p])) <= Len(fs[q].cnt)
            /\ (\A k \in p + 1..q - 1 : fs[k].kind \notin Loops) =>
                 fs[q].brk = BreaksIn(fs[p]) /\ fs[q].cnt = ContinuesIn(fs[p])
      BY DEF LoopsOK
    <3> QED
      BY <1>5, <3>1, <3>2
  <2>4. (\A k \in i + 1..j - 1 : gs[k].kind \notin Loops) =>
          \A k \in i + 1..j - 1 : fs[k].kind \notin Loops
    BY <2>2
  <2> QED
    BY <2>2, <2>3, <2>4
<1>6. LoopsOK(gs, Peek(fs).brk, Peek(fs).cnt)
  BY <1>2, <1>3, <1>4, <1>5 DEF LoopsOK
<1> QED
  BY <1>6 DEF gs

-----------------------------------------------------------------------------
(* The invariant, and the three things a step can do to the stacks.        *)

LoopInv ==
  /\ TypeInv
  /\ LoopsOK(frames, break_blocks_stack, continue_blocks_stack)
  /\ ~undefined

\* No visit begins or ends.
LEMMA SameLoops ==
  ASSUME LoopInv, frames' \in Seq(FrameType), Alike(frames, frames'),
         UNCHANGED loopStacks
  PROVE  LoopsOK(frames', break_blocks_stack', continue_blocks_stack')
<1>1. frames \in Seq(FrameType)
  BY DEF LoopInv, TypeInv, TypeOK
<1>2. /\ break_blocks_stack' = break_blocks_stack
      /\ continue_blocks_stack' = continue_blocks_stack
  BY DEF loopStacks
<1>3. LoopsOK(frames', break_blocks_stack, continue_blocks_stack)
  BY <1>1, LoopsOKAlike DEF LoopInv
<1> QED
  BY <1>2, <1>3

\* A visit begins inside another, with the frame f.
LEMMA VisitLoops ==
  ASSUME LoopInv, frames # <<>>, NEW f \in FrameType,
         f.brk = break_blocks_stack, f.cnt = continue_blocks_stack,
         frames' = Append(Visiting, f),
         break_blocks_stack' = BreaksIn(f),
         continue_blocks_stack' = ContinuesIn(f)
  PROVE  LoopsOK(frames', break_blocks_stack', continue_blocks_stack')
<1>1. /\ frames \in Seq(FrameType)
      /\ Visiting \in Seq(FrameType) /\ Alike(frames, Visiting)
  BY VisitingIsTyped DEF LoopInv, TypeInv, TypeOK
<1>2. LoopsOK(Visiting, break_blocks_stack, continue_blocks_stack)
  BY <1>1, LoopsOKAlike DEF LoopInv
<1>3. Visiting # <<>>
  BY <1>1 DEF Alike
<1>4. LoopsOK(Append(Visiting, f), BreaksIn(f), ContinuesIn(f))
  BY <1>1, <1>2, <1>3, LoopsOKPush
<1> QED
  BY <1>4

\* The visit of something that is not a loop begins inside another.
LEMMA VisitPlain ==
  ASSUME LoopInv, frames # <<>>, NEW f \in FrameType, f.kind \notin Loops,
         f.brk = break_blocks_stack, f.cnt = continue_blocks_stack,
         frames' = Append(Visiting, f), UNCHANGED loopStacks
  PROVE  LoopsOK(frames', break_blocks_stack', continue_blocks_stack')
<1>1. BreaksIn(f) = f.brk /\ ContinuesIn(f) = f.cnt
  BY InsideFrame
<1>2. /\ break_blocks_stack' = BreaksIn(f)
      /\ continue_blocks_stack' = ContinuesIn(f)
  BY <1>1 DEF loopStacks
<1> QED
  BY <1>2, VisitLoops

\* What the innermost visit finds on the stacks: its own targets, if it is a
\* loop, above what it found when it began.
LEMMA TopLoops ==
  ASSUME LoopInv, frames # <<>>
  PROVE  /\ top \in FrameType
         /\ break_blocks_stack = BreaksIn(top)
         /\ continue_blocks_stack = ContinuesIn(top)
         /\ LoopsOK(Pop(frames), top.brk, top.cnt)
<1>1. top \in FrameType /\ frames \in Seq(FrameType)
  BY VisitFacts DEF LoopInv, TypeInv, TypeOK
<1>2. /\ break_blocks_stack = BreaksIn(top)
      /\ continue_blocks_stack = ContinuesIn(top)
  BY DEF LoopInv, LoopsOK, top
<1>3. LoopsOK(Pop(frames), Peek(frames).brk, Peek(frames).cnt)
  BY <1>1, LoopsOKPop DEF LoopInv
<1> QED
  BY <1>1, <1>2, <1>3 DEF top

\* The visit of something that is not a loop ends.
LEMMA LeavePlain ==
  ASSUME LoopInv, frames # <<>>, top.kind \notin Loops, frames' = Pop(frames),
         UNCHANGED loopStacks
  PROVE  LoopsOK(frames', break_blocks_stack', continue_blocks_stack')
<1>1. top.brk = break_blocks_stack /\ top.cnt = continue_blocks_stack
  BY TopLoops, InsideFrame
<1>2. LoopsOK(Pop(frames), top.brk, top.cnt)
  BY TopLoops
<1> QED
  BY <1>1, <1>2 DEF loopStacks

\* Inside a loop neither stack is empty.
LEMMA StacksInLoop ==
  ASSUME LoopInv, NEW i \in OpenLoops
  PROVE  /\ Len(break_blocks_stack) \in Nat \ {0}
         /\ Len(continue_blocks_stack) \in Nat \ {0}
<1>1. /\ i \in 1..Len(frames) /\ frames[i].kind \in Loops
      /\ frames \in Seq(FrameType)
  BY DEF OpenLoops, LoopInv, TypeInv, TypeOK
<1>2. /\ frames # <<>> /\ Len(frames) \in 1..Len(frames)
      /\ frames[i] \in FrameType
  BY <1>1
<1>3. /\ top = frames[Len(frames)] /\ top \in FrameType
      /\ break_blocks_stack = BreaksIn(top)
      /\ continue_blocks_stack = ContinuesIn(top)
  BY <1>2, TopLoops DEF top, Peek
<1>4. /\ Len(BreaksIn(frames[i])) \in Nat \ {0}
      /\ Len(ContinuesIn(frames[i])) \in Nat \ {0}
  <2>1. /\ BreaksIn(frames[i]) \in Seq(Nat) /\ BreaksIn(frames[i]) # <<>>
        /\ ContinuesIn(frames[i]) \in Seq(Nat) /\ ContinuesIn(frames[i]) # <<>>
    BY <1>1, <1>2, InsideFrame
  <2> QED
    BY <2>1
<1>5. CASE i = Len(frames)
  BY <1>3, <1>4, <1>5
<1>6. CASE i # Len(frames)
  <2>1. i < Len(frames)
    BY <1>1, <1>6
  <2>2. /\ Len(BreaksIn(frames[i])) <= Len(top.brk)
        /\ Len(ContinuesIn(frames[i])) <= Len(top.cnt)
    BY <1>1, <1>2, <1>3, <2>1 DEF LoopInv, LoopsOK
  <2>3. /\ Len(top.brk) \in Nat /\ Len(top.cnt) \in Nat
        /\ Len(BreaksIn(top)) \in Nat /\ Len(ContinuesIn(top)) \in Nat
        /\ Len(top.brk) <= Len(BreaksIn(top))
        /\ Len(top.cnt) <= Len(ContinuesIn(top))
    BY <1>3, InsideFrame
  <2> QED
    BY <1>3, <1>4, <2>2, <2>3
<1> QED
  BY <1>5, <1>6

\* A break or continue of one level stands in a loop, takes nothing from its
\* stack and reads the top of it.
LEMMA JumpLoops ==
  ASSUME LoopInv, NEW s, MayJump(s, 1), NEW stack \in Seq(Nat), Jump(1, stack),
         stack \in {break_blocks_stack, continue_blocks_stack},
         UNCHANGED loopStacks
  PROVE  /\ LoopsOK(frames', break_blocks_stack', continue_blocks_stack')
         /\ ~undefined' /\ blocks' = Emit(blocks, insert, <<Br(Peek(stack))>>)
<1>1. frames # <<>> /\ 1 <= Cardinality(OpenLoops)
  BY DEF MayJump, Visits
<1>2. PICK i \in OpenLoops : TRUE
  <2>1. OpenLoops # {}
    <3>1. Cardinality({}) = 0
      BY FS_EmptySet
    <3>2. ASSUME OpenLoops = {} PROVE FALSE
      <4>1. Cardinality(OpenLoops) = 0
        BY <3>1, <3>2, Zenon
      <4> QED
        BY <1>1, <4>1
    <3> QED
      BY <3>2
  <2> QED
    BY <2>1
<1>3. Len(stack) \in Nat \ {0}
  BY <1>2, StacksInLoop
<1>4. SubSeq(stack, 1, Len(stack) - (1 - 1)) = stack
  BY <1>3
<1>5. ~undefined' /\ blocks' = Emit(blocks, insert, <<Br(Peek(stack))>>)
  <2>1. ~(Len(stack) < 1)
    BY <1>3
  <2>2. /\ undefined' = (Len(stack) < 1)
        /\ blocks' = IF Len(stack) < 1 THEN blocks
                     ELSE Emit(blocks, insert,
                               <<Br(Peek(SubSeq(stack, 1,
                                                Len(stack) - (1 - 1))))>>)
    BY DEF Jump
  <2>3. (Len(stack) < 1) = FALSE
    BY <2>1
  <2> QED
    BY <1>4, <2>2, <2>3, Zenon
<1>6. frames' \in Seq(FrameType) /\ Alike(frames, frames')
  BY <1>1, VisitingIsTyped DEF Jump, LoopInv, TypeInv, TypeOK
<1> QED
  BY <1>5, <1>6, SameLoops

-----------------------------------------------------------------------------
(* The actions.  All but the loops and the jumps leave both stacks alone.  *)

LoopsKept ==
  LoopsOK(frames', break_blocks_stack', continue_blocks_stack') /\ ~undefined'

LEMMA StutterLoops ==
  ASSUME LoopInv, UNCHANGED <<frames, loopStacks, undefined>>
  PROVE  LoopsKept
<1>1. frames' = frames /\ undefined' = undefined /\ UNCHANGED loopStacks
  OBVIOUS
<1>2. frames' \in Seq(FrameType) /\ Alike(frames, frames')
  BY <1>1 DEF Alike, LoopInv, TypeInv, TypeOK
<1> QED
  BY <1>1, <1>2, SameLoops DEF LoopsKept, LoopInv

\* A function starts with empty stacks.
LEMMA EnterFunctionLoops ==
  ASSUME LoopInv, EnterFunction
  PROVE  LoopsKept
<1> DEFINE f == [Frame("function") EXCEPT !.fn = Len(blocks) + 1]
<1>1. /\ frames = <<>> /\ frames' = <<f>>
      /\ UNCHANGED loopStacks /\ undefined' = undefined
  BY DEF EnterFunction
<1>2. break_blocks_stack = <<>> /\ continue_blocks_stack = <<>>
  BY <1>1 DEF LoopInv, LoopsOK
<1>3. f.kind = "function" /\ f.brk = <<>> /\ f.cnt = <<>>
  BY <1>2 DEF Frame
<1> HIDE DEF f
<1>4. BreaksIn(f) = <<>> /\ ContinuesIn(f) = <<>>
  BY <1>3 DEF BreaksIn, ContinuesIn, Loops
<1>5. Len(frames') = 1 /\ frames'[1] = f /\ Peek(frames') = f
  BY <1>1 DEF Peek
<1>6. break_blocks_stack' = <<>> /\ continue_blocks_stack' = <<>>
  BY <1>1, <1>2 DEF loopStacks
<1>7. /\ frames' # <<>>
      /\ \A i \in 1..Len(frames') - 1 : FALSE
      /\ \A i, j \in 1..Len(frames') : ~(i < j)
  BY <1>1, <1>5
<1>8. LoopsOK(frames', break_blocks_stack', continue_blocks_stack')
  BY <1>3, <1>4, <1>5, <1>6, <1>7 DEF LoopsOK
<1> QED
  BY <1>1, <1>8 DEF LoopsKept, LoopInv

\* A lambda, a generic instance, a block, an if or a switch begins: kind is its
\* kind, and f its frame with its blocks filled in.
LEMMA EnterPlainLoops ==
  ASSUME LoopInv, frames # <<>>, UNCHANGED <<loopStacks, undefined>>,
         NEW f \in FrameType,
         f.kind \in Callables \cup Selects \cup {"block"},
         f.brk = break_blocks_stack, f.cnt = continue_blocks_stack,
         frames' = Append(Visiting, f)
  PROVE  LoopsKept
<1>1. f.kind \notin Loops
  BY DEF Loops, Selects, Callables
<1>2. UNCHANGED loopStacks /\ undefined' = undefined
  OBVIOUS
<1>3. LoopsOK(frames', break_blocks_stack', continue_blocks_stack')
  BY <1>1, <1>2, VisitPlain
<1> QED
  BY <1>2, <1>3 DEF LoopsKept, LoopInv

\* The fields of a new frame that matter here.
LEMMA NewFrame ==
  ASSUME LoopInv, frames # <<>>,
         NEW kind \in Callables \cup Loops \cup Selects \cup {"block"}
  PROVE  /\ Frame(kind) \in FrameType /\ Frame(kind).kind = kind
         /\ Frame(kind).brk = break_blocks_stack
         /\ Frame(kind).cnt = continue_blocks_stack
<1>1. defer_calls_stack # <<>>
  BY VisitFacts DEF LoopInv
<1> QED
  BY <1>1, FrameIsTyped DEF LoopInv, TypeInv

\* A loop begins.
LEMMA PushLoopLoops ==
  ASSUME LoopInv, frames # <<>>, NEW s \in Loops, NEW end \in Nat,
         NEW cond \in Nat, NEW fn \in Nat, PushLoop(s, end, cond, fn)
  PROVE  LoopsKept
<1> DEFINE f == [Frame(s) EXCEPT !.fn = fn, !.end = end, !.cond = cond]
<1>2. /\ Frame(s) \in FrameType /\ Frame(s).kind = s
      /\ Frame(s).brk = break_blocks_stack
      /\ Frame(s).cnt = continue_blocks_stack
  BY NewFrame
<1>3. /\ f \in FrameType /\ f.kind = s /\ f.end = end /\ f.cond = cond
      /\ f.brk = break_blocks_stack /\ f.cnt = continue_blocks_stack
  BY <1>2 DEF FrameType
<1>4. /\ frames' = Append(Visiting, f) /\ undefined' = undefined
      /\ break_blocks_stack' = Append(break_blocks_stack, end)
      /\ continue_blocks_stack' = Append(continue_blocks_stack, cond)
  BY DEF PushLoop
<1> HIDE DEF f
<1>5. /\ break_blocks_stack' = BreaksIn(f)
      /\ continue_blocks_stack' = ContinuesIn(f)
  BY <1>3, <1>4 DEF BreaksIn, ContinuesIn
<1>6. LoopsOK(frames', break_blocks_stack', continue_blocks_stack')
  BY <1>3, <1>4, <1>5, VisitLoops
<1> QED
  BY <1>4, <1>6 DEF LoopsKept, LoopInv

\* A loop ends, and pops its own targets.
LEMMA LeaveLoopLoops ==
  ASSUME LoopInv, LeaveLoop
  PROVE  LoopsKept
<1>1. /\ frames # <<>> /\ top.kind \in Loops /\ frames' = Pop(frames)
      /\ break_blocks_stack' = Pop(break_blocks_stack)
      /\ continue_blocks_stack' = Pop(continue_blocks_stack)
      /\ undefined' =
           (break_blocks_stack = <<>> \/ continue_blocks_stack = <<>>)
  BY DEF LeaveLoop
<1>2. /\ top \in FrameType
      /\ break_blocks_stack = BreaksIn(top)
      /\ continue_blocks_stack = ContinuesIn(top)
      /\ LoopsOK(Pop(frames), top.brk, top.cnt)
  BY <1>1, TopLoops
<1>3. /\ break_blocks_stack # <<>> /\ Pop(break_blocks_stack) = top.brk
      /\ continue_blocks_stack # <<>> /\ Pop(continue_blocks_stack) = top.cnt
  BY <1>1, <1>2, InsideFrame
<1>4. ~undefined'
  BY <1>1, <1>3
<1>5. LoopsOK(frames', break_blocks_stack', continue_blocks_stack')
  BY <1>1, <1>2, <1>3
<1> QED
  BY <1>4, <1>5 DEF LoopsKept

\* Everything else that ends.
LEMMA LeavePlainLoops ==
  ASSUME LoopInv, frames # <<>>, top.kind \notin Loops, frames' = Pop(frames),
         UNCHANGED <<loopStacks, undefined>>
  PROVE  LoopsKept
<1>1. UNCHANGED loopStacks /\ undefined' = undefined
  OBVIOUS
<1>2. LoopsOK(frames', break_blocks_stack', continue_blocks_stack')
  BY <1>1, LeavePlain
<1> QED
  BY <1>1, <1>2 DEF LoopsKept, LoopInv

\* Everything that goes on in the same visits.
LEMMA SameVisitLoops ==
  ASSUME LoopInv, frames' \in Seq(FrameType), Alike(frames, frames'),
         UNCHANGED <<loopStacks, undefined>>
  PROVE  LoopsKept
<1>1. UNCHANGED loopStacks /\ undefined' = undefined
  OBVIOUS
<1> QED
  BY <1>1, SameLoops DEF LoopsKept, LoopInv

\* A break or a continue that leaves one loop takes nothing from the stacks, and
\* branches to what is on top of its own.
LEMMA BreakLoops ==
  ASSUME LoopInv, Break(1)
  PROVE  /\ LoopsKept
         /\ blocks' = Emit(blocks, insert, <<Br(Peek(break_blocks_stack))>>)
<1>1. break_blocks_stack \in Seq(Nat)
  BY DEF LoopInv, TypeInv, TypeOK
<1>2. MayJump("break", 1) /\ Jump(1, break_blocks_stack)
  BY DEF Break
<1>3. UNCHANGED loopStacks
  <2>1. SubSeq(break_blocks_stack, 1, Len(break_blocks_stack) - (1 - 1))
          = break_blocks_stack
    BY <1>1
  <2> QED
    BY <2>1 DEF Break, loopStacks
<1> QED
  BY <1>1, <1>2, <1>3, JumpLoops DEF LoopsKept

LEMMA ContinueLoops ==
  ASSUME LoopInv, Continue(1)
  PROVE  /\ LoopsKept
         /\ blocks' = Emit(blocks, insert, <<Br(Peek(continue_blocks_stack))>>)
<1>1. continue_blocks_stack \in Seq(Nat)
  BY DEF LoopInv, TypeInv, TypeOK
<1>2. MayJump("continue", 1) /\ Jump(1, continue_blocks_stack)
  BY DEF Continue
<1>3. UNCHANGED loopStacks
  <2>1. SubSeq(continue_blocks_stack, 1, Len(continue_blocks_stack) - (1 - 1))
          = continue_blocks_stack
    BY <1>1
  <2> QED
    BY <2>1 DEF Continue, loopStacks
<1> QED
  BY <1>1, <1>2, <1>3, JumpLoops DEF LoopsKept

-----------------------------------------------------------------------------
(* Every step.                                                             *)

\* A function, a block, an if or a switch begins in the middle of another.
LEMMA EnterLambdaLoops ==
  ASSUME LoopInv, EnterLambda
  PROVE  LoopsKept
<1> DEFINE fn == Len(blocks) + 1
           f  == [Frame("lambda") EXCEPT !.fn = fn]
<1>1. /\ frames # <<>> /\ UNCHANGED <<loopStacks, undefined>>
      /\ frames' = Append(Visiting, f)
  BY DEF EnterLambda, EnterInner, Visits
<1>2. fn \in Nat
  BY <1>1, VisitFacts DEF LoopInv
<1> HIDE DEF fn
<1>3. /\ Frame("lambda") \in FrameType /\ Frame("lambda").kind = "lambda"
      /\ Frame("lambda").brk = break_blocks_stack
      /\ Frame("lambda").cnt = continue_blocks_stack
  BY <1>1, NewFrame DEF Callables
<1>4. /\ f \in FrameType /\ f.kind \in Callables
      /\ f.brk = break_blocks_stack /\ f.cnt = continue_blocks_stack
  BY <1>2, <1>3 DEF FrameType, Callables
<1> HIDE DEF f
<1> QED
  BY <1>1, <1>4, EnterPlainLoops

LEMMA EnterGenericLoops ==
  ASSUME LoopInv, NEW g \in Generics, EnterGeneric(g)
  PROVE  LoopsKept
<1> DEFINE fn == Len(blocks) + 1
           f  == [[Frame("generic") EXCEPT !.name = g] EXCEPT !.fn = fn]
<1>1. /\ frames # <<>> /\ UNCHANGED <<loopStacks, undefined>>
      /\ frames' = Append(Visiting, f)
  BY DEF EnterGeneric, EnterInner, Visits
<1>2. fn \in Nat
  BY <1>1, VisitFacts DEF LoopInv
<1> HIDE DEF fn
<1>3. /\ Frame("generic") \in FrameType /\ Frame("generic").kind = "generic"
      /\ Frame("generic").brk = break_blocks_stack
      /\ Frame("generic").cnt = continue_blocks_stack
  BY <1>1, NewFrame DEF Callables
<1>4. /\ f \in FrameType /\ f.kind \in Callables
      /\ f.brk = break_blocks_stack /\ f.cnt = continue_blocks_stack
  BY <1>2, <1>3 DEF FrameType, Callables
<1> HIDE DEF f
<1> QED
  BY <1>1, <1>4, EnterPlainLoops

LEMMA EnterBlockLoops ==
  ASSUME LoopInv, EnterBlock
  PROVE  LoopsKept
<1>1. /\ frames # <<>> /\ UNCHANGED <<loopStacks, undefined>>
      /\ frames' = Append(Visiting, Frame("block"))
  BY DEF EnterBlock
<1> QED
  BY <1>1, NewFrame, EnterPlainLoops

LEMMA EnterSelectLoops ==
  ASSUME LoopInv, NEW s \in Selects, NEW n \in Branches, EnterSelect(s, n)
  PROVE  LoopsKept
<1> DEFINE fn   == CurrentFunction
           end  == Len(blocks) + 2
           next == IF n > 1 THEN Len(blocks) + 4 ELSE end
           left == n - 1
           f    == [Frame(s) EXCEPT !.fn = fn, !.end = end, !.next = next,
                                    !.left = left]
<1>1. /\ frames # <<>> /\ UNCHANGED <<loopStacks, undefined>>
      /\ frames' = Append(Visiting, f)
  BY DEF EnterSelect, Visits, Others
<1>2. fn \in Nat /\ Len(blocks) \in Nat
  BY <1>1, VisitFacts DEF LoopInv
<1>3. end \in Nat /\ next \in Nat /\ left \in Nat
  BY <1>2, BoundsAssumption
<1> HIDE DEF fn, end, next, left
<1>4. /\ Frame(s) \in FrameType /\ Frame(s).kind = s
      /\ Frame(s).brk = break_blocks_stack
      /\ Frame(s).cnt = continue_blocks_stack
  BY <1>1, NewFrame
<1>5. /\ f \in FrameType /\ f.kind \in Selects
      /\ f.brk = break_blocks_stack /\ f.cnt = continue_blocks_stack
  BY <1>2, <1>3, <1>4 DEF FrameType
<1> HIDE DEF f
<1> QED
  BY <1>1, <1>5, EnterPlainLoops

LEMMA EnterLoopLoops ==
  ASSUME LoopInv, NEW s \in Loops, EnterConditionLoop(s) \/ EnterForever
  PROVE  LoopsKept
<1>1. frames # <<>>
  BY DEF EnterConditionLoop, EnterForever, Visits
<1>2. CurrentFunction \in Nat /\ Len(blocks) \in Nat
  BY <1>1, VisitFacts DEF LoopInv
<1>3. Len(blocks) + 1 \in Nat /\ Len(blocks) + 2 \in Nat
      /\ Len(blocks) + 3 \in Nat /\ "forever" \in Loops
  BY <1>2 DEF Loops
<1>4. CASE EnterConditionLoop(s)
  <2>1. PushLoop(s, Len(blocks) + 3, Len(blocks) + 1, CurrentFunction)
    BY <1>4 DEF EnterConditionLoop
  <2> QED
    BY <1>1, <1>2, <1>3, <2>1, PushLoopLoops
<1>5. CASE EnterForever
  <2>1. PushLoop("forever", Len(blocks) + 2, Len(blocks) + 1, CurrentFunction)
    BY <1>5 DEF EnterForever
  <2> QED
    BY <1>1, <1>2, <1>3, <2>1, PushLoopLoops
<1> QED
  BY <1>4, <1>5

\* The ends of all visits that are not loops.
LEMMA LeaveLoops ==
  ASSUME LoopInv, \/ LeaveFunction \/ LeaveLambda \/ LeaveGeneric
                  \/ LeaveBlock \/ LeaveSelect
  PROVE  LoopsKept
<1>1. CASE LeaveFunction
  BY <1>1, LeavePlainLoops DEF LeaveFunction, Loops
<1>2. CASE LeaveLambda
  BY <1>2, LeavePlainLoops DEF LeaveLambda, LeaveInner, Loops
<1>3. CASE LeaveGeneric
  BY <1>3, LeavePlainLoops DEF LeaveGeneric, LeaveInner, Loops
<1>4. CASE LeaveBlock
  BY <1>4, LeavePlainLoops DEF LeaveBlock, Loops
<1>5. CASE LeaveSelect
  BY <1>5, LeavePlainLoops DEF LeaveSelect, Loops, Selects
<1> QED
  BY <1>1, <1>2, <1>3, <1>4, <1>5

\* Everything that happens inside a visit, the jumps apart.
LEMMA InsideLoops ==
  ASSUME LoopInv, NEW g \in Generics \cup {NoName}, NEW kind \in {"function", "pointer"},
         \/ g \in Generics /\ CallInstance(g)
         \/ Plain \/ NextBranch \/ EnterReturn \/ LeaveReturn
         \/ kind \in DeferCallees /\ Defer(kind)
  PROVE  LoopsKept
<1>1. CASE (g \in Generics /\ CallInstance(g)) \/ Plain
  <2>1. /\ frames # <<>> /\ frames' = Visiting
        /\ UNCHANGED <<loopStacks, undefined>>
    BY <1>1 DEF CallInstance, Plain, Visits
  <2>2. frames' \in Seq(FrameType) /\ Alike(frames, frames')
    BY <2>1, VisitingIsTyped DEF LoopInv, TypeInv, TypeOK
  <2> QED
    BY <2>1, <2>2, SameVisitLoops
<1>2. CASE NextBranch
  <2>1. UNCHANGED <<loopStacks, undefined>>
    BY <1>2 DEF NextBranch
  <2> QED
    BY <1>2, <2>1, NextBranchAlike, SameVisitLoops DEF LoopInv
<1>3. CASE EnterReturn \/ LeaveReturn
  <2>1. /\ frames # <<>> /\ frames' \in {Returning, Returned}
        /\ UNCHANGED <<loopStacks, undefined>>
    BY <1>3 DEF EnterReturn, LeaveReturn
  <2>2. frames' \in Seq(FrameType) /\ Alike(frames, frames')
    BY <2>1, VisitingIsTyped DEF LoopInv, TypeInv, TypeOK
  <2> QED
    BY <2>1, <2>2, SameVisitLoops
<1>4. CASE kind \in DeferCallees /\ Defer(kind)
  <2>1. UNCHANGED <<loopStacks, undefined>>
    BY <1>4 DEF Defer
  <2> QED
    BY <1>4, <2>1, DeferAlike, SameVisitLoops DEF LoopInv
<1> QED
  BY <1>1, <1>2, <1>3, <1>4

LEMMA StepLoops ==
  ASSUME Times = {1}, LoopInv, [Next]_vars
  PROVE  LoopInv'
<1>0. SUFFICES LoopsKept
  <2>1. TypeInv'
    BY StepTypes DEF LoopInv
  <2> QED
    BY <1>0, <2>1 DEF LoopInv, LoopsKept
<1>1. CASE EnterFunction
  BY <1>1, EnterFunctionLoops
<1>2. CASE \/ LeaveFunction \/ LeaveLambda \/ LeaveGeneric
           \/ LeaveBlock \/ LeaveSelect
  BY <1>2, LeaveLoops
<1>3. CASE EnterLambda
  BY <1>3, EnterLambdaLoops
<1>4. ASSUME NEW g \in Generics, EnterGeneric(g) \/ CallInstance(g)
      PROVE  LoopsKept
  BY <1>4, EnterGenericLoops, InsideLoops
<1>5. CASE EnterBlock
  BY <1>5, EnterBlockLoops
<1>6. CASE Plain \/ NextBranch \/ EnterReturn \/ LeaveReturn
  BY <1>6, InsideLoops
<1>7. ASSUME NEW kind \in DeferCallees, Defer(kind)
      PROVE  LoopsKept
  BY <1>7, InsideLoops, BoundsAssumption
<1>8. ASSUME NEW s \in Selects, NEW n \in Branches, EnterSelect(s, n)
      PROVE  LoopsKept
  BY <1>8, EnterSelectLoops
<1>9. ASSUME NEW s \in Loops \ {"forever"}, EnterConditionLoop(s)
      PROVE  LoopsKept
  BY <1>9, EnterLoopLoops
<1>10. CASE EnterForever
  BY <1>10, EnterLoopLoops DEF Loops
<1>11. CASE LeaveLoop
  BY <1>11, LeaveLoopLoops
<1>12. ASSUME NEW n \in Times, Break(n) \/ Continue(n)
       PROVE  LoopsKept
  <2>1. n = 1
    OBVIOUS
  <2> QED
    BY <1>12, <2>1, BreakLoops, ContinueLoops
<1>13. CASE DeclareGeneric \/ Finished \/ UNCHANGED vars
  <2>1. UNCHANGED <<frames, loopStacks, undefined>>
    BY <1>13 DEF DeclareGeneric, Finished, vars, loopStacks
  <2> QED
    BY <2>1, StutterLoops
<1> QED
  BY <1>1, <1>2, <1>3, <1>4, <1>5, <1>6, <1>7, <1>8, <1>9, <1>10, <1>11, <1>12,
     <1>13 DEF Next

LEMMA InitLoops == Init => LoopInv
<1> SUFFICES ASSUME Init PROVE LoopInv
  OBVIOUS
<1>1. /\ frames = <<>> /\ break_blocks_stack = <<>>
      /\ continue_blocks_stack = <<>> /\ ~undefined
  BY DEF Init
<1>2. LoopsOK(frames, break_blocks_stack, continue_blocks_stack)
  BY <1>1 DEF LoopsOK
<1> QED
  BY <1>1, <1>2, InitTypes DEF LoopInv

-----------------------------------------------------------------------------
(* The theorems.                                                           *)

\* While no jump leaves more than one loop, every visitor hands the two stacks
\* of targets back as it found them, whatever program is compiled: at any moment
\* they hold the targets of the loops being visited and nothing else.
THEOREM LoopStacksRestored ==
  ASSUME Times = {1}
  PROVE  Spec => []StacksRestored
<1>1. Init => LoopInv
  BY InitLoops
<1>2. LoopInv /\ [Next]_vars => LoopInv'
  BY StepLoops
<1>3. LoopInv => StacksRestored
  BY LoopsOKSound DEF LoopInv
<1> QED
  BY <1>1, <1>2, <1>3, PTL DEF Spec

\* While no jump leaves more than one loop, no std::stack is ever popped or read
\* while it is empty.
THEOREM NeverUndefined ==
  ASSUME Times = {1}
  PROVE  Spec => []NoUndefined
<1>1. Init => LoopInv
  BY InitLoops
<1>2. LoopInv /\ [Next]_vars => LoopInv'
  BY StepLoops
<1>3. LoopInv => NoUndefined
  BY DEF LoopInv, NoUndefined
<1> QED
  BY <1>1, <1>2, <1>3, PTL DEF Spec

\* Emitting one instruction puts it at the end of its block.
LEMMA EmitOne ==
  ASSUME NEW bs \in Seq(Block), NEW b \in 1..Len(bs), NEW x \in Instruction
  PROVE  Peek(Emit(bs, b, <<x>>)[b].insts) = x
<1>0. bs[b] \in Block
  OBVIOUS
<1>1. bs[b] \in Block /\ bs[b].insts \in Seq(Instruction)
  BY <1>0 DEF Block
<1>2. Emit(bs, b, <<x>>)[b].insts = bs[b].insts \o <<x>>
  BY <1>1 DEF Emit, Block
<1>3. bs[b].insts \o <<x>> = Append(bs[b].insts, x)
  BY <1>1
<1> QED
  BY <1>1, <1>2, <1>3, PopAppend

\* The targets of the innermost loop of the function are on top of the stacks.
LEMMA InnermostTargets ==
  ASSUME LoopInv, NEW i \in OpenLoops, NthLoop(1, i)
  PROVE  /\ Peek(break_blocks_stack) = frames[i].end
         /\ Peek(continue_blocks_stack) = frames[i].cond
<1>1. /\ i \in 1..Len(frames) /\ frames[i].kind \in Loops
      /\ InCurrentFunction(i) /\ frames \in Seq(FrameType)
  BY DEF OpenLoops, LoopInv, TypeInv, TypeOK
<1>2. /\ frames # <<>> /\ Len(frames) \in 1..Len(frames)
      /\ frames[i] \in FrameType
  BY <1>1
<1>3. /\ top = frames[Len(frames)] /\ top \in FrameType
      /\ break_blocks_stack = BreaksIn(top)
      /\ continue_blocks_stack = ContinuesIn(top)
  BY <1>2, TopLoops DEF top, Peek
<1>4. \A k \in i + 1..Len(frames) : frames[k].kind \notin Loops
  <2> DEFINE S == {j \in OpenLoops : i <= j}
  <2>1. IsFiniteSet(S)
    <3>1. 1..Len(frames) \in SUBSET (1..Len(frames)) /\ IsFiniteSet(1..Len(frames))
      BY <1>1, FS_Interval
    <3>2. S \subseteq 1..Len(frames)
      BY DEF OpenLoops
    <3> QED
      BY <3>1, <3>2, FS_Subset
  <2>2. Cardinality(S) = 1
    BY DEF NthLoop
  <2>3. PICK x : S = {x}
    BY <2>1, <2>2, FS_Singleton
  <2>4. i \in S
    BY <1>1
  <2>5. ASSUME NEW k \in i + 1..Len(frames), frames[k].kind \in Loops
        PROVE  FALSE
    <3>1. k \in 1..Len(frames) /\ i <= k /\ k # i
      BY <1>1
    <3>2. InCurrentFunction(k)
      BY <1>1, <3>1 DEF InCurrentFunction
    <3>3. k \in S
      BY <2>5, <3>1, <3>2 DEF OpenLoops
    <3> HIDE DEF S
    <3> QED
      BY <2>3, <2>4, <3>1, <3>3
  <2> QED
    BY <2>5
<1>5. /\ break_blocks_stack = BreaksIn(frames[i])
      /\ continue_blocks_stack = ContinuesIn(frames[i])
  <2>1. CASE i = Len(frames)
    BY <1>3, <2>1
  <2>2. CASE i # Len(frames)
    <3>1. /\ i < Len(frames)
          /\ \A k \in i + 1..Len(frames) - 1 : frames[k].kind \notin Loops
      BY <1>1, <1>4, <2>2
    <3>2. top.brk = BreaksIn(frames[i]) /\ top.cnt = ContinuesIn(frames[i])
      BY <1>1, <1>2, <1>3, <3>1 DEF LoopInv, LoopsOK
    <3>3. top.kind \notin Loops
      BY <1>1, <1>2, <1>3, <1>4, <3>1
    <3> QED
      BY <1>3, <3>2, <3>3, InsideFrame
  <2> QED
    BY <2>1, <2>2
<1> QED
  BY <1>1, <1>2, <1>5, InsideFrame

\* While no jump leaves more than one loop, `break` goes to the end of the
\* innermost loop around it in the same function, and `continue` to where that
\* loop starts its next round.
THEOREM JumpsHitTargets ==
  ASSUME Times = {1}
  PROVE  Spec => JumpTargets
<1> DEFINE Right(n, i) ==
       NthLoop(n, i) =>
         /\ Break(n) => /\ ~undefined'
                        /\ Peek(blocks'[insert].insts) = Br(frames[i].end)
         /\ Continue(n) => /\ ~undefined'
                           /\ Peek(blocks'[insert].insts) = Br(frames[i].cond)
<1>1. Init => LoopInv
  BY InitLoops
<1>2. LoopInv /\ [Next]_vars => LoopInv'
  BY StepLoops
<1>3. ASSUME LoopInv, NEW n \in Times, NEW i \in OpenLoops
      PROVE  Right(n, i)
  <2> SUFFICES ASSUME NthLoop(1, i)
               PROVE  /\ Break(1) => /\ ~undefined'
                                     /\ Peek(blocks'[insert].insts)
                                          = Br(frames[i].end)
                      /\ Continue(1) => /\ ~undefined'
                                        /\ Peek(blocks'[insert].insts)
                                             = Br(frames[i].cond)
    <3>1. n = 1
      OBVIOUS
    <3> QED
      BY <3>1
  <2>1. /\ frames # <<>> /\ frames \in Seq(FrameType)
        /\ i \in 1..Len(frames)
        /\ frames[i].end \in Nat /\ frames[i].cond \in Nat
    <3>1. frames \in Seq(FrameType) /\ i \in 1..Len(frames)
      BY <1>3 DEF OpenLoops, LoopInv, TypeInv, TypeOK
    <3> QED
      BY <3>1, FrameFields
  <2>2. insert \in 1..Len(blocks) /\ blocks \in Seq(Block)
    <3>1. TypeInv /\ blocks \in Seq(Block)
      BY <1>3 DEF LoopInv, TypeInv, TypeOK
    <3> QED
      BY <2>1, <3>1, VisitFacts
  <2>3. Br(frames[i].end) \in Instruction /\ Br(frames[i].cond) \in Instruction
    BY <2>1, InstructionTypes
  <2>4. ASSUME Break(1)
        PROVE  ~undefined' /\ Peek(blocks'[insert].insts) = Br(frames[i].end)
    <3>1. ~undefined' /\ blocks' = Emit(blocks, insert, <<Br(frames[i].end)>>)
      <4>1. Peek(break_blocks_stack) = frames[i].end
        BY <1>3, InnermostTargets
      <4> QED
        BY <1>3, <2>4, <4>1, BreakLoops DEF LoopsKept
    <3> QED
      BY <2>2, <2>3, <3>1, EmitOne
  <2>5. ASSUME Continue(1)
        PROVE  ~undefined' /\ Peek(blocks'[insert].insts) = Br(frames[i].cond)
    <3>1. ~undefined' /\ blocks' = Emit(blocks, insert, <<Br(frames[i].cond)>>)
      <4>1. Peek(continue_blocks_stack) = frames[i].cond
        BY <1>3, InnermostTargets
      <4> QED
        BY <1>3, <2>5, <4>1, ContinueLoops DEF LoopsKept
    <3> QED
      BY <2>2, <2>3, <3>1, EmitOne
  <2> QED
    BY <2>4, <2>5
<1>4. LoopInv => [\A n \in Times : \A i \in OpenLoops : Right(n, i)]_vars
  BY <1>3
<1>5. LoopInv => [\A n \in Times : \A i \in OpenLoops :
       NthLoop(n, i) =>
         /\ Break(n) => /\ ~undefined'
                        /\ Peek(blocks'[insert].insts) = Br(frames[i].end)
         /\ Continue(n) => /\ ~undefined'
                           /\ Peek(blocks'[insert].insts) = Br(frames[i].cond)
    ]_vars
  BY <1>4
<1> QED
  BY <1>1, <1>2, <1>5, PTL DEF Spec, JumpTargets
=============================================================================
