------------------------- MODULE CodegenDefers_proofs -------------------------
(***************************************************************************)
(* The deferred calls run where their scope is left, whatever program is   *)
(* compiled: the property DefersRunAtExit of CodegenDefers.                *)
(***************************************************************************)
EXTENDS CodegenDefers, CodegenControl_proofs

-----------------------------------------------------------------------------
(* What a step appends to a block.                                         *)

LEMMA SuffixOfConcat ==
  ASSUME NEW S, NEW s \in Seq(S), NEW t \in Seq(S)
  PROVE  SubSeq(s \o t, Len(s) + 1, Len(s \o t)) = t
<1> DEFINE u == s \o t
           m == Len(s)
           n == Len(t)
           w == SubSeq(u, m + 1, Len(u))
<1>1. /\ u \in Seq(S) /\ m \in Nat /\ n \in Nat /\ Len(u) = m + n
      /\ \A i \in 1..n : u[m + i] = t[i]
      /\ \A i \in 1..m + n : u[i] \in S
  OBVIOUS
<1> HIDE DEF u, m, n
<1>2. /\ w \in Seq(S) /\ Len(w) = IF m + 1 <= m + n THEN m + n - (m + 1) + 1 ELSE 0
      /\ \A i \in 1..m + n - (m + 1) + 1 : w[i] = u[m + 1 + i - 1]
  <2>1. m + 1 \in Int /\ m + n \in Int /\ \A i \in m + 1..m + n : u[i] \in S
    BY <1>1
  <2> QED
    BY <1>1, <2>1, SubSeqProperties
<1>3. Len(w) = n
  BY <1>1, <1>2
<1>4. \A i \in 1..n : w[i] = t[i]
  <2> TAKE i \in 1..n
  <2>1. i \in 1..m + n - (m + 1) + 1 /\ m + 1 + i - 1 = m + i
    BY <1>1
  <2> QED
    BY <1>1, <1>2, <2>1
<1> HIDE DEF w
<1>5. w = t
  BY <1>2, <1>3, <1>4, SeqEqual DEF n
<1> QED
  BY <1>5 DEF w, u, m

\* What a step emits is what it appends.
LEMMA EmittedIs ==
  ASSUME TypeOK, insert \in 1..Len(blocks), NEW t \in Seq(Instruction),
         blocks'[insert].insts = blocks[insert].insts \o t
  PROVE  Emitted = t
<1>1. blocks[insert].insts \in Seq(Instruction)
  <2>1. blocks[insert] \in Block
    BY DEF TypeOK
  <2> QED
    BY <2>1 DEF Block
<1> QED
  BY <1>1, SuffixOfConcat DEF Emitted

\* Code written where the visitor is.
LEMMA EmitEmits ==
  ASSUME TypeOK, insert \in 1..Len(blocks), NEW code \in Seq(Instruction),
         blocks' = Emit(blocks, insert, code)
  PROVE  Emitted = code
<1> DEFINE e == [blocks[insert] EXCEPT !.insts = blocks[insert].insts \o code]
<1>1. blocks[insert] \in Block
  BY DEF TypeOK
<1>2. blocks[insert].insts \o code \in Seq(Instruction)
  BY <1>1 DEF Block
<1>3. e \in Block /\ e.insts = blocks[insert].insts \o code
  BY <1>1, <1>2 DEF Block
<1>4. Emit(blocks, insert, code) = [blocks EXCEPT ![insert] = e]
  BY DEF Emit
<1> HIDE DEF e
<1>5. blocks'[insert].insts = blocks[insert].insts \o code
  BY <1>3, <1>4, ReplaceType DEF TypeOK
<1> QED
  BY <1>5, EmittedIs

-----------------------------------------------------------------------------
(* The scopes and the blocks.  DefersRunAtExit is not inductive: that the  *)
(* entry of the stack holds the defers of the functions and blocks in      *)
(* progress, each scope those of its block in the opposite order, is what  *)
(* the visitors keep.  fs are the frames, ds the stack, v the number of    *)
(* statements visited.                                                     *)

\* A scope of the stack holds what its block has seen.
Notes(scope, declared) ==
  /\ Len(scope) = Len(declared)
  /\ \A k \in 1..Len(declared) :
       scope[k] = [id |-> declared[Len(declared) + 1 - k], kind |-> "function"]

Scoped(f, ds) ==
  /\ f.kind # "block" => f.declared = <<>>
  /\ f.kind \in Loops \cup Selects => f.scopes > 0
  /\ f.kind = "block" =>
       /\ f.open /\ ~f.returning => f.should_execute_defers
       /\ DepthIn(f) \in 1..Len(ds) /\ ScopesIn(f) \in 1..Len(ds[DepthIn(f)])
       /\ Notes(ds[DepthIn(f)][ScopesIn(f)], f.declared)

\* Defers are numbered as they are met.
Numbered(f, v) ==
  \A k \in 1..Len(f.declared) :
    /\ f.declared[k] \in 1..v
    /\ \A l \in 1..k - 1 : f.declared[l] < f.declared[k]

\* The visit f is around the visit g: its scope lies below, and its defers were
\* met before.
Around(f, g) ==
  /\ \/ DepthIn(f) < g.depth
     \/ DepthIn(f) = g.depth /\ ScopesIn(f) <= g.scopes
  /\ \A k \in 1..Len(f.declared), l \in 1..Len(g.declared) :
       f.declared[k] < g.declared[l]

Tracked(fs, ds, v) ==
  /\ \A i \in 1..Len(fs) : Scoped(fs[i], ds) /\ Numbered(fs[i], v)
  /\ \A i, j \in 1..Len(fs) : i < j =>
       /\ Around(fs[i], fs[j])
       /\ (\A k \in i + 1..j : fs[k].kind \notin Callables) =>
            DepthIn(fs[j]) = DepthIn(fs[i])
  /\ \A d \in 1..Len(ds) : \A s \in 1..Len(ds[d]) :
       \E i \in 1..Len(fs) :
         fs[i].kind = "block" /\ DepthIn(fs[i]) = d /\ ScopesIn(fs[i]) = s

DefersInv ==
  /\ TypeInv
  /\ Tracked(frames, defer_calls_stack, visited)

\* Visits that agree on all this, whose open blocks will run their defers unless
\* a return in them has.
SameScopes(fs, gs) ==
  /\ Len(gs) = Len(fs)
  /\ \A i \in 1..Len(fs) :
       /\ gs[i].kind = fs[i].kind /\ gs[i].depth = fs[i].depth
       /\ gs[i].scopes = fs[i].scopes /\ gs[i].declared = fs[i].declared
       /\ gs[i].kind = "block" /\ gs[i].open /\ ~gs[i].returning =>
            gs[i].should_execute_defers

LEMMA TrackedSame ==
  ASSUME NEW fs, NEW gs, NEW ds, NEW v \in Nat, NEW w \in Nat, v <= w,
         SameScopes(fs, gs), Tracked(fs, ds, v)
  PROVE  Tracked(gs, ds, w)
<1> DEFINE n == Len(fs)
<1>1. /\ Len(gs) = n
      /\ \A i \in 1..n :
           /\ gs[i].kind = fs[i].kind /\ gs[i].depth = fs[i].depth
           /\ gs[i].scopes = fs[i].scopes /\ gs[i].declared = fs[i].declared
           /\ DepthIn(gs[i]) = DepthIn(fs[i]) /\ ScopesIn(gs[i]) = ScopesIn(fs[i])
           /\ gs[i].kind = "block" /\ gs[i].open /\ ~gs[i].returning =>
                gs[i].should_execute_defers
  BY DEF SameScopes, DepthIn, ScopesIn
<1>2. \A i \in 1..n : Scoped(gs[i], ds)
  <2> TAKE i \in 1..n
  <2>1. Scoped(fs[i], ds)
    BY DEF Tracked
  <2> QED
    BY <1>1, <2>1 DEF Scoped
<1>3. \A i \in 1..n : Numbered(gs[i], w)
  <2> TAKE i \in 1..n
  <2>1. Numbered(fs[i], v) /\ gs[i].declared = fs[i].declared
    BY <1>1 DEF Tracked
  <2> QED
    BY <2>1 DEF Numbered
<1>4. ASSUME NEW i \in 1..n, NEW j \in 1..n, i < j
      PROVE  /\ Around(gs[i], gs[j])
             /\ (\A k \in i + 1..j : gs[k].kind \notin Callables) =>
                  DepthIn(gs[j]) = DepthIn(gs[i])
  <2>1. /\ Around(fs[i], fs[j])
        /\ (\A k \in i + 1..j : fs[k].kind \notin Callables) =>
             DepthIn(fs[j]) = DepthIn(fs[i])
    BY <1>4 DEF Tracked
  <2>2. Around(gs[i], gs[j])
    BY <1>1, <2>1 DEF Around
  <2>3. \A k \in i + 1..j : k \in 1..n
    OBVIOUS
  <2>4. (\A k \in i + 1..j : gs[k].kind \notin Callables) =>
          \A k \in i + 1..j : fs[k].kind \notin Callables
    BY <1>1, <2>3
  <2> QED
    BY <1>1, <2>1, <2>2, <2>4
<1>5. ASSUME NEW d \in 1..Len(ds), NEW s \in 1..Len(ds[d])
      PROVE  \E i \in 1..n : /\ gs[i].kind = "block" /\ DepthIn(gs[i]) = d
                             /\ ScopesIn(gs[i]) = s
  <2>1. PICK i \in 1..n : /\ fs[i].kind = "block" /\ DepthIn(fs[i]) = d
                          /\ ScopesIn(fs[i]) = s
    BY <1>5 DEF Tracked
  <2> QED
    BY <1>1, <2>1
<1> QED
  BY <1>1, <1>2, <1>3, <1>4, <1>5 DEF Tracked

\* A visit begins.
LEMMA TrackedPush ==
  ASSUME NEW fs \in Seq(FrameType), fs # <<>>, NEW f, f.declared = <<>>,
         f.depth = DepthIn(Peek(fs)), f.scopes = ScopesIn(Peek(fs)),
         NEW ds, NEW es, NEW v \in Nat, Tracked(fs, ds, v), Scoped(f, es),
         \A i \in 1..Len(fs) : Scoped(fs[i], es),
         \A d \in 1..Len(es) : \A s \in 1..Len(es[d]) :
           \/ d \in 1..Len(ds) /\ s \in 1..Len(ds[d])
           \/ f.kind = "block" /\ DepthIn(f) = d /\ ScopesIn(f) = s
  PROVE  Tracked(Append(fs, f), es, v)
<1> DEFINE gs == Append(fs, f)
           n  == Len(fs)
<1>1. /\ Len(gs) = n + 1 /\ n \in Nat \ {0} /\ gs[n + 1] = f /\ Peek(fs) = fs[n]
      /\ \A i \in 1..n : gs[i] = fs[i] /\ fs[i] \in FrameType
      /\ \A i \in 1..n + 1 : i = n + 1 \/ i \in 1..n
  BY DEF Peek
<1> HIDE DEF gs, n
<1>2. \A i \in 1..n + 1 : Scoped(gs[i], es) /\ Numbered(gs[i], v)
  <2>1. Numbered(f, v)
    BY DEF Numbered
  <2> QED
    BY <1>1, <2>1 DEF Tracked, n
<1>3. \A i \in 1..n : /\ fs[i].depth \in Nat /\ fs[i].scopes \in Nat
                      /\ DepthIn(fs[i]) \in Nat /\ ScopesIn(fs[i]) \in Nat
  <2> TAKE i \in 1..n
  <2>1. /\ fs[i].depth \in Nat /\ fs[i].scopes \in Nat
        /\ DepthIn(fs[i]) \in {fs[i].depth, fs[i].depth + 1}
        /\ ScopesIn(fs[i]) \in Nat
    BY FrameFields DEF n
  <2> QED
    BY <2>1
<1>4. ASSUME NEW i \in 1..n PROVE Around(fs[i], f)
  <2>1. \/ DepthIn(fs[i]) < f.depth
        \/ DepthIn(fs[i]) = f.depth /\ ScopesIn(fs[i]) <= f.scopes
    <3>1. CASE i = n
      BY <1>1, <1>3, <3>1
    <3>2. CASE i # n
      <4>1. i < n /\ n \in 1..n
        BY <1>1, <3>2
      <4>2. \/ DepthIn(fs[i]) < fs[n].depth
            \/ DepthIn(fs[i]) = fs[n].depth /\ ScopesIn(fs[i]) <= fs[n].scopes
        BY <4>1 DEF Tracked, Around, n
      <4>3. CASE fs[n].kind \in Callables
        <5>1. /\ f.depth = fs[n].depth + 1 /\ fs[n].depth \in Nat
              /\ DepthIn(fs[i]) \in Nat
          BY <1>1, <1>3, <4>1, <4>3 DEF DepthIn
        <5> QED
          BY <4>2, <5>1
      <4>4. CASE fs[n].kind \notin Callables
        <5>1. /\ DepthIn(fs[n]) = fs[n].depth
              /\ ScopesIn(fs[n]) \in {fs[n].scopes, fs[n].scopes + 1}
          BY <4>4 DEF DepthIn, ScopesIn
        <5>2. f.depth = fs[n].depth /\ f.scopes = ScopesIn(fs[n])
          BY <1>1, <5>1
        <5>3. fs[n].scopes \in Nat /\ ScopesIn(fs[i]) \in Nat
          BY <1>3, <4>1
        <5>4. ScopesIn(fs[i]) <= fs[n].scopes => ScopesIn(fs[i]) <= ScopesIn(fs[n])
          BY <5>1, <5>3
        <5> QED
          BY <4>2, <5>2, <5>4
      <4> QED
        BY <4>3, <4>4
    <3> QED
      BY <3>1, <3>2
  <2>2. Len(f.declared) = 0
    OBVIOUS
  <2> QED
    BY <2>1, <2>2 DEF Around
<1>5. ASSUME NEW i \in 1..n + 1, NEW j \in 1..n + 1, i < j
      PROVE  /\ Around(gs[i], gs[j])
             /\ (\A k \in i + 1..j : gs[k].kind \notin Callables) =>
                  DepthIn(gs[j]) = DepthIn(gs[i])
  <2>1. i \in 1..n /\ gs[i] = fs[i]
    BY <1>1, <1>5
  <2>2. CASE j \in 1..n
    <3>1. \A k \in i + 1..j : k \in 1..n
      BY <1>1, <2>1, <2>2
    <3>2. (\A k \in i + 1..j : gs[k].kind \notin Callables) =>
            \A k \in i + 1..j : fs[k].kind \notin Callables
      BY <1>1, <3>1
    <3> QED
      BY <1>1, <1>5, <2>1, <2>2, <3>2 DEF Tracked, n
  <2>3. CASE j = n + 1
    <3>1. Around(gs[i], gs[j])
      BY <1>1, <1>4, <2>1, <2>3
    <3>2. ASSUME \A k \in i + 1..j : gs[k].kind \notin Callables
          PROVE  DepthIn(f) = DepthIn(fs[i])
      <4>1. DepthIn(f) = DepthIn(fs[n])
        <5>1. j \in i + 1..j
          BY <1>5
        <5>2. f.kind \notin Callables
          BY <1>1, <2>3, <3>2, <5>1
        <5> QED
          BY <1>1, <5>2 DEF DepthIn
      <4>2. CASE i = n
        BY <4>1, <4>2
      <4>3. CASE i # n
        <5>1. i < n /\ n \in 1..n
          BY <1>1, <2>1, <4>3
        <5>2. \A k \in i + 1..n : k \in 1..n /\ k \in i + 1..j
          BY <1>1, <2>1, <2>3
        <5>3. \A k \in i + 1..n : fs[k].kind \notin Callables
          BY <1>1, <3>2, <5>2
        <5>4. DepthIn(fs[n]) = DepthIn(fs[i])
          BY <2>1, <5>1, <5>3 DEF Tracked, n
        <5> QED
          BY <4>1, <5>4
      <4> QED
        BY <4>2, <4>3
    <3> QED
      BY <1>1, <2>1, <2>3, <3>1, <3>2
  <2> QED
    BY <1>1, <2>2, <2>3
<1>6. ASSUME NEW d \in 1..Len(es), NEW s \in 1..Len(es[d])
      PROVE  \E i \in 1..n + 1 : /\ gs[i].kind = "block" /\ DepthIn(gs[i]) = d
                                 /\ ScopesIn(gs[i]) = s
  <2>1. CASE d \in 1..Len(ds) /\ s \in 1..Len(ds[d])
    <3>1. PICK i \in 1..n : /\ fs[i].kind = "block" /\ DepthIn(fs[i]) = d
                            /\ ScopesIn(fs[i]) = s
      BY <2>1 DEF Tracked, n
    <3>2. i \in 1..n + 1 /\ gs[i] = fs[i]
      BY <1>1
    <3> QED
      BY <3>1, <3>2
  <2>2. CASE f.kind = "block" /\ DepthIn(f) = d /\ ScopesIn(f) = s
    <3>1. n + 1 \in 1..n + 1
      BY <1>1
    <3> QED
      BY <1>1, <2>2, <3>1
  <2> QED
    BY <2>1, <2>2
<1>7. Tracked(gs, es, v)
  BY <1>1, <1>2, <1>5, <1>6 DEF Tracked
<1> QED
  BY <1>7 DEF gs

\* A visit ends.
LEMMA TrackedPop ==
  ASSUME NEW fs \in Seq(FrameType), fs # <<>>, NEW ds, NEW es, NEW v \in Nat,
         Tracked(fs, ds, v), \A i \in 1..Len(fs) - 1 : Scoped(fs[i], es),
         \A d \in 1..Len(es) : \A s \in 1..Len(es[d]) :
           /\ d \in 1..Len(ds) /\ s \in 1..Len(ds[d])
           /\ ~(/\ Peek(fs).kind = "block" /\ DepthIn(Peek(fs)) = d
                /\ ScopesIn(Peek(fs)) = s)
  PROVE  Tracked(Pop(fs), es, v)
<1> DEFINE gs == Pop(fs)
           n  == Len(fs)
<1>1. /\ Len(gs) = n - 1 /\ n \in Nat \ {0} /\ Peek(fs) = fs[n]
      /\ \A i \in 1..n - 1 : gs[i] = fs[i] /\ i \in 1..n
      /\ \A i \in 1..n : i = n \/ i \in 1..n - 1
  BY PopType DEF Peek
<1> HIDE DEF gs, n
<1>2. \A i \in 1..n - 1 : Scoped(gs[i], es) /\ Numbered(gs[i], v)
  BY <1>1 DEF Tracked, n
<1>3. ASSUME NEW i \in 1..n - 1, NEW j \in 1..n - 1, i < j
      PROVE  /\ Around(gs[i], gs[j])
             /\ (\A k \in i + 1..j : gs[k].kind \notin Callables) =>
                  DepthIn(gs[j]) = DepthIn(gs[i])
  <2>1. \A k \in i + 1..j : k \in 1..n - 1
    BY <1>1
  <2>2. gs[i] = fs[i] /\ gs[j] = fs[j] /\ i \in 1..n /\ j \in 1..n
    BY <1>1
  <2>3. (\A k \in i + 1..j : gs[k].kind \notin Callables) =>
          \A k \in i + 1..j : fs[k].kind \notin Callables
    BY <1>1, <2>1
  <2> QED
    BY <1>3, <2>2, <2>3 DEF Tracked, n
<1>4. ASSUME NEW d \in 1..Len(es), NEW s \in 1..Len(es[d])
      PROVE  \E i \in 1..n - 1 : /\ gs[i].kind = "block" /\ DepthIn(gs[i]) = d
                                 /\ ScopesIn(gs[i]) = s
  <2>1. PICK i \in 1..n : /\ fs[i].kind = "block" /\ DepthIn(fs[i]) = d
                          /\ ScopesIn(fs[i]) = s
    BY DEF Tracked, n
  <2>2. i # n
    BY <1>1, <2>1
  <2> QED
    BY <1>1, <2>1, <2>2
<1>5. Tracked(gs, es, v)
  BY <1>1, <1>2, <1>3, <1>4 DEF Tracked
<1> QED
  BY <1>5 DEF gs

-----------------------------------------------------------------------------
(* The steps of the visitors.                                              *)

\* The facts of a state in which a visit is in progress.
LEMMA TrackedFacts ==
  ASSUME DefersInv, frames # <<>>
  PROVE  /\ frames \in Seq(FrameType) /\ Len(frames) \in 1..Len(frames)
         /\ top = frames[Len(frames)] /\ top \in FrameType
         /\ Scoped(top, defer_calls_stack) /\ visited \in Nat
         /\ Tracked(frames, defer_calls_stack, visited)
<1>1. /\ frames \in Seq(FrameType) /\ Len(frames) \in 1..Len(frames)
      /\ top = frames[Len(frames)] /\ top \in FrameType
  BY VisitFacts DEF DefersInv, TypeInv, TypeOK
<1>2. visited \in Nat
  BY DEF DefersInv, TypeInv, TypeOK
<1> QED
  BY <1>1, <1>2 DEF DefersInv, Tracked

\* The frame on top changes, and nothing of what is tracked.
LEMMA RetopSame ==
  ASSUME DefersInv, frames # <<>>, NEW g \in FrameType,
         g.kind = top.kind, g.depth = top.depth, g.scopes = top.scopes,
         g.declared = top.declared,
         g.kind = "block" /\ g.open /\ ~g.returning => g.should_execute_defers
  PROVE  SameScopes(frames, [frames EXCEPT ![Len(frames)] = g])
<1> DEFINE n  == Len(frames)
           gs == [frames EXCEPT ![n] = g]
<1>1. /\ frames \in Seq(FrameType) /\ n \in 1..n /\ top = frames[n]
      /\ \A i \in 1..n : Scoped(frames[i], defer_calls_stack)
  BY TrackedFacts DEF Tracked
<1>2. Len(gs) = n /\ \A i \in 1..n : gs[i] = IF i = n THEN g ELSE frames[i]
  BY <1>1, ReplaceType
<1> HIDE DEF gs, n
<1>3. SameScopes(frames, gs)
  BY <1>1, <1>2 DEF SameScopes, Scoped, n
<1> QED
  BY <1>3 DEF gs, n

LEMMA VisitingSame ==
  ASSUME DefersInv, frames # <<>>
  PROVE  /\ top.open => SameScopes(frames, Visiting)
         /\ SameScopes(frames, Closed)
         /\ SameScopes(frames, Returning) /\ SameScopes(frames, Returned)
<1> DEFINE at(b) == [top EXCEPT !.open = b]
           ret   == [top EXCEPT !.returning = TRUE, !.should_execute_defers = FALSE]
           done  == [top EXCEPT !.returning = FALSE, !.open = FALSE]
           n     == Len(frames)
           open  == (top.kind = "block" \/ top.returning)
<1>1. /\ frames \in Seq(FrameType) /\ n \in 1..n /\ top = frames[n]
      /\ top \in FrameType /\ Scoped(top, defer_calls_stack)
  BY TrackedFacts
<1>2. top.open /\ top.kind = "block" /\ ~top.returning => top.should_execute_defers
  BY <1>1 DEF Scoped
<1>3. \A b \in BOOLEAN :
        /\ at(b) \in FrameType /\ at(b).kind = top.kind
        /\ at(b).depth = top.depth /\ at(b).scopes = top.scopes
        /\ at(b).declared = top.declared
        /\ at(b).should_execute_defers = top.should_execute_defers
        /\ at(b).returning = top.returning /\ at(b).open = b
  BY <1>1 DEF FrameType
<1>4. /\ ret \in FrameType /\ ret.kind = top.kind /\ ret.returning
      /\ ret.depth = top.depth /\ ret.scopes = top.scopes
      /\ ret.declared = top.declared
  BY <1>1 DEF FrameType
<1>5. /\ done \in FrameType /\ done.kind = top.kind /\ ~done.open
      /\ done.depth = top.depth /\ done.scopes = top.scopes
      /\ done.declared = top.declared
  BY <1>1 DEF FrameType
<1>6. /\ Visiting = [frames EXCEPT ![n] = at(open)]
      /\ Closed = [frames EXCEPT ![n] = at(FALSE)]
      /\ Returning = [frames EXCEPT ![n] = ret]
      /\ Returned = [frames EXCEPT ![n] = done]
  BY <1>1 DEF Visiting, Closed, Returning, Returned
<1>7. open \in BOOLEAN /\ FALSE \in BOOLEAN
  OBVIOUS
<1> HIDE DEF at, ret, done, open
<1>8. \A b \in BOOLEAN :
        (b => top.open) => SameScopes(frames, [frames EXCEPT ![n] = at(b)])
  BY <1>2, <1>3, RetopSame
<1>9. SameScopes(frames, [frames EXCEPT ![n] = ret])
  BY <1>4, RetopSame
<1>10. SameScopes(frames, [frames EXCEPT ![n] = done])
  BY <1>5, RetopSame
<1> QED
  BY <1>6, <1>7, <1>8, <1>9, <1>10

LEMMA SameStep ==
  ASSUME DefersInv, SameScopes(frames, frames'), UNCHANGED defer_calls_stack,
         visited' \in {visited, visited + 1}
  PROVE  Tracked(frames, defer_calls_stack, visited)'
<1>1. /\ visited \in Nat /\ visited' \in Nat /\ visited <= visited'
      /\ Tracked(frames, defer_calls_stack, visited)
  BY DEF DefersInv, TypeInv, TypeOK
<1>2. Tracked(frames', defer_calls_stack, visited')
  BY <1>1, TrackedSame
<1> QED
  BY <1>2

\* Plain statements, calls of an instance, returns and jumps.
LEMMA StatementTracked ==
  ASSUME DefersInv,
         \/ Plain
         \/ \E g \in Generics : CallInstance(g)
         \/ EnterReturn
         \/ LeaveReturn
         \/ \E n \in Times : Break(n) \/ Continue(n)
  PROVE  Tracked(frames, defer_calls_stack, visited)'
<1>1. /\ frames # <<>> /\ UNCHANGED defer_calls_stack
      /\ visited' \in {visited, visited + 1}
      /\ \/ frames' = Visiting /\ top.open
         \/ frames' \in {Closed, Returning, Returned}
  <2>1. CASE Plain
    BY <2>1 DEF Plain, Visits, Count, tables
  <2>2. CASE \E g \in Generics : CallInstance(g)
    BY <2>2 DEF CallInstance, Visits, Count, tables
  <2>3. CASE EnterReturn
    BY <2>3 DEF EnterReturn, Visits, Count, tables
  <2>4. CASE LeaveReturn
    BY <2>4 DEF LeaveReturn, tables
  <2>5. CASE \E n \in Times : Break(n) \/ Continue(n)
    BY <2>5 DEF Break, Continue, MayJump, Jump, Visits, Count, tables
  <2> QED
    BY <2>1, <2>2, <2>3, <2>4, <2>5
<1>2. SameScopes(frames, frames')
  BY <1>1, VisitingSame
<1> QED
  BY <1>1, <1>2, SameStep

LEMMA NextBranchTracked ==
  ASSUME DefersInv, NextBranch
  PROVE  Tracked(frames, defer_calls_stack, visited)'
<1> DEFINE f(l, x) == [top EXCEPT !.open = TRUE, !.next = l, !.left = x]
<1>1. /\ frames # <<>> /\ top.kind \in Selects /\ top.left > 0
      /\ UNCHANGED <<defer_calls_stack, visited>>
  BY DEF NextBranch
<1>2. top \in FrameType /\ Len(blocks) \in Nat
  BY <1>1, TrackedFacts DEF DefersInv, TypeInv, TypeOK
<1>3. PICK l \in Nat : frames' = [frames EXCEPT ![Len(frames)] = f(l, top.left - 1)]
  <2>1. Len(blocks) + 2 \in Nat /\ top.end \in Nat
    BY <1>2 DEF FrameType
  <2> QED
    BY <2>1 DEF NextBranch
<1>4. top.left - 1 \in Nat
  BY <1>1, <1>2 DEF FrameType
<1> DEFINE g == f(l, top.left - 1)
<1>5. /\ g \in FrameType /\ g.kind = top.kind /\ g.depth = top.depth
      /\ g.scopes = top.scopes /\ g.declared = top.declared
  BY <1>2, <1>4 DEF FrameType
<1>6. g.kind # "block"
  BY <1>1, <1>5 DEF Selects
<1> HIDE DEF f, g
<1>7. SameScopes(frames, [frames EXCEPT ![Len(frames)] = g])
  BY <1>1, <1>5, <1>6, RetopSame
<1>8. SameScopes(frames, frames')
  BY <1>3, <1>7 DEF g
<1> QED
  BY <1>1, <1>8, SameStep

\* A visit begins; f is its frame and es the stack after it.
LEMMA PushStep ==
  ASSUME DefersInv, frames # <<>>, top.open, NEW f, f.declared = <<>>,
         f.depth = Len(defer_calls_stack), f.scopes = Len(Peek(defer_calls_stack)),
         NEW es, Scoped(f, es), \A g : Scoped(g, defer_calls_stack) => Scoped(g, es),
         \A d \in 1..Len(es) : \A s \in 1..Len(es[d]) :
           \/ d \in 1..Len(defer_calls_stack) /\ s \in 1..Len(defer_calls_stack[d])
           \/ f.kind = "block" /\ DepthIn(f) = d /\ ScopesIn(f) = s,
         NEW v \in {visited, visited + 1}
  PROVE  Tracked(Append(Visiting, f), es, v)
<1> DEFINE ds == defer_calls_stack
<1>1. /\ frames \in Seq(FrameType) /\ Len(frames) \in 1..Len(frames)
      /\ top = frames[Len(frames)] /\ visited \in Nat
      /\ Tracked(frames, ds, visited) /\ Visiting \in Seq(FrameType)
      /\ Len(ds) = DepthIn(top) /\ Len(Peek(ds)) = ScopesIn(top)
  BY TrackedFacts, VisitFacts DEF DefersInv
<1>2. SameScopes(frames, Visiting)
  BY VisitingSame
<1>3. v \in Nat /\ visited <= v
  BY <1>1
<1>4. Tracked(Visiting, ds, v)
  BY <1>1, <1>2, <1>3, TrackedSame
<1>5. /\ Visiting # <<>>
      /\ DepthIn(Peek(Visiting)) = Len(ds) /\ ScopesIn(Peek(Visiting)) = Len(Peek(ds))
  BY <1>1, <1>2 DEF SameScopes, Peek, DepthIn, ScopesIn
<1>6. \A i \in 1..Len(Visiting) : Scoped(Visiting[i], es)
  BY <1>4 DEF Tracked
<1> QED
  BY <1>1, <1>3, <1>4, <1>5, <1>6, TrackedPush

\* A statement is only visited inside a block; a function may be made in the value
\* of a return that is the whole body of another.
LEMMA OpenScope ==
  ASSUME DefersInv, NEW s, Visits(s), s \notin {"lambda", "generic"}
  PROVE  ScopesIn(top) > 0
<1>1. frames # <<>> /\ top.kind \in Loops \cup Selects \cup {"block"}
  BY BoundsAssumption DEF Visits
<1>2. top \in FrameType /\ Scoped(top, defer_calls_stack)
  BY <1>1, TrackedFacts
<1>3. top.scopes \in Nat
  BY <1>2 DEF FrameType
<1>4. CASE top.kind = "block"
  BY <1>3, <1>4 DEF ScopesIn, Callables
<1>5. CASE top.kind \in Loops \cup Selects
  BY <1>2, <1>3, <1>5 DEF ScopesIn, Scoped, Callables, Loops, Selects
<1> QED
  BY <1>1, <1>4, <1>5

\* An if, a switch or a loop begins.
LEMMA EnterConstructTracked ==
  ASSUME DefersInv, NEW s \in Loops \cup Selects, Visits(s), NEW f,
         f.declared = <<>>, f.kind \in Loops \cup Selects, f.depth = Len(defer_calls_stack),
         f.scopes = Len(Peek(defer_calls_stack)), frames' = Append(Visiting, f),
         visited' = visited + 1, UNCHANGED defer_calls_stack
  PROVE  Tracked(frames, defer_calls_stack, visited)'
<1>1. frames # <<>> /\ top.open /\ s \notin {"lambda", "generic"}
  BY DEF Visits, Loops, Selects
<1>2. /\ top \in FrameType /\ Scoped(top, defer_calls_stack)
      /\ Len(Peek(defer_calls_stack)) = ScopesIn(top)
  BY <1>1, TrackedFacts, VisitFacts DEF DefersInv
<1>3. f.scopes > 0
  BY <1>1, <1>2, OpenScope
<1>4. Scoped(f, defer_calls_stack)
  BY <1>3 DEF Scoped, Loops, Selects
<1>5. Tracked(Append(Visiting, f), defer_calls_stack, visited + 1)
  BY <1>1, <1>4, PushStep
<1> QED
  BY <1>5

\* The frames the visitors make have seen no defer.
LEMMA FreshFrame ==
  ASSUME NEW k
  PROVE  /\ Frame(k).kind = k /\ Frame(k).declared = <<>>
         /\ Frame(k).depth = Len(defer_calls_stack)
         /\ defer_calls_stack # <<>> =>
              Frame(k).scopes = Len(Peek(defer_calls_stack))
         /\ Frame(k).open /\ Frame(k).should_execute_defers
BY DEF Frame

LEMMA EnterSelectTracked ==
  ASSUME DefersInv, NEW s \in Selects, NEW n \in Branches, EnterSelect(s, n)
  PROVE  Tracked(frames, defer_calls_stack, visited)'
<1> DEFINE f(a, b, c, d) == [Frame(s) EXCEPT !.fn = a, !.end = b, !.next = c, !.left = d]
<1>1. /\ Visits(s) /\ visited' = visited + 1 /\ UNCHANGED defer_calls_stack
      /\ \E a, b, c, d : frames' = Append(Visiting, f(a, b, c, d))
  BY DEF EnterSelect, Count
<1>2. PICK a, b, c, d : frames' = Append(Visiting, f(a, b, c, d))
  BY <1>1
<1>3. defer_calls_stack # <<>>
  BY <1>1, VisitFacts DEF DefersInv, Visits
<1>4. LET g == f(a, b, c, d) IN
      /\ g.kind = s /\ g.declared = <<>> /\ g.depth = Len(defer_calls_stack)
      /\ g.scopes = Len(Peek(defer_calls_stack))
  BY <1>3 DEF Frame
<1> HIDE DEF f
<1> QED
  BY <1>1, <1>2, <1>4, EnterConstructTracked

LEMMA EnterLoopTracked ==
  ASSUME DefersInv,
         \/ \E s \in Loops \ {"forever"} : EnterConditionLoop(s)
         \/ EnterForever
  PROVE  Tracked(frames, defer_calls_stack, visited)'
<1> DEFINE f(s, a, b, c) == [Frame(s) EXCEPT !.fn = a, !.end = b, !.cond = c]
<1>1. PICK s \in Loops :
        /\ Visits(s) /\ visited' = visited + 1 /\ UNCHANGED defer_calls_stack
        /\ \E a, b, c : frames' = Append(Visiting, f(s, a, b, c))
  <2>1. CASE EnterForever
    <3>1. "forever" \in Loops
      BY DEF Loops
    <3> QED
      BY <2>1, <3>1 DEF EnterForever, PushLoop, Count
  <2>2. CASE \E s \in Loops \ {"forever"} : EnterConditionLoop(s)
    BY <2>2 DEF EnterConditionLoop, PushLoop, Count
  <2> QED
    BY <2>1, <2>2
<1>2. PICK a, b, c : frames' = Append(Visiting, f(s, a, b, c))
  BY <1>1
<1>3. defer_calls_stack # <<>>
  BY <1>1, VisitFacts DEF DefersInv, Visits
<1>4. LET g == f(s, a, b, c) IN
      /\ g.kind = s /\ g.declared = <<>> /\ g.depth = Len(defer_calls_stack)
      /\ g.scopes = Len(Peek(defer_calls_stack))
  BY <1>3 DEF Frame
<1> HIDE DEF f
<1> QED
  BY <1>1, <1>2, <1>4, EnterConstructTracked

\* A lambda or an instance of a generic begins: its function gets an entry.
LEMMA EnterInnerTracked ==
  ASSUME DefersInv, NEW s, Visits(s), NEW f, f.declared = <<>>,
         f.kind \in Callables, f.depth = Len(defer_calls_stack),
         f.scopes = Len(Peek(defer_calls_stack)), frames' = Append(Visiting, f),
         visited' = visited + 1, defer_calls_stack' = Append(defer_calls_stack, <<>>)
  PROVE  Tracked(frames, defer_calls_stack, visited)'
<1> DEFINE ds == defer_calls_stack
           es == Append(ds, <<>>)
<1>1. frames # <<>> /\ top.open
  BY DEF Visits
<1>2. ds \in DeferStacks
  BY <1>1, VisitFacts DEF DefersInv
<1>3. /\ Len(ds) \in Nat /\ Len(es) = Len(ds) + 1 /\ es[Len(ds) + 1] = <<>>
      /\ \A d \in 1..Len(ds) : es[d] = ds[d] /\ d \in 1..Len(es)
      /\ \A d \in 1..Len(es) : d \in 1..Len(ds) \/ d = Len(ds) + 1
  BY <1>2 DEF DeferStacks
<1> HIDE DEF es
<1>4. \A g : Scoped(g, ds) => Scoped(g, es)
  BY <1>3 DEF Scoped
<1>5. Scoped(f, es)
  BY DEF Scoped, Callables, Loops, Selects
<1>6. \A d \in 1..Len(es) : \A i \in 1..Len(es[d]) :
        d \in 1..Len(ds) /\ i \in 1..Len(ds[d])
  <2> TAKE d \in 1..Len(es)
  <2>1. CASE d = Len(ds) + 1
    <3>1. Len(es[d]) = 0
      BY <1>3, <2>1
    <3> QED
      BY <3>1
  <2>2. CASE d \in 1..Len(ds)
    BY <1>3, <2>2
  <2> QED
    BY <1>3, <2>1, <2>2
<1>7. Tracked(Append(Visiting, f), es, visited + 1)
  BY <1>1, <1>4, <1>5, <1>6, PushStep
<1> QED
  BY <1>7 DEF es

LEMMA EnterCallableTracked ==
  ASSUME DefersInv, EnterLambda \/ \E g \in Generics : EnterGeneric(g)
  PROVE  Tracked(frames, defer_calls_stack, visited)'
<1> DEFINE f(s, n, a) == [[Frame(s) EXCEPT !.name = n] EXCEPT !.fn = a]
           h(s, a)    == [Frame(s) EXCEPT !.fn = a]
<1>1. PICK s \in Callables :
        /\ Visits(s) /\ visited' = visited + 1
        /\ defer_calls_stack' = Append(defer_calls_stack, <<>>)
        /\ \/ \E a : frames' = Append(Visiting, h(s, a))
           \/ \E n, a : frames' = Append(Visiting, f(s, n, a))
  <2>1. "lambda" \in Callables /\ "generic" \in Callables
    BY DEF Callables
  <2>2. CASE EnterLambda
    BY <2>1, <2>2 DEF EnterLambda, EnterInner, Count
  <2>3. CASE \E g \in Generics : EnterGeneric(g)
    BY <2>1, <2>3 DEF EnterGeneric, EnterInner, Count
  <2> QED
    BY <2>2, <2>3
<1>2. defer_calls_stack # <<>>
  BY <1>1, VisitFacts DEF DefersInv, Visits
<1>3. PICK g : /\ frames' = Append(Visiting, g) /\ g.kind = s /\ g.declared = <<>>
               /\ g.depth = Len(defer_calls_stack)
               /\ g.scopes = Len(Peek(defer_calls_stack))
  <2>1. CASE \E a : frames' = Append(Visiting, h(s, a))
    <3>1. PICK a : frames' = Append(Visiting, h(s, a))
      BY <2>1
    <3>2. /\ h(s, a).kind = s /\ h(s, a).declared = <<>>
          /\ h(s, a).depth = Len(defer_calls_stack)
          /\ h(s, a).scopes = Len(Peek(defer_calls_stack))
      BY <1>2 DEF Frame
    <3> HIDE DEF h
    <3> QED
      BY <3>1, <3>2
  <2>2. CASE \E n, a : frames' = Append(Visiting, f(s, n, a))
    <3>1. PICK n, a : frames' = Append(Visiting, f(s, n, a))
      BY <2>2
    <3>2. /\ f(s, n, a).kind = s /\ f(s, n, a).declared = <<>>
          /\ f(s, n, a).depth = Len(defer_calls_stack)
          /\ f(s, n, a).scopes = Len(Peek(defer_calls_stack))
      BY <1>2 DEF Frame
    <3> HIDE DEF f
    <3> QED
      BY <3>1, <3>2
  <2> QED
    BY <1>1, <2>1, <2>2
<1> HIDE DEF f, h
<1> QED
  BY <1>1, <1>3, EnterInnerTracked

LEMMA EnterBlockTracked ==
  ASSUME DefersInv, EnterBlock
  PROVE  Tracked(frames, defer_calls_stack, visited)'
<1> DEFINE ds == defer_calls_stack
           e  == Append(ds[Len(ds)], <<>>)
           es == [ds EXCEPT ![Len(ds)] = e]
           f  == Frame("block")
<1>1. /\ frames # <<>> /\ top.open /\ visited' \in {visited, visited + 1}
      /\ defer_calls_stack' = es /\ frames' = Append(Visiting, f)
  BY DEF EnterBlock, Count
<1>2. /\ ds \in DeferStacks /\ Len(ds) \in Nat \ {0} /\ ds # <<>>
      /\ Peek(ds) \in Seq(Seq(DeferCall)) /\ Peek(ds) = ds[Len(ds)]
  BY <1>1, VisitFacts DEF DefersInv, Peek
<1>3. /\ f.kind = "block" /\ f.declared = <<>> /\ f.depth = Len(ds)
      /\ f.scopes = Len(Peek(ds)) /\ f.open /\ f.should_execute_defers
  BY <1>2, FreshFrame
<1> HIDE DEF f
<1>4. /\ e \in Seq(Seq(DeferCall)) /\ Len(e) = Len(Peek(ds)) + 1
      /\ e[Len(Peek(ds)) + 1] = <<>> /\ Len(Peek(ds)) \in Nat
      /\ \A s \in 1..Len(Peek(ds)) : e[s] = Peek(ds)[s] /\ s \in 1..Len(e)
  BY <1>2
<1> HIDE DEF e
<1>5. /\ Len(es) = Len(ds)
      /\ \A d \in 1..Len(ds) : es[d] = IF d = Len(ds) THEN e ELSE ds[d]
  BY <1>2, <1>4, ReplaceType DEF DeferStacks
<1> HIDE DEF es
<1>6. \A g : Scoped(g, ds) => Scoped(g, es)
  BY <1>2, <1>4, <1>5 DEF Scoped
<1>7. Scoped(f, es)
  <2>1. DepthIn(f) = Len(ds) /\ ScopesIn(f) = Len(Peek(ds)) + 1
    BY <1>3 DEF DepthIn, ScopesIn, Callables
  <2>2. DepthIn(f) \in 1..Len(es) /\ ScopesIn(f) \in 1..Len(es[DepthIn(f)])
    BY <1>2, <1>4, <1>5, <2>1
  <2>3. es[DepthIn(f)][ScopesIn(f)] = <<>>
    BY <1>2, <1>4, <1>5, <2>1
  <2>4. Notes(<<>>, <<>>)
    BY DEF Notes
  <2> QED
    BY <1>3, <2>2, <2>3, <2>4 DEF Scoped, Loops, Selects
<1>8. \A d \in 1..Len(es) : \A s \in 1..Len(es[d]) :
        \/ d \in 1..Len(ds) /\ s \in 1..Len(ds[d])
        \/ f.kind = "block" /\ DepthIn(f) = d /\ ScopesIn(f) = s
  <2> SUFFICES ASSUME NEW d \in 1..Len(es), NEW s \in 1..Len(es[d])
               PROVE  \/ d \in 1..Len(ds) /\ s \in 1..Len(ds[d])
                      \/ f.kind = "block" /\ DepthIn(f) = d /\ ScopesIn(f) = s
    OBVIOUS
  <2>1. DepthIn(f) = Len(ds) /\ ScopesIn(f) = Len(Peek(ds)) + 1
    BY <1>3 DEF DepthIn, ScopesIn, Callables
  <2>2. CASE d = Len(ds)
    <3>1. s \in 1..Len(e) /\ Len(e) = Len(ds[d]) + 1 /\ Len(ds[d]) \in Nat
      BY <1>2, <1>4, <1>5, <2>2
    <3>2. s \in 1..Len(ds[d]) \/ s = Len(ds[d]) + 1
      BY <3>1
    <3> QED
      BY <1>2, <1>3, <1>5, <2>1, <2>2, <3>2
  <2>3. CASE d # Len(ds)
    BY <1>5, <2>3
  <2> QED
    BY <2>2, <2>3
<1>9. Tracked(Append(Visiting, f), es, visited')
  BY <1>1, <1>3, <1>6, <1>7, <1>8, PushStep
<1> QED
  BY <1>1, <1>9

LEMMA EnterFunctionTracked ==
  ASSUME DefersInv, EnterFunction
  PROVE  Tracked(frames, defer_calls_stack, visited)'
<1> DEFINE f == [Frame("function") EXCEPT !.fn = Len(blocks) + 1]
<1>1. defer_calls_stack = <<>>
  BY DEF DefersInv, TypeInv, DeferOK, EnterFunction
<1>2. /\ frames' = <<f>> /\ defer_calls_stack' = << <<>> >>
      /\ f.kind = "function" /\ f.declared = <<>>
  BY <1>1 DEF EnterFunction, Frame
<1> HIDE DEF f
<1>3. /\ Len(frames') = 1 /\ frames'[1] = f /\ Len(defer_calls_stack') = 1
      /\ defer_calls_stack'[1] = <<>>
  BY <1>2
<1>4. Scoped(f, defer_calls_stack') /\ Numbered(f, visited')
  BY <1>2 DEF Scoped, Numbered, Loops, Selects
<1>5. \A i, j \in 1..1 : ~(i < j)
  OBVIOUS
<1>6. \A d \in 1..1 : \A s \in 1..Len(defer_calls_stack'[d]) : FALSE
  BY <1>3
<1> QED
  BY <1>3, <1>4, <1>5, <1>6 DEF Tracked

\* The visits around the one on top.
LEMMA OuterVisits ==
  ASSUME DefersInv, frames # <<>>, NEW i \in 1..Len(frames) - 1
  PROVE  /\ Scoped(frames[i], defer_calls_stack)
         /\ \/ DepthIn(frames[i]) < top.depth
            \/ DepthIn(frames[i]) = top.depth /\ ScopesIn(frames[i]) <= top.scopes
         /\ DepthIn(frames[i]) \in Nat /\ ScopesIn(frames[i]) \in Nat
         /\ top.depth \in Nat /\ top.scopes \in Nat
<1>1. /\ frames \in Seq(FrameType) /\ Len(frames) \in 1..Len(frames)
      /\ top = frames[Len(frames)] /\ top \in FrameType
      /\ Tracked(frames, defer_calls_stack, visited)
  BY TrackedFacts
<1>2. i \in 1..Len(frames) /\ i < Len(frames)
  BY <1>1
<1>3. Around(frames[i], top) /\ Scoped(frames[i], defer_calls_stack)
  BY <1>1, <1>2 DEF Tracked
<1>4. /\ frames[i].depth \in Nat /\ DepthIn(frames[i]) \in {frames[i].depth, frames[i].depth + 1}
      /\ ScopesIn(frames[i]) \in Nat
  BY <1>1, <1>2, FrameFields
<1>5. DepthIn(frames[i]) \in Nat
  BY <1>4
<1>6. top.depth \in Nat /\ top.scopes \in Nat
  BY <1>1 DEF FrameType
<1> QED
  BY <1>3, <1>4, <1>5, <1>6 DEF Around

LEMMA LeaveConstructTracked ==
  ASSUME DefersInv, LeaveSelect \/ LeaveLoop
  PROVE  Tracked(frames, defer_calls_stack, visited)'
<1>1. /\ frames # <<>> /\ top.kind \in Loops \cup Selects /\ frames' = Pop(frames)
      /\ UNCHANGED <<defer_calls_stack, visited>>
  BY DEF LeaveSelect, LeaveLoop
<1>2. Peek(frames).kind # "block"
  BY <1>1 DEF top, Loops, Selects
<1>3. /\ frames \in Seq(FrameType) /\ visited \in Nat
      /\ Tracked(frames, defer_calls_stack, visited)
  BY <1>1, TrackedFacts
<1>4. \A i \in 1..Len(frames) - 1 : Scoped(frames[i], defer_calls_stack)
  BY <1>1, OuterVisits
<1>5. Tracked(Pop(frames), defer_calls_stack, visited)
  BY <1>1, <1>2, <1>3, <1>4, TrackedPop
<1> QED
  BY <1>1, <1>5

LEMMA LeaveCallableTracked ==
  ASSUME DefersInv, LeaveFunction \/ LeaveLambda \/ LeaveGeneric
  PROVE  Tracked(frames, defer_calls_stack, visited)'
<1> DEFINE ds == defer_calls_stack
           es == Pop(ds)
<1>1. /\ frames # <<>> /\ top.kind \in Callables /\ frames' = Pop(frames)
      /\ ds' = es /\ UNCHANGED visited
  BY DEF LeaveFunction, LeaveLambda, LeaveGeneric, LeaveInner, Callables
<1>2. Peek(frames).kind # "block"
  BY <1>1 DEF top, Callables
<1>3. /\ frames \in Seq(FrameType) /\ visited \in Nat
      /\ Tracked(frames, ds, visited)
      /\ ds \in DeferStacks /\ ds # <<>> /\ Len(ds) \in Nat \ {0}
      /\ Len(ds) = DepthIn(top)
  BY <1>1, TrackedFacts, VisitFacts DEF DefersInv
<1>4. /\ Len(es) = Len(ds) - 1
      /\ \A d \in 1..Len(ds) - 1 : es[d] = ds[d] /\ d \in 1..Len(ds)
  <2>1. /\ Len(Pop(ds)) = Len(ds) - 1
        /\ \A d \in 1..Len(ds) - 1 : Pop(ds)[d] = ds[d]
    BY <1>3, PopType DEF DeferStacks
  <2> QED
    BY <1>3, <2>1
<1> HIDE DEF es
<1>5. \A i \in 1..Len(frames) - 1 : Scoped(frames[i], es)
  <2> TAKE i \in 1..Len(frames) - 1
  <2>0. /\ DepthIn(frames[i]) < top.depth \/ DepthIn(frames[i]) = top.depth
        /\ Scoped(frames[i], ds) /\ DepthIn(frames[i]) \in Nat /\ top.depth \in Nat
    BY <1>1, OuterVisits
  <2>1. /\ Scoped(frames[i], ds) /\ DepthIn(frames[i]) <= top.depth
        /\ DepthIn(frames[i]) \in Nat /\ top.depth \in Nat
    BY <2>0
  <2>2. Len(ds) = top.depth + 1
    BY <1>1, <1>3 DEF DepthIn
  <2>3. DepthIn(frames[i]) \in 1..Len(ds) => DepthIn(frames[i]) \in 1..Len(es)
    BY <1>3, <1>4, <2>1, <2>2
  <2> QED
    BY <1>4, <2>1, <2>3 DEF Scoped
<1>6. \A d \in 1..Len(es) : \A s \in 1..Len(es[d]) :
        d \in 1..Len(ds) /\ s \in 1..Len(ds[d])
  BY <1>4
<1>7. Tracked(Pop(frames), es, visited)
  BY <1>1, <1>2, <1>3, <1>5, <1>6, TrackedPop
<1> QED
  BY <1>1, <1>7

LEMMA LeaveBlockTracked ==
  ASSUME DefersInv, LeaveBlock
  PROVE  Tracked(frames, defer_calls_stack, visited)'
<1> DEFINE ds == defer_calls_stack
           e  == Pop(ds[Len(ds)])
           es == [ds EXCEPT ![Len(ds)] = e]
<1>1. /\ frames # <<>> /\ top.kind = "block" /\ frames' = Pop(frames)
      /\ ds' = es /\ UNCHANGED visited
  BY DEF LeaveBlock
<1>2. /\ frames \in Seq(FrameType) /\ visited \in Nat
      /\ Tracked(frames, ds, visited) /\ top.scopes \in Nat /\ top.depth \in Nat
      /\ ds \in DeferStacks /\ ds # <<>> /\ Len(ds) \in Nat \ {0}
      /\ Peek(ds) \in Seq(Seq(DeferCall)) /\ Peek(ds) = ds[Len(ds)]
      /\ Len(ds) = top.depth /\ Len(Peek(ds)) = top.scopes + 1
  <2>1. /\ frames \in Seq(FrameType) /\ visited \in Nat
        /\ Tracked(frames, ds, visited) /\ top \in FrameType
        /\ ds \in DeferStacks /\ ds # <<>> /\ Len(ds) \in Nat \ {0}
        /\ Peek(ds) \in Seq(Seq(DeferCall)) /\ Peek(ds) = ds[Len(ds)]
        /\ Len(ds) = DepthIn(top) /\ Len(Peek(ds)) = ScopesIn(top)
    BY <1>1, TrackedFacts, VisitFacts DEF DefersInv, Peek
  <2>2. DepthIn(top) = top.depth /\ ScopesIn(top) = top.scopes + 1
    BY <1>1 DEF DepthIn, ScopesIn, Callables
  <2> QED
    BY <2>1, <2>2 DEF FrameType
<1>3. /\ e \in Seq(Seq(DeferCall)) /\ Len(e) = top.scopes
      /\ \A s \in 1..top.scopes : e[s] = ds[Len(ds)][s]
  <2> DEFINE u == ds[Len(ds)]
  <2>1. u \in Seq(Seq(DeferCall)) /\ u # <<>> /\ Len(u) = top.scopes + 1
    BY <1>2
  <2> HIDE DEF u
  <2>2. /\ Pop(u) \in Seq(Seq(DeferCall)) /\ Len(Pop(u)) = Len(u) - 1
        /\ \A s \in 1..Len(u) - 1 : Pop(u)[s] = u[s]
    BY <2>1, PopType
  <2> QED
    BY <1>2, <2>1, <2>2 DEF u
<1> HIDE DEF e
<1>4. /\ Len(es) = Len(ds)
      /\ \A d \in 1..Len(ds) : es[d] = IF d = Len(ds) THEN e ELSE ds[d]
  BY <1>2, <1>3, ReplaceType DEF DeferStacks
<1> HIDE DEF es
<1>5. \A i \in 1..Len(frames) - 1 : Scoped(frames[i], es)
  <2> TAKE i \in 1..Len(frames) - 1
  <2>1. /\ Scoped(frames[i], ds)
        /\ \/ DepthIn(frames[i]) < top.depth
           \/ DepthIn(frames[i]) = top.depth /\ ScopesIn(frames[i]) <= top.scopes
        /\ DepthIn(frames[i]) \in Nat /\ ScopesIn(frames[i]) \in Nat
    BY <1>1, OuterVisits
  <2>2. ASSUME frames[i].kind = "block"
        PROVE  /\ DepthIn(frames[i]) \in 1..Len(es)
               /\ ScopesIn(frames[i]) \in 1..Len(es[DepthIn(frames[i])])
               /\ es[DepthIn(frames[i])][ScopesIn(frames[i])]
                     = ds[DepthIn(frames[i])][ScopesIn(frames[i])]
    <3>1. /\ DepthIn(frames[i]) \in 1..Len(ds)
          /\ ScopesIn(frames[i]) \in 1..Len(ds[DepthIn(frames[i])])
      BY <2>1, <2>2 DEF Scoped
    <3>2. CASE DepthIn(frames[i]) # Len(ds)
      BY <1>4, <3>1, <3>2
    <3>3. CASE DepthIn(frames[i]) = Len(ds)
      <4>1. ScopesIn(frames[i]) \in 1..top.scopes
        BY <1>2, <2>1, <3>1, <3>3
      <4> QED
        BY <1>3, <1>4, <3>1, <3>3, <4>1
    <3> QED
      BY <3>2, <3>3
  <2> QED
    BY <2>1, <2>2 DEF Scoped
<1>6. \A d \in 1..Len(es) : \A s \in 1..Len(es[d]) :
        /\ d \in 1..Len(ds) /\ s \in 1..Len(ds[d])
        /\ ~(/\ Peek(frames).kind = "block" /\ DepthIn(Peek(frames)) = d
             /\ ScopesIn(Peek(frames)) = s)
  <2> TAKE d \in 1..Len(es)
  <2> TAKE s \in 1..Len(es[d])
  <2>1. d \in 1..Len(ds)
    BY <1>4
  <2>2. CASE d # Len(ds)
    <3>1. DepthIn(Peek(frames)) # d
      BY <1>1, <1>2, <2>2 DEF DepthIn, Callables, top
    <3> QED
      BY <1>4, <2>1, <2>2, <3>1
  <2>3. CASE d = Len(ds)
    <3>1. s \in 1..top.scopes
      BY <1>3, <1>4, <2>1, <2>3
    <3>2. ScopesIn(Peek(frames)) = top.scopes + 1
      BY <1>1 DEF ScopesIn, Callables, top
    <3> QED
      BY <1>2, <2>1, <2>3, <3>1, <3>2
  <2> QED
    BY <2>2, <2>3
<1>7. Tracked(Pop(frames), es, visited)
  BY <1>1, <1>2, <1>5, <1>6, TrackedPop
<1> QED
  BY <1>1, <1>7

\* A scope and its block take note of one more defer.
LEMMA NotesMore ==
  ASSUME NEW scope \in Seq(DeferCall), NEW declared \in Seq(Nat), NEW id \in Nat,
         Notes(scope, declared)
  PROVE  Notes(PushFront([id |-> id, kind |-> "function"], scope), Append(declared, id))
<1> DEFINE c  == [id |-> id, kind |-> "function"]
           es == <<c>> \o scope
           gs == Append(declared, id)
           n  == Len(declared)
<1>1. n \in Nat /\ Len(scope) = n /\ c \in DeferCall
  BY DEF Notes, DeferCall
<1> HIDE DEF c
<1>2. /\ Len(es) = n + 1 /\ es[1] = c
      /\ \A k \in 2..n + 1 : es[k] = scope[k - 1]
  BY <1>1
<1>3. /\ Len(gs) = n + 1 /\ gs[n + 1] = id
      /\ \A k \in 1..n : gs[k] = declared[k]
  BY <1>1
<1> HIDE DEF es, gs
<1>4. ASSUME NEW k \in 1..n + 1
      PROVE  es[k] = [id |-> gs[n + 1 + 1 - k], kind |-> "function"]
  <2>1. CASE k = 1
    <3>1. n + 1 + 1 - k = n + 1
      BY <1>1, <2>1
    <3> QED
      BY <1>2, <1>3, <2>1, <3>1 DEF c
  <2>2. CASE k # 1
    <3>1. /\ k \in 2..n + 1 /\ k - 1 \in 1..n
          /\ n + 1 - (k - 1) = n + 1 + 1 - k /\ n + 1 + 1 - k \in 1..n
      BY <1>1, <2>2
    <3>2. scope[k - 1] = [id |-> declared[n + 1 - (k - 1)], kind |-> "function"]
      BY <3>1 DEF Notes, n
    <3> HIDE DEF n
    <3> QED
      BY <1>2, <1>3, <3>1, <3>2
  <2> QED
    BY <2>1, <2>2
<1> HIDE DEF n
<1>5. Notes(es, gs)
  BY <1>2, <1>3, <1>4 DEF Notes
<1> QED
  BY <1>5 DEF es, gs, c, PushFront

\* A defer is noted in the innermost block and in its scope.
LEMMA TrackedDefer ==
  ASSUME NEW fs \in Seq(FrameType), NEW ds \in DeferStacks, NEW v \in Nat,
         Tracked(fs, ds, v), NEW b \in 1..Len(fs), fs[b].kind = "block",
         DepthIn(fs[b]) = Len(ds), ScopesIn(fs[b]) = Len(ds[Len(ds)]),
         \A j \in b + 1..Len(fs) : fs[j].kind # "block",
         NEW g, g = [fs[b] EXCEPT !.declared = Append(fs[b].declared, v + 1)],
         NEW scopes, scopes = ds[Len(ds)],
         NEW c, c = PushFront([id |-> v + 1, kind |-> "function"], scopes[Len(scopes)]),
         NEW e, e = [scopes EXCEPT ![Len(scopes)] = c]
  PROVE  Tracked([fs EXCEPT ![b] = g], [ds EXCEPT ![Len(ds)] = e], v + 1)
<1> DEFINE n  == Len(fs)
           m  == Len(ds)
           id == v + 1
           l  == Len(scopes)
           gs == [fs EXCEPT ![b] = g]
           es == [ds EXCEPT ![m] = e]
<1>1. /\ n \in Nat /\ id \in Nat /\ m \in Nat /\ fs[b] \in FrameType
      /\ \A i \in 1..n : Scoped(fs[i], ds) /\ Numbered(fs[i], v)
      /\ \A i \in 1..n : fs[i] \in FrameType
  BY DEF Tracked, DeferStacks
<1>2. /\ m \in 1..m /\ l \in 1..l /\ scopes \in Seq(Seq(DeferCall)) /\ l \in Nat
      /\ scopes[l] \in Seq(DeferCall) /\ Notes(scopes[l], fs[b].declared)
  <2>1. Scoped(fs[b], ds)
    BY <1>1
  <2>2. m \in 1..m /\ l \in 1..l /\ Notes(scopes[l], fs[b].declared)
    BY <2>1 DEF Scoped
  <2>3. scopes \in Seq(Seq(DeferCall))
    BY <2>2 DEF DeferStacks
  <2> QED
    BY <2>2, <2>3
<1>3. /\ fs[b].declared \in Seq(Nat) /\ Len(fs[b].declared) \in Nat
      /\ g \in FrameType /\ g.declared = Append(fs[b].declared, id)
      /\ g.kind = fs[b].kind /\ g.depth = fs[b].depth /\ g.scopes = fs[b].scopes
      /\ g.open /\ ~g.returning => g.should_execute_defers
  <2> DEFINE f == fs[b]
             x == Append(f.declared, id)
  <2>1. f \in FrameType /\ g = [f EXCEPT !.declared = x]
    BY <1>1
  <2>2. f.declared \in Seq(Nat)
    BY <2>1 DEF FrameType
  <2>3. x \in Seq(Nat) /\ Len(f.declared) \in Nat
    BY <1>1, <2>2
  <2>4. f.open /\ ~f.returning => f.should_execute_defers
    BY <1>1 DEF Scoped
  <2> HIDE DEF f, x
  <2>5. /\ g \in FrameType /\ g.declared = x
        /\ g.kind = f.kind /\ g.depth = f.depth /\ g.scopes = f.scopes
    BY <2>1, <2>3 DEF FrameType
  <2>6. /\ g.open = f.open /\ g.returning = f.returning
        /\ g.should_execute_defers = f.should_execute_defers
    BY <2>1 DEF FrameType
  <2> QED
    BY <2>2, <2>3, <2>4, <2>5, <2>6 DEF f, x
<1>4. c \in Seq(DeferCall) /\ Notes(c, g.declared)
  <2>1. [id |-> id, kind |-> "function"] \in DeferCall
    BY <1>1 DEF DeferCall
  <2>2. c \in Seq(DeferCall)
    BY <1>2, <2>1 DEF PushFront
  <2>3. Notes(c, Append(fs[b].declared, id))
    BY <1>1, <1>2, <1>3, NotesMore
  <2> QED
    BY <1>3, <2>2, <2>3
<1>5. /\ Len(gs) = n
      /\ \A i \in 1..n : gs[i] = IF i = b THEN g ELSE fs[i]
  BY <1>3, ReplaceType
<1>6. /\ e \in Seq(Seq(DeferCall)) /\ Len(e) = l
      /\ \A s \in 1..l : e[s] = IF s = l THEN c ELSE scopes[s]
  BY <1>2, <1>4, ReplaceType
<1>7. /\ Len(es) = m
      /\ \A d \in 1..m : es[d] = IF d = m THEN e ELSE ds[d]
  BY <1>6, ReplaceType DEF DeferStacks
<1> HIDE DEF gs, es, n, id
<1>8. \A i \in 1..n : /\ gs[i].kind = fs[i].kind /\ gs[i].depth = fs[i].depth
                      /\ gs[i].scopes = fs[i].scopes
                      /\ DepthIn(gs[i]) = DepthIn(fs[i])
                      /\ ScopesIn(gs[i]) = ScopesIn(fs[i])
                      /\ i # b => gs[i] = fs[i]
  BY <1>3, <1>5 DEF DepthIn, ScopesIn
<1>9. \A i \in 1..n : Scoped(gs[i], es)
  <2> TAKE i \in 1..n
  <2>1. CASE i = b
    <3>1. /\ DepthIn(g) = m /\ ScopesIn(g) = l /\ gs[i] = g
      BY <1>5, <1>8, <2>1
    <3>2. /\ DepthIn(g) \in 1..Len(es) /\ ScopesIn(g) \in 1..Len(es[DepthIn(g)])
          /\ es[DepthIn(g)][ScopesIn(g)] = c
      BY <1>2, <1>6, <1>7, <3>1
    <3> QED
      BY <1>3, <1>4, <3>1, <3>2 DEF Scoped, Loops, Selects
  <2>2. CASE i # b
    <3>1. gs[i] = fs[i] /\ Scoped(fs[i], ds)
      BY <1>1, <1>5, <2>2
    <3>2. ASSUME fs[i].kind = "block"
          PROVE  /\ DepthIn(fs[i]) \in 1..Len(es)
                 /\ ScopesIn(fs[i]) \in 1..Len(es[DepthIn(fs[i])])
                 /\ es[DepthIn(fs[i])][ScopesIn(fs[i])]
                      = ds[DepthIn(fs[i])][ScopesIn(fs[i])]
      <4>1. i < b
        <5>1. ~(i \in b + 1..n)
          BY <3>2 DEF n
        <5> QED
          BY <1>1, <2>2, <5>1
      <4>2. Around(fs[i], fs[b])
        BY <4>1 DEF Tracked, n
      <4>3. /\ DepthIn(fs[i]) \in 1..m
            /\ ScopesIn(fs[i]) \in 1..Len(ds[DepthIn(fs[i])])
        BY <3>1, <3>2 DEF Scoped
      <4>4. /\ fs[b].depth = m /\ fs[b].scopes + 1 = l /\ fs[b].scopes \in Nat
        BY <1>1 DEF DepthIn, ScopesIn, Callables, FrameType
      <4>5. CASE DepthIn(fs[i]) = m
        <5>1. ScopesIn(fs[i]) \in 1..l /\ ScopesIn(fs[i]) # l
          BY <1>2, <4>2, <4>3, <4>4, <4>5 DEF Around
        <5> QED
          BY <1>2, <1>6, <1>7, <4>5, <5>1
      <4>6. CASE DepthIn(fs[i]) # m
        BY <1>7, <4>3, <4>6
      <4> QED
        BY <4>5, <4>6
    <3> QED
      BY <3>1, <3>2 DEF Scoped
  <2> QED
    BY <2>1, <2>2
<1>10. /\ Len(g.declared) = Len(fs[b].declared) + 1
       /\ g.declared[Len(fs[b].declared) + 1] = id
       /\ \A k \in 1..Len(fs[b].declared) : g.declared[k] = fs[b].declared[k]
  BY <1>3
<1>11. \A i \in 1..n : Numbered(gs[i], id)
  <2> TAKE i \in 1..n
  <2>1. Numbered(fs[i], v)
    BY <1>1
  <2>2. CASE i # b
    <3>1. gs[i] = fs[i]
      BY <1>5, <2>2
    <3>2. \A x \in 1..v : x \in 1..id
      BY DEF id
    <3> QED
      BY <2>1, <3>1, <3>2 DEF Numbered
  <2>3. CASE i = b
    <3>1. \A k \in 1..Len(g.declared) :
            k = Len(fs[b].declared) + 1 \/ k \in 1..Len(fs[b].declared)
      BY <1>3, <1>10
    <3>2. ASSUME NEW k \in 1..Len(g.declared)
          PROVE  /\ g.declared[k] \in 1..id
                 /\ \A j \in 1..k - 1 : g.declared[j] < g.declared[k]
      <4> DEFINE old == fs[b].declared
                 new == g.declared
      <4>0. /\ Len(old) \in Nat /\ id = v + 1 /\ new[Len(old) + 1] = id
            /\ \A j \in 1..Len(old) : /\ new[j] = old[j] /\ old[j] \in 1..v
                                      /\ \A h \in 1..j - 1 : old[h] < old[j]
        BY <1>3, <1>10, <2>1, <2>3 DEF Numbered, id
      <4> SUFFICES /\ new[k] \in 1..id
                   /\ \A j \in 1..k - 1 : new[j] < new[k]
        OBVIOUS
      <4> HIDE DEF old, new
      <4>1. CASE k \in 1..Len(old)
        <5>1. \A j \in 1..k - 1 : j \in 1..Len(old)
          BY <4>0, <4>1
        <5>2. new[k] = old[k] /\ old[k] \in 1..v
          BY <4>0, <4>1
        <5>3. new[k] \in 1..id
          BY <4>0, <5>2
        <5>4. \A j \in 1..k - 1 : new[j] = old[j] /\ old[j] < old[k]
          BY <4>0, <4>1, <5>1
        <5> QED
          BY <5>2, <5>3, <5>4
      <4>2. CASE k = Len(old) + 1
        <5>1. \A j \in 1..k - 1 : j \in 1..Len(old)
          BY <4>0, <4>2
        <5>2. new[k] = id /\ id \in 1..id
          BY <4>0, <4>2
        <5>3. \A j \in 1..k - 1 : new[j] = old[j] /\ old[j] \in 1..v
          BY <4>0, <5>1
        <5>4. \A x \in 1..v : x < id
          BY <4>0
        <5>5. \A j \in 1..k - 1 : new[j] < id
          BY <5>3, <5>4
        <5> QED
          BY <5>2, <5>5
      <4> QED
        BY <3>1, <4>1, <4>2 DEF old, new
    <3> QED
      BY <1>5, <2>3, <3>2 DEF Numbered
  <2> QED
    BY <2>2, <2>3
<1>12. ASSUME NEW i \in 1..n, NEW j \in 1..n, i < j
       PROVE  Around(gs[i], gs[j])
  <2>1. Around(fs[i], fs[j])
    BY <1>12 DEF Tracked, n
  <2>2. ASSUME NEW k \in 1..Len(gs[i].declared), NEW h \in 1..Len(gs[j].declared)
        PROVE  gs[i].declared[k] < gs[j].declared[h]
    <3>1. CASE i # b /\ j # b
      BY <1>8, <2>1, <2>2, <3>1 DEF Around
    <3>2. CASE i = b
      <4>1. j \in b + 1..n /\ fs[j].kind # "block"
        BY <1>1, <1>12, <3>2 DEF n
      <4>2. gs[j].declared = <<>>
        BY <1>1, <1>8, <1>12, <3>2, <4>1 DEF Scoped
      <4> QED
        BY <2>2, <4>2
    <3>3. CASE i # b /\ j = b
      <4> DEFINE old == fs[b].declared
                 new == g.declared
                 out == fs[i].declared
      <4>1. gs[i].declared = out /\ gs[j].declared = new
        BY <1>5, <3>3
      <4>2. /\ \A x \in 1..Len(out) : out[x] \in 1..v
            /\ \A x \in 1..Len(out), y \in 1..Len(old) : out[x] < old[y]
        BY <1>1, <2>1, <3>3 DEF Numbered, Around
      <4>3. /\ Len(old) \in Nat /\ id = v + 1 /\ new[Len(old) + 1] = id
            /\ \A y \in 1..Len(old) : new[y] = old[y]
            /\ Len(new) = Len(old) + 1
        BY <1>3, <1>10 DEF id
      <4>4. k \in 1..Len(out) /\ h \in 1..Len(new)
        BY <2>2, <4>1
      <4>5. out[k] < new[h]
        <5> HIDE DEF old, new, out
        <5>1. h = Len(old) + 1 \/ h \in 1..Len(old)
          BY <4>3, <4>4
        <5>2. out[k] \in 1..v /\ \A y \in 1..Len(old) : out[k] < old[y]
          BY <4>2, <4>4
        <5> QED
          BY <4>3, <5>1, <5>2
      <4> QED
        BY <4>1, <4>5
    <3> QED
      BY <3>1, <3>2, <3>3
  <2> QED
    BY <1>8, <2>1, <2>2 DEF Around
<1>13. ASSUME NEW i \in 1..n, NEW j \in 1..n, i < j,
              \A k \in i + 1..j : gs[k].kind \notin Callables
       PROVE  DepthIn(gs[j]) = DepthIn(gs[i])
  <2>1. \A k \in i + 1..j : k \in 1..n
    BY <1>1
  <2>2. \A k \in i + 1..j : fs[k].kind \notin Callables
    BY <1>8, <1>13, <2>1
  <2>3. DepthIn(fs[j]) = DepthIn(fs[i])
    BY <1>13, <2>2 DEF Tracked, n
  <2> QED
    BY <1>8, <2>3
<1>14. ASSUME NEW d \in 1..Len(es), NEW s \in 1..Len(es[d])
       PROVE  \E i \in 1..n : /\ gs[i].kind = "block" /\ DepthIn(gs[i]) = d
                              /\ ScopesIn(gs[i]) = s
  <2>1. d \in 1..m /\ s \in 1..Len(ds[d])
    BY <1>6, <1>7
  <2>2. PICK i \in 1..n : /\ fs[i].kind = "block" /\ DepthIn(fs[i]) = d
                          /\ ScopesIn(fs[i]) = s
    BY <2>1 DEF Tracked, n
  <2> QED
    BY <1>8, <2>2
<1>15. Tracked(gs, es, id)
  BY <1>5, <1>9, <1>11, <1>12, <1>13, <1>14 DEF Tracked
<1> QED
  BY <1>15 DEF gs, es, id

\* The innermost block is the one of the scope that is on top of the stack.
LEMMA InnermostIs ==
  ASSUME DefersInv, frames # <<>>, ScopesIn(top) > 0
  PROVE  LET b == InnermostBlock
             m == Len(defer_calls_stack)
         IN  /\ b \in 1..Len(frames) /\ frames[b].kind = "block"
             /\ DepthIn(frames[b]) = m
             /\ ScopesIn(frames[b]) = Len(defer_calls_stack[m])
             /\ \A j \in b + 1..Len(frames) : frames[j].kind # "block"
<1> DEFINE ds == defer_calls_stack
           m  == Len(ds)
           n  == Len(frames)
           l  == Len(ds[m])
<1>1. /\ frames \in Seq(FrameType) /\ n \in Nat /\ Tracked(frames, ds, visited)
      /\ m \in Nat \ {0} /\ l \in Nat /\ l > 0
  BY TrackedFacts, VisitFacts DEF DefersInv, Peek
<1>2. m \in 1..m /\ l \in 1..l
  BY <1>1
<1>3. PICK b \in 1..n : /\ frames[b].kind = "block" /\ DepthIn(frames[b]) = m
                        /\ ScopesIn(frames[b]) = l
  BY <1>1, <1>2 DEF Tracked
<1>4. ASSUME NEW j \in b + 1..n PROVE frames[j].kind # "block"
  <2> SUFFICES ASSUME frames[j].kind = "block" PROVE FALSE
    OBVIOUS
  <2>1. j \in 1..n /\ b < j
    BY <1>1
  <2>2. /\ DepthIn(frames[j]) \in 1..m
        /\ ScopesIn(frames[j]) \in 1..Len(ds[DepthIn(frames[j])])
    BY <1>1, <2>1 DEF Tracked, Scoped
  <2>3. Around(frames[b], frames[j])
    BY <1>1, <2>1 DEF Tracked
  <2>4. /\ DepthIn(frames[j]) = frames[j].depth
        /\ ScopesIn(frames[j]) = frames[j].scopes + 1
        /\ frames[j].scopes \in Nat
    BY <1>1, <2>1, FrameFields DEF DepthIn, ScopesIn, Callables
  <2>5. DepthIn(frames[j]) = m /\ l <= frames[j].scopes
    BY <1>1, <1>3, <2>2, <2>3, <2>4 DEF Around
  <2> QED
    BY <1>1, <2>2, <2>4, <2>5
<1>5. InnermostBlock = b
  <2> DEFINE P(i) == /\ frames[i].kind = "block"
                     /\ \A j \in i + 1..n : frames[j].kind # "block"
  <2>1. P(b)
    BY <1>3, <1>4
  <2>2. \A i \in 1..n : P(i) => i = b
    <3> TAKE i \in 1..n
    <3> HAVE P(i)
    <3>1. ~(i < b)
      <4>1. i < b => b \in i + 1..n
        BY <1>1
      <4> QED
        BY <1>3, <4>1
    <3>2. ~(b < i)
      <4>1. b < i => i \in b + 1..n
        BY <1>1
      <4> QED
        BY <1>4, <4>1
    <3> QED
      BY <1>1, <3>1, <3>2
  <2>3. InnermostBlock = CHOOSE i \in 1..n : P(i)
    BY DEF InnermostBlock
  <2> HIDE DEF P
  <2> QED
    BY <2>1, <2>2, <2>3
<1> QED
  BY <1>3, <1>4, <1>5

LEMMA DeferTracked ==
  ASSUME DefersInv, NEW kind \in DeferCallees, kind = "function", Defer(kind)
  PROVE  Tracked(frames, defer_calls_stack, visited)'
<1> DEFINE ds == defer_calls_stack
           b  == InnermostBlock
           id == visited + 1
           V  == Visiting
           g  == [V[b] EXCEPT !.declared = Append(V[b].declared, id)]
           ss == ds[Len(ds)]
           c  == PushFront([id |-> id, kind |-> "function"], ss[Len(ss)])
           e  == [ss EXCEPT ![Len(ss)] = c]
<1>1. /\ Visits("defer") /\ visited' = id
      /\ ds' = [ds EXCEPT ![Len(ds)] = e]
      /\ frames' = [V EXCEPT ![b] = g]
  BY DEF Defer, Count, Peek
<1>2. frames # <<>> /\ top.open /\ ScopesIn(top) > 0
  BY <1>1, OpenScope DEF Visits
<1>3. /\ V \in Seq(FrameType) /\ ds \in DeferStacks /\ visited \in Nat
      /\ Tracked(frames, ds, visited) /\ SameScopes(frames, V)
  BY <1>2, VisitFacts, TrackedFacts, VisitingSame DEF DefersInv
<1>4. Tracked(V, ds, visited)
  BY <1>3, TrackedSame
<1>5. /\ b \in 1..Len(frames) /\ frames[b].kind = "block"
      /\ DepthIn(frames[b]) = Len(ds) /\ ScopesIn(frames[b]) = Len(ss)
      /\ \A j \in b + 1..Len(frames) : frames[j].kind # "block"
  BY <1>2, InnermostIs
<1> HIDE DEF b, V
<1>6. /\ b \in 1..Len(V) /\ V[b].kind = "block"
      /\ DepthIn(V[b]) = Len(ds) /\ ScopesIn(V[b]) = Len(ss)
  BY <1>3, <1>5 DEF SameScopes, DepthIn, ScopesIn
<1>7. \A j \in b + 1..Len(V) : V[j].kind # "block"
  <2> TAKE j \in b + 1..Len(V)
  <2>1. Len(V) = Len(frames) /\ j \in 1..Len(frames)
    BY <1>3, <1>5 DEF SameScopes
  <2> QED
    BY <1>3, <1>5, <2>1 DEF SameScopes
<1>8. Tracked([V EXCEPT ![b] = g], [ds EXCEPT ![Len(ds)] = e], id)
  BY <1>3, <1>4, <1>6, <1>7, TrackedDefer
<1> QED
  BY <1>1, <1>8

-----------------------------------------------------------------------------
(* Every step keeps track.                                                  *)

LEMMA StepTracked ==
  ASSUME DefersInv, DeferCallees \subseteq {"function"}, Next
  PROVE  Tracked(frames, defer_calls_stack, visited)'
<1>1. CASE EnterFunction
  BY <1>1, EnterFunctionTracked
<1>2. CASE LeaveFunction \/ LeaveLambda \/ LeaveGeneric
  BY <1>2, LeaveCallableTracked
<1>3. CASE DeclareGeneric \/ Finished
  BY <1>3 DEF DeclareGeneric, Finished, vars, tables, DefersInv
<1>4. CASE EnterLambda
  BY <1>4, EnterCallableTracked
<1>5. ASSUME NEW g \in Generics, EnterGeneric(g) \/ CallInstance(g)
      PROVE  Tracked(frames, defer_calls_stack, visited)'
  BY <1>5, EnterCallableTracked, StatementTracked
<1>6. CASE EnterBlock
  BY <1>6, EnterBlockTracked
<1>7. CASE LeaveBlock
  BY <1>7, LeaveBlockTracked
<1>8. ASSUME NEW kind \in DeferCallees, Defer(kind)
      PROVE  Tracked(frames, defer_calls_stack, visited)'
  BY <1>8, DeferTracked
<1>9. ASSUME NEW s \in Selects, NEW n \in Branches, EnterSelect(s, n)
      PROVE  Tracked(frames, defer_calls_stack, visited)'
  BY <1>9, EnterSelectTracked
<1>10. CASE NextBranch
  BY <1>10, NextBranchTracked
<1>11. CASE LeaveSelect \/ LeaveLoop
  BY <1>11, LeaveConstructTracked
<1>12. CASE EnterForever \/ \E s \in Loops \ {"forever"} : EnterConditionLoop(s)
  BY <1>12, EnterLoopTracked
<1>13. CASE \/ Plain \/ EnterReturn \/ LeaveReturn
            \/ \E n \in Times : Break(n) \/ Continue(n)
  BY <1>13, StatementTracked
<1> QED
  BY <1>1, <1>2, <1>3, <1>4, <1>5, <1>6, <1>7, <1>8, <1>9, <1>10, <1>11, <1>12,
     <1>13 DEF Next

LEMMA InitDefers == Init => DefersInv
<1> SUFFICES ASSUME Init PROVE DefersInv
  OBVIOUS
<1>1. TypeInv
  BY InitTypes
<1>2. Len(frames) = 0 /\ Len(defer_calls_stack) = 0
  BY DEF Init
<1>3. Tracked(frames, defer_calls_stack, visited)
  BY <1>2 DEF Tracked
<1> QED
  BY <1>1, <1>2, <1>3 DEF DefersInv

LEMMA StepDefers ==
  DeferCallees \subseteq {"function"} /\ DefersInv /\ [Next]_vars => DefersInv'
<1> SUFFICES ASSUME DeferCallees \subseteq {"function"}, DefersInv, [Next]_vars
             PROVE  DefersInv'
  OBVIOUS
<1>1. TypeInv'
  BY StepTypes DEF DefersInv
<1>2. Tracked(frames, defer_calls_stack, visited)'
  <2>1. CASE Next
    BY <2>1, StepTracked
  <2>2. CASE UNCHANGED vars
    BY <2>2 DEF vars, tables, DefersInv
  <2> QED
    BY <2>1, <2>2
<1> QED
  BY <1>1, <1>2 DEF DefersInv

-----------------------------------------------------------------------------
(* What is run.                                                            *)

\* The code of a scope makes the calls its block has seen, the latest first.
LEMMA OneScope ==
  ASSUME NEW f \in FrameType, NEW v \in Nat, Numbered(f, v), NEW scope,
         Notes(scope, f.declared)
  PROVE  LET c == CallsOf(execute_scope_defer_calls(scope)) IN
         /\ Len(c) = Len(f.declared) /\ Len(c) \in Nat
         /\ \A k \in 1..Len(c) : /\ c[k] \in Range(f.declared) /\ c[k] # 0
                                 /\ c[k] \in Nat
                                 /\ \A l \in 1..Len(c) : k < l => c[l] < c[k]
         /\ Range(c) = Range(f.declared)
         /\ \A k \in DOMAIN c : k \in 1..Len(c)
<1> DEFINE d == f.declared
           n == Len(d)
           c == CallsOf(execute_scope_defer_calls(scope))
<1>1. d \in Seq(Nat) /\ n \in Nat /\ DOMAIN d = 1..n
  <2>1. d \in Seq(Nat)
    BY DEF FrameType
  <2> QED
    BY <2>1
<1>2. Len(scope) = n /\ \A k \in 1..n : scope[k] = [id |-> d[n + 1 - k], kind |-> "function"]
  BY DEF Notes
<1>3. \A k \in 1..n : d[k] \in 1..v /\ \A l \in 1..k - 1 : d[l] < d[k]
  BY DEF Numbered
<1>4. c = [k \in 1..n |-> execute_defer_call(scope[k])]
  BY <1>2 DEF CallsOf, execute_scope_defer_calls
<1> HIDE DEF c, d, n
<1>5. \A k \in 1..n : execute_defer_call(scope[k]) = d[n + 1 - k]
  <2> TAKE k \in 1..n
  <2>1. scope[k].kind = "function" /\ scope[k].id = d[n + 1 - k]
    BY <1>2
  <2> QED
    BY <2>1 DEF execute_defer_call
<1>6. c = [k \in 1..n |-> d[n + 1 - k]]
  BY <1>4, <1>5
<1>7. \A k \in 1..n : n + 1 - k \in 1..n
  BY <1>1
<1>8. \A k \in 1..n : c[k] \in Nat /\ c[k] # 0 /\ c[k] \in Range(d)
  <2> TAKE k \in 1..n
  <2>1. c[k] = d[n + 1 - k] /\ n + 1 - k \in 1..n
    BY <1>6, <1>7
  <2> QED
    BY <1>1, <1>3, <2>1 DEF Range
<1>9. c \in Seq(Nat) /\ Len(c) = n /\ DOMAIN c = 1..n
  BY <1>1, <1>6, <1>8
<1>10. ASSUME NEW k \in 1..n, NEW l \in 1..n, k < l PROVE c[l] < c[k]
  <2>1. n + 1 - k \in 1..n /\ n + 1 - l \in 1..(n + 1 - k) - 1
    BY <1>1, <1>10
  <2> QED
    BY <1>3, <1>6, <2>1
<1>11. Range(c) = Range(d)
  <2>1. ASSUME NEW k \in 1..n PROVE d[k] \in Range(c)
    <3>1. n + 1 - k \in 1..n /\ n + 1 - (n + 1 - k) = k
      BY <1>1
    <3>2. c[n + 1 - k] = d[k]
      BY <1>6, <3>1
    <3> QED
      BY <1>9, <3>1, <3>2 DEF Range
  <2> QED
    BY <1>1, <1>8, <1>9, <2>1 DEF Range
<1> QED
  BY <1>1, <1>8, <1>9, <1>10, <1>11 DEF c, d, n

\* The end of a block that is reached.
LEMMA BlockEndRuns ==
  ASSUME DefersInv, LeaveBlock, top.open
  PROVE  CallsLatestFirst(Emitted, Range(top.declared))
<1> DEFINE ds == defer_calls_stack
           x  == execute_scope_defer_calls(Peek(Peek(ds)))
           c  == CallsOf(x)
<1>1. /\ frames # <<>> /\ top.kind = "block" /\ ~top.returning
      /\ blocks' = IF top.should_execute_defers
                   THEN Emit(blocks, insert, <<x>>) ELSE blocks
  BY DEF LeaveBlock
<1>2. /\ top \in FrameType /\ Scoped(top, ds) /\ visited \in Nat
      /\ Numbered(top, visited) /\ TypeOK /\ insert \in 1..Len(blocks)
      /\ Len(ds) = DepthIn(top) /\ Len(Peek(ds)) = ScopesIn(top)
  <2>1. /\ Len(frames) \in 1..Len(frames) /\ top = frames[Len(frames)]
        /\ Tracked(frames, ds, visited)
    BY <1>1, TrackedFacts
  <2>2. Numbered(top, visited)
    BY <2>1 DEF Tracked
  <2> QED
    BY <1>1, <2>2, TrackedFacts, VisitFacts DEF DefersInv, TypeInv
<1>3. top.should_execute_defers /\ Notes(Peek(Peek(ds)), top.declared)
  BY <1>1, <1>2 DEF Scoped, Peek
<1>4. x \in Instruction
  <2>1. top.scopes \in Nat /\ Peek(ds) \in Seq(Seq(DeferCall))
    BY <1>1, <1>2, VisitFacts DEF DefersInv, FrameType
  <2>2. Peek(ds) # <<>>
    BY <1>1, <1>2, <2>1 DEF ScopesIn, Callables
  <2>3. Peek(Peek(ds)) \in Seq(DeferCall)
    BY <2>1, <2>2, PeekType
  <2> QED
    BY <2>3, ScopeCallsType
<1>5. /\ Len(c) \in Nat /\ Range(c) = Range(top.declared)
      /\ \A k \in DOMAIN c : k \in 1..Len(c)
      /\ \A k \in 1..Len(c) : c[k] # 0 /\ \A l \in 1..Len(c) : k < l => c[l] < c[k]
  BY <1>2, <1>3, OneScope
<1> HIDE DEF x
<1>6. Emitted = <<x>>
  <2>1. <<x>> \in Seq(Instruction)
    BY <1>4
  <2> QED
    BY <1>1, <1>2, <1>3, <2>1, EmitEmits
<1>7. Len(<<x>>) = 1 /\ \A i \in 1..1 : i = 1 /\ CallsOf(<<x>>[i]) = c
  OBVIOUS
<1> HIDE DEF c
<1>8. 0 \notin Range(c)
  BY <1>5 DEF Range
<1>9. UNION {Range(CallsOf(<<x>>[i])) : i \in 1..Len(<<x>>)} = Range(c)
  BY <1>7
<1>10. (UNION {Range(CallsOf(<<x>>[i])) : i \in 1..Len(<<x>>)}) \ {0}
          = Range(top.declared)
  BY <1>5, <1>8, <1>9
<1>11. ASSUME NEW i \in 1..Len(<<x>>), NEW j \in 1..Len(<<x>>),
              NEW k \in 1..Len(CallsOf(<<x>>[i])), NEW l \in 1..Len(CallsOf(<<x>>[j])),
              i < j \/ (i = j /\ k < l)
       PROVE  CallsOf(<<x>>[j])[l] < CallsOf(<<x>>[i])[k]
  <2>1. i = 1 /\ j = 1 /\ CallsOf(<<x>>[i]) = c /\ CallsOf(<<x>>[j]) = c
    BY <1>7
  <2>2. k \in 1..Len(c) /\ l \in 1..Len(c) /\ k < l
    BY <1>11, <2>1
  <2> QED
    BY <1>5, <2>1, <2>2
<1>12. CallsLatestFirst(<<x>>, Range(top.declared))
  <2> HIDE DEF x
  <2> DEFINE s == <<x>>
  <2> HIDE DEF s
  <2> QED
    BY <1>10, <1>11 DEF CallsLatestFirst, s
<1> QED
  BY <1>6, <1>12

\* The blocks of the function being generated are those of its entry.
LEMMA InCurrent ==
  ASSUME DefersInv, frames # <<>>, NEW i \in 1..Len(frames)
  PROVE  /\ frames[i].kind = "block" /\ DepthIn(frames[i]) = Len(defer_calls_stack)
              => InCurrentFunction(i)
         /\ InCurrentFunction(i) => DepthIn(frames[i]) = Len(defer_calls_stack)
<1> DEFINE n == Len(frames)
           m == Len(defer_calls_stack)
<1>1. /\ frames \in Seq(FrameType) /\ n \in Nat /\ n \in 1..n /\ m \in Nat
      /\ top = frames[n] /\ DepthIn(top) = m
      /\ Tracked(frames, defer_calls_stack, visited)
      /\ defer_calls_stack \in DeferStacks /\ DeferOK(frames, defer_calls_stack)
  BY TrackedFacts, VisitFacts DEF DefersInv, TypeInv
<1>2. ASSUME frames[i].kind = "block", DepthIn(frames[i]) = m,
             NEW j \in i..n, frames[j].kind \in Callables
      PROVE  FALSE
  <2>1. j \in 1..n /\ i < j
    BY <1>1, <1>2 DEF Callables
  <2>2. m <= frames[j].depth
    BY <1>1, <1>2, <2>1 DEF DeferOK
  <2>3. frames[j].depth \in Nat /\ DepthIn(frames[j]) = frames[j].depth + 1
    BY <1>1, <1>2, <2>1, FrameFields DEF DepthIn
  <2>4. DepthIn(frames[j]) \in 1..m
    BY <1>1, <2>1, DeferDepths
  <2> QED
    BY <1>1, <2>2, <2>3, <2>4
<1>3. ASSUME InCurrentFunction(i) PROVE DepthIn(frames[i]) = m
  <2>1. CASE i = n
    BY <1>1, <2>1
  <2>2. CASE i # n
    <3>1. i < n
      BY <1>1, <2>2
    <3>2. \A k \in i + 1..n : frames[k].kind \notin Callables
      <4>1. \A k \in i + 1..n : k \in i..n
        BY <1>1
      <4> QED
        BY <1>3, <4>1 DEF InCurrentFunction
    <3> QED
      BY <1>1, <3>1, <3>2 DEF Tracked
  <2> QED
    BY <2>1, <2>2
<1> QED
  BY <1>2, <1>3 DEF InCurrentFunction

\* What a return runs for the scope of a block of its function.
ScopeRuns(c, f) ==
  /\ Len(c) \in Nat /\ Range(c) = Range(f.declared)
  /\ \A k \in DOMAIN c : k \in 1..Len(c)
  /\ \A k \in 1..Len(c) : /\ c[k] \in Range(f.declared) /\ c[k] # 0 /\ c[k] \in Nat
                          /\ \A l \in 1..Len(c) : k < l => c[l] < c[k]

LEMMA ScopeIsRun ==
  ASSUME DefersInv, frames # <<>>,
         NEW i \in 1..Len(frames), frames[i].kind = "block",
         DepthIn(frames[i]) = Len(defer_calls_stack)
  PROVE  LET scopes == Peek(defer_calls_stack) IN
         /\ ScopesIn(frames[i]) \in 1..Len(scopes)
         /\ ScopeRuns(CallsOf(execute_scope_defer_calls(scopes[ScopesIn(frames[i])])),
                      frames[i])
<1>1. /\ frames \in Seq(FrameType) /\ visited \in Nat
      /\ Scoped(frames[i], defer_calls_stack) /\ Numbered(frames[i], visited)
  BY TrackedFacts DEF Tracked
<1>2. frames[i] \in FrameType
  BY <1>1
<1> DEFINE scope == Peek(defer_calls_stack)[ScopesIn(frames[i])]
<1>3. /\ ScopesIn(frames[i]) \in 1..Len(Peek(defer_calls_stack))
      /\ Notes(scope, frames[i].declared)
  BY <1>1 DEF Scoped, Peek
<1> HIDE DEF scope
<1>4. ScopeRuns(CallsOf(execute_scope_defer_calls(scope)), frames[i])
  BY <1>1, <1>2, <1>3, OneScope DEF ScopeRuns
<1> QED
  BY <1>3, <1>4 DEF scope

\* What a return appends to its block.
LEMMA ReturnEmits ==
  ASSUME DefersInv, EnterReturn
  PROVE  Emitted = IF top.kind = "block"
                   THEN execute_all_defer_calls(Peek(defer_calls_stack))
                   ELSE <<>>
<1> DEFINE code == IF top.kind = "block"
                   THEN execute_all_defer_calls(Peek(defer_calls_stack))
                   ELSE <<>>
<1>1. frames # <<>> /\ blocks' = Emit(blocks, insert, code)
  BY DEF EnterReturn
<1>2. /\ Peek(defer_calls_stack) \in Seq(Seq(DeferCall)) /\ TypeOK
      /\ insert \in 1..Len(blocks)
  BY <1>1, VisitFacts DEF DefersInv, TypeInv
<1>3. code \in Seq(Instruction)
  BY <1>2, AllCallsType
<1> HIDE DEF code
<1>4. Emitted = code
  BY <1>1, <1>2, <1>3, EmitEmits
<1> QED
  BY <1>4 DEF code

\* The instructions of a return, with the block whose scope each is.
LEMMA CodeOfScope ==
  ASSUME DefersInv, frames # <<>>, NEW code,
         code = execute_all_defer_calls(Peek(defer_calls_stack)),
         NEW i \in 1..Len(code)
  PROVE  /\ i \in 1..Len(Peek(defer_calls_stack))
         /\ \E f \in 1..Len(frames) :
              /\ frames[f].kind = "block"
              /\ DepthIn(frames[f]) = Len(defer_calls_stack)
              /\ ScopesIn(frames[f]) = Len(Peek(defer_calls_stack)) + 1 - i
              /\ ScopeRuns(CallsOf(code[i]), frames[f])
<1> DEFINE m      == Len(defer_calls_stack)
           scopes == Peek(defer_calls_stack)
           size   == Len(scopes)
<1>1. /\ scopes \in Seq(Seq(DeferCall)) /\ m \in 1..m /\ size \in Nat
      /\ Tracked(frames, defer_calls_stack, visited)
  BY VisitFacts DEF DefersInv
<1>2. code \in Seq(Instruction) /\ Len(code) = size
  <2>1. code \in Seq(Instruction)
    BY <1>1, AllCallsType
  <2> QED
    BY <1>1, <2>1 DEF execute_all_defer_calls
<1>3. \A j \in 1..size : code[j] = execute_scope_defer_calls(scopes[size + 1 - j])
  BY DEF execute_all_defer_calls
<1> HIDE DEF size
<1>6. i \in 1..size
  BY <1>2
<1>7. size + 1 - i \in 1..Len(defer_calls_stack[m])
  BY <1>1, <1>6 DEF size, Peek
<1>8. PICK f \in 1..Len(frames) : /\ frames[f].kind = "block" /\ DepthIn(frames[f]) = m
                                 /\ ScopesIn(frames[f]) = size + 1 - i
  BY <1>1, <1>7 DEF Tracked
<1>9. ScopeRuns(CallsOf(execute_scope_defer_calls(scopes[size + 1 - i])), frames[f])
  BY <1>8, ScopeIsRun
<1>10. ScopeRuns(CallsOf(code[i]), frames[f])
  BY <1>3, <1>6, <1>9
<1> QED
  BY <1>6, <1>8, <1>10 DEF size

\* Of two blocks, the one whose scope is higher in the entry met its defers later.
LEMMA LaterScope ==
  ASSUME DefersInv, NEW f \in 1..Len(frames), NEW g \in 1..Len(frames),
         frames[f].kind = "block", frames[g].kind = "block",
         DepthIn(frames[f]) = DepthIn(frames[g]),
         ScopesIn(frames[g]) < ScopesIn(frames[f]),
         NEW x \in Range(frames[f].declared), NEW y \in Range(frames[g].declared)
  PROVE  y < x
<1>1. /\ frames \in Seq(FrameType) /\ Tracked(frames, defer_calls_stack, visited)
      /\ Len(frames) \in Nat
  BY DEF DefersInv, TypeInv, TypeOK
<1>2. \A i \in {f, g} :
        /\ frames[i].scopes \in Nat /\ frames[i].depth \in Nat
        /\ DepthIn(frames[i]) = frames[i].depth
        /\ ScopesIn(frames[i]) = frames[i].scopes + 1
  BY <1>1, FrameFields DEF DepthIn, ScopesIn, Callables
<1>3. ~(f < g)
  <2>1. f < g => Around(frames[f], frames[g])
    BY <1>1 DEF Tracked
  <2> QED
    BY <1>2, <2>1 DEF Around
<1>4. f # g
  BY <1>2
<1>5. Around(frames[g], frames[f])
  BY <1>1, <1>3, <1>4 DEF Tracked
<1>6. \A i \in {f, g} : DOMAIN frames[i].declared = 1..Len(frames[i].declared)
  <2>1. \A i \in {f, g} : frames[i].declared \in Seq(Nat)
    <3>1. \A i \in {f, g} : frames[i] \in FrameType
      BY <1>1
    <3> QED
      BY <3>1 DEF FrameType
  <2> QED
    BY <2>1
<1>7. PICK k \in 1..Len(frames[f].declared) : x = frames[f].declared[k]
  BY <1>6 DEF Range
<1>8. PICK l \in 1..Len(frames[g].declared) : y = frames[g].declared[l]
  BY <1>6 DEF Range
<1> QED
  BY <1>5, <1>7, <1>8 DEF Around

LEMMA LatestFirst ==
  ASSUME NEW insts, NEW ids,
         (UNION {Range(CallsOf(insts[i])) : i \in 1..Len(insts)}) \ {0} = ids,
         \A i, j \in 1..Len(insts) :
           \A k \in 1..Len(CallsOf(insts[i])), l \in 1..Len(CallsOf(insts[j])) :
             i < j \/ (i = j /\ k < l)
               => CallsOf(insts[j])[l] < CallsOf(insts[i])[k]
  PROVE  CallsLatestFirst(insts, ids)
BY DEF CallsLatestFirst

\* A return from a block.
LEMMA BlockReturnRuns ==
  ASSUME DefersInv, frames # <<>>, NEW code,
         code = execute_all_defer_calls(Peek(defer_calls_stack))
  PROVE  CallsLatestFirst(code, Pending)
<1> DEFINE m      == Len(defer_calls_stack)
           scopes == Peek(defer_calls_stack)
           size   == Len(scopes)
           Run(i, f) == /\ frames[f].kind = "block" /\ DepthIn(frames[f]) = m
                        /\ ScopesIn(frames[f]) = size + 1 - i
                        /\ ScopeRuns(CallsOf(code[i]), frames[f])
<1>1. size \in Nat
  BY VisitFacts DEF DefersInv
<1>2. ASSUME NEW i \in 1..Len(code)
      PROVE  i \in 1..size /\ \E f \in 1..Len(frames) : Run(i, f)
  BY <1>2, CodeOfScope
<1>3. ASSUME NEW i \in 1..Len(code), NEW x \in Range(CallsOf(code[i]))
      PROVE  x \in Pending
  <2>2. PICK f \in 1..Len(frames) : Run(i, f)
    BY <1>2
  <2>3. InCurrentFunction(f) /\ x \in Range(frames[f].declared)
    BY <1>3, <2>2, InCurrent DEF ScopeRuns
  <2> QED
    BY <2>3 DEF Pending
<1>4. ASSUME NEW f \in 1..Len(frames), InCurrentFunction(f),
             NEW x \in Range(frames[f].declared)
      PROVE  x # 0 /\ \E i \in 1..Len(code) : x \in Range(CallsOf(code[i]))
  <2>1. Scoped(frames[f], defer_calls_stack)
    BY DEF DefersInv, Tracked
  <2>2. frames[f].kind = "block"
    <3>1. Range(<<>>) = {}
      BY DEF Range
    <3> QED
      BY <2>1, <3>1 DEF Scoped
  <2>3. DepthIn(frames[f]) = m
    BY <1>4, InCurrent
  <2> DEFINE s == ScopesIn(frames[f])
             i == size + 1 - s
             c == CallsOf(execute_scope_defer_calls(scopes[s]))
  <2>4. s \in 1..size /\ ScopeRuns(c, frames[f])
    BY <2>2, <2>3, ScopeIsRun
  <2>5. i \in 1..Len(code) /\ CallsOf(code[i]) = c
    <3>1. code \in Seq(Instruction)
      BY VisitFacts, AllCallsType DEF DefersInv
    <3>2. Len(code) = size
      BY <1>1, <3>1 DEF execute_all_defer_calls
    <3>3. i \in 1..size /\ size + 1 - i = s
      BY <1>1, <2>4
    <3>4. code[i] = execute_scope_defer_calls(scopes[s])
      BY <3>3 DEF execute_all_defer_calls
    <3> QED
      BY <3>2, <3>3, <3>4
  <2>6. x \in Range(c) /\ x # 0
    <3>1. x \in Range(c)
      BY <2>4 DEF ScopeRuns
    <3>2. PICK k \in DOMAIN c : x = c[k]
      BY <3>1 DEF Range
    <3> QED
      BY <2>4, <3>1, <3>2 DEF ScopeRuns
  <2> QED
    BY <2>5, <2>6
<1>5. (UNION {Range(CallsOf(code[i])) : i \in 1..Len(code)}) \ {0} = Pending
  <2> DEFINE U == UNION {Range(CallsOf(code[i])) : i \in 1..Len(code)}
  <2>1. \A x \in U : x \in Pending
    BY <1>3
  <2>2. \A x \in Pending : x # 0 /\ x \in U
    <3> SUFFICES ASSUME NEW x \in Pending PROVE x # 0 /\ x \in U
      OBVIOUS
    <3>1. PICK f \in 1..Len(frames) :
            InCurrentFunction(f) /\ x \in Range(frames[f].declared)
      BY DEF Pending
    <3>2. x # 0 /\ \E i \in 1..Len(code) : x \in Range(CallsOf(code[i]))
      BY <1>4, <3>1
    <3> QED
      BY <3>2
  <2> HIDE DEF U
  <2>3. U \ {0} = Pending
    BY <2>1, <2>2
  <2> QED
    BY <2>3 DEF U
<1>6. ASSUME NEW i \in 1..Len(code), NEW j \in 1..Len(code),
             NEW k \in 1..Len(CallsOf(code[i])), NEW l \in 1..Len(CallsOf(code[j])),
             i < j \/ (i = j /\ k < l)
      PROVE  CallsOf(code[j])[l] < CallsOf(code[i])[k]
  <2>2. PICK f \in 1..Len(frames) : i \in 1..size /\ Run(i, f)
    BY <1>2
  <2>3. PICK g \in 1..Len(frames) : j \in 1..size /\ Run(j, g)
    BY <1>2
  <2>4. CASE i = j
    <3>1. k \in 1..Len(CallsOf(code[i])) /\ l \in 1..Len(CallsOf(code[i])) /\ k < l
      BY <1>6, <2>2, <2>4
    <3>2. ScopeRuns(CallsOf(code[i]), frames[f])
      BY <2>2
    <3> QED
      BY <2>4, <3>1, <3>2 DEF ScopeRuns
  <2>5. CASE i < j
    <3>1. /\ CallsOf(code[i])[k] \in Range(frames[f].declared)
          /\ CallsOf(code[j])[l] \in Range(frames[g].declared)
      BY <2>2, <2>3 DEF ScopeRuns
    <3>2. ScopesIn(frames[g]) < ScopesIn(frames[f])
      BY <1>1, <2>2, <2>3, <2>5
    <3> QED
      BY <2>2, <2>3, <3>1, <3>2, LaterScope
  <2> QED
    BY <1>6, <2>4, <2>5
<1>7. \A i, j \in 1..Len(code) :
        \A k \in 1..Len(CallsOf(code[i])), l \in 1..Len(CallsOf(code[j])) :
          i < j \/ (i = j /\ k < l) => CallsOf(code[j])[l] < CallsOf(code[i])[k]
  BY <1>6
<1> QED
  BY <1>5, <1>7, LatestFirst

LEMMA ReturnRuns ==
  ASSUME DefersInv, "return" \notin Unbraced, EnterReturn
  PROVE  CallsLatestFirst(Emitted, Pending)
<1>1. frames # <<>>
  BY DEF EnterReturn
<1>2. CASE top.kind = "block"
  BY <1>1, <1>2, ReturnEmits, BlockReturnRuns
<1>3. CASE top.kind # "block"
  <2>1. Emitted = <<>>
    BY <1>3, ReturnEmits
  <2>2. top.kind \in Callables
    BY <1>3 DEF EnterReturn, Visits, IsLast, Callables
  <2>3. Pending = {}
    <3>1. /\ top = frames[Len(frames)] /\ Len(frames) \in Nat
          /\ \A i \in 1..Len(frames) : Len(frames) \in i..Len(frames)
      BY <1>1, VisitFacts DEF DefersInv
    <3>2. \A i \in 1..Len(frames) : ~InCurrentFunction(i)
      BY <2>2, <3>1 DEF InCurrentFunction
    <3> QED
      BY <3>2 DEF Pending
  <2>4. CallsLatestFirst(<<>>, {})
    <3> DEFINE s == <<>>
    <3>1. 1..Len(s) = {}
      OBVIOUS
    <3> HIDE DEF s
    <3>2. CallsLatestFirst(s, {})
      BY <3>1 DEF CallsLatestFirst
    <3> QED
      BY <3>2 DEF s
  <2> QED
    BY <2>1, <2>3, <2>4
<1> QED
  BY <1>2, <1>3

-----------------------------------------------------------------------------
(* The theorem.                                                            *)

\* Whatever program is compiled, a return runs every deferred call of its
\* function that is pending and no other, the latest first, and the end of a
\* block those of its scope: execute_all_defer_calls and
\* execute_scope_defer_calls, with the stack that the visitors keep.  No defer
\* calls a function pointer, for which execute_defer_call makes no call, and a
\* return is in braces, for only the visitor of a block runs the calls.
THEOREM DefersRun ==
  ASSUME DeferCallees \subseteq {"function"}, "return" \notin Unbraced
  PROVE  Spec => DefersRunAtExit
<1> DEFINE Exit == /\ EnterReturn => CallsLatestFirst(Emitted, Pending)
                   /\ LeaveBlock /\ top.open =>
                        CallsLatestFirst(Emitted, Range(top.declared))
<1>1. Init => DefersInv
  BY InitDefers
<1>2. DefersInv /\ [Next]_vars => DefersInv'
  BY StepDefers
<1>3. ASSUME DefersInv, Next PROVE Exit
  BY <1>3, BlockEndRuns, ReturnRuns
<1> HIDE DEF Exit
<1>4. DefersInv /\ [Next]_vars => [Exit]_vars
  BY <1>3
<1>5. Spec => [][Exit]_vars
  BY <1>1, <1>2, <1>4, PTL DEF Spec
<1> QED
  BY <1>5 DEF DefersRunAtExit, Exit
=============================================================================
