------------------------ MODULE CodegenBlocks_proofs ------------------------
(***************************************************************************)
(* The graph of basic blocks, proved to be closed for the programs that    *)
(* keep clear of what the visitors get wrong: a jump out of two loops, a   *)
(* return or a jump with something left behind it, a return in a loop, and *)
(* the flag that a lambda leaves set and a function made by the value of a *)
(* return resets.  Each of them is one of the assumptions of the theorem.  *)
(***************************************************************************)
EXTENDS CodegenControl_proofs, WellFoundedInduction

-----------------------------------------------------------------------------
(* Instruction lists.                                                      *)

HasJump(s) == \E i \in 1..Len(s) : IsJump(s[i])
Silent(s)  == \A i \in 1..Len(s) : ~HasCode(s[i])
Clean(s)   == \A i, j \in 1..Len(s) : i < j /\ IsJump(s[i]) => ~HasCode(s[j])
Targets(s) == UNION {s[i].to : i \in 1..Len(s)}

\* What follows a list that jumps must leave no code.
LEMMA ConcatClean ==
  ASSUME NEW s \in Seq(Instruction), NEW t \in Seq(Instruction),
         Clean(s), Clean(t), HasJump(s) => Silent(t)
  PROVE  /\ s \o t \in Seq(Instruction) /\ Clean(s \o t)
         /\ HasJump(s \o t) <=> HasJump(s) \/ HasJump(t)
         /\ Targets(s \o t) = Targets(s) \cup Targets(t)
<1> DEFINE r == s \o t
<1>1. /\ r \in Seq(Instruction) /\ Len(r) = Len(s) + Len(t)
      /\ Len(s) \in Nat /\ Len(t) \in Nat
      /\ \A i \in 1..Len(s) : i \in 1..Len(r) /\ r[i] = s[i]
      /\ \A i \in 1..Len(t) : Len(s) + i \in 1..Len(r) /\ r[Len(s) + i] = t[i]
      /\ \A i \in 1..Len(r) :
           \/ i \in 1..Len(s) /\ r[i] = s[i]
           \/ i - Len(s) \in 1..Len(t) /\ r[i] = t[i - Len(s)]
  BY ConcatProperties
<1> HIDE DEF r
<1>2. HasJump(r) <=> HasJump(s) \/ HasJump(t)
  BY <1>1 DEF HasJump
<1>3. Clean(r)
  <2> SUFFICES ASSUME NEW i \in 1..Len(r), NEW j \in 1..Len(r), i < j, IsJump(r[i])
               PROVE  ~HasCode(r[j])
    BY DEF Clean
  <2>1. CASE j \in 1..Len(s)
    <3>1. i \in 1..Len(s)
      BY <1>1, <2>1
    <3> QED
      BY <1>1, <2>1, <3>1 DEF Clean
  <2>2. CASE j \notin 1..Len(s) /\ i \in 1..Len(s)
    <3>1. HasJump(s)
      BY <1>1, <2>2 DEF HasJump
    <3> QED
      BY <1>1, <2>2, <3>1 DEF Silent
  <2>3. CASE j \notin 1..Len(s) /\ i \notin 1..Len(s)
    <3>1. /\ i - Len(s) \in 1..Len(t) /\ r[i] = t[i - Len(s)]
          /\ j - Len(s) \in 1..Len(t) /\ r[j] = t[j - Len(s)]
          /\ i - Len(s) < j - Len(s)
      BY <1>1, <2>3
    <3> QED
      BY <3>1 DEF Clean
  <2> QED
    BY <2>1, <2>2, <2>3
<1>4. Targets(r) = Targets(s) \cup Targets(t)
  <2>1. ASSUME NEW x \in Targets(r) PROVE x \in Targets(s) \cup Targets(t)
    BY ZenonT(40), <1>1 DEF Targets
  <2>2. ASSUME NEW x \in Targets(s) \cup Targets(t) PROVE x \in Targets(r)
    <3>1. CASE x \in Targets(s)
      <4>1. PICK i \in 1..Len(s) : x \in s[i].to
        BY <3>1 DEF Targets
      <4> QED
        BY <1>1, <4>1 DEF Targets
    <3>2. CASE x \in Targets(t)
      <4>1. PICK i \in 1..Len(t) : x \in t[i].to
        BY <3>2 DEF Targets
      <4> QED
        BY <1>1, <4>1 DEF Targets
    <3> QED
      BY <2>2, <3>1, <3>2
  <2> QED
    BY <2>1, <2>2
<1> QED
  BY <1>1, <1>2, <1>3, <1>4 DEF r

\* One instruction, and none.
LEMMA OneClean ==
  ASSUME NEW x \in Instruction
  PROVE  /\ <<x>> \in Seq(Instruction) /\ Clean(<<x>>)
         /\ HasJump(<<x>>) <=> IsJump(x)
         /\ Silent(<<x>>) <=> ~HasCode(x)
         /\ Targets(<<x>>) = x.to
<1>1. <<x>> \in Seq(Instruction) /\ Len(<<x>>) = 1 /\ <<x>>[1] = x
  OBVIOUS
<1> DEFINE s == <<x>>
<1>2. 1..Len(s) = {1} /\ s[1] = x
  BY <1>1
<1> HIDE DEF s
<1>3. /\ Clean(s) /\ (HasJump(s) <=> IsJump(x)) /\ (Silent(s) <=> ~HasCode(x))
      /\ Targets(s) = x.to
  BY <1>2 DEF Clean, HasJump, Silent, Targets
<1> QED
  BY <1>1, <1>3 DEF s

LEMMA NoneClean ==
  /\ <<>> \in Seq(Instruction) /\ Clean(<<>>) /\ ~HasJump(<<>>)
  /\ Silent(<<>>) /\ Targets(<<>>) = {}
BY DEF Clean, HasJump, Silent, Targets

\* What the instructions of the visitors do.
LEMMA InstructionFacts ==
  /\ ~IsJump(Work) /\ Work.to = {}
  /\ IsJump(Ret) /\ Ret.to = {}
  /\ \A b \in Nat : /\ ~IsJump(Eval(b)) /\ Eval(b).to = {}
                    /\ IsJump(Br(b)) /\ Br(b).to = {b}
  /\ \A t, f \in Nat : IsJump(CondBr(t, f)) /\ CondBr(t, f).to = {t, f}
BY DEF IsJump, Work, Ret, Eval, Br, CondBr

\* Code and then a jump.
LEMMA TestClean ==
  ASSUME NEW x \in Instruction
  PROVE  /\ <<Work, x>> \in Seq(Instruction) /\ Clean(<<Work, x>>)
         /\ HasJump(<<Work, x>>) <=> IsJump(x)
         /\ Targets(<<Work, x>>) = x.to
<1> DEFINE s == <<Work, x>>
<1>1. Work \in Instruction /\ ~IsJump(Work) /\ Work.to = {}
  BY InstructionTypes, InstructionFacts
<1>2. s \in Seq(Instruction) /\ Len(s) = 2 /\ s[1] = Work /\ s[2] = x
  BY <1>1
<1> HIDE DEF s
<1>3. 1..Len(s) = {1, 2}
  BY <1>2
<1>4. Clean(s) /\ (HasJump(s) <=> IsJump(x)) /\ Targets(s) = x.to
  BY <1>1, <1>2, <1>3 DEF Clean, HasJump, Targets
<1> QED
  BY <1>2, <1>4 DEF s

\* The deferred calls of one scope are no jump, and no code if there are none.
LEMMA ScopeCallsClean ==
  ASSUME NEW scope \in Seq(DeferCall)
  PROVE  /\ execute_scope_defer_calls(scope) \in Instruction
         /\ ~IsJump(execute_scope_defer_calls(scope))
         /\ execute_scope_defer_calls(scope).to = {}
         /\ scope = <<>> => ~HasCode(execute_scope_defer_calls(scope))
<1>1. execute_scope_defer_calls(scope) \in Instruction
  BY ScopeCallsType
<1>2. /\ execute_scope_defer_calls(scope).op = "defers"
      /\ execute_scope_defer_calls(scope).to = {}
      /\ execute_scope_defer_calls(scope).calls =
           [i \in 1..Len(scope) |-> execute_defer_call(scope[i])]
  BY DEF execute_scope_defer_calls
<1>3. scope = <<>> => execute_scope_defer_calls(scope).calls = <<>>
  BY <1>2
<1> HIDE DEF execute_scope_defer_calls
<1> QED
  BY <1>1, <1>2, <1>3 DEF IsJump, HasCode

\* Nor are those of all the scopes of a function, which come before a return.
LEMMA DefersClean ==
  ASSUME NEW scopes \in Seq(Seq(DeferCall))
  PROVE  LET s == execute_all_defer_calls(scopes)
         IN  s \in Seq(Instruction) /\ Clean(s) /\ ~HasJump(s) /\ Targets(s) = {}
<1> DEFINE s == execute_all_defer_calls(scopes)
<1>1. s \in Seq(Instruction)
  BY AllCallsType
<1>2. \A i \in 1..Len(s) : ~IsJump(s[i]) /\ s[i].to = {}
  <2>1. Len(s) = Len(scopes) /\ Len(scopes) \in Nat
    BY DEF execute_all_defer_calls
  <2>2. ASSUME NEW i \in 1..Len(scopes)
        PROVE  ~IsJump(s[i]) /\ s[i].to = {}
    <3>1. scopes[Len(scopes) + 1 - i] \in Seq(DeferCall)
      BY <2>1
    <3>2. s[i] = execute_scope_defer_calls(scopes[Len(scopes) + 1 - i])
      BY DEF execute_all_defer_calls
    <3> QED
      BY <3>1, <3>2, ScopeCallsClean
  <2> QED
    BY <2>1, <2>2
<1> HIDE DEF s
<1>3. Clean(s) /\ ~HasJump(s) /\ Targets(s) = {}
  BY <1>2 DEF Clean, HasJump, Targets
<1> QED
  BY <1>1, <1>3 DEF s

-----------------------------------------------------------------------------
(* The graph.  open are the blocks still to be ended, promised the pairs   *)
(* of a block not placed yet and the function it will be placed in.        *)

GraphOK(bs, open, promised) ==
  \A b \in 1..Len(bs) :
    /\ Clean(bs[b].insts)
    /\ b \notin open => bs[b].fn # 0 /\ HasJump(bs[b].insts)
    /\ \A t \in Targets(bs[b].insts) :
         /\ t \in 1..Len(bs) /\ bs[b].fn # 0
         /\ bs[t].fn = bs[b].fn \/ <<t, bs[b].fn>> \in promised

\* A list of instructions that may stand in a block of function f.
Stays(s, f, bs, promised) ==
  \A t \in Targets(s) : /\ t \in 1..Len(bs)
                        /\ bs[t].fn = f \/ <<t, f>> \in promised

\* The fields of a block that gets more code.
LEMMA EmitFields ==
  ASSUME NEW bs \in Seq(Block), NEW b \in 1..Len(bs), NEW s \in Seq(Instruction)
  PROVE  /\ Emit(bs, b, s) \in Seq(Block) /\ Len(Emit(bs, b, s)) = Len(bs)
         /\ bs[b].insts \in Seq(Instruction)
         /\ Emit(bs, b, s)[b].insts = bs[b].insts \o s
         /\ \A c \in 1..Len(bs) : /\ Emit(bs, b, s)[c].fn = bs[c].fn
                                  /\ c # b => Emit(bs, b, s)[c] = bs[c]
<1>0. bs[b] \in Block
  OBVIOUS
<1>1. bs[b] \in Block /\ bs[b].insts \in Seq(Instruction)
  BY <1>0 DEF Block
<1>2. Emit(bs, b, s) \in Seq(Block) /\ Len(Emit(bs, b, s)) = Len(bs)
  BY EmitType
<1> DEFINE e == [bs[b] EXCEPT !.insts = bs[b].insts \o s]
<1>3. e \in Block /\ e.insts = bs[b].insts \o s /\ e.fn = bs[b].fn
  <2>1. bs[b].insts \o s \in Seq(Instruction)
    BY <1>1
  <2> QED
    BY <1>0, <2>1 DEF Block
<1>4. Emit(bs, b, s) = [bs EXCEPT ![b] = e]
  BY DEF Emit
<1> HIDE DEF e
<1>5. \A c \in 1..Len(bs) :
        [bs EXCEPT ![b] = e][c] = IF c = b THEN e ELSE bs[c]
  BY <1>3, ReplaceType
<1> QED
  BY <1>1, <1>2, <1>3, <1>4, <1>5

\* Code is added to a block.
LEMMA EmitOK ==
  ASSUME NEW bs \in Seq(Block), NEW open, NEW P, GraphOK(bs, open, P),
         NEW b \in 1..Len(bs), NEW s \in Seq(Instruction), bs[b].fn # 0,
         Clean(s), HasJump(bs[b].insts) => Silent(s), Stays(s, bs[b].fn, bs, P),
         NEW rest, open \subseteq rest \cup {b},
         b \in rest \/ HasJump(bs[b].insts) \/ HasJump(s)
  PROVE  /\ GraphOK(Emit(bs, b, s), rest, P)
         /\ HasJump(Emit(bs, b, s)[b].insts) <=> HasJump(bs[b].insts) \/ HasJump(s)
<1> DEFINE cs == Emit(bs, b, s)
<1>1. /\ cs \in Seq(Block) /\ Len(cs) = Len(bs)
      /\ bs[b].insts \in Seq(Instruction) /\ cs[b].insts = bs[b].insts \o s
      /\ \A c \in 1..Len(bs) : cs[c].fn = bs[c].fn /\ (c # b => cs[c] = bs[c])
  BY EmitFields
<1>2. /\ Clean(cs[b].insts)
      /\ HasJump(cs[b].insts) <=> HasJump(bs[b].insts) \/ HasJump(s)
      /\ Targets(cs[b].insts) = Targets(bs[b].insts) \cup Targets(s)
  <2>1. Clean(bs[b].insts)
    BY DEF GraphOK
  <2> QED
    BY <1>1, <2>1, ConcatClean
<1> HIDE DEF cs
<1>3. ASSUME NEW c \in 1..Len(cs)
      PROVE  /\ Clean(cs[c].insts)
             /\ c \notin rest => cs[c].fn # 0 /\ HasJump(cs[c].insts)
             /\ \A t \in Targets(cs[c].insts) :
                  /\ t \in 1..Len(cs) /\ cs[c].fn # 0
                  /\ cs[t].fn = cs[c].fn \/ <<t, cs[c].fn>> \in P
  <2>1. CASE c # b
    <3>1. cs[c] = bs[c] /\ c \in 1..Len(bs) /\ (c \notin rest => c \notin open)
      BY <1>1, <2>1
    <3> QED
      BY <1>1, <3>1 DEF GraphOK
  <2>2. CASE c = b
    <3>1. c \notin rest => HasJump(cs[b].insts)
      BY <1>2, <2>2
    <3>2. ASSUME NEW t \in Targets(cs[b].insts)
          PROVE  /\ t \in 1..Len(bs)
                 /\ bs[t].fn = bs[b].fn \/ <<t, bs[b].fn>> \in P
      <4>1. CASE t \in Targets(bs[b].insts)
        BY <4>1 DEF GraphOK
      <4>2. CASE t \in Targets(s)
        BY <4>2 DEF Stays
      <4> QED
        BY <1>2, <4>1, <4>2
    <3> QED
      BY <1>1, <1>2, <2>2, <3>1, <3>2
  <2> QED
    BY <2>1, <2>2
<1> QED
  BY <1>2, <1>3 DEF GraphOK, cs

\* Blocks are created.
LEMMA ConcatFields ==
  ASSUME NEW bs \in Seq(Block), NEW new \in Seq(Block)
  PROVE  /\ bs \o new \in Seq(Block) /\ Len(bs \o new) = Len(bs) + Len(new)
         /\ Len(bs) \in Nat /\ Len(new) \in Nat
         /\ \A b \in 1..Len(bs) : (bs \o new)[b] = bs[b]
         /\ \A k \in 1..Len(new) : (bs \o new)[Len(bs) + k] = new[k]
BY ConcatProperties

LEMMA ConcatOK ==
  ASSUME NEW bs \in Seq(Block), NEW new \in Seq(Block), NEW open, NEW P,
         GraphOK(bs, open, P), NEW rest, open \subseteq rest, NEW Q, P \subseteq Q,
         \A k \in 1..Len(new) :
           /\ Clean(new[k].insts)
           /\ Len(bs) + k \in rest \/ (new[k].fn # 0 /\ HasJump(new[k].insts))
           /\ \/ Targets(new[k].insts) = {}
              \/ /\ new[k].fn # 0
                 /\ Stays(new[k].insts, new[k].fn, bs \o new, Q)
  PROVE  GraphOK(bs \o new, rest, Q)
<1> DEFINE cs == bs \o new
<1>1. /\ Len(cs) = Len(bs) + Len(new) /\ Len(bs) \in Nat /\ Len(new) \in Nat
      /\ \A b \in 1..Len(bs) : cs[b] = bs[b]
      /\ \A k \in 1..Len(new) : cs[Len(bs) + k] = new[k]
  BY ConcatFields
<1> HIDE DEF cs
<1>2. ASSUME NEW c \in 1..Len(cs)
      PROVE  /\ Clean(cs[c].insts)
             /\ c \notin rest => cs[c].fn # 0 /\ HasJump(cs[c].insts)
             /\ \A t \in Targets(cs[c].insts) :
                  /\ t \in 1..Len(cs) /\ cs[c].fn # 0
                  /\ cs[t].fn = cs[c].fn \/ <<t, cs[c].fn>> \in Q
  <2>1. CASE c \in 1..Len(bs)
    <3>1. cs[c] = bs[c] /\ (c \notin rest => c \notin open)
      BY <1>1, <2>1
    <3>2. ASSUME NEW t \in Targets(bs[c].insts)
          PROVE  /\ t \in 1..Len(cs) /\ bs[c].fn # 0
                 /\ cs[t].fn = bs[c].fn \/ <<t, bs[c].fn>> \in Q
      <4>1. /\ t \in 1..Len(bs) /\ bs[c].fn # 0
            /\ bs[t].fn = bs[c].fn \/ <<t, bs[c].fn>> \in P
        BY <2>1 DEF GraphOK
      <4> QED
        BY <1>1, <4>1
    <3> QED
      BY <2>1, <3>1, <3>2 DEF GraphOK
  <2>2. CASE c \notin 1..Len(bs)
    <3>1. PICK k \in 1..Len(new) : c = Len(bs) + k
      <4>1. c - Len(bs) \in 1..Len(new) /\ c = Len(bs) + (c - Len(bs))
        BY <1>1, <2>2
      <4> QED
        BY <4>1
    <3>2. cs[c] = new[k]
      BY <1>1, <3>1
    <3>3. \A t \in Targets(new[k].insts) :
            /\ t \in 1..Len(cs) /\ new[k].fn # 0
            /\ cs[t].fn = new[k].fn \/ <<t, new[k].fn>> \in Q
      BY DEF Stays, cs
    <3> QED
      BY <3>1, <3>2, <3>3
  <2> QED
    BY <2>1, <2>2
<1>3. GraphOK(cs, rest, Q)
  BY <1>2 DEF GraphOK
<1> QED
  BY <1>3 DEF cs

\* The fields of a block that is placed.
LEMMA PlaceFields ==
  ASSUME NEW bs \in Seq(Block), NEW e \in 1..Len(bs), NEW f \in Nat
  PROVE  /\ Place(bs, e, f) \in Seq(Block) /\ Len(Place(bs, e, f)) = Len(bs)
         /\ Place(bs, e, f)[e].insts = bs[e].insts /\ Place(bs, e, f)[e].fn = f
         /\ \A c \in 1..Len(bs) : c # e => Place(bs, e, f)[c] = bs[c]
<1>0. bs[e] \in Block
  OBVIOUS
<1> DEFINE x == [bs[e] EXCEPT !.fn = f]
<1>1. x \in Block /\ x.insts = bs[e].insts /\ x.fn = f
  BY <1>0 DEF Block
<1>2. Place(bs, e, f) = [bs EXCEPT ![e] = x]
  BY DEF Place
<1> HIDE DEF x
<1>3. /\ [bs EXCEPT ![e] = x] \in Seq(Block) /\ Len([bs EXCEPT ![e] = x]) = Len(bs)
      /\ \A c \in 1..Len(bs) : [bs EXCEPT ![e] = x][c] = IF c = e THEN x ELSE bs[c]
  BY <1>1, ReplaceType
<1> QED
  BY <1>1, <1>2, <1>3

\* The promise made of a block is kept.
LEMMA PlaceOK ==
  ASSUME NEW bs \in Seq(Block), NEW open, NEW P, GraphOK(bs, open, P),
         NEW e \in 1..Len(bs), bs[e] = NewBlock(0), NEW f \in Nat \ {0},
         NEW Q, P \subseteq Q \cup {<<e, f>>}
  PROVE  GraphOK(Place(bs, e, f), open, Q)
<1> DEFINE cs == Place(bs, e, f)
<1>1. /\ Len(cs) = Len(bs) /\ cs[e].insts = <<>> /\ cs[e].fn = f
      /\ \A c \in 1..Len(bs) : c # e => cs[c] = bs[c]
      /\ bs[e].fn = 0 /\ bs[e].insts = <<>>
  BY PlaceFields DEF NewBlock
<1> HIDE DEF cs
<1>2. e \in open
  BY <1>1 DEF GraphOK
<1>3. ASSUME NEW c \in 1..Len(cs)
      PROVE  /\ Clean(cs[c].insts)
             /\ c \notin open => cs[c].fn # 0 /\ HasJump(cs[c].insts)
             /\ \A t \in Targets(cs[c].insts) :
                  /\ t \in 1..Len(cs) /\ cs[c].fn # 0
                  /\ cs[t].fn = cs[c].fn \/ <<t, cs[c].fn>> \in Q
  <2>1. CASE c = e
    BY <1>1, <1>2, <2>1, NoneClean
  <2>2. CASE c # e
    <3>1. cs[c] = bs[c] /\ c \in 1..Len(bs)
      BY <1>1, <2>2
    <3>2. ASSUME NEW t \in Targets(bs[c].insts)
          PROVE  /\ t \in 1..Len(cs) /\ bs[c].fn # 0
                 /\ cs[t].fn = bs[c].fn \/ <<t, bs[c].fn>> \in Q
      <4>1. /\ t \in 1..Len(bs) /\ bs[c].fn # 0
            /\ bs[t].fn = bs[c].fn \/ <<t, bs[c].fn>> \in P
        BY <3>1 DEF GraphOK
      <4>2. CASE <<t, bs[c].fn>> = <<e, f>>
        BY <1>1, <4>1, <4>2
      <4>3. CASE <<t, bs[c].fn>> \in Q
        BY <1>1, <4>1, <4>3
      <4>4. CASE bs[t].fn = bs[c].fn
        <5>1. t # e
          BY <1>1, <4>1, <4>4
        <5> QED
          BY <1>1, <4>1, <4>4, <5>1
      <4> QED
        BY <4>1, <4>2, <4>3, <4>4
    <3> QED
      BY <3>1, <3>2 DEF GraphOK
  <2> QED
    BY <2>1, <2>2
<1>4. GraphOK(cs, open, Q)
  BY <1>3 DEF GraphOK
<1> QED
  BY <1>4 DEF cs

\* Nothing open and nothing promised: the graph is closed.
LEMMA GraphOKSound ==
  ASSUME GraphOK(blocks, {}, {})
  PROVE  Complete
<1>1. \A b \in 1..Len(blocks) :
        /\ blocks[b].fn # 0 /\ HasJump(blocks[b].insts)
        /\ \A t \in Targets(blocks[b].insts) : blocks[t].fn = blocks[b].fn
  BY DEF GraphOK
<1>2. ASSUME NEW b \in 1..Len(blocks)
      PROVE  /\ Jumps(blocks[b]) # {}
             /\ \A i \in Jumps(blocks[b]) : \A t \in blocks[b].insts[i].to :
                  t \in Targets(blocks[b].insts)
  BY <1>1 DEF Jumps, HasJump, Targets
<1> QED
  BY <1>1, <1>2 DEF Complete

LEMMA CleanSound ==
  ASSUME NEW open, NEW P, GraphOK(blocks, open, P), blocks \in Seq(Block)
  PROVE  NoCodeAfterJump
<1> SUFFICES ASSUME NEW b \in 1..Len(blocks), NEW i \in Jumps(blocks[b]),
                    NEW j \in i + 1..Len(blocks[b].insts)
             PROVE  ~HasCode(blocks[b].insts[j])
  BY DEF NoCodeAfterJump
<1>1. blocks[b] \in Block
  OBVIOUS
<1>2. Len(blocks[b].insts) \in Nat
  BY <1>1 DEF Block
<1>3. /\ i \in 1..Len(blocks[b].insts) /\ IsJump(blocks[b].insts[i])
      /\ j \in 1..Len(blocks[b].insts) /\ i < j
  BY <1>2 DEF Jumps
<1>4. Clean(blocks[b].insts)
  BY DEF GraphOK
<1> QED
  BY <1>3, <1>4 DEF Clean

-----------------------------------------------------------------------------
(* Frames and blocks.  A construct holds its end block, which is not       *)
(* placed yet, an if or a switch the block of its next test, and a         *)
(* function made in the middle of another the block it interrupted: these  *)
(* and the block being filled are the only ones that do not end in a jump. *)
(* No block is held twice, so the end of one visit cannot disturb another. *)

Constructs == Loops \cup Selects
Inner      == {"lambda", "generic"}

Holds(f) ==
  (IF f.kind \in Constructs THEN {f.end} ELSE {})
  \cup (IF f.kind \in Selects /\ f.left > 0 THEN {f.next} ELSE {})
  \cup (IF f.kind \in Inner THEN {f.insert} ELSE {})
Held(fs) == UNION {Holds(fs[i]) : i \in 1..Len(fs)}
Promises(f)  == IF f.kind \in Constructs THEN {<<f.end, f.fn>>} ELSE {}
Promised(fs) == UNION {Promises(fs[i]) : i \in 1..Len(fs)}

\* The function that the code of a visit goes to; insert is in it.
FnOf(f, bs) == IF f.kind \in Callables THEN f.fn ELSE bs[f.insert].fn

FrameFits(f, bs) ==
  /\ Holds(f) \subseteq 1..Len(bs)
  /\ f.kind \notin Callables => f.insert \in 1..Len(bs)
  /\ FnOf(f, bs) # 0
  /\ f.kind # "block" => f.fn = FnOf(f, bs)
  /\ f.kind \in Constructs => bs[f.end] = NewBlock(0)
  /\ f.kind \in Selects /\ f.left > 0 => bs[f.next] = NewBlock(f.fn)
  /\ f.kind \in Loops => f.cond \in 1..Len(bs) /\ bs[f.cond].fn = f.fn
  /\ f.kind \in Inner => ~HasJump(bs[f.insert].insts)

Fits(fs, bs) ==
  /\ \A i \in 1..Len(fs) : FrameFits(fs[i], bs)
  /\ \A i \in 1..Len(fs) - 1 :
       /\ fs[i + 1].insert \in 1..Len(bs)
       /\ bs[fs[i + 1].insert].fn = FnOf(fs[i], bs)
  /\ \A i, j \in 1..Len(fs) :
       i < j /\ (\A k \in i + 1..j : fs[k].kind \notin Callables) =>
         FnOf(fs[j], bs) = FnOf(fs[i], bs)
  /\ \A i, j \in 1..Len(fs) : i # j => Holds(fs[i]) \cap Holds(fs[j]) = {}

\* The block being filled is of the innermost visit, and nobody's but its.
Current(fs, bs, ins) ==
  fs # <<>> => /\ ins \in 1..Len(bs) /\ ins \notin Held(fs)
               /\ bs[ins].fn = FnOf(Peek(fs), bs)

\* What no step does to the blocks: lose one, move one to another function, or
\* touch one that is held.
Keeps(bs, cs, held) ==
  /\ Len(bs) <= Len(cs)
  /\ \A b \in 1..Len(bs) : bs[b].fn # 0 => cs[b].fn = bs[b].fn
  /\ \A b \in held : cs[b] = bs[b]

\* Two frames with the same blocks.
SameBlocks(f, g) ==
  /\ g.kind = f.kind /\ g.fn = f.fn /\ g.insert = f.insert
  /\ g.end = f.end /\ g.cond = f.cond /\ g.next = f.next /\ g.left = f.left

LEMMA FrameKept ==
  ASSUME NEW f \in FrameType, NEW g \in FrameType, SameBlocks(f, g),
         NEW bs \in Seq(Block), NEW cs \in Seq(Block), FrameFits(f, bs),
         Keeps(bs, cs, Holds(f))
  PROVE  /\ FrameFits(g, cs) /\ FnOf(g, cs) = FnOf(f, bs)
         /\ Holds(g) = Holds(f) /\ Promises(g) = Promises(f)
<1>1. Holds(g) = Holds(f) /\ Promises(g) = Promises(f)
  BY DEF Holds, Promises, SameBlocks
<1>2. Len(bs) \in Nat /\ Len(cs) \in Nat /\ \A b \in 1..Len(bs) : b \in 1..Len(cs)
  BY DEF Keeps
<1>3. FnOf(g, cs) = FnOf(f, bs)
  BY DEF FnOf, SameBlocks, FrameFits, Keeps
<1>4. Holds(g) \subseteq 1..Len(cs) /\ (g.kind \notin Callables => g.insert \in 1..Len(cs))
  BY <1>1, <1>2 DEF FrameFits, SameBlocks
<1>5. FnOf(g, cs) # 0 /\ (g.kind # "block" => g.fn = FnOf(g, cs))
  BY <1>3 DEF FrameFits, SameBlocks
<1>6. /\ g.kind \in Constructs => cs[g.end] = NewBlock(0)
      /\ g.kind \in Selects /\ g.left > 0 => cs[g.next] = NewBlock(g.fn)
      /\ g.kind \in Inner => ~HasJump(cs[g.insert].insts)
  BY DEF FrameFits, SameBlocks, Keeps, Holds
<1>7. g.kind \in Loops => g.cond \in 1..Len(cs) /\ cs[g.cond].fn = g.fn
  <2> SUFFICES ASSUME f.kind \in Loops
               PROVE  f.cond \in 1..Len(cs) /\ cs[f.cond].fn = f.fn
    BY DEF SameBlocks
  <2>1. f.cond \in 1..Len(bs) /\ bs[f.cond].fn = f.fn /\ f.fn = FnOf(f, bs)
        /\ FnOf(f, bs) # 0
    BY DEF FrameFits, Loops
  <2> QED
    BY <1>2, <2>1 DEF Keeps
<1> QED
  BY <1>1, <1>3, <1>4, <1>5, <1>6, <1>7 DEF FrameFits

\* The blocks held by a stack of visits.
LEMMA HeldFacts ==
  ASSUME NEW fs \in Seq(FrameType)
  PROVE  /\ \A i \in 1..Len(fs) : Holds(fs[i]) \subseteq Held(fs)
         /\ \A i \in 1..Len(fs) : Promises(fs[i]) \subseteq Promised(fs)
         /\ \A b \in Held(fs) : \E i \in 1..Len(fs) : b \in Holds(fs[i])
         /\ fs = <<>> => Held(fs) = {} /\ Promised(fs) = {}
BY DEF Held, Promised

\* The visits stay, and the blocks change elsewhere.
LEMMA FitsKept ==
  ASSUME NEW fs \in Seq(FrameType), NEW gs \in Seq(FrameType), Len(gs) = Len(fs),
         \A i \in 1..Len(fs) : SameBlocks(fs[i], gs[i]),
         NEW bs \in Seq(Block), NEW cs \in Seq(Block), Fits(fs, bs),
         Keeps(bs, cs, Held(fs))
  PROVE  /\ Fits(gs, cs) /\ Held(gs) = Held(fs) /\ Promised(gs) = Promised(fs)
         /\ fs # <<>> => FnOf(Peek(gs), cs) = FnOf(Peek(fs), bs)
<1>1. ASSUME NEW i \in 1..Len(fs)
      PROVE  /\ FrameFits(gs[i], cs) /\ FnOf(gs[i], cs) = FnOf(fs[i], bs)
             /\ Holds(gs[i]) = Holds(fs[i]) /\ Promises(gs[i]) = Promises(fs[i])
             /\ gs[i].kind = fs[i].kind /\ gs[i].insert = fs[i].insert
             /\ FrameFits(fs[i], bs)
  <2>1. fs[i] \in FrameType /\ gs[i] \in FrameType /\ SameBlocks(fs[i], gs[i])
    OBVIOUS
  <2>2. FrameFits(fs[i], bs)
    BY DEF Fits
  <2>3. Keeps(bs, cs, Holds(fs[i]))
    BY HeldFacts DEF Keeps
  <2> DEFINE f == fs[i]
             g == gs[i]
  <2>4. f \in FrameType /\ g \in FrameType /\ SameBlocks(f, g)
    BY <2>1
  <2>5. g.kind = f.kind /\ g.insert = f.insert
    BY <2>4 DEF SameBlocks
  <2>6. FrameFits(f, bs) /\ Keeps(bs, cs, Holds(f))
    BY <2>2, <2>3
  <2> HIDE DEF f, g
  <2>7. /\ FrameFits(g, cs) /\ FnOf(g, cs) = FnOf(f, bs)
        /\ Holds(g) = Holds(f) /\ Promises(g) = Promises(f)
    BY <2>4, <2>6, FrameKept
  <2> QED
    BY <2>5, <2>6, <2>7 DEF f, g
<1>2. Held(gs) = Held(fs) /\ Promised(gs) = Promised(fs)
  BY <1>1 DEF Held, Promised
<1>3. Len(bs) \in Nat /\ Len(cs) \in Nat /\ \A b \in 1..Len(bs) : b \in 1..Len(cs)
  BY DEF Keeps
<1>4. ASSUME NEW i \in 1..Len(gs) - 1
      PROVE  /\ gs[i + 1].insert \in 1..Len(cs)
             /\ cs[gs[i + 1].insert].fn = FnOf(gs[i], cs)
  <2>1. i \in 1..Len(fs) /\ i + 1 \in 1..Len(fs) /\ i \in 1..Len(fs) - 1
    OBVIOUS
  <2>2. /\ fs[i + 1].insert \in 1..Len(bs)
        /\ bs[fs[i + 1].insert].fn = FnOf(fs[i], bs) /\ FnOf(fs[i], bs) # 0
    BY <1>1, <2>1 DEF Fits, FrameFits
  <2> QED
    BY <1>1, <1>3, <2>1, <2>2 DEF Keeps
<1>5. ASSUME NEW i \in 1..Len(gs), NEW j \in 1..Len(gs), i < j,
             \A k \in i + 1..j : gs[k].kind \notin Callables
      PROVE  FnOf(gs[j], cs) = FnOf(gs[i], cs)
  <2>1. \A k \in i + 1..j : k \in 1..Len(fs)
    OBVIOUS
  <2>2. \A k \in i + 1..j : fs[k].kind \notin Callables
    BY <1>1, <1>5, <2>1
  <2>3. FnOf(fs[j], bs) = FnOf(fs[i], bs)
    BY <1>5, <2>2 DEF Fits
  <2> QED
    BY <1>1, <2>3
<1>6. \A i, j \in 1..Len(gs) : i # j => Holds(gs[i]) \cap Holds(gs[j]) = {}
  BY <1>1 DEF Fits
<1>7. Fits(gs, cs)
  BY <1>1, <1>4, <1>5, <1>6 DEF Fits
<1>8. fs # <<>> => FnOf(Peek(gs), cs) = FnOf(Peek(fs), bs)
  <2>1. fs # <<>> => Len(fs) \in 1..Len(fs)
    OBVIOUS
  <2> QED
    BY <1>1, <2>1 DEF Peek
<1> QED
  BY <1>2, <1>7, <1>8

LEMMA FitsStay ==
  ASSUME NEW fs \in Seq(FrameType), NEW bs \in Seq(Block), NEW cs \in Seq(Block),
         Fits(fs, bs), Keeps(bs, cs, Held(fs))
  PROVE  /\ Fits(fs, cs)
         /\ fs # <<>> => FnOf(Peek(fs), cs) = FnOf(Peek(fs), bs)
<1>1. \A i \in 1..Len(fs) : SameBlocks(fs[i], fs[i])
  BY DEF SameBlocks
<1> QED
  BY <1>1, FitsKept

\* A visit begins: f is its frame.
LEMMA FitsPush ==
  ASSUME NEW fs \in Seq(FrameType), fs # <<>>, NEW f \in FrameType,
         NEW bs \in Seq(Block), Fits(fs, bs), FrameFits(f, bs),
         f.insert \in 1..Len(bs), bs[f.insert].fn = FnOf(Peek(fs), bs),
         Holds(f) \cap Held(fs) = {}
  PROVE  /\ Fits(Append(fs, f), bs)
         /\ Held(Append(fs, f)) = Held(fs) \cup Holds(f)
         /\ Promised(Append(fs, f)) = Promised(fs) \cup Promises(f)
         /\ Peek(Append(fs, f)) = f
<1> DEFINE gs == Append(fs, f)
           n  == Len(fs)
<1>1. /\ gs \in Seq(FrameType) /\ gs # <<>> /\ Len(gs) = n + 1
      /\ n \in Nat \ {0} /\ gs[n + 1] = f
      /\ \A i \in 1..n : gs[i] = fs[i]
      /\ Peek(fs) = fs[n]
  BY DEF Peek
<1>2. Peek(gs) = f
  BY <1>1 DEF Peek
<1> HIDE DEF gs, n
<1>3. \A i \in 1..n + 1 : i = n + 1 \/ i \in 1..n
  BY <1>1
<1>4. Held(gs) = Held(fs) \cup Holds(f)
  <2>1. \A b \in Held(gs) : b \in Held(fs) \cup Holds(f)
    BY <1>1, <1>3 DEF Held, n
  <2>2. \A b \in Held(fs) : b \in Held(gs)
    BY <1>1 DEF Held, n
  <2>3. \A b \in Holds(f) : b \in Held(gs)
    BY <1>1 DEF Held
  <2> QED
    BY <2>1, <2>2, <2>3
<1>5. Promised(gs) = Promised(fs) \cup Promises(f)
  <2>1. \A b \in Promised(gs) : b \in Promised(fs) \cup Promises(f)
    BY <1>1, <1>3 DEF Promised, n
  <2>2. \A b \in Promised(fs) : b \in Promised(gs)
    BY <1>1 DEF Promised, n
  <2>3. \A b \in Promises(f) : b \in Promised(gs)
    BY <1>1 DEF Promised
  <2> QED
    BY <2>1, <2>2, <2>3
<1>6. \A i \in 1..Len(gs) : FrameFits(gs[i], bs)
  BY <1>1, <1>3 DEF Fits, n
<1>7. ASSUME NEW i \in 1..Len(gs) - 1
      PROVE  /\ gs[i + 1].insert \in 1..Len(bs)
             /\ bs[gs[i + 1].insert].fn = FnOf(gs[i], bs)
  <2>1. CASE i = n
    BY <1>1, <2>1
  <2>2. CASE i # n
    <3>1. i \in 1..n - 1 /\ i \in 1..n /\ i + 1 \in 1..n
      BY <1>1, <2>2
    <3> QED
      BY <1>1, <3>1 DEF Fits, n
  <2> QED
    BY <2>1, <2>2
<1>8. ASSUME NEW i \in 1..Len(gs), NEW j \in 1..Len(gs), i < j,
             \A k \in i + 1..j : gs[k].kind \notin Callables
      PROVE  FnOf(gs[j], bs) = FnOf(gs[i], bs)
  <2>1. i \in 1..n /\ gs[i] = fs[i]
    BY <1>1, <1>8
  <2>2. CASE j \in 1..n
    <3>1. \A k \in i + 1..j : k \in 1..n /\ fs[k].kind \notin Callables
      BY <1>1, <1>8, <2>1, <2>2
    <3> QED
      BY <1>1, <1>8, <2>1, <2>2, <3>1 DEF Fits, n
  <2>3. CASE j = n + 1
    <3>1. f.kind \notin Callables
      <4>1. j \in i + 1..j
        BY <1>8
      <4> QED
        BY <1>1, <1>8, <2>3, <4>1
    <3>2. FnOf(f, bs) = FnOf(fs[n], bs)
      BY <1>1, <3>1 DEF FnOf
    <3>3. FnOf(fs[n], bs) = FnOf(fs[i], bs)
      <4>1. CASE i = n
        BY <4>1
      <4>2. CASE i # n
        <5>1. i < n /\ n \in 1..n
          BY <1>1, <2>1, <4>2
        <5>2. \A k \in i + 1..n : k \in 1..n /\ k \in i + 1..j
          BY <1>1, <2>1, <2>3
        <5>3. \A k \in i + 1..n : fs[k].kind \notin Callables
          BY <1>1, <1>8, <5>2
        <5> QED
          BY <2>1, <5>1, <5>3 DEF Fits, n
      <4> QED
        BY <4>1, <4>2
    <3> QED
      BY <1>1, <2>1, <2>3, <3>2, <3>3
  <2> QED
    BY <1>1, <1>3, <2>2, <2>3
<1>9. ASSUME NEW i \in 1..Len(gs), NEW j \in 1..Len(gs), i # j
      PROVE  Holds(gs[i]) \cap Holds(gs[j]) = {}
  <2>1. \A k \in 1..n : Holds(fs[k]) \subseteq Held(fs)
    BY HeldFacts DEF n
  <2>2. CASE i \in 1..n /\ j \in 1..n
    BY <1>1, <1>9, <2>2 DEF Fits, n
  <2>3. CASE i \notin 1..n
    <3>1. i = n + 1 /\ j \in 1..n
      BY <1>1, <1>3, <1>9, <2>3
    <3> QED
      BY <1>1, <2>1, <3>1
  <2>4. CASE j \notin 1..n
    <3>1. j = n + 1 /\ i \in 1..n
      BY <1>1, <1>3, <1>9, <2>4
    <3> QED
      BY <1>1, <2>1, <3>1
  <2> QED
    BY <2>2, <2>3, <2>4
<1>10. Fits(gs, bs)
  BY <1>6, <1>7, <1>8, <1>9 DEF Fits
<1> QED
  BY <1>2, <1>4, <1>5, <1>10 DEF gs

\* A visit ends.
LEMMA FitsPop ==
  ASSUME NEW fs \in Seq(FrameType), fs # <<>>, NEW bs, Fits(fs, bs)
  PROVE  /\ Pop(fs) \in Seq(FrameType) /\ Fits(Pop(fs), bs)
         /\ Held(fs) = Held(Pop(fs)) \cup Holds(Peek(fs))
         /\ Held(Pop(fs)) \cap Holds(Peek(fs)) = {}
         /\ Promised(fs) = Promised(Pop(fs)) \cup Promises(Peek(fs))
         /\ FrameFits(Peek(fs), bs)
         /\ Pop(fs) # <<>> =>
              /\ Len(fs) - 1 \in 1..Len(fs)
              /\ Peek(Pop(fs)) = fs[Len(fs) - 1]
              /\ Peek(fs).insert \in 1..Len(bs)
              /\ bs[Peek(fs).insert].fn = FnOf(Peek(Pop(fs)), bs)
<1> DEFINE gs == Pop(fs)
           n  == Len(fs)
           f  == Peek(fs)
<1>1. /\ gs \in Seq(FrameType) /\ Len(gs) = n - 1 /\ n \in Nat \ {0}
      /\ \A i \in 1..n - 1 : gs[i] = fs[i] /\ i \in 1..n
      /\ f = fs[n] /\ n \in 1..n
  BY PopType DEF Peek
<1> HIDE DEF gs, n, f
<1>2. \A i \in 1..n : i = n \/ i \in 1..n - 1
  BY <1>1
<1>3. Held(fs) = Held(gs) \cup Holds(f)
  <2>1. \A b \in Held(fs) : b \in Held(gs) \cup Holds(f)
    BY <1>1, <1>2 DEF Held, n
  <2>2. \A b \in Held(gs) : b \in Held(fs)
    BY <1>1 DEF Held, n
  <2>3. \A b \in Holds(f) : b \in Held(fs)
    BY <1>1 DEF Held, n
  <2> QED
    BY <2>1, <2>2, <2>3
<1>4. Promised(fs) = Promised(gs) \cup Promises(f)
  <2>1. \A b \in Promised(fs) : b \in Promised(gs) \cup Promises(f)
    BY <1>1, <1>2 DEF Promised, n
  <2>2. \A b \in Promised(gs) : b \in Promised(fs)
    BY <1>1 DEF Promised, n
  <2>3. \A b \in Promises(f) : b \in Promised(fs)
    BY <1>1 DEF Promised, n
  <2> QED
    BY <2>1, <2>2, <2>3
<1>5. Held(gs) \cap Holds(f) = {}
  <2> SUFFICES ASSUME NEW b \in Held(gs), b \in Holds(f) PROVE FALSE
    OBVIOUS
  <2>1. PICK i \in 1..n - 1 : b \in Holds(fs[i])
    BY <1>1 DEF Held
  <2>2. i # n /\ i \in 1..n
    BY <1>1
  <2> QED
    BY <1>1, <2>1, <2>2 DEF Fits, n
<1>6. Fits(gs, bs)
  <2>1. \A i \in 1..Len(gs) : FrameFits(gs[i], bs)
    BY <1>1 DEF Fits, n
  <2>2. ASSUME NEW i \in 1..Len(gs) - 1
        PROVE  /\ gs[i + 1].insert \in 1..Len(bs)
               /\ bs[gs[i + 1].insert].fn = FnOf(gs[i], bs)
    <3>1. i \in 1..n - 1 /\ i + 1 \in 1..n - 1
      BY <1>1
    <3> QED
      BY <1>1, <3>1 DEF Fits, n
  <2>3. ASSUME NEW i \in 1..Len(gs), NEW j \in 1..Len(gs), i < j,
               \A k \in i + 1..j : gs[k].kind \notin Callables
        PROVE  FnOf(gs[j], bs) = FnOf(gs[i], bs)
    <3>1. \A k \in i + 1..j : k \in 1..n - 1
      BY <1>1
    <3>2. \A k \in i + 1..j : fs[k].kind \notin Callables
      BY <1>1, <2>3, <3>1
    <3>3. i \in 1..n - 1 /\ j \in 1..n - 1 /\ i \in 1..n /\ j \in 1..n
      BY <1>1
    <3> QED
      BY <1>1, <2>3, <3>2, <3>3 DEF Fits, n
  <2>4. \A i, j \in 1..Len(gs) : i # j => Holds(gs[i]) \cap Holds(gs[j]) = {}
    BY <1>1 DEF Fits, n
  <2> QED
    BY <2>1, <2>2, <2>3, <2>4 DEF Fits
<1>7. FrameFits(f, bs)
  BY <1>1 DEF Fits, n
<1>8. ASSUME gs # <<>>
      PROVE  /\ n - 1 \in 1..n /\ Peek(gs) = fs[n - 1]
             /\ f.insert \in 1..Len(bs) /\ bs[f.insert].fn = FnOf(Peek(gs), bs)
  <2>1. n - 1 \in 1..n - 1 /\ (n - 1) + 1 = n
    BY <1>1, <1>8
  <2>2. Peek(gs) = fs[n - 1]
    BY <1>1, <2>1 DEF Peek
  <2>3. /\ fs[(n - 1) + 1].insert \in 1..Len(bs)
        /\ bs[fs[(n - 1) + 1].insert].fn = FnOf(fs[n - 1], bs)
    BY <2>1 DEF Fits, n
  <2> QED
    BY <1>1, <2>1, <2>2, <2>3
<1> QED
  BY <1>1, <1>3, <1>4, <1>5, <1>6, <1>7, <1>8 DEF gs, n, f

-----------------------------------------------------------------------------
(* The stack of visits itself: which constructs may be around which, and   *)
(* the frame on top replaced by another.                                   *)

\* Nothing comes between a return and the end of its branch that changes the flag.
FlagHolds == "lambda" \notin Statements /\ ReturnMakes = {}
NoLoop    == Statements \cap Loops = {}

\* A visit that goes on, with another statement or with its return, when the one
\* made inside it ends; and what may be inside a return or a function.
Resumes(f) == f.kind = "block" \/ f.returning
Owns(f, g) == IF f.returning THEN g.kind \in Inner /\ ~FlagHolds
              ELSE f.kind \in Callables => g.kind = "block"

\* A return is the last statement of its function or of a branch, and nothing will
\* run the defers of its block again.
EndWithReturn == Callables \cup Selects
LastIn(fs, i) ==
  \/ fs[i].kind \in EndWithReturn
  \/ fs[i].kind = "block" /\ i > 1 /\ fs[i - 1].kind \in EndWithReturn
ReturnsIn(fs, i, f) ==
  f.returning => f.open /\ ~f.should_execute_defers /\ LastIn(fs, i)

KindsOK(fs) ==
  /\ \A i \in 1..Len(fs) : /\ fs[i].kind = "function" <=> i = 1
                           /\ fs[i].kind \in Selects => FlagHolds
                           /\ fs[i].kind = "lambda" => ~FlagHolds
                           /\ fs[i].kind \in Loops => ~NoLoop
  /\ \A i \in 1..Len(fs) - 1 : /\ fs[i].open <=> Resumes(fs[i])
                               /\ Owns(fs[i], fs[i + 1])
  /\ \A i \in 1..Len(fs) : ReturnsIn(fs, i, fs[i])

Retop(fs, f) == [fs EXCEPT ![Len(fs)] = f]

LEMMA RetopFacts ==
  ASSUME NEW fs \in Seq(FrameType), fs # <<>>, NEW f \in FrameType
  PROVE  /\ Retop(fs, f) \in Seq(FrameType) /\ Len(Retop(fs, f)) = Len(fs)
         /\ Len(fs) \in Nat \ {0} /\ Peek(Retop(fs, f)) = f /\ Retop(fs, f) # <<>>
         /\ Retop(fs, f)[Len(fs)] = f
         /\ \A i \in 1..Len(fs) - 1 : Retop(fs, f)[i] = fs[i] /\ i \in 1..Len(fs)
         /\ \A i \in 1..Len(fs) : i = Len(fs) \/ i \in 1..Len(fs) - 1
<1>1. /\ Retop(fs, f) \in Seq(FrameType) /\ Len(Retop(fs, f)) = Len(fs)
      /\ \A i \in 1..Len(fs) : Retop(fs, f)[i] = IF i = Len(fs) THEN f ELSE fs[i]
  BY ReplaceType DEF Retop
<1>2. Len(fs) \in Nat \ {0} /\ Len(fs) \in 1..Len(fs)
  OBVIOUS
<1> QED
  BY <1>1, <1>2 DEF Peek

\* What a frame is the last statement of depends on the kinds of the frames alone.
LEMMA LastSame ==
  ASSUME NEW n \in Nat, NEW fs, NEW gs, \A k \in 1..n : gs[k].kind = fs[k].kind,
         NEW i \in 1..n, LastIn(fs, i)
  PROVE  LastIn(gs, i)
<1>1. i > 1 => i - 1 \in 1..n
  OBVIOUS
<1> QED
  BY <1>1 DEF LastIn

LEMMA KindsRetop ==
  ASSUME NEW fs \in Seq(FrameType), fs # <<>>, NEW f \in FrameType, KindsOK(fs),
         f.kind = Peek(fs).kind, ReturnsIn(fs, Len(fs), f)
  PROVE  KindsOK(Retop(fs, f))
<1> DEFINE gs == Retop(fs, f)
           n  == Len(fs)
<1>1. /\ Len(gs) = n /\ n \in Nat \ {0} /\ gs[n] = f /\ Peek(fs) = fs[n]
      /\ \A i \in 1..n - 1 : gs[i] = fs[i] /\ i \in 1..n
      /\ \A i \in 1..n : i = n \/ i \in 1..n - 1
  BY RetopFacts DEF Peek
<1> HIDE DEF gs, n
<1>2. \A i \in 1..n : gs[i].kind = fs[i].kind
  BY <1>1
<1>3. \A i \in 1..Len(gs) : /\ gs[i].kind = "function" <=> i = 1
                            /\ gs[i].kind \in Selects => FlagHolds
                            /\ gs[i].kind = "lambda" => ~FlagHolds
                            /\ gs[i].kind \in Loops => ~NoLoop
  BY <1>1, <1>2 DEF KindsOK, n
<1>4. \A i \in 1..Len(gs) - 1 :
        /\ gs[i].open <=> Resumes(gs[i])
        /\ Owns(gs[i], gs[i + 1])
  <2> SUFFICES ASSUME NEW i \in 1..n - 1
               PROVE  /\ gs[i].open <=> Resumes(gs[i])
                      /\ Owns(gs[i], gs[i + 1])
    BY <1>1
  <2>1. gs[i] = fs[i] /\ i + 1 \in 1..n
    BY <1>1
  <2> QED
    BY <1>2, <2>1 DEF KindsOK, Owns, n
<1>5. ASSUME NEW i \in 1..Len(gs) PROVE ReturnsIn(gs, i, gs[i])
  <2>1. i \in 1..n /\ n \in Nat
    BY <1>1
  <2>2. ReturnsIn(fs, i, gs[i])
    BY <1>1, <2>1 DEF KindsOK, n
  <2>3. LastIn(fs, i) => LastIn(gs, i)
    BY <1>2, <2>1, LastSame
  <2> QED
    BY <2>2, <2>3 DEF ReturnsIn
<1>6. KindsOK(gs)
  BY <1>3, <1>4, <1>5 DEF KindsOK
<1> QED
  BY <1>6 DEF gs

LEMMA KindsPush ==
  ASSUME NEW fs \in Seq(FrameType), fs # <<>>, NEW f \in FrameType, KindsOK(fs),
         Peek(fs).open <=> Resumes(Peek(fs)), Owns(Peek(fs), f),
         f.kind # "function", f.kind \in Selects => FlagHolds,
         f.kind = "lambda" => ~FlagHolds, f.kind \in Loops => ~NoLoop, ~f.returning
  PROVE  KindsOK(Append(fs, f))
<1> DEFINE gs == Append(fs, f)
           n  == Len(fs)
<1>1. /\ Len(gs) = n + 1 /\ n \in Nat \ {0} /\ gs[n + 1] = f /\ Peek(fs) = fs[n]
      /\ \A i \in 1..n : gs[i] = fs[i]
      /\ \A i \in 1..n + 1 : i = n + 1 \/ i \in 1..n
      /\ \A i \in 1..n : i = n \/ (i \in 1..n - 1 /\ i + 1 \in 1..n)
  BY DEF Peek
<1> HIDE DEF gs, n
<1>2. \A i \in 1..Len(gs) : /\ gs[i].kind = "function" <=> i = 1
                            /\ gs[i].kind \in Selects => FlagHolds
                            /\ gs[i].kind = "lambda" => ~FlagHolds
                            /\ gs[i].kind \in Loops => ~NoLoop
  BY <1>1 DEF KindsOK, n
<1>3. \A i \in 1..n : /\ gs[i].open <=> Resumes(gs[i])
                      /\ Owns(gs[i], gs[i + 1])
  BY <1>1 DEF KindsOK, n
<1>4. ASSUME NEW i \in 1..Len(gs) PROVE ReturnsIn(gs, i, gs[i])
  <2>1. CASE i = n + 1
    BY <1>1, <2>1 DEF ReturnsIn
  <2>2. CASE i # n + 1
    <3>1. i \in 1..n /\ gs[i] = fs[i] /\ \A k \in 1..n : gs[k].kind = fs[k].kind
      BY <1>1, <2>2
    <3>2. ReturnsIn(fs, i, gs[i])
      BY <3>1 DEF KindsOK, n
    <3>3. LastIn(fs, i) => LastIn(gs, i)
      BY <1>1, <3>1, LastSame
    <3> QED
      BY <3>2, <3>3 DEF ReturnsIn
  <2> QED
    BY <2>1, <2>2
<1>5. KindsOK(gs)
  BY <1>1, <1>2, <1>3, <1>4 DEF KindsOK
<1> QED
  BY <1>5 DEF gs

LEMMA KindsPop ==
  ASSUME NEW fs \in Seq(FrameType), fs # <<>>, KindsOK(fs)
  PROVE  /\ KindsOK(Pop(fs)) /\ Peek(fs) \in FrameType
         /\ Pop(fs) = <<>> <=> Peek(fs).kind = "function"
         /\ Pop(fs) # <<>> =>
              /\ Peek(Pop(fs)) = fs[Len(fs) - 1] /\ Peek(Pop(fs)) \in FrameType
              /\ Peek(Pop(fs)).open <=> Resumes(Peek(Pop(fs)))
              /\ Owns(Peek(Pop(fs)), Peek(fs))
              /\ Peek(Pop(fs)).kind \in Selects => FlagHolds
<1> DEFINE gs == Pop(fs)
           n  == Len(fs)
<1>1. /\ gs \in Seq(FrameType) /\ Len(gs) = n - 1 /\ n \in Nat \ {0}
      /\ Peek(fs) = fs[n] /\ Peek(fs) \in FrameType
      /\ \A i \in 1..n - 1 : gs[i] = fs[i] /\ i \in 1..n
  BY PopType DEF Peek
<1> HIDE DEF gs, n
<1>2. KindsOK(gs)
  <2>1. \A i \in 1..Len(gs) - 1 : i \in 1..n - 1 /\ i + 1 \in 1..n - 1
    BY <1>1
  <2>2. ASSUME NEW i \in 1..Len(gs)
        PROVE  /\ gs[i].kind = "function" <=> i = 1
               /\ gs[i].kind \in Selects => FlagHolds
               /\ gs[i].kind = "lambda" => ~FlagHolds
               /\ gs[i].kind \in Loops => ~NoLoop
    <3>1. gs[i] = fs[i] /\ i \in 1..n
      BY <1>1
    <3> QED
      BY <3>1 DEF KindsOK, n
  <2>3. ASSUME NEW i \in 1..Len(gs) - 1
        PROVE  /\ gs[i].open <=> Resumes(gs[i])
               /\ Owns(gs[i], gs[i + 1])
    <3>1. gs[i] = fs[i] /\ gs[i + 1] = fs[i + 1] /\ i \in 1..n - 1
      BY <1>1, <2>1
    <3> QED
      BY <3>1 DEF KindsOK, n
  <2>4. ASSUME NEW i \in 1..Len(gs) PROVE ReturnsIn(gs, i, gs[i])
    <3>1. /\ i \in 1..n - 1 /\ i \in 1..n /\ gs[i] = fs[i] /\ n - 1 \in Nat
          /\ \A k \in 1..n - 1 : gs[k].kind = fs[k].kind
      BY <1>1
    <3>2. ReturnsIn(fs, i, gs[i])
      BY <3>1 DEF KindsOK, n
    <3>3. LastIn(fs, i) => LastIn(gs, i)
      BY <3>1, LastSame
    <3> QED
      BY <3>2, <3>3 DEF ReturnsIn
  <2> QED
    BY <2>2, <2>3, <2>4 DEF KindsOK
<1>3. gs = <<>> <=> n = 1
  BY <1>1
<1>4. Peek(fs).kind = "function" <=> n = 1
  <2>1. n \in 1..n
    BY <1>1
  <2> QED
    BY <1>1, <2>1 DEF KindsOK, n
<1>5. ASSUME gs # <<>>
      PROVE  /\ Peek(gs) = fs[n - 1] /\ Peek(gs) \in FrameType
             /\ Peek(gs).open <=> Resumes(Peek(gs))
             /\ Owns(Peek(gs), Peek(fs))
             /\ Peek(gs).kind \in Selects => FlagHolds
  <2>1. n - 1 \in 1..n - 1 /\ n - 1 \in 1..n /\ (n - 1) + 1 = n
    BY <1>1, <1>3, <1>5
  <2>2. Peek(gs) = fs[n - 1]
    BY <1>1, <2>1 DEF Peek
  <2>3. fs[n - 1] \in FrameType
    BY <2>1 DEF n
  <2>4. /\ fs[n - 1].open <=> Resumes(fs[n - 1])
        /\ Owns(fs[n - 1], fs[(n - 1) + 1])
        /\ fs[n - 1].kind \in Selects => FlagHolds
    BY <2>1 DEF KindsOK, n
  <2> QED
    BY <1>1, <2>1, <2>2, <2>3, <2>4
<1> QED
  BY <1>1, <1>2, <1>3, <1>4, <1>5 DEF gs, n

-----------------------------------------------------------------------------
(* The defers of the blocks.  A block that has seen no defer has an empty  *)
(* scope, so that its end runs nothing after a break or a continue; and    *)
(* the scope of a block is above those of the blocks around it, so that a  *)
(* visit only changes its own.                                             *)

Below(f, g) == \/ DepthIn(f) < g.depth
               \/ DepthIn(f) = g.depth /\ ScopesIn(f) <= g.scopes

Undeclared(f, ds) ==
  f.kind = "block" =>
    /\ DepthIn(f) \in 1..Len(ds) /\ ScopesIn(f) \in 1..Len(ds[DepthIn(f)])
    /\ f.declared = <<>> => ds[DepthIn(f)][ScopesIn(f)] = <<>>

\* Between blocks and functions the scope stays the same.
SameScope(f, g) == DepthIn(g) = DepthIn(f) /\ ScopesIn(g) = ScopesIn(f)
Scoped == Callables \cup {"block"}

DeclaredOK(fs, ds) ==
  /\ \A i \in 1..Len(fs) : Undeclared(fs[i], ds)
  /\ \A i, j \in 1..Len(fs) : i < j =>
       /\ Below(fs[i], fs[j])
       /\ (\A k \in i + 1..j : fs[k].kind \notin Scoped) => SameScope(fs[i], fs[j])

LEMMA DeclaredRetop ==
  ASSUME NEW fs \in Seq(FrameType), fs # <<>>, NEW f \in FrameType,
         f.kind = Peek(fs).kind, f.depth = Peek(fs).depth, f.scopes = Peek(fs).scopes,
         NEW ds, NEW es, DeclaredOK(fs, ds), Undeclared(f, es),
         \A i \in 1..Len(fs) - 1 : Undeclared(fs[i], es)
  PROVE  DeclaredOK(Retop(fs, f), es)
<1> DEFINE gs == Retop(fs, f)
           n  == Len(fs)
<1>1. /\ Len(gs) = n /\ n \in Nat \ {0} /\ gs[n] = f /\ Peek(fs) = fs[n]
      /\ \A i \in 1..n - 1 : gs[i] = fs[i] /\ i \in 1..n
      /\ \A i \in 1..n : i = n \/ i \in 1..n - 1
  BY RetopFacts DEF Peek
<1> HIDE DEF gs, n
<1>2. \A i \in 1..n : Undeclared(gs[i], es)
  BY <1>1 DEF n
<1>3. \A i \in 1..n : /\ gs[i].depth = fs[i].depth /\ gs[i].scopes = fs[i].scopes
                      /\ DepthIn(gs[i]) = DepthIn(fs[i])
                      /\ ScopesIn(gs[i]) = ScopesIn(fs[i])
  BY <1>1 DEF DepthIn, ScopesIn
<1>4. \A i, j \in 1..n : i < j => Below(gs[i], gs[j])
  BY <1>3 DEF DeclaredOK, Below, n
<1>5. ASSUME NEW i \in 1..n, NEW j \in 1..n, i < j,
             \A k \in i + 1..j : gs[k].kind \notin Scoped
      PROVE  SameScope(gs[i], gs[j])
  <2>1. \A k \in i + 1..j : k \in 1..n
    BY <1>1
  <2>2. \A k \in 1..n : gs[k].kind = fs[k].kind
    BY <1>1
  <2>3. \A k \in i + 1..j : fs[k].kind \notin Scoped
    BY <1>5, <2>1, <2>2
  <2>4. SameScope(fs[i], fs[j])
    BY <1>5, <2>3 DEF DeclaredOK, n
  <2> QED
    BY <1>3, <2>4 DEF SameScope
<1>6. DeclaredOK(gs, es)
  BY <1>1, <1>2, <1>4, <1>5 DEF DeclaredOK
<1> QED
  BY <1>6 DEF gs

LEMMA DeclaredPop ==
  ASSUME NEW fs \in Seq(FrameType), fs # <<>>, NEW ds, NEW es, DeclaredOK(fs, ds),
         \A i \in 1..Len(fs) - 1 : Undeclared(fs[i], es)
  PROVE  DeclaredOK(Pop(fs), es)
<1>1. /\ Len(Pop(fs)) = Len(fs) - 1 /\ Len(fs) \in Nat \ {0}
      /\ \A i \in 1..Len(fs) - 1 : Pop(fs)[i] = fs[i] /\ i \in 1..Len(fs)
  BY PopType
<1> DEFINE gs == Pop(fs)
           n  == Len(fs)
<1>2. /\ Len(gs) = n - 1 /\ n \in Nat \ {0}
      /\ \A i \in 1..n - 1 : gs[i] = fs[i] /\ i \in 1..n
  BY <1>1
<1> HIDE DEF gs, n
<1>3. ASSUME NEW i \in 1..n - 1, NEW j \in 1..n - 1, i < j
      PROVE  /\ Below(gs[i], gs[j])
             /\ (\A k \in i + 1..j : gs[k].kind \notin Scoped) =>
                  SameScope(gs[i], gs[j])
  <2>1. \A k \in i + 1..j : k \in 1..n - 1
    BY <1>2
  <2>2. gs[i] = fs[i] /\ gs[j] = fs[j] /\ i \in 1..n /\ j \in 1..n
    BY <1>2
  <2>3. (\A k \in i + 1..j : gs[k].kind \notin Scoped) =>
          \A k \in i + 1..j : fs[k].kind \notin Scoped
    BY <1>2, <2>1
  <2> QED
    BY <1>3, <2>2, <2>3 DEF DeclaredOK, n
<1>4. \A i \in 1..n - 1 : Undeclared(gs[i], es)
  BY <1>2 DEF n
<1>5. DeclaredOK(gs, es)
  BY <1>2, <1>3, <1>4 DEF DeclaredOK
<1> QED
  BY <1>5 DEF gs

LEMMA DeclaredPush ==
  ASSUME NEW fs \in Seq(FrameType), fs # <<>>, NEW f \in FrameType,
         f.depth = DepthIn(Peek(fs)), f.scopes = ScopesIn(Peek(fs)),
         NEW ds, NEW es, DeclaredOK(fs, ds), Undeclared(f, es),
         \A i \in 1..Len(fs) : Undeclared(fs[i], es)
  PROVE  DeclaredOK(Append(fs, f), es)
<1> DEFINE gs == Append(fs, f)
           n  == Len(fs)
<1>1. /\ Len(gs) = n + 1 /\ n \in Nat \ {0} /\ gs[n + 1] = f /\ Peek(fs) = fs[n]
      /\ \A i \in 1..n : gs[i] = fs[i] /\ fs[i] \in FrameType
      /\ \A i \in 1..n + 1 : i = n + 1 \/ i \in 1..n
  BY DEF Peek
<1> HIDE DEF gs, n
<1>2. \A i \in 1..n + 1 : Undeclared(gs[i], es)
  BY <1>1 DEF n
<1>3. ASSUME NEW i \in 1..n PROVE Below(fs[i], f)
  <2>1. CASE i = n
    <3>1. /\ fs[n] \in FrameType
          /\ ScopesIn(fs[n]) \in Nat /\ DepthIn(fs[n]) \in {fs[n].depth, fs[n].depth + 1}
          /\ fs[n].depth \in Nat
      BY <1>1, FrameFields DEF n
    <3> QED
      BY <1>1, <2>1, <3>1 DEF Below
  <2>2. CASE i # n
    <3>1. Below(fs[i], fs[n])
      BY <1>1, <2>2 DEF DeclaredOK, n
    <3>2. /\ fs[n] \in FrameType /\ fs[i] \in FrameType
          /\ DepthIn(fs[i]) \in Nat /\ ScopesIn(fs[i]) \in Nat
          /\ fs[n].depth \in Nat /\ fs[n].scopes \in Nat
      <4>1. n \in 1..n
        BY <1>1
      <4>2. /\ DepthIn(fs[i]) \in {fs[i].depth, fs[i].depth + 1}
            /\ fs[i].depth \in Nat /\ ScopesIn(fs[i]) \in Nat
        BY FrameFields DEF n
      <4>3. fs[n].depth \in Nat /\ fs[n].scopes \in Nat
        BY <4>1, FrameFields DEF n
      <4> QED
        BY <1>1, <4>1, <4>2, <4>3
    <3>3. CASE fs[n].kind \in Callables
      BY <1>1, <3>1, <3>2, <3>3 DEF Below, DepthIn
    <3>4. CASE fs[n].kind \notin Callables
      <4>1. DepthIn(fs[n]) = fs[n].depth
            /\ ScopesIn(fs[n]) \in {fs[n].scopes, fs[n].scopes + 1}
        BY <3>4 DEF DepthIn, ScopesIn
      <4> QED
        BY <1>1, <3>1, <3>2, <4>1 DEF Below
    <3> QED
      BY <3>3, <3>4
  <2> QED
    BY <2>1, <2>2
<1>4. ASSUME NEW i \in 1..n + 1, NEW j \in 1..n + 1, i < j
      PROVE  Below(gs[i], gs[j])
  <2>1. i \in 1..n
    BY <1>1, <1>4
  <2>2. CASE j = n + 1
    BY <1>1, <1>3, <2>1, <2>2
  <2>3. CASE j \in 1..n
    BY <1>1, <1>4, <2>1, <2>3 DEF DeclaredOK, n
  <2> QED
    BY <1>1, <2>2, <2>3
<1>5. ASSUME NEW i \in 1..n + 1, NEW j \in 1..n + 1, i < j,
             \A k \in i + 1..j : gs[k].kind \notin Scoped
      PROVE  SameScope(gs[i], gs[j])
  <2>1. i \in 1..n /\ gs[i] = fs[i]
    BY <1>1, <1>5
  <2>2. CASE j \in 1..n
    <3>1. \A k \in i + 1..j : k \in 1..n
      BY <1>1, <2>1, <2>2
    <3>2. \A k \in i + 1..j : fs[k].kind \notin Scoped
      BY <1>1, <1>5, <3>1
    <3> QED
      BY <1>1, <1>5, <2>1, <2>2, <3>2 DEF DeclaredOK, n
  <2>3. CASE j = n + 1
    <3>1. f.kind \notin Scoped
      <4>1. j \in i + 1..j
        BY <1>5
      <4> QED
        BY <1>1, <1>5, <2>3, <4>1
    <3>2. SameScope(fs[n], f)
      BY <1>1, <3>1 DEF SameScope, Scoped, DepthIn, ScopesIn
    <3>3. CASE i = n
      BY <1>1, <2>1, <2>3, <3>2, <3>3
    <3>4. CASE i # n
      <4>1. i < n /\ n \in 1..n
        BY <1>1, <2>1, <3>4
      <4>2. \A k \in i + 1..n : k \in 1..n /\ k \in i + 1..j
        BY <1>1, <2>1, <2>3
      <4>3. \A k \in i + 1..n : fs[k].kind \notin Scoped
        BY <1>1, <1>5, <4>2
      <4>4. SameScope(fs[i], fs[n])
        BY <2>1, <4>1, <4>3 DEF DeclaredOK, n
      <4> QED
        BY <1>1, <2>1, <2>3, <3>2, <4>4 DEF SameScope
    <3> QED
      BY <3>3, <3>4
  <2> QED
    BY <1>1, <2>2, <2>3
<1>6. DeclaredOK(gs, es)
  BY <1>1, <1>2, <1>4, <1>5 DEF DeclaredOK
<1> QED
  BY <1>6 DEF gs

-----------------------------------------------------------------------------
(* What the visitors do to the graph, with the visits, the blocks and the  *)
(* insertion point as parameters.                                          *)

Open(fs, ins) == IF fs = <<>> THEN {} ELSE {ins} \cup Held(fs)

Built(fs, bs, ins) ==
  /\ Fits(fs, bs) /\ Current(fs, bs, ins)
  /\ GraphOK(bs, Open(fs, ins), Promised(fs))

\* Emitting code into a block changes no other, and moves none.
LEMMA EmitKeeps ==
  ASSUME NEW bs \in Seq(Block), NEW b \in 1..Len(bs), NEW s \in Seq(Instruction),
         NEW held, b \notin held, held \subseteq 1..Len(bs)
  PROVE  Keeps(bs, Emit(bs, b, s), held)
<1> DEFINE cs == Emit(bs, b, s)
<1>1. /\ Len(cs) = Len(bs)
      /\ \A c \in 1..Len(bs) : cs[c].fn = bs[c].fn /\ (c # b => cs[c] = bs[c])
  BY EmitFields
<1> HIDE DEF cs
<1>2. Len(bs) \in Nat /\ Len(bs) <= Len(cs)
  BY <1>1
<1>3. Keeps(bs, cs, held)
  BY <1>1, <1>2 DEF Keeps
<1> QED
  BY <1>3 DEF cs

\* The blocks held by visits that fit exist.
LEMMA HeldExist ==
  ASSUME NEW fs \in Seq(FrameType), NEW bs, Fits(fs, bs)
  PROVE  Held(fs) \subseteq 1..Len(bs)
BY HeldFacts DEF Fits, FrameFits

\* What is known of the block being filled.
LEMMA BuiltFacts ==
  ASSUME NEW fs \in Seq(FrameType), fs # <<>>, NEW bs \in Seq(Block), NEW ins,
         Built(fs, bs, ins)
  PROVE  /\ ins \in 1..Len(bs) /\ ins \in Nat /\ ins \notin Held(fs)
         /\ bs[ins] \in Block /\ bs[ins].fn \in Nat \ {0} /\ Len(bs) \in Nat \ {0}
         /\ bs[ins].fn = FnOf(Peek(fs), bs) /\ FrameFits(Peek(fs), bs)
         /\ Peek(fs) \in FrameType /\ Held(fs) \subseteq 1..Len(bs)
         /\ Open(fs, ins) = {ins} \cup Held(fs)
         /\ bs[ins].insts \in Seq(Instruction) /\ Clean(bs[ins].insts)
<1>1. ins \in 1..Len(bs) /\ ins \notin Held(fs) /\ bs[ins].fn = FnOf(Peek(fs), bs)
  BY DEF Built, Current
<1>2. Len(fs) \in 1..Len(fs) /\ Peek(fs) = fs[Len(fs)]
  BY DEF Peek
<1>3. Peek(fs) \in FrameType /\ FrameFits(Peek(fs), bs)
  BY <1>2 DEF Built, Fits
<1>4. bs[ins] \in Block
  BY <1>1
<1>5. bs[ins].fn \in Nat /\ bs[ins].insts \in Seq(Instruction)
  BY <1>4 DEF Block
<1>6. bs[ins].fn # 0
  BY <1>1, <1>3 DEF FrameFits
<1>7. Held(fs) \subseteq 1..Len(bs)
  BY HeldExist DEF Built
<1>8. Clean(bs[ins].insts)
  BY <1>1 DEF Built, GraphOK
<1>9. Len(bs) \in Nat \ {0}
  BY <1>1
<1> QED
  BY <1>1, <1>3, <1>4, <1>5, <1>6, <1>7, <1>8, <1>9 DEF Open

\* Code is added to the block being filled.
LEMMA BuiltEmit ==
  ASSUME NEW fs \in Seq(FrameType), fs # <<>>, NEW bs \in Seq(Block), NEW ins,
         Built(fs, bs, ins), NEW gs \in Seq(FrameType), Len(gs) = Len(fs),
         \A i \in 1..Len(fs) : SameBlocks(fs[i], gs[i]),
         NEW s \in Seq(Instruction), Clean(s), HasJump(bs[ins].insts) => Silent(s),
         Stays(s, bs[ins].fn, bs, Promised(fs))
  PROVE  LET cs == Emit(bs, ins, s)
         IN  /\ cs \in Seq(Block) /\ Len(cs) = Len(bs)
             /\ Built(gs, cs, ins)
             /\ HasJump(cs[ins].insts) <=> HasJump(bs[ins].insts) \/ HasJump(s)
             /\ HasJump(cs[ins].insts) => GraphOK(cs, Held(gs), Promised(gs))
             /\ \A b \in Held(fs) : cs[b] = bs[b]
             /\ Held(gs) = Held(fs) /\ Promised(gs) = Promised(fs)
<1> DEFINE cs == Emit(bs, ins, s)
<1>1. /\ ins \in 1..Len(bs) /\ ins \notin Held(fs) /\ bs[ins].fn # 0
      /\ bs[ins].fn = FnOf(Peek(fs), bs)
      /\ Held(fs) \subseteq 1..Len(bs) /\ Open(fs, ins) = {ins} \cup Held(fs)
  BY BuiltFacts
<1>2. /\ cs \in Seq(Block) /\ Len(cs) = Len(bs)
      /\ \A c \in 1..Len(bs) : cs[c].fn = bs[c].fn /\ (c # ins => cs[c] = bs[c])
  BY <1>1, EmitFields
<1>3. Keeps(bs, cs, Held(fs))
  BY <1>1, EmitKeeps
<1>4. GraphOK(bs, {ins} \cup Held(fs), Promised(fs))
  BY <1>1 DEF Built
<1>5. /\ GraphOK(cs, {ins} \cup Held(fs), Promised(fs))
      /\ HasJump(cs[ins].insts) <=> HasJump(bs[ins].insts) \/ HasJump(s)
  BY <1>1, <1>4, EmitOK
<1>6. ASSUME HasJump(cs[ins].insts) PROVE GraphOK(cs, Held(fs), Promised(fs))
  <2>1. {ins} \cup Held(fs) \subseteq Held(fs) \cup {ins}
    OBVIOUS
  <2>2. HasJump(bs[ins].insts) \/ HasJump(s)
    BY <1>5, <1>6
  <2> QED
    BY <1>1, <1>4, <2>1, <2>2, EmitOK
<1>7. /\ Fits(gs, cs) /\ Held(gs) = Held(fs) /\ Promised(gs) = Promised(fs)
      /\ FnOf(Peek(gs), cs) = FnOf(Peek(fs), bs)
  <2>1. Fits(fs, bs)
    BY DEF Built
  <2> HIDE DEF cs
  <2> QED
    BY <1>2, <1>3, <2>1, FitsKept
<1>8. gs # <<>>
  OBVIOUS
<1> HIDE DEF cs
<1>9. Built(gs, cs, ins)
  BY <1>1, <1>2, <1>5, <1>7, <1>8 DEF Built, Current, Open
<1>10. \A b \in Held(fs) : cs[b] = bs[b]
  BY <1>1, <1>2
<1> QED
  BY <1>2, <1>5, <1>6, <1>7, <1>9, <1>10 DEF cs

\* A jump is added to it, unless it ends with one.
LEMMA BuiltEmitSame ==
  ASSUME NEW fs \in Seq(FrameType), fs # <<>>, NEW bs \in Seq(Block), NEW ins,
         Built(fs, bs, ins),
         NEW s \in Seq(Instruction), Clean(s), HasJump(bs[ins].insts) => Silent(s),
         Stays(s, bs[ins].fn, bs, Promised(fs)), HasJump(bs[ins].insts) \/ HasJump(s)
  PROVE  /\ Emit(bs, ins, s) \in Seq(Block) /\ Len(Emit(bs, ins, s)) = Len(bs)
         /\ Built(fs, Emit(bs, ins, s), ins)
         /\ GraphOK(Emit(bs, ins, s), Held(fs), Promised(fs))
<1>1. \A i \in 1..Len(fs) : SameBlocks(fs[i], fs[i])
  BY DEF SameBlocks
<1> QED
  BY <1>1, BuiltEmit

\* A block of statements holds nothing.
LEMMA BuiltBlock ==
  ASSUME NEW fs \in Seq(FrameType), fs # <<>>, NEW bs \in Seq(Block), NEW ins,
         Built(fs, bs, ins), NEW f \in FrameType, f.kind = "block", f.insert = ins
  PROVE  Built(Append(fs, f), bs, ins)
<1>1. /\ ins \in 1..Len(bs) /\ ins \notin Held(fs) /\ bs[ins].fn # 0
      /\ bs[ins].fn = FnOf(Peek(fs), bs) /\ Open(fs, ins) = {ins} \cup Held(fs)
  BY BuiltFacts
<1>2. Holds(f) = {} /\ Promises(f) = {} /\ FnOf(f, bs) = bs[ins].fn
  BY DEF Holds, Promises, FnOf, Constructs, Loops, Selects, Inner, Callables
<1>3. FrameFits(f, bs)
  BY <1>1, <1>2
     DEF FrameFits, Constructs, Loops, Selects, Inner, Callables
<1>4. /\ Fits(Append(fs, f), bs) /\ Peek(Append(fs, f)) = f
      /\ Held(Append(fs, f)) = Held(fs) /\ Promised(Append(fs, f)) = Promised(fs)
  <2>1. Fits(fs, bs)
    BY DEF Built
  <2>2. f.insert \in 1..Len(bs) /\ bs[f.insert].fn = FnOf(Peek(fs), bs)
        /\ Holds(f) \cap Held(fs) = {}
    BY <1>1, <1>2
  <2>3. /\ Fits(Append(fs, f), bs) /\ Peek(Append(fs, f)) = f
        /\ Held(Append(fs, f)) = Held(fs) \cup Holds(f)
        /\ Promised(Append(fs, f)) = Promised(fs) \cup Promises(f)
    BY <1>3, <2>1, <2>2, FitsPush
  <2> QED
    BY <1>2, <2>3
<1>5. Append(fs, f) # <<>>
  OBVIOUS
<1> QED
  BY <1>1, <1>2, <1>4, <1>5 DEF Built, Current, Open

LEMMA BuiltUnblock ==
  ASSUME NEW fs \in Seq(FrameType), fs # <<>>, NEW bs \in Seq(Block), NEW ins,
         Built(fs, bs, ins), Peek(fs).kind = "block", Pop(fs) # <<>>
  PROVE  Built(Pop(fs), bs, ins)
<1>1. /\ ins \in 1..Len(bs) /\ ins \notin Held(fs)
      /\ bs[ins].fn = FnOf(Peek(fs), bs) /\ Open(fs, ins) = {ins} \cup Held(fs)
  BY BuiltFacts
<1>2. Holds(Peek(fs)) = {} /\ Promises(Peek(fs)) = {}
      /\ FnOf(Peek(fs), bs) = bs[Peek(fs).insert].fn
  BY DEF Holds, Promises, FnOf, Constructs, Loops, Selects, Inner, Callables
<1>3. /\ Fits(Pop(fs), bs) /\ Held(fs) = Held(Pop(fs))
      /\ Promised(fs) = Promised(Pop(fs))
      /\ bs[Peek(fs).insert].fn = FnOf(Peek(Pop(fs)), bs)
  <2>1. Fits(fs, bs)
    BY DEF Built
  <2> QED
    BY <1>2, <2>1, FitsPop
<1> QED
  BY <1>1, <1>2, <1>3 DEF Built, Current, Open

\* A function begins where there is none, and ends.
LEMMA BuiltFunction ==
  ASSUME NEW bs \in Seq(Block), NEW ins, Built(<<>>, bs, ins),
         NEW f \in FrameType, f.kind = "function", f.fn = Len(bs) + 1
  PROVE  LET cs == Append(bs, [NewBlock(Len(bs) + 1) EXCEPT !.insts = <<Work>>])
         IN  Built(<<f>>, cs, Len(bs) + 1) /\ ~HasJump(cs[Len(bs) + 1].insts)
<1> DEFINE n  == Len(bs) + 1
           b  == [NewBlock(n) EXCEPT !.insts = <<Work>>]
           cs == Append(bs, b)
<1>1. Len(bs) \in Nat /\ n \in Nat
  OBVIOUS
<1>2. b \in Block /\ b.fn = n /\ b.insts = <<Work>>
  BY <1>1, EntryBlockType DEF NewBlock
<1>3. /\ Clean(b.insts) /\ ~HasJump(b.insts) /\ Targets(b.insts) = {}
  BY <1>2, InstructionTypes, InstructionFacts, OneClean
<1> HIDE DEF b
<1>4. cs = bs \o <<b>> /\ <<b>> \in Seq(Block) /\ Len(<<b>>) = 1 /\ <<b>>[1] = b
  BY <1>2
<1>5. cs \in Seq(Block) /\ Len(cs) = n /\ cs[n] = b
  BY <1>1, <1>2
<1>6. GraphOK(cs, {n}, {})
  <2>1. GraphOK(bs, {}, {})
    <3>1. <<>> \in Seq(FrameType)
      OBVIOUS
    <3>2. Promised(<<>>) = {}
      BY <3>1, HeldFacts
    <3> QED
      BY <3>2 DEF Built, Open
  <2> DEFINE new == <<b>>
  <2>2. /\ new \in Seq(Block) /\ Len(new) = 1 /\ new[1] = b
    BY <1>2
  <2> HIDE DEF new
  <2>3. \A k \in 1..Len(new) :
          /\ Clean(new[k].insts)
          /\ Len(bs) + k \in {n}
          /\ Targets(new[k].insts) = {}
    BY <1>1, <1>3, <2>2
  <2>4. GraphOK(bs \o new, {n}, {})
    BY <2>1, <2>2, <2>3, ConcatOK
  <2> QED
    BY <1>4, <2>4 DEF new
<1> DEFINE fs == <<f>>
<1>7. fs \in Seq(FrameType) /\ Len(fs) = 1 /\ fs[1] = f /\ fs # <<>>
  OBVIOUS
<1>8. Holds(f) = {} /\ Promises(f) = {} /\ FnOf(f, cs) = n
  BY DEF Holds, Promises, FnOf, Constructs, Loops, Selects, Inner, Callables
<1> HIDE DEF fs, cs
<1>9. Held(fs) = {} /\ Promised(fs) = {} /\ Peek(fs) = f
  BY <1>7, <1>8 DEF Held, Promised, Peek
<1>10. FrameFits(f, cs)
  BY <1>1, <1>8 DEF FrameFits, Constructs, Loops, Selects, Inner, Callables
<1>11. Fits(fs, cs)
  BY <1>7, <1>10 DEF Fits
<1>12. Built(fs, cs, n)
  BY <1>1, <1>2, <1>5, <1>6, <1>7, <1>8, <1>9, <1>11 DEF Built, Current, Open
<1> QED
  BY <1>3, <1>5, <1>12 DEF cs, b, fs

LEMMA BuiltDone ==
  ASSUME NEW fs \in Seq(FrameType), fs # <<>>, NEW bs \in Seq(Block), NEW ins,
         Built(fs, bs, ins), Peek(fs).kind = "function", Pop(fs) = <<>>,
         HasJump(bs[ins].insts)
  PROVE  Built(Pop(fs), bs, ins)
<1>1. Holds(Peek(fs)) = {} /\ Promises(Peek(fs)) = {}
  BY DEF Holds, Promises, Constructs, Loops, Selects, Inner
<1>2. /\ Fits(Pop(fs), bs) /\ Held(fs) = Held(Pop(fs)) /\ Pop(fs) \in Seq(FrameType)
      /\ Promised(fs) = Promised(Pop(fs))
  <2>1. Fits(fs, bs)
    BY DEF Built
  <2> QED
    BY <1>1, <2>1, FitsPop
<1>3. Held(Pop(fs)) = {} /\ Open(fs, ins) = {ins} /\ Open(Pop(fs), ins) = {}
  BY <1>2, HeldFacts DEF Open
<1>4. bs[ins].fn # 0
  BY BuiltFacts
<1>5. GraphOK(bs, {}, Promised(Pop(fs)))
  BY <1>2, <1>3, <1>4 DEF Built, GraphOK
<1> QED
  BY <1>2, <1>3, <1>5 DEF Built, Current

\* A function begins inside another, whose block it holds.
LEMMA BuiltInner ==
  ASSUME NEW fs \in Seq(FrameType), fs # <<>>, NEW bs \in Seq(Block), NEW ins,
         Built(fs, bs, ins), ~HasJump(bs[ins].insts), NEW f \in FrameType,
         f.kind \in Inner, f.insert = ins, f.fn = Len(bs) + 1
  PROVE  LET cs == Append(bs, [NewBlock(Len(bs) + 1) EXCEPT !.insts = <<Work>>])
         IN  /\ Built(Append(fs, f), cs, Len(bs) + 1)
             /\ ~HasJump(cs[Len(bs) + 1].insts)
<1> DEFINE n  == Len(bs) + 1
           b  == [NewBlock(n) EXCEPT !.insts = <<Work>>]
           cs == Append(bs, b)
           gs == Append(fs, f)
<1>1. /\ ins \in 1..Len(bs) /\ ins \notin Held(fs) /\ bs[ins].fn # 0
      /\ bs[ins].fn = FnOf(Peek(fs), bs) /\ Open(fs, ins) = {ins} \cup Held(fs)
      /\ Held(fs) \subseteq 1..Len(bs) /\ Len(bs) \in Nat /\ n \in Nat
  BY BuiltFacts
<1>2. b \in Block /\ b.fn = n /\ b.insts = <<Work>>
  BY <1>1, EntryBlockType DEF NewBlock
<1>3. /\ Clean(b.insts) /\ ~HasJump(b.insts) /\ Targets(b.insts) = {}
  BY <1>2, InstructionTypes, InstructionFacts, OneClean
<1> HIDE DEF b
<1>4. cs = bs \o <<b>>
  BY <1>2
<1>5. /\ cs \in Seq(Block) /\ Len(cs) = n /\ cs[n] = b
      /\ \A c \in 1..Len(bs) : cs[c] = bs[c]
  BY <1>1, <1>2
<1>6. GraphOK(cs, {n} \cup {ins} \cup Held(fs), Promised(fs))
  <2> DEFINE new == <<b>>
             rest == {n} \cup {ins} \cup Held(fs)
  <2>1. /\ new \in Seq(Block) /\ Len(new) = 1 /\ new[1] = b
    BY <1>2
  <2> HIDE DEF new
  <2>2. \A k \in 1..Len(new) :
          /\ Clean(new[k].insts)
          /\ Len(bs) + k \in rest
          /\ Targets(new[k].insts) = {}
    BY <1>1, <1>3, <2>1
  <2>3. Open(fs, ins) \subseteq rest /\ GraphOK(bs, Open(fs, ins), Promised(fs))
    BY <1>1 DEF Built
  <2> HIDE DEF rest
  <2>4. GraphOK(bs \o new, rest, Promised(fs))
    BY <2>1, <2>2, <2>3, ConcatOK
  <2> QED
    BY <1>4, <2>4 DEF new, rest
<1>7. Holds(f) = {ins} /\ Promises(f) = {} /\ FnOf(f, cs) = n
  BY DEF Holds, Promises, FnOf, Constructs, Loops, Selects, Inner, Callables
<1> HIDE DEF cs
<1>8. FrameFits(f, cs)
  BY <1>1, <1>5, <1>7
     DEF FrameFits, Constructs, Loops, Selects, Inner, Callables
<1>9. /\ Fits(fs, cs) /\ FnOf(Peek(fs), cs) = FnOf(Peek(fs), bs)
  <2>1. Fits(fs, bs) /\ \A i \in 1..Len(fs) : SameBlocks(fs[i], fs[i])
    BY DEF Built, SameBlocks
  <2>2. Keeps(bs, cs, Held(fs))
    BY <1>1, <1>5 DEF Keeps
  <2> QED
    BY <1>5, <2>1, <2>2, FitsKept
<1>10. /\ Fits(gs, cs) /\ Peek(gs) = f
       /\ Held(gs) = Held(fs) \cup {ins} /\ Promised(gs) = Promised(fs)
  <2>1. f.insert \in 1..Len(cs) /\ cs[f.insert].fn = FnOf(Peek(fs), cs)
        /\ Holds(f) \cap Held(fs) = {}
    BY <1>1, <1>5, <1>7, <1>9
  <2>2. /\ Fits(gs, cs) /\ Peek(gs) = f
        /\ Held(gs) = Held(fs) \cup Holds(f)
        /\ Promised(gs) = Promised(fs) \cup Promises(f)
    BY <1>5, <1>8, <1>9, <2>1, FitsPush
  <2> QED
    BY <1>7, <2>2
<1>11. gs # <<>> /\ n \notin Held(gs) /\ n \in 1..Len(cs)
  <2>1. n \notin Held(fs) /\ n # ins
    BY <1>1
  <2>2. gs # <<>>
    OBVIOUS
  <2> HIDE DEF gs
  <2> QED
    BY <1>1, <1>5, <1>10, <2>1, <2>2
<1> HIDE DEF gs
<1>12. Built(gs, cs, n)
  <2>1. {n} \cup Held(gs) = {n} \cup {ins} \cup Held(fs)
    BY <1>10
  <2> QED
    BY <1>2, <1>5, <1>6, <1>7, <1>10, <1>11, <2>1 DEF Built, Current, Open
<1> QED
  BY <1>3, <1>5, <1>12 DEF cs, b, gs

\* It ends, and the outer function goes on where it was interrupted.
LEMMA BuiltOuter ==
  ASSUME NEW fs \in Seq(FrameType), fs # <<>>, NEW bs \in Seq(Block), NEW ins,
         Built(fs, bs, ins), Peek(fs).kind \in Inner, Pop(fs) # <<>>,
         HasJump(bs[ins].insts)
  PROVE  LET cs == Emit(bs, Peek(fs).insert, <<Work>>)
         IN  /\ Built(Pop(fs), cs, Peek(fs).insert)
             /\ ~HasJump(cs[Peek(fs).insert].insts)
<1> DEFINE f  == Peek(fs)
           gs == Pop(fs)
           n  == f.insert
           cs == Emit(bs, n, <<Work>>)
<1>1. /\ ins \in 1..Len(bs) /\ ins \notin Held(fs) /\ bs[ins].fn # 0
      /\ Open(fs, ins) = {ins} \cup Held(fs) /\ FrameFits(f, bs)
      /\ Held(fs) \subseteq 1..Len(bs)
  BY BuiltFacts
<1>2. Holds(f) = {n} /\ Promises(f) = {}
  BY DEF Holds, Promises, Constructs, Loops, Selects, Inner
<1>3. /\ gs \in Seq(FrameType) /\ Fits(gs, bs) /\ Held(fs) = Held(gs) \cup {n}
      /\ n \notin Held(gs) /\ Promised(fs) = Promised(gs)
      /\ n \in 1..Len(bs) /\ bs[n].fn = FnOf(Peek(gs), bs)
  <2>1. Fits(fs, bs)
    BY DEF Built
  <2>2. /\ gs \in Seq(FrameType) /\ Fits(gs, bs)
        /\ Held(fs) = Held(gs) \cup Holds(f) /\ Held(gs) \cap Holds(f) = {}
        /\ Promised(fs) = Promised(gs) \cup Promises(f)
        /\ n \in 1..Len(bs) /\ bs[n].fn = FnOf(Peek(gs), bs)
    BY <2>1, FitsPop
  <2> QED
    BY <1>2, <2>2
<1>4. bs[n].fn # 0 /\ ~HasJump(bs[n].insts)
  <2>1. Len(gs) \in 1..Len(gs) /\ Peek(gs) = gs[Len(gs)]
    BY <1>3 DEF Peek
  <2>2. FrameFits(Peek(gs), bs)
    BY <1>3, <2>1 DEF Fits
  <2> QED
    BY <1>1, <1>3, <2>2 DEF FrameFits
<1> HIDE DEF f, gs, n
<1>5. /\ <<Work>> \in Seq(Instruction) /\ Clean(<<Work>>) /\ ~HasJump(<<Work>>)
      /\ Targets(<<Work>>) = {}
  BY InstructionTypes, InstructionFacts, OneClean
<1>6. /\ cs \in Seq(Block) /\ Len(cs) = Len(bs)
      /\ \A c \in 1..Len(bs) : cs[c].fn = bs[c].fn /\ (c # n => cs[c] = bs[c])
  BY <1>3, <1>5, EmitFields
<1>7. GraphOK(bs, {n} \cup Held(gs), Promised(gs))
  BY <1>1, <1>3 DEF Built, GraphOK
<1>8. /\ GraphOK(cs, {n} \cup Held(gs), Promised(gs))
      /\ ~HasJump(cs[n].insts)
  <2>1. {n} \cup Held(gs) \subseteq ({n} \cup Held(gs)) \cup {n} /\ n \in {n} \cup Held(gs)
    OBVIOUS
  <2>2. Stays(<<Work>>, bs[n].fn, bs, Promised(gs))
    BY <1>5 DEF Stays
  <2> QED
    BY <1>3, <1>4, <1>5, <1>7, <2>1, <2>2, EmitOK
<1>9. Keeps(bs, cs, Held(gs))
  BY <1>1, <1>3, <1>5, EmitKeeps
<1> HIDE DEF cs
<1>10. Fits(gs, cs) /\ FnOf(Peek(gs), cs) = FnOf(Peek(gs), bs)
  <2>1. \A i \in 1..Len(gs) : SameBlocks(gs[i], gs[i])
    BY DEF SameBlocks
  <2>2. gs # <<>>
    BY DEF gs
  <2> QED
    BY <1>3, <1>6, <1>9, <2>1, <2>2, FitsKept
<1>11. Built(gs, cs, n)
  BY <1>3, <1>6, <1>8, <1>10 DEF Built, Current, Open, gs
<1> QED
  BY <1>8, <1>11 DEF cs, gs, n, f

LEMMA Pushed ==
  ASSUME NEW fs \in Seq(FrameType), NEW f \in FrameType
  PROVE  Append(fs, f) # <<>>
<1> DEFINE gs == Append(fs, f)
<1>1. Len(gs) = Len(fs) + 1 /\ Len(fs) \in Nat
  OBVIOUS
<1> HIDE DEF gs
<1>2. gs # <<>>
  BY <1>1
<1> QED
  BY <1>2 DEF gs

\* It does not matter whether blocks are created before or after the jump to them.
LEMMA EmitConcat ==
  ASSUME NEW bs \in Seq(Block), NEW new \in Seq(Block), NEW b \in 1..Len(bs),
         NEW s \in Seq(Instruction)
  PROVE  Emit(bs, b, s) \o new = Emit(bs \o new, b, s)
<1> DEFINE x == [bs[b] EXCEPT !.insts = bs[b].insts \o s]
           l == Emit(bs, b, s) \o new
           r == Emit(bs \o new, b, s)
<1>1. /\ bs \o new \in Seq(Block) /\ Len(bs \o new) = Len(bs) + Len(new)
      /\ Len(bs) \in Nat /\ Len(new) \in Nat /\ b \in 1..Len(bs \o new)
      /\ \A c \in 1..Len(bs) : (bs \o new)[c] = bs[c]
      /\ \A k \in 1..Len(new) : (bs \o new)[Len(bs) + k] = new[k]
  BY ConcatFields
<1>2. x \in Block
  <2>1. bs[b] \in Block
    OBVIOUS
  <2>2. bs[b].insts \o s \in Seq(Instruction)
    BY <2>1 DEF Block
  <2> QED
    BY <2>1, <2>2 DEF Block
<1>3. Emit(bs, b, s) = [bs EXCEPT ![b] = x] /\ r = [bs \o new EXCEPT ![b] = x]
  BY <1>1 DEF Emit
<1> HIDE DEF x
<1>4. /\ Emit(bs, b, s) \in Seq(Block) /\ Len(Emit(bs, b, s)) = Len(bs)
      /\ \A c \in 1..Len(bs) : Emit(bs, b, s)[c] = IF c = b THEN x ELSE bs[c]
  BY <1>2, <1>3, ReplaceType
<1>5. /\ r \in Seq(Block) /\ Len(r) = Len(bs) + Len(new)
      /\ \A c \in 1..Len(bs) + Len(new) : r[c] = IF c = b THEN x ELSE (bs \o new)[c]
  BY <1>1, <1>2, <1>3, ReplaceType
<1>6. /\ l \in Seq(Block) /\ Len(l) = Len(bs) + Len(new)
      /\ \A c \in 1..Len(bs) : l[c] = Emit(bs, b, s)[c]
      /\ \A k \in 1..Len(new) : l[Len(bs) + k] = new[k]
  <2> DEFINE u == Emit(bs, b, s)
  <2>1. u \in Seq(Block) /\ Len(u) = Len(bs)
    BY <1>4
  <2> HIDE DEF u
  <2>2. /\ u \o new \in Seq(Block) /\ Len(u \o new) = Len(u) + Len(new)
        /\ \A c \in 1..Len(u) : (u \o new)[c] = u[c]
        /\ \A k \in 1..Len(new) : (u \o new)[Len(u) + k] = new[k]
    BY <2>1, ConcatFields
  <2> QED
    BY <2>1, <2>2 DEF u
<1> HIDE DEF l, r
<1>7. ASSUME NEW c \in 1..Len(bs) + Len(new) PROVE l[c] = r[c]
  <2>1. CASE c \in 1..Len(bs)
    BY <1>1, <1>4, <1>5, <1>6, <2>1
  <2>2. CASE c \notin 1..Len(bs)
    <3>1. PICK k \in 1..Len(new) : c = Len(bs) + k
      <4>1. c - Len(bs) \in 1..Len(new) /\ c = Len(bs) + (c - Len(bs))
        BY <1>1, <2>2
      <4> QED
        BY <4>1
    <3>2. c # b
      BY <2>2
    <3> QED
      BY <1>1, <1>5, <1>6, <3>1, <3>2
  <2> QED
    BY <2>1, <2>2
<1>8. l = r
  BY <1>5, <1>6, <1>7, SeqEqual
<1> QED
  BY <1>8 DEF l, r

\* An if, a switch or a loop begins: the blocks new are created, of which number k
\* is filled next, and the block filled so far ends with a jump to one of them.
LEMMA BuiltConstruct ==
  ASSUME NEW fs \in Seq(FrameType), fs # <<>>, NEW bs \in Seq(Block), NEW ins,
         Built(fs, bs, ins), ~HasJump(bs[ins].insts),
         NEW f \in FrameType, f.kind \in Constructs, f.insert = ins,
         f.fn = bs[ins].fn, NEW new \in Seq(Block),
         NEW s \in Seq(Instruction), Clean(s), HasJump(s),
         \A t \in Targets(s) : \E i \in 1..Len(new) :
            t = Len(bs) + i /\ new[i].fn = f.fn,
         NEW e \in 1..Len(new), f.end = Len(bs) + e, new[e] = NewBlock(0),
         NEW k \in 1..Len(new), k # e,
         f.kind \in Selects /\ f.left > 0 =>
            \E i \in 1..Len(new) \ {k} : f.next = Len(bs) + i /\ new[i] = NewBlock(f.fn),
         f.kind \in Loops =>
            \E i \in 1..Len(new) : f.cond = Len(bs) + i /\ new[i].fn = f.fn,
         \A i \in 1..Len(new) \ {e} :
            /\ new[i].fn = f.fn /\ Clean(new[i].insts)
            /\ Len(bs) + i \in {Len(bs) + k} \cup Holds(f) \/ HasJump(new[i].insts)
            /\ \A t \in Targets(new[i].insts) : t \in Len(bs) + 1..Len(bs) + Len(new)
  PROVE  LET cs == Emit(bs, ins, s) \o new
         IN  Built(Append(fs, f), cs, Len(bs) + k) /\ cs[Len(bs) + k] = new[k]
<1> DEFINE n  == Len(bs)
           ds == bs \o new
           cs == Emit(bs, ins, s) \o new
           gs == Append(fs, f)
           P  == Promised(fs) \cup Promises(f)
           all  == {ins} \cup Held(fs) \cup {n + k} \cup Holds(f)
           rest == Held(fs) \cup {n + k} \cup Holds(f)
<1>0. gs # <<>>
  BY Pushed
<1>1. /\ ins \in 1..n /\ ins \notin Held(fs) /\ bs[ins].fn \in Nat \ {0}
      /\ bs[ins].fn = FnOf(Peek(fs), bs) /\ Open(fs, ins) = {ins} \cup Held(fs)
      /\ Held(fs) \subseteq 1..n /\ n \in Nat
  BY BuiltFacts
<1>2. /\ ds \in Seq(Block) /\ Len(ds) = n + Len(new) /\ Len(new) \in Nat
      /\ \A c \in 1..n : ds[c] = bs[c]
      /\ \A i \in 1..Len(new) : ds[n + i] = new[i]
  BY ConcatFields
<1>3. cs = Emit(ds, ins, s)
  BY ZenonT(40), <1>1, EmitConcat
<1>4. Promises(f) = {<<f.end, f.fn>>} /\ f.end \in Holds(f)
  BY DEF Promises, Holds
<1>5. Holds(f) \subseteq n + 1..n + Len(new) /\ n + k \notin Holds(f)
  <2>1. Holds(f) = {f.end} \cup (IF f.kind \in Selects /\ f.left > 0 THEN {f.next} ELSE {})
    BY DEF Holds, Inner, Constructs, Loops, Selects
  <2>2. f.end \in n + 1..n + Len(new) /\ f.end # n + k
    BY <1>1, <1>2
  <2>3. ASSUME f.kind \in Selects, f.left > 0
        PROVE  f.next \in n + 1..n + Len(new) /\ f.next # n + k
    <3>1. PICK i \in 1..Len(new) \ {k} : f.next = n + i
      BY <2>3
    <3> QED
      BY <1>1, <1>2, <3>1
  <2> QED
    BY <2>1, <2>2, <2>3
<1> HIDE DEF ds
<1>6. GraphOK(ds, all, P)
  <2>1. ASSUME NEW i \in 1..Len(new)
        PROVE  /\ Clean(new[i].insts)
               /\ n + i \in all \/ (new[i].fn # 0 /\ HasJump(new[i].insts))
               /\ \/ Targets(new[i].insts) = {}
                  \/ /\ new[i].fn # 0
                     /\ Stays(new[i].insts, new[i].fn, ds, P)
    <3>1. CASE i = e
      <4>1. Clean(new[i].insts) /\ Targets(new[i].insts) = {}
        BY <3>1, NoneClean DEF NewBlock
      <4> QED
        BY <1>4, <3>1, <4>1
    <3>2. CASE i # e
      <4>1. new[i].fn = f.fn /\ f.fn # 0 /\ Clean(new[i].insts)
        BY <1>1, <3>2
      <4>2. n + i \in all \/ HasJump(new[i].insts)
        BY <3>2
      <4>3. ASSUME NEW t \in Targets(new[i].insts)
            PROVE  t \in 1..Len(ds) /\ (ds[t].fn = f.fn \/ <<t, f.fn>> \in P)
        <5>1. t \in n + 1..n + Len(new)
          BY <3>2
        <5>2. t \in 1..Len(ds) /\ t - n \in 1..Len(new) /\ t = n + (t - n)
          BY <1>1, <1>2, <5>1
        <5>3. ds[t] = new[t - n]
          BY <1>2, <5>2
        <5>4. CASE t - n = e
          BY <1>4, <5>2, <5>4
        <5>5. CASE t - n # e
          BY ZenonT(40), <5>2, <5>3, <5>5
        <5> QED
          BY <5>2, <5>4, <5>5
      <4> QED
        BY <4>1, <4>2, <4>3 DEF Stays
    <3> QED
      BY <3>1, <3>2
  <2>2. GraphOK(bs, Open(fs, ins), Promised(fs)) /\ Open(fs, ins) \subseteq all
        /\ Promised(fs) \subseteq P
    BY <1>1 DEF Built
  <2> HIDE DEF all, P
  <2> QED
    BY <2>1, <2>2, ConcatOK DEF ds
<1>7. /\ ds[ins].fn # 0 /\ ~HasJump(ds[ins].insts) /\ ins \in 1..Len(ds)
      /\ ds[ins].fn = f.fn
  BY SMTT(30), <1>1, <1>2
<1>8. Stays(s, ds[ins].fn, ds, P)
  <2> SUFFICES ASSUME NEW t \in Targets(s)
               PROVE  t \in 1..Len(ds) /\ ds[t].fn = f.fn
    BY <1>7 DEF Stays
  <2>1. PICK i \in 1..Len(new) : t = n + i /\ new[i].fn = f.fn
    OBVIOUS
  <2> QED
    BY SMTT(30), <1>1, <1>2, <2>1
<1>9. GraphOK(cs, rest, P)
  <2>1. all \subseteq rest \cup {ins}
    OBVIOUS
  <2> HIDE DEF all, rest, P, cs
  <2> QED
    BY <1>2, <1>3, <1>6, <1>7, <1>8, <2>1, EmitOK
<1>10. /\ cs \in Seq(Block) /\ Len(cs) = n + Len(new)
       /\ \A c \in 1..n : cs[c].fn = bs[c].fn /\ (c # ins => cs[c] = bs[c])
       /\ \A i \in 1..Len(new) : cs[n + i] = new[i]
  <2>1. /\ cs \in Seq(Block) /\ Len(cs) = Len(ds)
        /\ \A c \in 1..Len(ds) : cs[c].fn = ds[c].fn /\ (c # ins => cs[c] = ds[c])
    <3> DEFINE u == Emit(ds, ins, s)
    <3>1. /\ u \in Seq(Block) /\ Len(u) = Len(ds)
          /\ \A c \in 1..Len(ds) : u[c].fn = ds[c].fn /\ (c # ins => u[c] = ds[c])
      BY ZenonT(40), <1>2, <1>7, EmitFields
    <3> HIDE DEF u, cs
    <3> QED
      BY <1>3, <3>1 DEF u
  <2>2. \A i \in 1..Len(new) : n + i \in 1..Len(ds) /\ n + i # ins
    BY SMTT(30), <1>1, <1>2
  <2>3. \A c \in 1..n : c \in 1..Len(ds)
    BY <1>1, <1>2
  <2> HIDE DEF cs, n
  <2> QED
    BY SMTT(30), <1>2, <2>1, <2>2, <2>3
<1> HIDE DEF cs
<1>11. Fits(fs, cs) /\ FnOf(Peek(fs), cs) = FnOf(Peek(fs), bs)
  <2>1. Fits(fs, bs) /\ \A i \in 1..Len(fs) : SameBlocks(fs[i], fs[i])
    BY DEF Built, SameBlocks
  <2>2. Keeps(bs, cs, Held(fs))
    <3>1. Len(bs) <= Len(cs)
      BY <1>1, <1>2, <1>10
    <3>2. \A b \in Held(fs) : b \in 1..n /\ b # ins
      BY <1>1
    <3> QED
      BY <1>10, <3>1, <3>2 DEF Keeps
  <2> QED
    BY <1>10, <2>1, <2>2, FitsKept
<1>12. FnOf(f, cs) = f.fn /\ f.insert \in 1..Len(cs)
  <2>1. f.kind \notin Callables
    BY DEF Constructs, Loops, Selects, Callables
  <2>2. ins \in 1..n /\ ins \in 1..Len(cs)
    BY <1>1, <1>2, <1>10
  <2>3. FnOf(f, cs) = cs[ins].fn
    BY <2>1 DEF FnOf
  <2>4. cs[ins].fn = bs[ins].fn
    BY <1>1, <1>10, <2>2
  <2> QED
    BY <2>2, <2>3, <2>4
<1>13. FrameFits(f, cs)
  <2>1. Holds(f) \subseteq 1..Len(cs)
    BY <1>1, <1>2, <1>5, <1>10
  <2>2. cs[f.end] = NewBlock(0)
    BY <1>10
  <2>3. f.kind \in Selects /\ f.left > 0 => cs[f.next] = NewBlock(f.fn)
    BY <1>10
  <2>4. f.kind \in Loops => f.cond \in 1..Len(cs) /\ cs[f.cond].fn = f.fn
    <3> SUFFICES ASSUME f.kind \in Loops
                 PROVE  f.cond \in 1..Len(cs) /\ cs[f.cond].fn = f.fn
      OBVIOUS
    <3>1. PICK i \in 1..Len(new) : f.cond = n + i /\ new[i].fn = f.fn
      OBVIOUS
    <3> QED
      BY <1>1, <1>2, <1>10, <3>1
  <2>5. f.kind \notin Inner /\ f.fn # 0
    BY <1>1 DEF Constructs, Loops, Selects, Inner
  <2> QED
    BY <1>12, <2>1, <2>2, <2>3, <2>4, <2>5 DEF FrameFits
<1>14. /\ Fits(gs, cs) /\ Peek(gs) = f
       /\ Held(gs) = Held(fs) \cup Holds(f) /\ Promised(gs) = P
  <2>1. Holds(f) \cap Held(fs) = {}
    BY <1>1, <1>2, <1>5
  <2>2. cs[f.insert].fn = FnOf(Peek(fs), cs)
    BY <1>1, <1>10, <1>11
  <2> QED
    BY <1>10, <1>11, <1>12, <1>13, <2>1, <2>2, FitsPush
<1>15. gs # <<>> /\ n + k \notin Held(gs) /\ n + k \in 1..Len(cs)
  <2>1. n + k \notin Held(fs) /\ n + k \in 1..Len(cs)
    BY SMTT(30), <1>1, <1>2, <1>10
  <2> HIDE DEF gs
  <2> QED
    BY <1>0, <1>5, <1>14, <2>1
<1> HIDE DEF gs
<1>16. cs[n + k] = new[k] /\ new[k].fn = f.fn
  BY <1>10
<1>17. Built(gs, cs, n + k)
  <2>1. Open(gs, n + k) = rest
    BY <1>14, <1>15 DEF Open
  <2> HIDE DEF rest, P
  <2> QED
    BY <1>9, <1>12, <1>14, <1>15, <1>16, <2>1 DEF Built, Current
<1> QED
  BY <1>16, <1>17 DEF gs, cs

\* An if, a switch or a loop ends: the block filled so far ends with a jump, its own
\* or the one of s, and the end block of the construct is placed and filled next.
LEMMA BuiltEnd ==
  ASSUME NEW fs \in Seq(FrameType), fs # <<>>, NEW bs \in Seq(Block), NEW ins,
         Built(fs, bs, ins), Pop(fs) # <<>>,
         Peek(fs).kind \in Constructs, ~(Peek(fs).kind \in Selects /\ Peek(fs).left > 0),
         NEW s \in Seq(Instruction), Clean(s), HasJump(bs[ins].insts) => Silent(s),
         HasJump(bs[ins].insts) \/ HasJump(s),
         Stays(s, bs[ins].fn, bs, Promised(fs))
  PROVE  LET cs == Place(Emit(bs, ins, s), Peek(fs).end, Peek(fs).fn)
         IN  /\ Built(Pop(fs), cs, Peek(fs).end)
             /\ ~HasJump(cs[Peek(fs).end].insts)
<1> DEFINE f  == Peek(fs)
           gs == Pop(fs)
           us == Emit(bs, ins, s)
           cs == Place(us, f.end, f.fn)
<1>1. /\ us \in Seq(Block) /\ Built(fs, us, ins)
      /\ GraphOK(us, Held(fs), Promised(fs))
  BY BuiltEmitSame
<1> HIDE DEF us
<1>2. /\ f \in FrameType /\ FrameFits(f, us) /\ Held(fs) \subseteq 1..Len(us)
      /\ Len(us) \in Nat
  BY <1>1, BuiltFacts
<1>3. Holds(f) = {f.end} /\ Promises(f) = {<<f.end, f.fn>>}
  BY DEF Holds, Promises, Inner, Constructs, Loops, Selects
<1>4. /\ gs \in Seq(FrameType) /\ Fits(gs, us)
      /\ Held(fs) = Held(gs) \cup {f.end} /\ Held(gs) \cap {f.end} = {}
      /\ Promised(fs) = Promised(gs) \cup {<<f.end, f.fn>>}
      /\ us[f.insert].fn = FnOf(Peek(gs), us)
  <2>1. Fits(fs, us)
    BY <1>1 DEF Built
  <2>2. /\ gs \in Seq(FrameType) /\ Fits(gs, us)
        /\ Held(fs) = Held(gs) \cup Holds(f) /\ Held(gs) \cap Holds(f) = {}
        /\ Promised(fs) = Promised(gs) \cup Promises(f)
        /\ us[f.insert].fn = FnOf(Peek(gs), us)
    BY <2>1, FitsPop
  <2> QED
    BY <1>3, <2>2
<1>5. gs # <<>>
  OBVIOUS
<1> HIDE DEF f, gs
<1>6. /\ us[f.end] = NewBlock(0) /\ f.end \in 1..Len(us)
      /\ f.fn = us[f.insert].fn /\ f.fn \in Nat \ {0}
  <2>1. f.kind \notin Callables /\ f.kind # "block" /\ f.kind \in Constructs
    BY DEF f, Constructs, Loops, Selects, Callables
  <2>2. f.fn \in Nat
    BY <1>2 DEF FrameType
  <2> QED
    BY <1>2, <1>4, <2>1, <2>2 DEF FrameFits, FnOf
<1>7. /\ cs \in Seq(Block) /\ Len(cs) = Len(us)
      /\ cs[f.end].insts = us[f.end].insts /\ cs[f.end].fn = f.fn
      /\ \A c \in 1..Len(us) : c # f.end => cs[c] = us[c]
  BY <1>1, <1>6, PlaceFields
<1>8. GraphOK(cs, Held(fs), Promised(gs))
  <2>1. Promised(fs) \subseteq Promised(gs) \cup {<<f.end, f.fn>>}
    BY <1>4
  <2> QED
    BY <1>1, <1>6, <2>1, PlaceOK
<1> HIDE DEF cs
<1>9. ~HasJump(cs[f.end].insts)
  BY <1>6, <1>7, NoneClean DEF NewBlock
<1>10. Keeps(us, cs, Held(gs))
  <2>1. \A b \in Held(gs) : b \in 1..Len(us) /\ b # f.end
    BY <1>2, <1>4
  <2>2. us[f.end].fn = 0
    BY <1>6 DEF NewBlock
  <2>3. Len(us) <= Len(cs)
    BY <1>2, <1>7
  <2>4. \A b \in Held(gs) : cs[b] = us[b]
    BY <1>7, <2>1
  <2>5. \A b \in 1..Len(us) : us[b].fn # 0 => cs[b].fn = us[b].fn
    BY <1>7, <2>2
  <2> QED
    BY <2>3, <2>4, <2>5 DEF Keeps
<1>11. Fits(gs, cs) /\ FnOf(Peek(gs), cs) = FnOf(Peek(gs), us)
  BY <1>1, <1>4, <1>5, <1>7, <1>10, FitsStay
<1>12. Built(gs, cs, f.end)
  <2>1. Open(gs, f.end) = Held(fs)
    BY <1>4, <1>5 DEF Open
  <2> QED
    BY <1>4, <1>6, <1>7, <1>8, <1>11, <2>1 DEF Built, Current
<1> QED
  BY <1>9, <1>12 DEF cs, us, f, gs

\* The top of a stack of visits, taken off and put back changed.
LEMMA RetopAppend ==
  ASSUME NEW fs \in Seq(FrameType), fs # <<>>, NEW f \in FrameType
  PROVE  Retop(fs, f) = Append(Pop(fs), f)
<1> DEFINE l == Retop(fs, f)
           p == Pop(fs)
           r == Append(p, f)
<1>1. /\ l \in Seq(FrameType) /\ Len(l) = Len(fs) /\ Len(fs) \in Nat \ {0}
      /\ l[Len(fs)] = f
      /\ \A i \in 1..Len(fs) - 1 : l[i] = fs[i]
      /\ \A i \in 1..Len(fs) : i = Len(fs) \/ i \in 1..Len(fs) - 1
  BY RetopFacts
<1>2. p \in Seq(FrameType) /\ Len(p) = Len(fs) - 1
      /\ \A i \in 1..Len(fs) - 1 : p[i] = fs[i]
  BY PopType
<1> HIDE DEF p, l
<1>3. /\ r \in Seq(FrameType) /\ Len(r) = Len(p) + 1 /\ r[Len(p) + 1] = f
      /\ \A i \in 1..Len(p) : r[i] = p[i]
  BY <1>2
<1> HIDE DEF r
<1>4. Len(r) = Len(l) /\ r[Len(fs)] = f
      /\ \A i \in 1..Len(fs) - 1 : r[i] = fs[i]
  BY <1>1, <1>2, <1>3
<1>5. \A i \in 1..Len(l) : l[i] = r[i]
  BY <1>1, <1>4
<1>6. l = r
  BY <1>1, <1>3, <1>4, <1>5, SeqEqual
<1> QED
  BY <1>6 DEF l, r, p

\* A branch of an if or a switch ends, and the test before the next one is generated:
\* the blocks new are created for what follows it.
LEMMA BuiltBranch ==
  ASSUME NEW fs \in Seq(FrameType), fs # <<>>, NEW bs \in Seq(Block), NEW ins,
         Built(fs, bs, ins), Pop(fs) # <<>>,
         Peek(fs).kind \in Selects, Peek(fs).left > 0,
         NEW s \in Seq(Instruction), Clean(s), HasJump(bs[ins].insts) => Silent(s),
         HasJump(bs[ins].insts) \/ HasJump(s),
         Stays(s, bs[ins].fn, bs, Promised(fs)),
         NEW g \in FrameType, g.kind = Peek(fs).kind, g.fn = Peek(fs).fn,
         g.insert = Peek(fs).insert, g.end = Peek(fs).end, g.cond = Peek(fs).cond,
         g.left = Peek(fs).left - 1,
         NEW new \in Seq(Block), \A i \in 1..Len(new) : new[i] = NewBlock(g.fn),
         Len(new) = IF Peek(fs).left > 1 THEN 2 ELSE 1,
         g.next = IF Peek(fs).left > 1 THEN Len(bs) + 2 ELSE g.end
  PROVE  LET cs == Emit(Emit(bs, ins, s), Peek(fs).next,
                        <<Work, CondBr(Len(bs) + 1, g.next)>>) \o new
         IN  /\ Built(Retop(fs, g), cs, Len(bs) + 1)
             /\ ~HasJump(cs[Len(bs) + 1].insts)
<1> DEFINE f  == Peek(fs)
           hs == Pop(fs)
           gs == Retop(fs, g)
           n  == Len(bs)
           us == Emit(bs, ins, s)
           vs == us \o new
           t  == <<Work, CondBr(n + 1, g.next)>>
           cs == Emit(us, f.next, t) \o new
           P  == Promised(fs)
<1>0. 2 \in 1..2
  OBVIOUS
<1>1. /\ us \in Seq(Block) /\ Len(us) = n /\ Built(fs, us, ins)
      /\ GraphOK(us, Held(fs), P) /\ n \in Nat
  <2> HIDE DEF P, n
  <2>1. /\ us \in Seq(Block) /\ Len(us) = Len(bs) /\ Built(fs, us, ins)
        /\ GraphOK(us, Held(fs), Promised(fs))
    BY BuiltEmitSame
  <2>2. Len(bs) \in Nat
    OBVIOUS
  <2> QED
    BY <2>1, <2>2 DEF P, n
<1> HIDE DEF us
<1>2. /\ f \in FrameType /\ FrameFits(f, us) /\ Held(fs) \subseteq 1..n
      /\ f.left \in Nat /\ f.next \in Nat /\ f.end \in Nat /\ f.fn \in Nat
  <2>1. f \in FrameType /\ FrameFits(f, us) /\ Held(fs) \subseteq 1..n
    BY <1>1, BuiltFacts
  <2> QED
    BY <2>1 DEF FrameType
<1>3. Holds(f) = {f.end, f.next} /\ Promises(f) = {<<f.end, f.fn>>}
  BY DEF Holds, Promises, Inner, Constructs, Loops, Selects
<1>4. /\ hs \in Seq(FrameType) /\ Fits(hs, us) /\ hs # <<>>
      /\ Held(fs) = Held(hs) \cup {f.end, f.next}
      /\ Held(hs) \cap {f.end, f.next} = {}
      /\ P = Promised(hs) \cup {<<f.end, f.fn>>}
      /\ f.insert \in 1..n /\ us[f.insert].fn = FnOf(Peek(hs), us)
  <2>1. Fits(fs, us)
    BY <1>1 DEF Built
  <2>2. /\ hs \in Seq(FrameType) /\ Fits(hs, us)
        /\ Held(fs) = Held(hs) \cup Holds(f) /\ Held(hs) \cap Holds(f) = {}
        /\ Promised(fs) = Promised(hs) \cup Promises(f)
        /\ f.insert \in 1..Len(us) /\ us[f.insert].fn = FnOf(Peek(hs), us)
    BY <2>1, FitsPop
  <2> QED
    BY <1>1, <1>3, <2>2
<1>5. gs = Append(hs, g)
  BY RetopAppend
<1>6. g.kind \in Selects /\ g.kind \in Constructs /\ g.kind \notin Callables
      /\ g.kind \notin Loops /\ g.kind \notin Inner /\ g.kind # "block"
  BY DEF Constructs, Loops, Selects, Callables, Inner
<1> HIDE DEF f, hs, gs, P, n
<1>7. g.fn = f.fn /\ g.end = f.end /\ g.insert = f.insert /\ g.kind = f.kind
      /\ g.left = f.left - 1 /\ f.left > 0
      /\ Len(new) = (IF f.left > 1 THEN 2 ELSE 1)
      /\ g.next = (IF f.left > 1 THEN n + 2 ELSE g.end)
  BY DEF f, n
<1>8. /\ us[f.end] = NewBlock(0) /\ us[f.next] = NewBlock(f.fn)
      /\ f.end \in 1..n /\ f.next \in 1..n
      /\ f.fn = us[f.insert].fn /\ f.fn # 0
  <2>1. f.kind \in Constructs /\ f.kind \in Selects
    BY <1>6, <1>7
  <2>2. f.end \in Held(fs) /\ f.next \in Held(fs)
    BY <1>4
  <2>3. f.kind \notin Callables /\ f.kind # "block"
    BY <1>6, <1>7
  <2>4. us[f.end] = NewBlock(0) /\ us[f.next] = NewBlock(f.fn)
    BY <1>2, <1>7, <2>1 DEF FrameFits
  <2>5. f.fn = FnOf(f, us) /\ FnOf(f, us) # 0
    BY <1>2, <2>3 DEF FrameFits
  <2>6. FnOf(f, us) = us[f.insert].fn
    BY <2>3 DEF FnOf
  <2> QED
    BY <1>2, <2>2, <2>4, <2>5, <2>6
<1>9. f.end # f.next
  <2>1. NewBlock(0).fn = 0 /\ NewBlock(f.fn).fn = f.fn
    BY DEF NewBlock
  <2> QED
    BY <1>8, <2>1
<1>10. /\ vs \in Seq(Block) /\ Len(vs) = n + Len(new) /\ Len(new) \in Nat
       /\ \A c \in 1..n : vs[c] = us[c]
       /\ \A i \in 1..Len(new) : vs[n + i] = new[i]
  BY <1>1, ConcatFields
<1>11. cs = Emit(vs, f.next, t) /\ t \in Seq(Instruction) /\ Clean(t) /\ HasJump(t)
       /\ Targets(t) = {n + 1, g.next}
  <2>1. n + 1 \in Nat /\ g.next \in Nat
    BY <1>1, <1>2, <1>7
  <2>2. /\ CondBr(n + 1, g.next) \in Instruction /\ IsJump(CondBr(n + 1, g.next))
        /\ CondBr(n + 1, g.next).to = {n + 1, g.next}
    BY <2>1, InstructionTypes, InstructionFacts
  <2>3. t \in Seq(Instruction) /\ Clean(t) /\ HasJump(t) /\ Targets(t) = {n + 1, g.next}
    BY <2>2, TestClean
  <2> HIDE DEF t
  <2>4. f.next \in 1..Len(us)
    BY <1>1, <1>8
  <2> QED
    BY <1>1, <2>3, <2>4, EmitConcat
<1> HIDE DEF vs, cs, t
<1>12. Holds(g) = {f.end} \cup (IF f.left > 1 THEN {n + 2} ELSE {})
       /\ Promises(g) = {<<f.end, f.fn>>}
  <2>1. g.left > 0 <=> f.left > 1
    BY <1>2, <1>7
  <2> QED
    BY <1>6, <1>7, <2>1 DEF Holds, Promises
<1> DEFINE rest == {n + 1} \cup Held(hs) \cup Holds(g)
           all  == rest \cup {f.next}
<1>13. GraphOK(vs, all, P)
  <2>1. ASSUME NEW i \in 1..Len(new)
        PROVE  /\ Clean(new[i].insts) /\ n + i \in all /\ Targets(new[i].insts) = {}
    <3>1. new[i].insts = <<>>
      BY DEF NewBlock
    <3>2. i = 1 \/ (i = 2 /\ f.left > 1)
      BY <1>7
    <3>3. n + i \in all
      BY <1>12, <3>2
    <3> QED
      BY <3>1, <3>3, NoneClean
  <2>2. Held(fs) \subseteq all
    BY <1>4, <1>12
  <2> HIDE DEF all
  <2> QED
    BY <1>1, <2>1, <2>2, ConcatOK DEF vs
<1>14. vs[f.next] = NewBlock(f.fn) /\ f.next \in 1..Len(vs)
  BY <1>1, <1>8, <1>10
<1>15. Stays(t, f.fn, vs, P)
  <2>1. n + 1 \in 1..Len(vs) /\ vs[n + 1].fn = f.fn
    <3>1. 1 \in 1..Len(new) /\ new[1].fn = g.fn
      BY <1>7 DEF NewBlock
    <3> QED
      BY <1>1, <1>7, <1>10, <3>1
  <2>2. CASE f.left > 1
    <3>1. 2 \in 1..Len(new) /\ new[2].fn = g.fn
      <4>1. Len(new) = 2
        BY <1>7, <2>2
      <4>2. 2 \in 1..Len(new)
        BY <4>1, <1>0, Zenon
      <4> QED
        BY <4>2 DEF NewBlock
    <3>2. n + 2 \in 1..Len(vs) /\ vs[n + 2].fn = f.fn
      BY <1>1, <1>7, <1>10, <3>1
    <3> QED
      BY <1>7, <1>11, <2>1, <2>2, <3>2 DEF Stays
  <2>3. CASE ~(f.left > 1)
    <3>1. f.end \in 1..Len(vs) /\ <<f.end, f.fn>> \in P
      BY <1>1, <1>4, <1>8, <1>10
    <3> QED
      BY <1>7, <1>11, <2>1, <2>3, <3>1 DEF Stays
  <2> QED
    BY <2>2, <2>3
<1>16. GraphOK(cs, rest, P)
  <2>1. NewBlock(f.fn).fn = f.fn /\ NewBlock(f.fn).insts = <<>>
    BY DEF NewBlock
  <2>2. vs[f.next].fn # 0 /\ ~HasJump(vs[f.next].insts) /\ vs[f.next].fn = f.fn
    BY <1>8, <1>14, <2>1, NoneClean
  <2>3. all \subseteq rest \cup {f.next}
    OBVIOUS
  <2> HIDE DEF all, rest
  <2> QED
    BY <1>10, <1>11, <1>13, <1>14, <1>15, <2>2, <2>3, EmitOK
<1>17. /\ cs \in Seq(Block) /\ Len(cs) = n + Len(new)
       /\ \A c \in 1..n : cs[c].fn = us[c].fn /\ (c # f.next => cs[c] = us[c])
       /\ \A i \in 1..Len(new) : cs[n + i] = new[i]
  <2>1. /\ cs \in Seq(Block) /\ Len(cs) = Len(vs)
        /\ \A c \in 1..Len(vs) : cs[c].fn = vs[c].fn /\ (c # f.next => cs[c] = vs[c])
    BY <1>10, <1>11, <1>14, EmitFields
  <2>2. \A i \in 1..Len(new) : n + i \in 1..Len(vs) /\ n + i # f.next
    BY <1>1, <1>8, <1>10
  <2>3. \A c \in 1..n : c \in 1..Len(vs)
    BY <1>1, <1>10
  <2> QED
    BY <1>10, <2>1, <2>2, <2>3
<1>18. Fits(hs, cs) /\ FnOf(Peek(hs), cs) = FnOf(Peek(hs), us)
  <2>1. Len(us) <= Len(cs)
    BY <1>1, <1>10, <1>17
  <2>2. \A b \in Held(hs) : b \in 1..n /\ b # f.next
    BY <1>2, <1>4
  <2>3. Keeps(us, cs, Held(hs))
    BY <1>1, <1>17, <2>1, <2>2 DEF Keeps
  <2> QED
    BY <1>1, <1>4, <1>17, <2>3, FitsStay
<1>19. /\ FrameFits(g, cs) /\ FnOf(g, cs) = f.fn /\ g.insert \in 1..Len(cs)
       /\ cs[g.insert].fn = FnOf(Peek(hs), cs)
  <2>1. f.insert \in 1..Len(cs) /\ cs[f.insert].fn = us[f.insert].fn
    BY <1>1, <1>4, <1>10, <1>17
  <2>2. FnOf(g, cs) = f.fn
    BY <1>6, <1>7, <1>8, <2>1 DEF FnOf
  <2>3. Holds(g) \subseteq 1..Len(cs)
    BY <1>1, <1>7, <1>8, <1>12, <1>17
  <2>4. cs[f.end] = NewBlock(0)
    BY <1>8, <1>9, <1>17
  <2>5. g.left > 0 => cs[g.next] = NewBlock(g.fn)
    <3> SUFFICES ASSUME g.left > 0 PROVE cs[g.next] = NewBlock(g.fn)
      OBVIOUS
    <3>1. f.left > 1 /\ g.next = n + 2 /\ 2 \in 1..Len(new)
      <4>1. f.left > 1
        BY <1>2, <1>7
      <4>2. Len(new) = 2
        BY <1>7, <4>1
      <4>3. 2 \in 1..Len(new)
        BY <4>2, <1>0, Zenon
      <4> QED
        BY <1>7, <4>1, <4>3
    <3> QED
      BY <1>17, <3>1
  <2>6. FrameFits(g, cs)
    BY <1>6, <1>7, <1>8, <2>1, <2>2, <2>3, <2>4, <2>5 DEF FrameFits
  <2> QED
    BY <1>4, <1>7, <1>18, <2>1, <2>2, <2>6
<1>20. /\ Fits(gs, cs) /\ Peek(gs) = g
       /\ Held(gs) = Held(hs) \cup Holds(g) /\ Promised(gs) = P
  <2>1. Holds(g) \cap Held(hs) = {}
    <3>1. \A b \in Held(hs) : b \in 1..n /\ b # f.end
      BY <1>2, <1>4
    <3> QED
      BY <1>1, <1>12, <3>1
  <2>2. /\ Fits(Append(hs, g), cs) /\ Peek(Append(hs, g)) = g
        /\ Held(Append(hs, g)) = Held(hs) \cup Holds(g)
        /\ Promised(Append(hs, g)) = Promised(hs) \cup Promises(g)
    BY <1>4, <1>17, <1>18, <1>19, <2>1, FitsPush
  <2> QED
    BY <1>4, <1>5, <1>12, <2>2
<1>21. cs[n + 1] = NewBlock(f.fn) /\ n + 1 \in 1..Len(cs)
  <2>1. 1 \in 1..Len(new)
    BY <1>7
  <2> QED
    BY <1>1, <1>7, <1>17, <2>1
<1>22. n + 1 \notin Held(gs) /\ gs # <<>>
  <2>1. n + 1 \notin Held(hs)
    BY <1>1, <1>2, <1>4
  <2>2. n + 1 \notin Holds(g)
    BY <1>1, <1>8, <1>12
  <2>3. gs # <<>>
    BY <1>4, <1>5, Pushed
  <2> QED
    BY <1>20, <2>1, <2>2, <2>3
<1>23. Built(gs, cs, n + 1)
  <2>1. Open(gs, n + 1) = rest
    BY <1>20, <1>22 DEF Open
  <2>2. cs[n + 1].fn = FnOf(g, cs)
    BY <1>19, <1>21 DEF NewBlock
  <2> HIDE DEF rest
  <2> QED
    BY <1>16, <1>20, <1>21, <1>22, <2>1, <2>2 DEF Built, Current
<1>24. ~HasJump(cs[n + 1].insts)
  BY <1>21, NoneClean DEF NewBlock
<1> QED
  BY <1>23, <1>24 DEF cs, t, us, f, gs, n

-----------------------------------------------------------------------------
(* The flags.  has_return_statement and has_break_or_continue_statement    *)
(* stand for "the block being filled has ended with a jump", which is what *)
(* the ends of branches and loops ask of them.  j, r and b are the jump    *)
(* and the two flags.  Where there are lambdas, or functions made by the   *)
(* value of a return, the first flag says nothing (the one leaves it set,  *)
(* the other resets it), and only an if and a switch read it.              *)

Clear(j, r, b) == ~j /\ ~b /\ (FlagHolds => ~r)

\* A statement may follow, or the value of a return is evaluated.
Begun(f, j, r, b) ==
  IF f.returning THEN ~j /\ ~b /\ (FlagHolds => r) ELSE Clear(j, r, b)

\* The body of f is done, or the block that is its body has seen a jump.
Over(f, j, r, b) ==
  /\ f.kind \in Selects   => (j <=> r \/ b) /\ (b => f.left = 0)
  /\ f.kind \in Loops     => (j <=> b) /\ (FlagHolds => ~r)
  /\ f.kind \in Callables => j /\ ~b

Status(fs, j, r, b) ==
  /\ fs = <<>> => ~b /\ (FlagHolds => ~r)
  /\ fs # <<>> /\ Peek(fs).open => Begun(Peek(fs), j, r, b)
  /\ fs # <<>> /\ ~Peek(fs).open /\ Peek(fs).kind # "block" =>
       Over(Peek(fs), j, r, b)
  /\ fs # <<>> /\ ~Peek(fs).open /\ Peek(fs).kind = "block" =>
       /\ j /\ (Peek(fs).should_execute_defers => Peek(fs).declared = <<>>)
       /\ fs[Len(fs) - 1].kind # "block" /\ Over(fs[Len(fs) - 1], TRUE, r, b)

Jumped == frames # <<>> /\ HasJump(blocks[insert].insts)

ClosedInv ==
  /\ LoopInv
  /\ KindsOK(frames) /\ DeclaredOK(frames, defer_calls_stack)
  /\ Built(frames, blocks, insert)
  /\ Status(frames, Jumped, has_return_statement, has_break_or_continue_statement)

\* What the programs must not have, each because the visitors get it wrong: a jump
\* out of two loops; a jump before another branch, or out of a block that has seen
\* a defer; a return in the body of a loop; a return or a jump in a block of a block;
\* and where there is an if or a switch a lambda, which leaves the flag of the return
\* as it finds it, or a function made by the value of a return, which takes it away.
Tame ==
  /\ Times = {1} /\ ~FreeJumps
  /\ "return" \notin Unbraced \/ NoLoop
  /\ ReturnIn \subseteq Selects /\ JumpIn \subseteq Loops \cup Selects
  /\ FlagHolds \/ Statements \cap Selects = {}

-----------------------------------------------------------------------------
(* What the invariant says of the innermost visit.                         *)

LEMMA TopFacts ==
  ASSUME ClosedInv, frames # <<>>
  PROVE  /\ TypeInv /\ frames \in Seq(FrameType) /\ blocks \in Seq(Block)
         /\ top \in FrameType /\ top = Peek(frames) /\ Len(frames) \in Nat \ {0}
         /\ top = frames[Len(frames)]
         /\ defer_calls_stack \in DeferStacks /\ Len(defer_calls_stack) \in Nat \ {0}
         /\ Len(defer_calls_stack) = DepthIn(top)
         /\ Peek(defer_calls_stack) \in Seq(Seq(DeferCall))
         /\ Peek(defer_calls_stack) = defer_calls_stack[Len(defer_calls_stack)]
         /\ Len(Peek(defer_calls_stack)) = ScopesIn(top)
         /\ insert \in 1..Len(blocks) /\ Len(blocks) \in Nat
         /\ CurrentFunction = blocks[insert].fn /\ CurrentFunction \in Nat \ {0}
         /\ Jumped <=> HasJump(blocks[insert].insts)
         /\ Pop(frames) = <<>> <=> top.kind = "function"
<1>1. /\ TypeInv /\ frames \in Seq(FrameType) /\ blocks \in Seq(Block)
  BY DEF ClosedInv, LoopInv, TypeInv, TypeOK
<1>2. /\ top \in FrameType /\ top = Peek(frames) /\ Len(frames) \in Nat \ {0}
      /\ top = frames[Len(frames)]
      /\ defer_calls_stack \in DeferStacks /\ Len(defer_calls_stack) \in Nat \ {0}
      /\ Len(defer_calls_stack) = DepthIn(top)
      /\ Peek(defer_calls_stack) \in Seq(Seq(DeferCall))
      /\ Len(Peek(defer_calls_stack)) = ScopesIn(top)
  <2>1. Len(frames) \in Nat \ {0}
    BY <1>1
  <2> QED
    BY <1>1, <2>1, VisitFacts DEF top, Peek
<1>3. /\ insert \in 1..Len(blocks) /\ Len(blocks) \in Nat
      /\ blocks[insert].fn \in Nat \ {0}
  <2>1. Built(frames, blocks, insert)
    BY DEF ClosedInv
  <2> QED
    BY <1>1, <2>1, BuiltFacts
<1>4. Pop(frames) = <<>> <=> top.kind = "function"
  BY <1>1, <1>2, KindsPop DEF ClosedInv
<1>5. Peek(defer_calls_stack) = defer_calls_stack[Len(defer_calls_stack)]
  BY DEF Peek
<1>6. Jumped <=> HasJump(blocks[insert].insts)
  BY DEF Jumped
<1>7. CurrentFunction = blocks[insert].fn
  BY DEF CurrentFunction
<1> QED
  BY <1>1, <1>2, <1>3, <1>4, <1>5, <1>6, <1>7

\* Where a statement may follow, or a function be made, the block has not been left.
LEMMA OpenClear ==
  ASSUME ClosedInv, frames # <<>>, top.open
  PROVE  /\ ~Jumped /\ ~HasJump(blocks[insert].insts)
         /\ ~has_break_or_continue_statement
         /\ FlagHolds => (has_return_statement <=> top.returning)
<1>1. top \in FrameType
  BY TopFacts
<1>2. top.returning \in BOOLEAN /\ has_return_statement \in BOOLEAN
  BY <1>1 DEF FrameType, ClosedInv, LoopInv, TypeInv, TypeOK
<1> QED
  BY <1>2 DEF ClosedInv, Status, Begun, Clear, top, Jumped

\* A statement is visited where no return is, a function anywhere it is named.
LEMMA StatementVisit ==
  ASSUME NEW s, Visits(s), s \notin Inner
  PROVE  /\ frames # <<>> /\ top.open /\ ~top.returning /\ top.kind \notin Callables
         /\ top.kind # "block" => top.kind \in Constructs
<1>1. ~top.returning
  BY BoundsAssumption DEF Visits, Inner
<1>2. top.kind # "block" => top.kind \in Constructs
  BY <1>1 DEF Visits, Constructs
<1> QED
  BY <1>1, <1>2 DEF Visits, Constructs, Callables, Loops, Selects

LEMMA InnerVisit ==
  ASSUME NEW s, Visits(s)
  PROVE  /\ frames # <<>> /\ top.open /\ s \in Statements
         /\ top.kind \in Callables => top.returning
         /\ top.returning => ~FlagHolds
         /\ s = "lambda" => ~FlagHolds
<1>1. top.kind \in Callables => top.returning
  BY DEF Visits, Callables, Loops, Selects
<1>2. top.returning => ReturnMakes # {}
  BY DEF Visits
<1> QED
  BY <1>1, <1>2 DEF Visits, FlagHolds

\* The innermost frame with another field open.
Opened(f, o) == [f EXCEPT !.open = o]

LEMMA OpenedFacts ==
  ASSUME NEW f \in FrameType, NEW o \in BOOLEAN
  PROVE  /\ Opened(f, o) \in FrameType /\ SameBlocks(f, Opened(f, o))
         /\ Opened(f, o).open = o /\ Opened(f, o).kind = f.kind
         /\ Opened(f, o).depth = f.depth /\ Opened(f, o).scopes = f.scopes
         /\ Opened(f, o).declared = f.declared /\ Opened(f, o).left = f.left
         /\ Opened(f, o).should_execute_defers = f.should_execute_defers
         /\ Opened(f, o).returning = f.returning
BY DEF Opened, FrameType, SameBlocks

\* The same frame at the two ends of a return.
WithReturn(f) == [f EXCEPT !.returning = TRUE, !.should_execute_defers = FALSE]
WithoutReturn(f)   == [f EXCEPT !.returning = FALSE, !.open = FALSE]

LEMMA ReturnFrames ==
  ASSUME NEW f \in FrameType, NEW g \in {WithReturn(f), WithoutReturn(f)}
  PROVE  /\ g \in FrameType /\ SameBlocks(f, g) /\ g.kind = f.kind
         /\ g.depth = f.depth /\ g.scopes = f.scopes /\ g.declared = f.declared
         /\ g = WithReturn(f) =>
              g.returning /\ g.open = f.open /\ ~g.should_execute_defers
         /\ g = WithoutReturn(f) =>
              /\ ~g.returning /\ ~g.open
              /\ g.should_execute_defers = f.should_execute_defers
<1>1. CASE g = WithReturn(f)
  BY <1>1 DEF WithReturn, WithoutReturn, FrameType, SameBlocks
<1>2. CASE g = WithoutReturn(f)
  BY <1>2 DEF WithReturn, WithoutReturn, FrameType, SameBlocks
<1> QED
  BY <1>1, <1>2

LEMMA VisitingRetop ==
  ASSUME frames \in Seq(FrameType), frames # <<>>
  PROVE  /\ Visiting = Retop(frames, Opened(top, Resumes(top)))
         /\ Closed = Retop(frames, Opened(top, FALSE))
         /\ Returning = Retop(frames, WithReturn(top))
         /\ Returned = Retop(frames, WithoutReturn(top))
<1>1. Visiting = Retop(frames, Opened(top, Resumes(top)))
  BY DEF Visiting, Resumes, Retop, Opened, top, Peek
<1>2. Closed = Retop(frames, Opened(top, FALSE))
  BY DEF Closed, Retop, Opened, top, Peek
<1>3. Returning = Retop(frames, WithReturn(top))
  BY DEF Returning, Retop, WithReturn
<1>4. Returned = Retop(frames, WithoutReturn(top))
  BY DEF Returned, Retop, WithoutReturn
<1> QED
  BY <1>1, <1>2, <1>3, <1>4

\* A return that waits for its value is still the last statement.
LEMMA WaitingReturns ==
  ASSUME ClosedInv, frames # <<>>
  PROVE  /\ ReturnsIn(frames, Len(frames), top)
         /\ ReturnsIn(frames, Len(frames), Opened(top, Resumes(top)))
<1>1. top \in FrameType /\ top = frames[Len(frames)] /\ Len(frames) \in 1..Len(frames)
  BY TopFacts
<1>2. ReturnsIn(frames, Len(frames), top)
  BY <1>1 DEF ClosedInv, KindsOK
<1>3. Resumes(top) \in BOOLEAN
  BY <1>1 DEF Resumes, FrameType
<1>4. /\ Opened(top, Resumes(top)).open = Resumes(top)
      /\ Opened(top, Resumes(top)).returning = top.returning
      /\ Opened(top, Resumes(top)).should_execute_defers = top.should_execute_defers
  BY <1>1, <1>3, OpenedFacts
<1> QED
  BY <1>2, <1>4 DEF ReturnsIn, Resumes

\* The visits with the one on top replaced by another with the same blocks.
LEMMA RetopSame ==
  ASSUME NEW fs \in Seq(FrameType), fs # <<>>, NEW f \in FrameType,
         SameBlocks(Peek(fs), f)
  PROVE  \A i \in 1..Len(fs) : SameBlocks(fs[i], Retop(fs, f)[i])
<1>1. /\ Retop(fs, f)[Len(fs)] = f
      /\ \A i \in 1..Len(fs) - 1 : Retop(fs, f)[i] = fs[i]
      /\ \A i \in 1..Len(fs) : i = Len(fs) \/ i \in 1..Len(fs) - 1
  BY RetopFacts
<1>2. \A i \in 1..Len(fs) - 1 : SameBlocks(fs[i], Retop(fs, f)[i])
  BY <1>1 DEF SameBlocks
<1>3. SameBlocks(fs[Len(fs)], Retop(fs, f)[Len(fs)])
  BY <1>1 DEF Peek
<1> QED
  BY <1>1, <1>2, <1>3

LEMMA KindsSame ==
  ASSUME NEW fs \in Seq(FrameType), NEW gs \in Seq(FrameType), KindsOK(fs),
         Len(gs) = Len(fs),
         \A i \in 1..Len(fs) :
           /\ SameBlocks(fs[i], gs[i]) /\ gs[i].returning = fs[i].returning
           /\ gs[i].should_execute_defers = fs[i].should_execute_defers
           /\ gs[i].open = fs[i].open \/ (i = Len(fs) /\ ~fs[i].returning)
  PROVE  KindsOK(gs)
<1>1. \A i \in 1..Len(fs) : gs[i].kind = fs[i].kind
  BY DEF SameBlocks
<1>2. \A i \in 1..Len(fs) - 1 : i \in 1..Len(fs) /\ i + 1 \in 1..Len(fs) /\ i # Len(fs)
  OBVIOUS
<1>3. \A i \in 1..Len(gs) : /\ gs[i].kind = "function" <=> i = 1
                            /\ gs[i].kind \in Selects => FlagHolds
                            /\ gs[i].kind = "lambda" => ~FlagHolds
                            /\ gs[i].kind \in Loops => ~NoLoop
  BY <1>1 DEF KindsOK
<1>4. \A i \in 1..Len(gs) - 1 :
        /\ gs[i].open <=> Resumes(gs[i])
        /\ Owns(gs[i], gs[i + 1])
  BY <1>1, <1>2 DEF KindsOK, Resumes, Owns
<1>5. ASSUME NEW i \in 1..Len(gs) PROVE ReturnsIn(gs, i, gs[i])
  <2>1. ReturnsIn(fs, i, fs[i]) /\ Len(fs) \in Nat
    BY DEF KindsOK
  <2>2. LastIn(fs, i) => LastIn(gs, i)
    BY <1>1, <2>1, LastSame
  <2> QED
    BY <2>1, <2>2 DEF ReturnsIn
<1> QED
  BY <1>3, <1>4, <1>5 DEF KindsOK

\* The defers of the visits below the innermost one, when its own scope changes or
\* goes: they are in other scopes.
LEMMA BelowTop ==
  ASSUME ClosedInv, NEW i \in 1..Len(frames), frames[i].kind = "block",
         NEW m \in 1..Len(frames), i < m
  PROVE  /\ DepthIn(frames[i]) \in 1..Len(defer_calls_stack)
         /\ ScopesIn(frames[i]) \in 1..Len(defer_calls_stack[DepthIn(frames[i])])
         /\ \/ DepthIn(frames[i]) < frames[m].depth
            \/ DepthIn(frames[i]) = frames[m].depth
               /\ ScopesIn(frames[i]) <= frames[m].scopes
         /\ frames[i].declared = <<>> =>
              defer_calls_stack[DepthIn(frames[i])][ScopesIn(frames[i])] = <<>>
<1>1. Undeclared(frames[i], defer_calls_stack) /\ Below(frames[i], frames[m])
  BY DEF ClosedInv, DeclaredOK
<1> QED
  BY <1>1 DEF Undeclared, Below

-----------------------------------------------------------------------------
(* The steps that begin and end no visit.                                  *)

ClosedKept ==
  /\ KindsOK(frames') /\ DeclaredOK(frames', defer_calls_stack')
  /\ Built(frames', blocks', insert')
  /\ Status(frames', Jumped', has_return_statement', has_break_or_continue_statement')

\* Code is emitted where the visit is.
LEMMA EmitStep ==
  ASSUME ClosedInv, frames # <<>>, NEW gs \in Seq(FrameType), Len(gs) = Len(frames),
         \A i \in 1..Len(frames) : SameBlocks(frames[i], gs[i]),
         KindsOK(gs), frames' = gs,
         NEW s \in Seq(Instruction), Clean(s), Jumped => Silent(s),
         Stays(s, blocks[insert].fn, blocks, Promised(frames)),
         blocks' = Emit(blocks, insert, s), insert' = insert
  PROVE  /\ KindsOK(frames') /\ Built(frames', blocks', insert') /\ frames' # <<>>
         /\ Jumped' <=> Jumped \/ HasJump(s)
<1>1. /\ frames \in Seq(FrameType) /\ blocks \in Seq(Block)
      /\ Built(frames, blocks, insert)
      /\ Jumped <=> HasJump(blocks[insert].insts)
      /\ Len(frames) \in Nat \ {0}
  BY TopFacts DEF ClosedInv
<1>2. KindsOK(gs)
  OBVIOUS
<1>3. HasJump(blocks[insert].insts) => Silent(s)
  BY <1>1
<1>4. /\ Built(gs, blocks', insert)
      /\ HasJump(blocks'[insert].insts) <=> HasJump(blocks[insert].insts) \/ HasJump(s)
  <2>1. /\ Built(gs, Emit(blocks, insert, s), insert)
        /\ HasJump(Emit(blocks, insert, s)[insert].insts)
             <=> HasJump(blocks[insert].insts) \/ HasJump(s)
    BY <1>1, <1>3, BuiltEmit
  <2> QED
    BY <2>1
<1>5. frames' # <<>>
  <2>1. gs # <<>>
    BY <1>1
  <2> QED
    BY <2>1
<1>6. Jumped' <=> HasJump(blocks'[insert].insts)
  BY <1>5 DEF Jumped
<1> QED
  BY <1>1, <1>2, <1>4, <1>5, <1>6

\* And the innermost frame changes, but for its blocks and its scope.
LEMMA RetopStep ==
  ASSUME ClosedInv, frames # <<>>, NEW f \in FrameType, SameBlocks(top, f),
         f.depth = top.depth, f.scopes = top.scopes, f.declared = top.declared,
         ReturnsIn(frames, Len(frames), f), frames' = Retop(frames, f), defer_calls_stack' = defer_calls_stack,
         NEW s \in Seq(Instruction), Clean(s), Jumped => Silent(s),
         Stays(s, blocks[insert].fn, blocks, Promised(frames)),
         blocks' = Emit(blocks, insert, s), insert' = insert
  PROVE  /\ KindsOK(frames') /\ DeclaredOK(frames', defer_calls_stack')
         /\ Built(frames', blocks', insert') /\ frames' # <<>>
         /\ Jumped' <=> Jumped \/ HasJump(s)
         /\ Peek(frames') = f /\ Len(frames') = Len(frames)
         /\ Len(frames) > 1 => frames'[Len(frames) - 1] = frames[Len(frames) - 1]
<1>1. /\ frames \in Seq(FrameType) /\ top = Peek(frames) /\ top \in FrameType
      /\ DeclaredOK(frames, defer_calls_stack) /\ Len(frames) \in Nat \ {0}
      /\ top = frames[Len(frames)]
  BY TopFacts DEF ClosedInv
<1> DEFINE gs == Retop(frames, f)
<1>2. /\ gs \in Seq(FrameType) /\ Len(gs) = Len(frames) /\ Peek(gs) = f
      /\ \A i \in 1..Len(frames) - 1 : gs[i] = frames[i]
  BY ZenonT(40), <1>1, RetopFacts
<1>3. \A i \in 1..Len(frames) : SameBlocks(frames[i], gs[i])
  BY <1>1, RetopSame
<1>4. DeclaredOK(gs, defer_calls_stack)
  <2>1. Undeclared(top, defer_calls_stack)
        /\ \A i \in 1..Len(frames) - 1 : Undeclared(frames[i], defer_calls_stack)
    BY <1>1 DEF DeclaredOK
  <2>2. Undeclared(f, defer_calls_stack)
    BY <2>1 DEF Undeclared, SameBlocks, DepthIn, ScopesIn
  <2>3. f.kind = top.kind
    BY DEF SameBlocks
  <2> QED
    BY <1>1, <2>1, <2>2, <2>3, DeclaredRetop
<1>5. KindsOK(gs)
  <2>1. f.kind = top.kind /\ KindsOK(frames)
    BY DEF SameBlocks, ClosedInv
  <2> QED
    BY <1>1, <2>1, KindsRetop
<1> HIDE DEF gs
<1>6. /\ KindsOK(frames') /\ Built(frames', blocks', insert') /\ frames' # <<>>
      /\ Jumped' <=> Jumped \/ HasJump(s)
  <2>1. frames' = gs
    BY DEF gs
  <2> QED
    BY <1>2, <1>3, <1>5, <2>1, EmitStep
<1>7. Len(frames) > 1 => Len(frames) - 1 \in 1..Len(frames) - 1
  BY <1>1
<1> QED
  BY <1>2, <1>4, <1>6, <1>7 DEF gs

\* A statement that leaves code and no jump, in a block or as a body of its own.
LEMMA PlainKept ==
  ASSUME ClosedInv, frames # <<>>, top.open, top.kind \in Callables => top.returning,
         frames' = Visiting, defer_calls_stack' = defer_calls_stack,
         blocks' = Emit(blocks, insert, <<Work>>), insert' = insert,
         UNCHANGED flags
  PROVE  ClosedKept
<1> DEFINE o == Resumes(top)
           f == Opened(top, o)
<1>1. frames \in Seq(FrameType) /\ top \in FrameType /\ KindsOK(frames)
      /\ top.returning \in BOOLEAN /\ o \in BOOLEAN /\ top = Peek(frames)
  BY TopFacts DEF ClosedInv, FrameType, Resumes
<1>2. frames' = Retop(frames, f)
  BY <1>1, VisitingRetop
<1>3. /\ f \in FrameType /\ SameBlocks(top, f) /\ f.kind = top.kind
      /\ f.depth = top.depth /\ f.scopes = top.scopes
      /\ f.declared = top.declared /\ f.open = o /\ f.returning = top.returning
  BY <1>1, OpenedFacts
<1>4. ReturnsIn(frames, Len(frames), f)
  BY WaitingReturns
<1> HIDE DEF f, o
<1>5. /\ <<Work>> \in Seq(Instruction) /\ Clean(<<Work>>) /\ ~HasJump(<<Work>>)
      /\ Targets(<<Work>>) = {}
  BY InstructionTypes, InstructionFacts, OneClean
<1>6. ~Jumped /\ ~has_break_or_continue_statement
      /\ (FlagHolds => (has_return_statement <=> top.returning))
  BY OpenClear
<1>7. Stays(<<Work>>, blocks[insert].fn, blocks, Promised(frames))
  BY <1>5 DEF Stays
<1>8. /\ KindsOK(frames') /\ DeclaredOK(frames', defer_calls_stack')
      /\ Built(frames', blocks', insert') /\ frames' # <<>>
      /\ Jumped' <=> Jumped \/ HasJump(<<Work>>)
      /\ Peek(frames') = f
  BY <1>2, <1>3, <1>5, <1>6, <1>7, <1>4, RetopStep
<1>9. ~Jumped' /\ ~has_break_or_continue_statement'
      /\ (FlagHolds => (has_return_statement' <=> f.returning))
  BY <1>3, <1>5, <1>6, <1>8 DEF flags
<1>10. f.kind \in Selects => FlagHolds
  <2>1. Len(frames) \in 1..Len(frames) /\ top = frames[Len(frames)]
    BY <1>1 DEF Peek
  <2> QED
    BY <1>3, <2>1 DEF ClosedInv, KindsOK
<1>11. Status(frames', Jumped', has_return_statement',
              has_break_or_continue_statement')
  <2>1. o <=> f.kind = "block" \/ f.returning
    BY <1>3 DEF o, Resumes
  <2>2. CASE f.returning
    BY <1>3, <1>8, <1>9, <2>1, <2>2 DEF Status, Begun
  <2>3. CASE ~f.returning
    BY <1>3, <1>8, <1>9, <1>10, <2>1, <2>3 DEF Status, Begun, Clear, Over
  <2> QED
    BY <2>2, <2>3
<1> QED
  BY <1>8, <1>11 DEF ClosedKept

\* Inside a block there is a visit around it.
LEMMA BlockParent ==
  ASSUME ClosedInv, frames # <<>>, top.kind # "function"
  PROVE  /\ Len(frames) > 1 /\ Parent = frames[Len(frames) - 1]
         /\ Parent \in FrameType /\ Len(frames) - 1 \in 1..Len(frames) - 1
         /\ Parent.open <=> Resumes(Parent)
         /\ Owns(Parent, top)
         /\ Parent.kind \in Selects => FlagHolds
<1>1. /\ frames \in Seq(FrameType) /\ Len(frames) \in Nat \ {0}
      /\ top = frames[Len(frames)] /\ KindsOK(frames)
  BY TopFacts DEF ClosedInv
<1>2. Len(frames) # 1
  BY <1>1 DEF KindsOK
<1>3. Len(frames) - 1 \in 1..Len(frames) - 1 /\ Len(frames) - 1 \in 1..Len(frames)
      /\ (Len(frames) - 1) + 1 = Len(frames) /\ Len(frames) > 1
  <2> DEFINE n == Len(frames)
  <2>1. n \in Nat \ {0} /\ n # 1
    BY <1>1, <1>2
  <2> HIDE DEF n
  <2>2. n - 1 \in 1..n - 1 /\ n - 1 \in 1..n /\ (n - 1) + 1 = n /\ n > 1
    BY <2>1
  <2> QED
    BY <2>2 DEF n
<1>4. /\ Parent.open <=> Resumes(Parent)
      /\ Owns(Parent, frames[(Len(frames) - 1) + 1])
      /\ Parent.kind \in Selects => FlagHolds
  BY <1>1, <1>3 DEF KindsOK, Parent
<1>5. Parent \in FrameType
  BY <1>1, <1>3 DEF Parent
<1> QED
  BY <1>1, <1>2, <1>3, <1>4, <1>5 DEF Parent

\* A return begins: its defers are run, which is no jump, and its flag is set.
LEMMA EnterReturnKept ==
  ASSUME ClosedInv, Tame, EnterReturn
  PROVE  ClosedKept
<1> DEFINE f == WithReturn(top)
           s == IF top.kind = "block"
                THEN execute_all_defer_calls(Peek(defer_calls_stack)) ELSE <<>>
<1>1. /\ frames # <<>> /\ top.open /\ has_return_statement' = TRUE
      /\ blocks' = Emit(blocks, insert, s) /\ frames' = Returning
      /\ insert' = insert /\ defer_calls_stack' = defer_calls_stack
      /\ has_break_or_continue_statement' = has_break_or_continue_statement
  BY DEF EnterReturn, tables
<1>2. /\ frames \in Seq(FrameType) /\ top \in FrameType
      /\ Peek(defer_calls_stack) \in Seq(Seq(DeferCall))
  BY <1>1, TopFacts
<1>3. s \in Seq(Instruction) /\ Clean(s) /\ ~HasJump(s) /\ Targets(s) = {}
  BY <1>2, DefersClean, NoneClean
<1> HIDE DEF s
<1>4. /\ f \in FrameType /\ SameBlocks(top, f) /\ f.open /\ f.returning
      /\ f.depth = top.depth /\ f.scopes = top.scopes /\ f.declared = top.declared
  BY <1>1, <1>2, ReturnFrames
<1>5. frames' = Retop(frames, f)
  BY <1>1, <1>2, VisitingRetop
<1>6. ReturnsIn(frames, Len(frames), f)
  <2>1. /\ Len(frames) \in 1..Len(frames) /\ Len(frames) \in Nat \ {0}
        /\ top = frames[Len(frames)] /\ Parent = frames[Len(frames) - 1]
    BY <1>1, TopFacts DEF Parent
  <2>2. CASE top.kind = "block"
    <3>1. Len(frames) > 1
      BY <1>1, <2>2, BlockParent
    <3>2. Parent.kind \in EndWithReturn
      BY <1>1, <2>2 DEF EnterReturn, IsLast, Tame, EndWithReturn
    <3> QED
      BY <1>2, <1>4, <2>1, <2>2, <3>1, <3>2, ReturnFrames DEF ReturnsIn, LastIn
  <2>3. CASE top.kind # "block"
    <3>1. top.kind \in Loops => ~NoLoop
      BY <2>1 DEF ClosedInv, KindsOK
    <3>2. top.kind \in EndWithReturn
      BY <2>3, <3>1 DEF EnterReturn, IsLast, Tame, Visits, EndWithReturn, Callables
    <3> QED
      BY <1>2, <1>4, <2>1, <3>2, ReturnFrames DEF ReturnsIn, LastIn
  <2> QED
    BY <2>2, <2>3
<1> HIDE DEF f
<1>7. ~Jumped /\ ~has_break_or_continue_statement
  BY <1>1, OpenClear
<1>8. Stays(s, blocks[insert].fn, blocks, Promised(frames))
  BY <1>3 DEF Stays
<1>9. /\ KindsOK(frames') /\ DeclaredOK(frames', defer_calls_stack')
      /\ Built(frames', blocks', insert') /\ frames' # <<>>
      /\ Jumped' <=> Jumped \/ HasJump(s)
      /\ Peek(frames') = f
  BY <1>1, <1>3, <1>4, <1>5, <1>7, <1>8, <1>6, RetopStep
<1>10. Status(frames', Jumped', has_return_statement', has_break_or_continue_statement')
  BY <1>1, <1>3, <1>4, <1>7, <1>9 DEF Status, Begun
<1> QED
  BY <1>9, <1>10 DEF ClosedKept

\* It ends: its value has left the block where it was, and the flag too where a branch
\* will ask for it.
LEMMA LeaveReturnKept ==
  ASSUME ClosedInv, LeaveReturn
  PROVE  ClosedKept
<1> DEFINE f == WithoutReturn(top)
           s == <<Ret>>
<1>1. /\ frames # <<>> /\ top.returning
      /\ blocks' = Emit(blocks, insert, s) /\ frames' = Returned
      /\ insert' = insert /\ defer_calls_stack' = defer_calls_stack
      /\ has_return_statement' = has_return_statement
      /\ has_break_or_continue_statement' = has_break_or_continue_statement
  BY DEF LeaveReturn, tables, flags
<1>2. /\ frames \in Seq(FrameType) /\ top \in FrameType
      /\ Len(frames) \in Nat \ {0} /\ top = frames[Len(frames)]
  BY <1>1, TopFacts
<1>3. s \in Seq(Instruction) /\ Clean(s) /\ HasJump(s) /\ Targets(s) = {}
  BY InstructionTypes, InstructionFacts, OneClean
<1> HIDE DEF s
<1>4. Len(frames) \in 1..Len(frames)
  BY <1>2
<1>5. /\ top.open /\ ~top.should_execute_defers
      /\ \/ top.kind \in EndWithReturn
         \/ /\ top.kind = "block" /\ Len(frames) > 1
            /\ frames[Len(frames) - 1].kind \in EndWithReturn
  BY <1>1, <1>2, WaitingReturns DEF ReturnsIn, LastIn
<1>6. /\ ~Jumped /\ ~has_break_or_continue_statement
      /\ FlagHolds => has_return_statement
  BY <1>1, <1>5, OpenClear
<1>7. /\ f \in FrameType /\ SameBlocks(top, f) /\ ~f.open /\ ~f.should_execute_defers
      /\ f.depth = top.depth /\ f.scopes = top.scopes /\ f.declared = top.declared
      /\ f.kind = top.kind /\ ReturnsIn(frames, Len(frames), f)
  BY <1>2, <1>5, ReturnFrames DEF ReturnsIn
<1>8. frames' = Retop(frames, f)
  BY <1>1, <1>2, VisitingRetop
<1> HIDE DEF f
<1>9. Stays(s, blocks[insert].fn, blocks, Promised(frames))
  BY <1>3 DEF Stays
<1>10. /\ KindsOK(frames') /\ DeclaredOK(frames', defer_calls_stack')
       /\ Built(frames', blocks', insert') /\ frames' # <<>>
       /\ Jumped' <=> Jumped \/ HasJump(s)
       /\ Peek(frames') = f /\ Len(frames') = Len(frames)
       /\ Len(frames) > 1 => frames'[Len(frames) - 1] = frames[Len(frames) - 1]
  BY <1>1, <1>3, <1>6, <1>7, <1>8, <1>9, RetopStep
<1>11. /\ Jumped' = TRUE /\ ~has_break_or_continue_statement'
       /\ FlagHolds => has_return_statement'
  <2>1. Jumped' \in BOOLEAN /\ Jumped'
    BY <1>3, <1>10 DEF Jumped
  <2> QED
    BY <1>1, <1>6, <2>1
<1>12. ASSUME NEW k \in 1..Len(frames), NEW g, g.kind = frames[k].kind,
              frames[k].kind \in EndWithReturn
       PROVE  /\ Over(g, TRUE, has_return_statement', has_break_or_continue_statement')
              /\ g.kind # "block"
  <2>1. g.kind \in Selects => FlagHolds
    BY <1>12 DEF ClosedInv, KindsOK
  <2> QED
    BY <1>11, <1>12, <2>1 DEF Over, EndWithReturn, Callables, Selects, Loops
<1>13. CASE top.kind = "block"
  <2>1. /\ Len(frames) > 1 /\ Len(frames) - 1 \in 1..Len(frames)
        /\ frames[Len(frames) - 1].kind \in EndWithReturn
    BY <1>2, <1>5, <1>13 DEF EndWithReturn, Callables, Selects
  <2>2. frames'[Len(frames') - 1] = frames[Len(frames) - 1]
    BY <1>10, <2>1
  <2>3. /\ Over(frames'[Len(frames') - 1], TRUE, has_return_statement',
                has_break_or_continue_statement')
        /\ frames'[Len(frames') - 1].kind # "block"
    BY <1>12, <2>1, <2>2
  <2>4. Status(frames', Jumped', has_return_statement',
               has_break_or_continue_statement')
    BY <1>7, <1>10, <1>11, <1>13, <2>3 DEF Status
  <2> QED
    BY <1>10, <2>4 DEF ClosedKept
<1>14. CASE top.kind # "block"
  <2>1. Over(f, Jumped', has_return_statement', has_break_or_continue_statement')
    BY <1>2, <1>4, <1>5, <1>7, <1>11, <1>12, <1>14
  <2>2. Status(frames', Jumped', has_return_statement',
               has_break_or_continue_statement')
    BY <1>7, <1>10, <1>14, <2>1 DEF Status
  <2> QED
    BY <1>10, <2>2 DEF ClosedKept
<1> QED
  BY <1>13, <1>14

-----------------------------------------------------------------------------
(* Jumps of one level.                                                     *)

\* A set of positions that is not empty has a last one.
LEMMA LastOf ==
  ASSUME NEW n \in Nat, NEW T \in SUBSET (1..n), T # {}
  PROVE  \E i \in T : \A j \in T : j <= i
<1> DEFINE U == {n - i : i \in T}
<1>1. U \subseteq Nat /\ U # {}
  <2>1. \A i \in T : n - i \in Nat
    OBVIOUS
  <2> QED
    BY <2>1
<1>2. PICK x \in U : \A y \in U : ~(<<y, x>> \in OpToRel(<, Nat))
  BY <1>1, WFMin, NatLessThanWellFounded
<1>3. PICK i \in T : x = n - i
  OBVIOUS
<1>4. ASSUME NEW j \in T PROVE j <= i
  <2>1. n - j \in U /\ n - j \in Nat /\ x \in Nat
    BY <1>1
  <2>2. ~(n - j < x)
    BY <1>2, <2>1 DEF OpToRel
  <2> QED
    BY <1>3, <2>2
<1> QED
  BY <1>4

\* Where a jump is allowed there is an innermost loop.
LEMMA InnermostLoop ==
  ASSUME ClosedInv, 1 <= Cardinality(OpenLoops)
  PROVE  \E i \in OpenLoops : NthLoop(1, i)
<1>1. Len(frames) \in Nat /\ OpenLoops \in SUBSET (1..Len(frames))
  BY DEF ClosedInv, LoopInv, TypeInv, TypeOK, OpenLoops
<1>2. OpenLoops # {}
  <2>1. ASSUME OpenLoops = {} PROVE FALSE
    <3>1. Cardinality(OpenLoops) = 0
      BY <2>1, FS_EmptySet, Zenon
    <3> QED
      BY <3>1
  <2> QED
    BY <2>1
<1>3. PICK i \in OpenLoops : \A j \in OpenLoops : j <= i
  <2> HIDE DEF OpenLoops
  <2> QED
    BY <1>1, <1>2, LastOf
<1>4. {j \in OpenLoops : i <= j} = {i}
  <2>1. \A j \in OpenLoops : j \in Nat
    BY <1>1
  <2>2. \A j \in OpenLoops : i <= j <=> j = i
    BY <1>3, <2>1
  <2> HIDE DEF OpenLoops
  <2> QED
    BY <2>2
<1>5. Cardinality({i}) = 1
  BY FS_Singleton
<1>6. Cardinality({j \in OpenLoops : i <= j}) = 1
  BY <1>4, <1>5, Zenon
<1> QED
  BY <1>6 DEF NthLoop

\* Its end and the start of its next round are in the function being generated, or
\* promised to it.
LEMMA JumpStays ==
  ASSUME ClosedInv, frames # <<>>, NEW i \in OpenLoops,
         NEW b \in {frames[i].end, frames[i].cond}
  PROVE  /\ <<Br(b)>> \in Seq(Instruction) /\ Clean(<<Br(b)>>) /\ HasJump(<<Br(b)>>)
         /\ Stays(<<Br(b)>>, blocks[insert].fn, blocks, Promised(frames))
<1>1. /\ frames \in Seq(FrameType) /\ blocks \in Seq(Block) /\ top = frames[Len(frames)]
      /\ Len(frames) \in Nat \ {0} /\ top = Peek(frames)
      /\ Built(frames, blocks, insert)
  BY TopFacts DEF ClosedInv
<1>2. /\ i \in 1..Len(frames) /\ frames[i].kind \in Loops /\ InCurrentFunction(i)
      /\ frames[i] \in FrameType
  BY <1>1 DEF OpenLoops
<1>3. /\ FrameFits(frames[i], blocks) /\ blocks[insert].fn = FnOf(top, blocks)
  <2>1. FrameFits(frames[i], blocks)
    BY <1>1, <1>2 DEF Built, Fits
  <2>2. blocks[insert].fn = FnOf(Peek(frames), blocks)
    BY <1>1, BuiltFacts
  <2> QED
    BY <1>1, <2>1, <2>2
<1>4. FnOf(top, blocks) = FnOf(frames[i], blocks)
  <2>1. CASE i = Len(frames)
    BY <1>1, <2>1
  <2>2. CASE i # Len(frames)
    <3>1. i < Len(frames) /\ Len(frames) \in 1..Len(frames)
      BY <1>1, <1>2, <2>2
    <3>2. \A k \in i + 1..Len(frames) : frames[k].kind \notin Callables
      BY <1>1, <1>2 DEF InCurrentFunction
    <3> QED
      BY ZenonT(40), <1>1, <1>2, <3>1, <3>2 DEF Built, Fits
  <2> QED
    BY <2>1, <2>2
<1>5. /\ frames[i].fn = FnOf(frames[i], blocks)
      /\ frames[i].end \in 1..Len(blocks)
      /\ <<frames[i].end, frames[i].fn>> \in Promised(frames)
      /\ frames[i].cond \in 1..Len(blocks) /\ blocks[frames[i].cond].fn = frames[i].fn
  <2>1. /\ frames[i].kind \in Constructs /\ frames[i].kind # "block"
    BY <1>2 DEF Constructs, Loops
  <2>2. frames[i].end \in Holds(frames[i])
    BY <2>1 DEF Holds
  <2>3. <<frames[i].end, frames[i].fn>> \in Promised(frames)
    BY <1>2, <2>1 DEF Promises, Promised
  <2> QED
    BY <1>2, <1>3, <2>1, <2>2, <2>3 DEF FrameFits
<1>6. b \in 1..Len(blocks) /\ b \in Nat
  BY <1>5
<1>7. /\ <<Br(b)>> \in Seq(Instruction) /\ Clean(<<Br(b)>>) /\ HasJump(<<Br(b)>>)
      /\ Targets(<<Br(b)>>) = {b}
  BY <1>6, InstructionTypes, InstructionFacts, OneClean
<1>8. Stays(<<Br(b)>>, blocks[insert].fn, blocks, Promised(frames))
  BY <1>3, <1>4, <1>5, <1>6, <1>7 DEF Stays
<1> QED
  BY <1>7, <1>8

LEMMA JumpKept ==
  ASSUME ClosedInv, Tame, NEW s \in {"break", "continue"}, MayJump(s, 1), NEW i \in OpenLoops, NthLoop(1, i),
         NEW b \in {frames[i].end, frames[i].cond}, frames' = Closed,
         blocks' = Emit(blocks, insert, <<Br(b)>>), insert' = insert,
         defer_calls_stack' = defer_calls_stack,
         has_return_statement' = has_return_statement,
         has_break_or_continue_statement' = TRUE
  PROVE  ClosedKept
<1> DEFINE f == Opened(top, FALSE)
<1>1. /\ frames # <<>> /\ top.open /\ ~top.returning
      /\ top.kind # "block" => top.kind \in Loops \cup Selects
      /\ top.kind = "block" => Parent.kind \in JumpIn
  BY StatementVisit DEF MayJump, Inner, Constructs
<1>2. /\ frames \in Seq(FrameType) /\ top \in FrameType
      /\ top = frames[Len(frames)] /\ Len(frames) \in Nat \ {0}
  BY <1>1, TopFacts
<1>3. /\ f \in FrameType /\ SameBlocks(top, f) /\ f.open = FALSE
      /\ f.depth = top.depth /\ f.scopes = top.scopes /\ f.declared = top.declared
      /\ f.kind = top.kind /\ f.left = top.left
      /\ ReturnsIn(frames, Len(frames), f)
  BY <1>1, <1>2, OpenedFacts DEF ReturnsIn
<1>4. frames' = Retop(frames, f)
  BY <1>1, <1>2, VisitingRetop
<1> HIDE DEF f
<1>5. /\ <<Br(b)>> \in Seq(Instruction) /\ Clean(<<Br(b)>>) /\ HasJump(<<Br(b)>>)
      /\ Stays(<<Br(b)>>, blocks[insert].fn, blocks, Promised(frames))
  BY <1>1, JumpStays
<1>6. ~Jumped /\ (FlagHolds => ~has_return_statement)
  BY <1>1, OpenClear
<1>7. /\ KindsOK(frames') /\ DeclaredOK(frames', defer_calls_stack')
      /\ Built(frames', blocks', insert') /\ frames' # <<>>
      /\ Jumped' <=> Jumped \/ HasJump(<<Br(b)>>)
      /\ Peek(frames') = f /\ Len(frames') = Len(frames)
      /\ Len(frames) > 1 => frames'[Len(frames) - 1] = frames[Len(frames) - 1]
  BY <1>1, <1>3, <1>4, <1>5, <1>6, RetopStep
<1>8. Jumped' /\ has_break_or_continue_statement' /\ (FlagHolds => ~has_return_statement')
  BY <1>5, <1>6, <1>7
<1>9. NothingLeft(1)
  BY DEF MayJump, Tame
<1>10. CASE top.kind = "block"
  <2>1. Len(frames) > 1 /\ Parent = frames[Len(frames) - 1]
    BY <1>1, <1>10, BlockParent
  <2>2. Parent.kind \in Loops \cup Selects /\ Parent.left = 0
    BY <1>1, <1>9, <1>10 DEF Tame, NothingLeft
  <2>3. Over(Parent, TRUE, has_return_statement', has_break_or_continue_statement')
        /\ Parent.kind # "block"
    BY <1>8, <2>2 DEF Over, Callables, Selects, Loops
  <2>4. frames'[Len(frames') - 1] = Parent
    BY <1>7, <2>1
  <2>5. f.declared = <<>>
    <3>1. i \in 1..Len(frames) /\ frames[i].kind \in Loops
      BY DEF OpenLoops
    <3>2. i # Len(frames)
      BY <1>2, <1>10, <3>1 DEF Loops
    <3>3. i < Len(frames) /\ Len(frames) \in 1..Len(frames)
      BY <1>2, <3>1, <3>2
    <3> QED
      BY <1>2, <1>3, <1>9, <3>3 DEF NothingLeft
  <2>6. Status(frames', Jumped', has_return_statement',
               has_break_or_continue_statement')
    BY <1>3, <1>7, <1>8, <1>10, <2>3, <2>4, <2>5 DEF Status
  <2> QED
    BY <1>7, <2>6 DEF ClosedKept
<1>11. CASE top.kind # "block"
  <2>1. f.kind \in Loops \cup Selects /\ f.left = 0
    BY <1>1, <1>3, <1>9, <1>11 DEF NothingLeft
  <2>2. Over(f, Jumped', has_return_statement', has_break_or_continue_statement')
    BY <1>8, <2>1 DEF Over, Callables, Selects, Loops
  <2>3. Status(frames', Jumped', has_return_statement',
               has_break_or_continue_statement')
    BY <1>3, <1>7, <1>11, <2>2 DEF Status
  <2> QED
    BY <1>7, <2>3 DEF ClosedKept
<1> QED
  BY <1>10, <1>11

LEMMA BreakKept ==
  ASSUME ClosedInv, Tame, Break(1)
  PROVE  ClosedKept
<1>1. MayJump("break", 1) /\ Jump(1, break_blocks_stack) /\ LoopInv
  BY DEF Break, ClosedInv
<1>2. PICK i \in OpenLoops : NthLoop(1, i)
  BY <1>1, InnermostLoop DEF MayJump
<1>3. Peek(break_blocks_stack) = frames[i].end
  BY <1>1, <1>2, InnermostTargets
<1>4. blocks' = Emit(blocks, insert, <<Br(frames[i].end)>>)
  BY <1>1, <1>3, BreakLoops
<1>5. /\ has_break_or_continue_statement' = TRUE /\ frames' = Closed
      /\ insert' = insert /\ has_return_statement' = has_return_statement
      /\ defer_calls_stack' = defer_calls_stack
  BY <1>1 DEF Jump, tables
<1>6. frames[i].end \in {frames[i].end, frames[i].cond}
  OBVIOUS
<1> QED
  BY <1>1, <1>2, <1>4, <1>5, <1>6, JumpKept

LEMMA ContinueKept ==
  ASSUME ClosedInv, Tame, Continue(1)
  PROVE  ClosedKept
<1>1. MayJump("continue", 1) /\ Jump(1, continue_blocks_stack) /\ LoopInv
  BY DEF Continue, ClosedInv
<1>2. PICK i \in OpenLoops : NthLoop(1, i)
  BY <1>1, InnermostLoop DEF MayJump
<1>3. Peek(continue_blocks_stack) = frames[i].cond
  BY <1>1, <1>2, InnermostTargets
<1>4. blocks' = Emit(blocks, insert, <<Br(frames[i].cond)>>)
  BY <1>1, <1>3, ContinueLoops
<1>5. /\ has_break_or_continue_statement' = TRUE /\ frames' = Closed
      /\ insert' = insert /\ has_return_statement' = has_return_statement
      /\ defer_calls_stack' = defer_calls_stack
  BY <1>1 DEF Jump, tables
<1>6. frames[i].cond \in {frames[i].end, frames[i].cond}
  OBVIOUS
<1> QED
  BY <1>1, <1>2, <1>4, <1>5, <1>6, JumpKept

-----------------------------------------------------------------------------
(* Defers.                                                                 *)

\* Where a statement that is no jump ends, or a construct, the flags are clear.
LEMMA StatusBack ==
  ASSUME NEW fs, fs # <<>>, Peek(fs).open <=> Resumes(Peek(fs)),
         Peek(fs).kind \in Callables => Peek(fs).returning,
         Peek(fs).returning => ~FlagHolds,
         Peek(fs).kind \in Selects => FlagHolds,
         NEW j, NEW r, NEW b, Clear(j, r, b)
  PROVE  Status(fs, j, r, b)
<1>1. CASE Peek(fs).returning
  BY <1>1 DEF Status, Begun, Clear, Resumes
<1>2. CASE ~Peek(fs).returning
  BY <1>2 DEF Status, Begun, Clear, Over, Resumes
<1> QED
  BY <1>1, <1>2

LEMMA DeclaredAlike ==
  ASSUME NEW fs, NEW gs, Len(gs) = Len(fs), NEW ds, NEW es, DeclaredOK(fs, ds),
         \A i \in 1..Len(fs) : /\ gs[i].kind = fs[i].kind /\ gs[i].depth = fs[i].depth
                               /\ gs[i].scopes = fs[i].scopes,
         \A i \in 1..Len(fs) : Undeclared(gs[i], es), Len(fs) \in Nat
  PROVE  DeclaredOK(gs, es)
<1>1. \A i \in 1..Len(fs) : /\ DepthIn(gs[i]) = DepthIn(fs[i])
                            /\ ScopesIn(gs[i]) = ScopesIn(fs[i])
  BY DEF DepthIn, ScopesIn
<1>2. ASSUME NEW i \in 1..Len(fs), NEW j \in 1..Len(fs), i < j
      PROVE  /\ Below(gs[i], gs[j])
             /\ (\A k \in i + 1..j : gs[k].kind \notin Scoped) => SameScope(gs[i], gs[j])
  <2>1. Below(gs[i], gs[j])
    BY <1>1, <1>2 DEF DeclaredOK, Below
  <2>2. ASSUME \A k \in i + 1..j : gs[k].kind \notin Scoped
        PROVE  SameScope(gs[i], gs[j])
    <3>1. \A k \in i + 1..j : k \in 1..Len(fs)
      OBVIOUS
    <3>2. \A k \in i + 1..j : fs[k].kind \notin Scoped
      BY <2>2, <3>1
    <3> QED
      BY <1>1, <1>2, <3>2 DEF DeclaredOK, SameScope
  <2> QED
    BY <2>1, <2>2
<1> QED
  BY <1>2 DEF DeclaredOK

\* The block of a statement, and its scope.
LEMMA BlockOf ==
  ASSUME ClosedInv, frames # <<>>, top.kind \notin Callables
  PROVE  /\ InnermostBlock \in 1..Len(frames) /\ frames[InnermostBlock].kind = "block"
         /\ \A k \in InnermostBlock + 1..Len(frames) : frames[k].kind # "block"
         /\ DepthIn(frames[InnermostBlock]) = Len(defer_calls_stack)
         /\ ScopesIn(frames[InnermostBlock]) = Len(Peek(defer_calls_stack))
<1> DEFINE n == Len(frames)
           T == {i \in 1..n : frames[i].kind = "block"}
           m == InnermostBlock
<1>1. /\ frames \in Seq(FrameType) /\ top = frames[n] /\ n \in Nat \ {0}
      /\ KindsOK(frames) /\ DeclaredOK(frames, defer_calls_stack)
      /\ Len(defer_calls_stack) = DepthIn(top)
      /\ Len(Peek(defer_calls_stack)) = ScopesIn(top)
  BY TopFacts DEF ClosedInv
<1> HIDE DEF n
<1> DEFINE C == {k \in 1..n : frames[k].kind \in Callables}
<1>2. PICK c \in C : \A k \in C : k <= c
  <2>1. frames[1].kind = "function" /\ 1 \in 1..n
    BY <1>1 DEF KindsOK, n
  <2>2. C \in SUBSET (1..n) /\ C # {} /\ n \in Nat
    BY <1>1, <2>1 DEF Callables
  <2> HIDE DEF C
  <2> QED
    BY <2>2, LastOf
<1>3. /\ c \in 1..n /\ c + 1 \in T /\ T # {}
      /\ \A k \in c + 1..n : frames[k].kind \notin Callables
  <2>1. \A k \in c + 1..n : k \in 1..n /\ k > c
    BY <1>1, <1>2
  <2>2. \A k \in c + 1..n : frames[k].kind \notin Callables
    BY <1>1, <1>2, <2>1
  <2>3. c # n
    BY <1>1, <1>2
  <2>4. c \in 1..n - 1 /\ c + 1 \in c + 1..n /\ c + 1 \in 1..n
    BY <1>1, <1>2, <2>3
  <2>5. Owns(frames[c], frames[c + 1])
    BY <1>1, <2>4 DEF KindsOK, n
  <2>6. frames[c + 1].kind = "block"
    BY <1>2, <2>2, <2>4, <2>5 DEF Owns, Inner, Callables
  <2> QED
    BY <2>2, <2>4, <2>6
<1>4. PICK i \in T : \A j \in T : j <= i
  <2>1. T \in SUBSET (1..n) /\ n \in Nat
    BY <1>1
  <2> HIDE DEF T
  <2> QED
    BY <1>3, <2>1, LastOf
<1>5. /\ i \in 1..n /\ frames[i].kind = "block"
      /\ \A j \in i + 1..n : frames[j].kind # "block"
  BY <1>1, <1>4
<1>6. /\ m \in 1..n /\ frames[m].kind = "block"
      /\ \A j \in m + 1..n : frames[j].kind # "block"
  BY <1>5 DEF InnermostBlock, n
<1> HIDE DEF m
<1>7. \A k \in m + 1..n : frames[k].kind \notin Scoped
  <2> SUFFICES ASSUME NEW k \in m + 1..n, frames[k].kind \in Callables PROVE FALSE
    BY <1>6 DEF Scoped
  <2>1. c + 1 \in 1..n /\ frames[c + 1].kind = "block"
    BY <1>3
  <2>2. c + 1 \notin m + 1..n
    BY <1>6, <2>1
  <2>3. k \in c + 1..n
    BY <1>1, <1>3, <1>6, <2>1, <2>2
  <2> QED
    BY <1>3, <2>3
<1>8. SameScope(frames[m], frames[n])
  <2>1. CASE m = n
    BY <2>1 DEF SameScope
  <2>2. CASE m # n
    <3>1. m < n /\ n \in 1..n
      BY <1>1, <1>6, <2>2
    <3> QED
      BY <1>1, <1>6, <1>7, <3>1 DEF DeclaredOK, n
  <2> QED
    BY <2>1, <2>2
<1> QED
  BY <1>1, <1>6, <1>8 DEF SameScope, m, n

\* The frame of the block gets the number of the defer, and the one on top waits.
LEMMA DeferFrames ==
  ASSUME ClosedInv, NEW kind \in DeferCallees, Defer(kind)
  PROVE  /\ frames # <<>> /\ frames' \in Seq(FrameType) /\ Len(frames') = Len(frames)
         /\ \A i \in 1..Len(frames) :
              /\ SameBlocks(frames[i], frames'[i])
              /\ frames'[i].depth = frames[i].depth /\ frames'[i].scopes = frames[i].scopes
              /\ frames'[i].should_execute_defers = frames[i].should_execute_defers
              /\ i # InnermostBlock => frames'[i].declared = frames[i].declared
              /\ frames'[i].open = IF i = Len(frames) THEN top.kind = "block"
                                   ELSE frames[i].open
              /\ frames'[i].returning = frames[i].returning
         /\ frames'[InnermostBlock].declared # <<>>
         /\ top.open /\ ~top.returning /\ top.kind \notin Callables
<1> DEFINE id == visited + 1
           vs == Visiting
           m  == InnermostBlock
           at == vs[m]
           d  == [at EXCEPT !.declared = Append(at.declared, id)]
           gs == [vs EXCEPT ![m] = d]
           o  == top.kind = "block"
           f  == Opened(top, o)
           n  == Len(frames)
<1>1. frames # <<>> /\ frames' = gs /\ top.open /\ ~top.returning
  BY StatementVisit DEF Defer, Inner
<1>2. top.kind \notin Callables /\ (Resumes(top) <=> o)
  BY <1>1, StatementVisit DEF Defer, Inner, Resumes
<1>3. /\ frames \in Seq(FrameType) /\ top \in FrameType /\ top = frames[n]
      /\ n \in Nat \ {0} /\ id \in Nat /\ o \in BOOLEAN
  BY <1>1, TopFacts DEF TypeInv, TypeOK
<1>4. m \in 1..n
  BY <1>1, <1>2, BlockOf
<1>5. /\ f \in FrameType /\ SameBlocks(top, f) /\ f.open = o
      /\ f.depth = top.depth /\ f.scopes = top.scopes /\ f.declared = top.declared
      /\ f.should_execute_defers = top.should_execute_defers
      /\ f.returning = top.returning
  BY <1>3, OpenedFacts
<1>6. vs = Retop(frames, f)
  <2>1. Resumes(top) = o
    BY <1>1, <1>3 DEF Resumes
  <2> QED
    BY <1>1, <1>3, <2>1, VisitingRetop
<1> HIDE DEF f, vs, m, n, o
<1>7. /\ vs \in Seq(FrameType) /\ Len(vs) = n /\ vs[n] = f
      /\ \A i \in 1..n - 1 : vs[i] = frames[i]
      /\ \A i \in 1..n : i = n \/ i \in 1..n - 1
  BY <1>1, <1>3, <1>5, <1>6, RetopFacts DEF n
<1>8. \A i \in 1..n : /\ SameBlocks(frames[i], vs[i])
                      /\ vs[i].depth = frames[i].depth /\ vs[i].scopes = frames[i].scopes
                      /\ vs[i].declared = frames[i].declared
                      /\ vs[i].should_execute_defers = frames[i].should_execute_defers
                      /\ vs[i].open = IF i = n THEN o ELSE frames[i].open
                      /\ vs[i].returning = frames[i].returning
  <2>1. ASSUME NEW i \in 1..n - 1
        PROVE  /\ SameBlocks(frames[i], vs[i]) /\ vs[i] = frames[i] /\ i # n
    BY <1>3, <1>7 DEF SameBlocks
  <2> QED
    BY <1>3, <1>5, <1>7, <2>1
<1>9. at \in FrameType
  BY <1>4, <1>7
<1>10. /\ d \in FrameType /\ SameBlocks(at, d) /\ d.open = at.open
       /\ d.depth = at.depth /\ d.scopes = at.scopes /\ d.declared # <<>>
       /\ d.should_execute_defers = at.should_execute_defers
       /\ d.returning = at.returning
  <2>1. at.declared \in Seq(Nat)
    BY <1>9 DEF FrameType
  <2>2. Append(at.declared, id) \in Seq(Nat) /\ Append(at.declared, id) # <<>>
    BY <1>3, <2>1
  <2> HIDE DEF at, id
  <2> QED
    BY <1>9, <2>2 DEF FrameType, SameBlocks
<1> HIDE DEF d
<1>11. /\ gs \in Seq(FrameType) /\ Len(gs) = n
       /\ \A i \in 1..n : gs[i] = IF i = m THEN d ELSE vs[i]
  BY <1>4, <1>7, <1>10
<1> HIDE DEF gs
<1>12. \A i \in 1..n :
         /\ SameBlocks(frames[i], gs[i])
         /\ gs[i].depth = frames[i].depth /\ gs[i].scopes = frames[i].scopes
         /\ gs[i].should_execute_defers = frames[i].should_execute_defers
         /\ i # m => gs[i].declared = frames[i].declared
         /\ gs[i].open = IF i = n THEN o ELSE frames[i].open
         /\ gs[i].returning = frames[i].returning
  BY <1>4, <1>8, <1>10, <1>11 DEF SameBlocks
<1>13. gs[m].declared # <<>>
  BY <1>4, <1>10, <1>11
<1> QED
  BY <1>1, <1>2, <1>11, <1>12, <1>13 DEF n, m, o

LEMMA DeferKept ==
  ASSUME ClosedInv, NEW kind \in DeferCallees, Defer(kind)
  PROVE  ClosedKept
<1> DEFINE ds   == defer_calls_stack
           id   == visited + 1
           call == [id |-> id, kind |-> kind]
           ss   == Peek(ds)
           e    == [ss EXCEPT ![Len(ss)] = PushFront(call, ss[Len(ss)])]
           n    == Len(frames)
           m    == InnermostBlock
           L    == Len(ds)
           gs   == frames'
<1>1. /\ blocks' = Emit(blocks, insert, <<Eval(id)>>)
      /\ defer_calls_stack' = [ds EXCEPT ![Len(ds)] = e]
      /\ insert' = insert /\ UNCHANGED flags
  BY DEF Defer
<1>2. /\ frames # <<>> /\ gs \in Seq(FrameType) /\ Len(gs) = n
      /\ \A i \in 1..n :
           /\ SameBlocks(frames[i], gs[i])
           /\ gs[i].depth = frames[i].depth /\ gs[i].scopes = frames[i].scopes
           /\ i # m => gs[i].declared = frames[i].declared
           /\ gs[i].open = IF i = n THEN top.kind = "block" ELSE frames[i].open
           /\ gs[i].returning = frames[i].returning
           /\ gs[i].should_execute_defers = frames[i].should_execute_defers
      /\ gs[m].declared # <<>>
      /\ top.open /\ ~top.returning /\ top.kind \notin Callables
  BY DeferFrames
<1>3. /\ frames \in Seq(FrameType) /\ top = frames[n] /\ n \in Nat \ {0}
      /\ ds \in DeferStacks /\ L \in Nat \ {0}
      /\ ss \in Seq(Seq(DeferCall)) /\ ss = ds[L] /\ id \in Nat
      /\ DeclaredOK(frames, ds) /\ KindsOK(frames)
  BY <1>2, TopFacts DEF ClosedInv, TypeInv, TypeOK
<1>4. /\ m \in 1..n /\ frames[m].kind = "block"
      /\ \A k \in m + 1..n : frames[k].kind # "block"
      /\ DepthIn(frames[m]) = L /\ ScopesIn(frames[m]) = Len(ss)
  BY <1>2, BlockOf
<1>5. ~Jumped /\ ~has_break_or_continue_statement
      /\ (FlagHolds => ~has_return_statement)
  BY <1>2, OpenClear
<1>6. /\ <<Eval(id)>> \in Seq(Instruction) /\ Clean(<<Eval(id)>>)
      /\ ~HasJump(<<Eval(id)>>) /\ Targets(<<Eval(id)>>) = {}
  BY <1>3, InstructionTypes, InstructionFacts, OneClean
<1>7. Stays(<<Eval(id)>>, blocks[insert].fn, blocks, Promised(frames))
  BY <1>6 DEF Stays
<1> HIDE DEF id, e, gs, m, n, ds, ss, L
<1>8. KindsOK(gs)
  <2>1. \A i \in 1..n : gs[i].open = frames[i].open \/ (i = n /\ ~frames[i].returning)
    BY <1>2, <1>3
  <2> QED
    BY <1>2, <1>3, <2>1, KindsSame DEF n
<1>9. /\ KindsOK(frames') /\ Built(frames', blocks', insert') /\ frames' # <<>>
      /\ Jumped' <=> Jumped \/ HasJump(<<Eval(id)>>)
  BY <1>1, <1>2, <1>5, <1>6, <1>7, <1>8, EmitStep DEF gs, n
<1>10. /\ e \in Seq(Seq(DeferCall)) /\ Len(e) = Len(ss)
       /\ \A k \in 1..Len(ss) : k # Len(ss) => e[k] = ss[k]
  <2>1. ScopesIn(frames[m]) # 0 /\ Len(ss) \in Nat
    BY <1>3, <1>4, FrameFields DEF ScopesIn, Callables, n
  <2>2. ss[Len(ss)] \in Seq(DeferCall)
    BY <1>3, <1>4, <2>1
  <2>3. call \in DeferCall
    BY <1>3, BoundsAssumption DEF DeferCall
  <2>4. PushFront(call, ss[Len(ss)]) \in Seq(DeferCall)
    BY <2>2, <2>3 DEF PushFront
  <2>5. Len(ss) \in 1..Len(ss)
    BY <1>3, <1>4, <2>1
  <2>6. /\ e \in Seq(Seq(DeferCall)) /\ Len(e) = Len(ss)
        /\ \A k \in 1..Len(ss) : e[k] = IF k = Len(ss) THEN PushFront(call, ss[Len(ss)])
                                        ELSE ss[k]
    BY <1>3, <2>4, <2>5, ReplaceType DEF e
  <2> QED
    BY <2>6
<1>11. /\ Len(defer_calls_stack') = L
       /\ \A i \in 1..L : defer_calls_stack'[i] = IF i = L THEN e ELSE ds[i]
  BY <1>1, <1>3 DEF DeferStacks, L, ds
<1>12. ASSUME NEW i \in 1..n PROVE Undeclared(gs[i], defer_calls_stack')
  <2>1. /\ DepthIn(gs[i]) = DepthIn(frames[i]) /\ ScopesIn(gs[i]) = ScopesIn(frames[i])
        /\ gs[i].kind = frames[i].kind
    BY <1>2 DEF DepthIn, ScopesIn, SameBlocks
  <2> DEFINE D == DepthIn(frames[i])
             S == ScopesIn(frames[i])
  <2> SUFFICES ASSUME frames[i].kind = "block"
               PROVE  /\ D \in 1..L /\ S \in 1..Len(defer_calls_stack'[D])
                      /\ gs[i].declared = <<>> => defer_calls_stack'[D][S] = <<>>
    BY <1>11, <2>1 DEF Undeclared
  <2>2. /\ D \in 1..L /\ S \in 1..Len(ds[D])
        /\ frames[i].declared = <<>> => ds[D][S] = <<>>
    BY <1>3 DEF DeclaredOK, Undeclared, n, L
  <2>3. S \in 1..Len(defer_calls_stack'[D])
    BY <1>3, <1>10, <1>11, <2>2
  <2>4. ASSUME gs[i].declared = <<>> PROVE defer_calls_stack'[D][S] = <<>>
    <3>1. i # m /\ frames[i].declared = <<>>
      BY <1>2, <2>4
    <3>2. i < m
      <4>1. i \notin m + 1..n
        BY <1>4
      <4>2. m \in 1..n /\ n \in Nat /\ i \in 1..n
        BY <1>3, <1>4
      <4> QED
        BY <3>1, <4>1, <4>2
    <3>3. D < frames[m].depth \/ (D = frames[m].depth /\ S <= frames[m].scopes)
      BY <1>4, <3>2, BelowTop DEF n
    <3>4. /\ frames[m].depth = L /\ frames[m].scopes + 1 = Len(ss)
          /\ frames[m].scopes \in Nat /\ Len(ss) \in Nat
      BY <1>3, <1>4, FrameFields DEF DepthIn, ScopesIn, Callables, n
    <3>5. D # L \/ S # Len(ss)
      BY <1>3, <2>2, <3>3, <3>4
    <3> QED
      BY <1>3, <1>10, <1>11, <2>2, <3>1, <3>5
  <2> QED
    BY <2>2, <2>3, <2>4
<1>13. DeclaredOK(frames', defer_calls_stack')
  <2>1. \A i \in 1..n : gs[i].kind = frames[i].kind
    BY <1>2 DEF SameBlocks
  <2>2. DeclaredOK(gs, defer_calls_stack')
    BY <1>2, <1>3, <1>12, <2>1, DeclaredAlike DEF n
  <2> QED
    BY <2>2 DEF gs
<1>14. /\ Peek(frames').kind = top.kind /\ ~Peek(frames').returning
       /\ Peek(frames').open <=> Resumes(Peek(frames'))
  <2>1. n \in 1..n /\ Peek(gs) = gs[n]
    BY <1>2, <1>3 DEF Peek
  <2>2. /\ gs[n].kind = top.kind /\ ~gs[n].returning
        /\ gs[n].open <=> top.kind = "block"
    BY <1>2, <1>3, <2>1 DEF SameBlocks
  <2> QED
    BY <2>1, <2>2 DEF gs, Resumes
<1>15. top.kind \in Selects => FlagHolds
  BY <1>3 DEF KindsOK, n
<1>16. Clear(Jumped', has_return_statement', has_break_or_continue_statement')
  BY <1>1, <1>5, <1>6, <1>9 DEF Clear, flags
<1>17. Status(frames', Jumped', has_return_statement',
              has_break_or_continue_statement')
  BY <1>2, <1>9, <1>14, <1>15, <1>16, StatusBack
<1> QED
  BY <1>9, <1>13, <1>17 DEF ClosedKept

-----------------------------------------------------------------------------
(* Visits begin.                                                           *)

LEMMA MadeFrame ==
  ASSUME ClosedInv, frames # <<>>,
         NEW kind \in Callables \cup Loops \cup Selects \cup {"block"}
  PROVE  /\ Frame(kind) \in FrameType /\ Frame(kind).kind = kind
         /\ Frame(kind).insert = insert /\ Frame(kind).open /\ ~Frame(kind).returning
         /\ Frame(kind).depth = Len(defer_calls_stack)
         /\ Frame(kind).scopes = Len(Peek(defer_calls_stack))
<1>1. TypeInv /\ defer_calls_stack # <<>>
  BY VisitFacts DEF ClosedInv, LoopInv
<1>2. Frame(kind).open /\ ~Frame(kind).returning
  BY DEF Frame
<1> QED
  BY <1>1, <1>2, FrameIsTyped DEF TypeInv

\* The visit around the new one waits, with the same blocks.
LEMMA WaitingBuilt ==
  ASSUME ClosedInv, frames # <<>>
  PROVE  /\ Visiting \in Seq(FrameType) /\ Visiting # <<>>
         /\ Len(Visiting) = Len(frames)
         /\ Built(Visiting, blocks, insert)
<1> DEFINE o  == Resumes(top)
           f  == Opened(top, o)
           vs == Visiting
<1>1. /\ frames \in Seq(FrameType) /\ top \in FrameType /\ top = Peek(frames)
      /\ o \in BOOLEAN /\ blocks \in Seq(Block) /\ Built(frames, blocks, insert)
  BY TopFacts DEF ClosedInv, Resumes, FrameType
<1>2. f \in FrameType /\ SameBlocks(top, f)
  BY <1>1, OpenedFacts
<1>3. vs = Retop(frames, f)
  BY <1>1, VisitingRetop
<1> HIDE DEF f, vs
<1>4. /\ vs \in Seq(FrameType) /\ Len(vs) = Len(frames) /\ vs # <<>>
      /\ \A i \in 1..Len(frames) : SameBlocks(frames[i], vs[i])
  BY <1>1, <1>2, <1>3, RetopFacts, RetopSame
<1>5. Keeps(blocks, blocks, Held(frames))
  BY <1>1 DEF Keeps
<1>6. /\ Fits(vs, blocks) /\ Held(vs) = Held(frames) /\ Promised(vs) = Promised(frames)
      /\ FnOf(Peek(vs), blocks) = FnOf(Peek(frames), blocks)
  BY <1>1, <1>4, <1>5, FitsKept DEF Built
<1>7. Built(vs, blocks, insert)
  BY <1>1, <1>4, <1>6 DEF Built, Current, Open
<1> QED
  BY <1>4, <1>7 DEF vs

LEMMA PushVisit ==
  ASSUME ClosedInv, frames # <<>>, top.open, NEW f \in FrameType,
         f.depth = Len(defer_calls_stack), f.scopes = Len(Peek(defer_calls_stack)),
         f.kind # "function", f.kind \in Selects => FlagHolds,
         f.kind = "lambda" => ~FlagHolds, f.kind \in Loops => ~NoLoop, ~f.returning,
         Owns(top, f),
         frames' = Append(Visiting, f), NEW es, Undeclared(f, es),
         \A i \in 1..Len(frames) : Undeclared(frames[i], es)
  PROVE  /\ KindsOK(frames') /\ DeclaredOK(frames', es)
         /\ frames' # <<>> /\ Peek(frames') = f
<1> DEFINE o  == Resumes(top)
           g  == Opened(top, o)
           vs == Visiting
<1>1. /\ frames \in Seq(FrameType) /\ top \in FrameType /\ top = Peek(frames)
      /\ o \in BOOLEAN /\ Len(defer_calls_stack) = DepthIn(top)
      /\ Len(Peek(defer_calls_stack)) = ScopesIn(top)
      /\ KindsOK(frames) /\ DeclaredOK(frames, defer_calls_stack)
      /\ Len(frames) \in Nat \ {0} /\ top = frames[Len(frames)]
  BY TopFacts DEF ClosedInv, Resumes, FrameType
<1>2. /\ g \in FrameType /\ g.open = o /\ g.kind = top.kind /\ g.depth = top.depth
      /\ g.scopes = top.scopes /\ g.declared = top.declared
      /\ (g.open <=> Resumes(g)) /\ Owns(g, f) /\ ReturnsIn(frames, Len(frames), g)
  <2>1. /\ g \in FrameType /\ g.open = o /\ g.kind = top.kind /\ g.depth = top.depth
        /\ g.scopes = top.scopes /\ g.declared = top.declared
        /\ g.returning = top.returning
    BY <1>1, OpenedFacts
  <2> QED
    BY <2>1, WaitingReturns DEF Resumes, Owns
<1>3. vs = Retop(frames, g)
  BY <1>1, VisitingRetop
<1> HIDE DEF g, vs
<1>4. /\ vs \in Seq(FrameType) /\ Len(vs) = Len(frames) /\ vs # <<>> /\ Peek(vs) = g
      /\ \A i \in 1..Len(frames) - 1 : vs[i] = frames[i] /\ i \in 1..Len(frames)
      /\ \A i \in 1..Len(frames) : i = Len(frames) \/ i \in 1..Len(frames) - 1
  <2> DEFINE rs == Retop(frames, g)
  <2>1. /\ rs \in Seq(FrameType) /\ Len(rs) = Len(frames) /\ rs # <<>> /\ Peek(rs) = g
        /\ \A i \in 1..Len(frames) - 1 : rs[i] = frames[i] /\ i \in 1..Len(frames)
        /\ \A i \in 1..Len(frames) : i = Len(frames) \/ i \in 1..Len(frames) - 1
    BY <1>1, <1>2, RetopFacts
  <2> HIDE DEF rs
  <2>2. vs = rs
    BY <1>3 DEF rs
  <2> QED
    BY <2>1, <2>2
<1>5. KindsOK(vs)
  BY <1>1, <1>2, <1>3, KindsRetop
<1>6. DepthIn(g) = DepthIn(top) /\ ScopesIn(g) = ScopesIn(top)
  BY <1>2 DEF DepthIn, ScopesIn
<1>7. Undeclared(g, es)
  <2>1. Len(frames) \in 1..Len(frames)
    BY <1>1
  <2>2. Undeclared(top, es)
    BY <1>1, <2>1
  <2> QED
    BY <1>2, <1>6, <2>2 DEF Undeclared
<1>8. DeclaredOK(vs, es)
  BY <1>1, <1>2, <1>3, <1>4, <1>7, DeclaredRetop
<1>9. \A i \in 1..Len(vs) : Undeclared(vs[i], es)
  BY <1>8 DEF DeclaredOK
<1>10. KindsOK(Append(vs, f))
  BY <1>2, <1>4, <1>5, KindsPush
<1>11. DeclaredOK(Append(vs, f), es)
  BY <1>1, <1>4, <1>6, <1>8, <1>9, DeclaredPush
<1>12. Append(vs, f) # <<>> /\ Peek(Append(vs, f)) = f
  BY <1>4, Pushed, PopAppend
<1> QED
  BY <1>10, <1>11, <1>12 DEF vs

\* A function is made in the middle of another.
LEMMA EnterInnerKept ==
  ASSUME ClosedInv, frames # <<>>, top.open,
         top.kind \in Callables => top.returning, top.returning => ~FlagHolds,
         NEW frame \in FrameType, frame.kind \in Inner, frame.insert = insert,
         frame.kind = "lambda" => ~FlagHolds, ~frame.returning,
         frame.depth = Len(defer_calls_stack),
         frame.scopes = Len(Peek(defer_calls_stack)), frame.open, EnterInner(frame)
  PROVE  ClosedKept
<1> DEFINE entry == Len(blocks) + 1
           f  == [frame EXCEPT !.fn = entry]
           es == Append(defer_calls_stack, <<>>)
           cs == Append(blocks, [NewBlock(entry) EXCEPT !.insts = <<Work>>])
<1>1. /\ blocks' = cs /\ insert' = entry /\ defer_calls_stack' = es
      /\ frames' = Append(Visiting, f) /\ UNCHANGED flags
  BY DEF EnterInner
<1>2. /\ frames \in Seq(FrameType) /\ blocks \in Seq(Block) /\ Len(blocks) \in Nat
      /\ DeclaredOK(frames, defer_calls_stack) /\ defer_calls_stack \in DeferStacks
  BY TopFacts DEF ClosedInv
<1>3. /\ f \in FrameType /\ f.kind \in Inner /\ f.insert = insert /\ f.open /\ ~f.returning
      /\ f.depth = Len(defer_calls_stack) /\ f.fn = Len(blocks) + 1
      /\ f.scopes = Len(Peek(defer_calls_stack)) /\ f.kind = frame.kind
  <2>1. entry \in Nat
    BY <1>2
  <2> HIDE DEF entry
  <2>2. /\ f \in FrameType /\ f.kind \in Inner /\ f.insert = insert /\ f.open /\ ~f.returning
        /\ f.depth = Len(defer_calls_stack) /\ f.fn = entry
        /\ f.scopes = Len(Peek(defer_calls_stack)) /\ f.kind = frame.kind
    BY <2>1 DEF FrameType
  <2> QED
    BY <2>2 DEF entry
<1> HIDE DEF f
<1>4. /\ f.kind # "function" /\ f.kind # "block" /\ f.kind \notin Selects
      /\ f.kind = "lambda" => ~FlagHolds
      /\ f.kind \notin Loops /\ Owns(top, f)
  BY <1>3 DEF Inner, Selects, Loops, Owns
<1>5. Undeclared(f, es) /\ \A i \in 1..Len(frames) : Undeclared(frames[i], es)
  <2>1. \A d \in 1..Len(defer_calls_stack) :
          d \in 1..Len(es) /\ es[d] = defer_calls_stack[d]
    BY <1>2 DEF DeferStacks
  <2> HIDE DEF es
  <2> QED
    BY <1>2, <1>4, <2>1 DEF DeclaredOK, Undeclared
<1> HIDE DEF es
<1>6. /\ KindsOK(frames') /\ DeclaredOK(frames', es)
      /\ frames' # <<>> /\ Peek(frames') = f
  BY <1>1, <1>3, <1>4, <1>5, PushVisit
<1>7. /\ ~HasJump(blocks[insert].insts) /\ ~has_break_or_continue_statement
      /\ FlagHolds => ~has_return_statement
  BY OpenClear
<1>8. /\ Visiting \in Seq(FrameType) /\ Visiting # <<>>
      /\ Built(Visiting, blocks, insert)
  BY WaitingBuilt
<1>9. Built(Append(Visiting, f), cs, entry) /\ ~HasJump(cs[entry].insts)
  BY <1>2, <1>3, <1>7, <1>8, BuiltInner
<1>10. ~Jumped'
  BY <1>1, <1>9 DEF Jumped
<1>11. Status(frames', Jumped', has_return_statement',
              has_break_or_continue_statement')
  BY <1>1, <1>3, <1>6, <1>7, <1>10 DEF Status, Begun, Clear, flags
<1> QED
  BY <1>1, <1>6, <1>9, <1>11 DEF ClosedKept

LEMMA EnterLambdaKept ==
  ASSUME ClosedInv, EnterLambda
  PROVE  ClosedKept
<1>1. /\ frames # <<>> /\ top.open /\ EnterInner(Frame("lambda"))
      /\ top.kind \in Callables => top.returning
      /\ ~FlagHolds
  BY InnerVisit DEF EnterLambda
<1>2. "lambda" \in Callables /\ "lambda" \in Inner
  BY DEF Callables, Inner
<1> QED
  BY <1>1, <1>2, MadeFrame, EnterInnerKept

LEMMA EnterGenericKept ==
  ASSUME ClosedInv, NEW g \in Generics, EnterGeneric(g)
  PROVE  ClosedKept
<1> DEFINE f == [Frame("generic") EXCEPT !.name = g]
<1>1. /\ frames # <<>> /\ top.open /\ EnterInner(f)
      /\ top.kind \in Callables => top.returning
      /\ top.returning => ~FlagHolds
  BY InnerVisit DEF EnterGeneric
<1>2. "generic" \in Callables /\ "generic" \in Inner
  BY DEF Callables, Inner
<1>3. /\ Frame("generic") \in FrameType /\ Frame("generic").kind = "generic"
      /\ Frame("generic").insert = insert /\ Frame("generic").open
      /\ ~Frame("generic").returning
      /\ Frame("generic").depth = Len(defer_calls_stack)
      /\ Frame("generic").scopes = Len(Peek(defer_calls_stack))
  BY <1>1, <1>2, MadeFrame
<1>4. /\ f \in FrameType /\ f.kind = "generic" /\ f.insert = insert /\ f.open
      /\ ~f.returning /\ f.depth = Len(defer_calls_stack)
      /\ f.scopes = Len(Peek(defer_calls_stack))
  BY <1>3 DEF FrameType
<1> HIDE DEF f
<1> QED
  BY <1>1, <1>2, <1>4, EnterInnerKept

LEMMA CallInstanceKept ==
  ASSUME ClosedInv, NEW g \in Generics, CallInstance(g)
  PROVE  ClosedKept
<1>1. /\ frames # <<>> /\ top.open
      /\ top.kind \in Callables => top.returning
      /\ frames' = Visiting /\ blocks' = Emit(blocks, insert, <<Work>>)
      /\ defer_calls_stack' = defer_calls_stack /\ insert' = insert /\ UNCHANGED flags
  BY InnerVisit DEF CallInstance, tables
<1> QED
  BY <1>1, PlainKept

LEMMA PlainStatementKept ==
  ASSUME ClosedInv, Plain
  PROVE  ClosedKept
<1>1. /\ frames # <<>> /\ top.open /\ top.kind \notin Callables
      /\ frames' = Visiting /\ blocks' = Emit(blocks, insert, <<Work>>)
      /\ defer_calls_stack' = defer_calls_stack /\ insert' = insert /\ UNCHANGED flags
  BY StatementVisit DEF Plain, tables, Inner
<1> QED
  BY <1>1, PlainKept

\* A block begins, in the block the visit around it fills.
LEMMA EnterBlockKept ==
  ASSUME ClosedInv, EnterBlock
  PROVE  ClosedKept
<1> DEFINE ds == defer_calls_stack
           L  == Len(ds)
           e  == Append(ds[L], <<>>)
           f  == Frame("block")
           es == defer_calls_stack'
<1>1. /\ frames # <<>> /\ top.open /\ ~top.returning /\ frames' = Append(Visiting, f)
      /\ defer_calls_stack' = [ds EXCEPT ![L] = e]
      /\ blocks' = blocks /\ insert' = insert /\ UNCHANGED flags
  BY DEF EnterBlock
<1>2. /\ frames \in Seq(FrameType) /\ blocks \in Seq(Block)
      /\ DeclaredOK(frames, ds) /\ ds \in DeferStacks /\ L \in Nat \ {0}
      /\ Peek(ds) = ds[L] /\ Peek(ds) \in Seq(Seq(DeferCall))
  BY <1>1, TopFacts DEF ClosedInv
<1>3. /\ f \in FrameType /\ f.kind = "block" /\ f.insert = insert /\ f.open /\ ~f.returning
      /\ f.depth = L /\ f.scopes = Len(ds[L])
  BY <1>1, <1>2, MadeFrame
<1> HIDE DEF f, ds
<1>4. /\ e \in Seq(Seq(DeferCall)) /\ Len(e) = Len(ds[L]) + 1 /\ Len(ds[L]) \in Nat
      /\ e[Len(ds[L]) + 1] = <<>> /\ \A k \in 1..Len(ds[L]) : e[k] = ds[L][k]
  BY <1>2
<1> HIDE DEF e
<1>5. Len(es) = L /\ \A i \in 1..L : es[i] = IF i = L THEN e ELSE ds[i]
  BY <1>1, <1>2, <1>4, ReplaceType DEF DeferStacks
<1> HIDE DEF es, L
<1>6. Undeclared(f, es)
  <2>1. DepthIn(f) = L /\ ScopesIn(f) = Len(ds[L]) + 1
    BY <1>3 DEF DepthIn, ScopesIn, Callables
  <2>2. L \in 1..L /\ es[L] = e /\ Len(ds[L]) + 1 \in 1..Len(e)
    BY <1>2, <1>4, <1>5
  <2> QED
    BY <1>4, <1>5, <2>1, <2>2 DEF Undeclared
<1>7. ASSUME NEW i \in 1..Len(frames) PROVE Undeclared(frames[i], es)
  <2> DEFINE D == DepthIn(frames[i])
             S == ScopesIn(frames[i])
  <2> SUFFICES ASSUME frames[i].kind = "block"
               PROVE  /\ D \in 1..Len(es) /\ S \in 1..Len(es[D])
                      /\ frames[i].declared = <<>> => es[D][S] = <<>>
    BY DEF Undeclared
  <2>1. /\ D \in 1..L /\ S \in 1..Len(ds[D])
        /\ frames[i].declared = <<>> => ds[D][S] = <<>>
    BY <1>2 DEF DeclaredOK, Undeclared, L
  <2>2. S \in 1..Len(es[D]) /\ es[D][S] = ds[D][S]
    <3>1. CASE D = L
      <4>1. es[D] = e /\ S \in 1..Len(ds[L])
        BY <1>5, <2>1, <3>1
      <4> QED
        BY <1>4, <3>1, <4>1
    <3>2. CASE D # L
      BY <1>5, <2>1, <3>2
    <3> QED
      BY <3>1, <3>2
  <2> QED
    BY <1>5, <2>1, <2>2
<1>8. /\ f.kind # "function" /\ f.kind \notin Selects /\ f.kind # "lambda"
      /\ f.kind \notin Loops /\ Owns(top, f)
  BY <1>1, <1>3 DEF Selects, Loops, Owns
<1>9. /\ KindsOK(frames') /\ DeclaredOK(frames', es)
      /\ frames' # <<>> /\ Peek(frames') = f
  BY <1>1, <1>2, <1>3, <1>6, <1>7, <1>8, PushVisit DEF L, ds
<1>10. /\ ~HasJump(blocks[insert].insts) /\ ~has_break_or_continue_statement
       /\ FlagHolds => ~has_return_statement
  BY <1>1, OpenClear
<1>11. /\ Visiting \in Seq(FrameType) /\ Visiting # <<>>
       /\ Built(Visiting, blocks, insert)
  BY <1>1, WaitingBuilt
<1>12. Built(Append(Visiting, f), blocks, insert)
  BY <1>2, <1>3, <1>11, BuiltBlock
<1>13. ~Jumped'
  BY <1>1, <1>10 DEF Jumped
<1>14. Status(frames', Jumped', has_return_statement',
              has_break_or_continue_statement')
  BY <1>1, <1>3, <1>9, <1>10, <1>13 DEF Status, Begun, Clear, flags
<1> QED
  BY <1>1, <1>9, <1>12, <1>14 DEF ClosedKept, es

\* An if, a switch or a loop begins.
LEMMA EnterConstructKept ==
  ASSUME ClosedInv, frames # <<>>, top.open, ~top.returning, top.kind \notin Callables,
         NEW f \in FrameType, f.kind \in Constructs, f.kind \in Selects => FlagHolds,
         f.kind \in Statements, f.open, ~f.returning, f.depth = Len(defer_calls_stack),
         f.scopes = Len(Peek(defer_calls_stack)), frames' = Append(Visiting, f),
         UNCHANGED flags, defer_calls_stack' = defer_calls_stack,
         Built(Append(Visiting, f), blocks', insert'), ~HasJump(blocks'[insert'].insts)
  PROVE  ClosedKept
<1>1. /\ f.kind # "function" /\ f.kind # "block" /\ f.kind # "lambda"
      /\ f.kind \in Loops => ~NoLoop
      /\ Owns(top, f)
  BY DEF Constructs, Loops, Selects, NoLoop, Owns
<1>2. /\ Undeclared(f, defer_calls_stack)
      /\ \A i \in 1..Len(frames) : Undeclared(frames[i], defer_calls_stack)
  BY <1>1 DEF Undeclared, ClosedInv, DeclaredOK
<1>3. /\ KindsOK(frames') /\ DeclaredOK(frames', defer_calls_stack)
      /\ frames' # <<>> /\ Peek(frames') = f
  BY <1>1, <1>2, PushVisit
<1>4. /\ ~has_break_or_continue_statement
      /\ FlagHolds => ~has_return_statement
  BY OpenClear
<1>5. ~Jumped'
  BY DEF Jumped
<1>6. Status(frames', Jumped', has_return_statement',
             has_break_or_continue_statement')
  BY <1>3, <1>4, <1>5 DEF Status, Begun, Clear, flags
<1> QED
  BY <1>3, <1>6 DEF ClosedKept

\* The blocks new, created where there are m of them, are those of a construct whose
\* frame is f: number e is its end, k the one to fill next, and s leads to them.
Begins(f, m, new, s, e, k) ==
  /\ e \in 1..Len(new) /\ k \in 1..Len(new) /\ k # e
  /\ f.kind \in Constructs /\ f.end = m + e /\ new[e] = NewBlock(0)
  /\ Clean(s) /\ HasJump(s)
  /\ \A t \in Targets(s) : \E i \in 1..Len(new) : t = m + i /\ new[i].fn = f.fn
  /\ f.kind \in Selects /\ f.left > 0 =>
       \E i \in 1..Len(new) \ {k} : f.next = m + i /\ new[i] = NewBlock(f.fn)
  /\ f.kind \in Loops =>
       \E i \in 1..Len(new) : f.cond = m + i /\ new[i].fn = f.fn
  /\ \A i \in 1..Len(new) \ {e} :
       /\ new[i].fn = f.fn /\ Clean(new[i].insts)
       /\ m + i \in {m + k} \cup Holds(f) \/ HasJump(new[i].insts)
       /\ \A t \in Targets(new[i].insts) : t \in m + 1..m + Len(new)

LEMMA BuiltBegins ==
  ASSUME NEW fs \in Seq(FrameType), fs # <<>>, NEW bs \in Seq(Block), NEW ins,
         Built(fs, bs, ins), ~HasJump(bs[ins].insts),
         NEW f \in FrameType, f.insert = ins, f.fn = bs[ins].fn,
         NEW new \in Seq(Block), NEW s \in Seq(Instruction), NEW e, NEW k,
         Begins(f, Len(bs), new, s, e, k)
  PROVE  Built(Append(fs, f), Emit(bs, ins, s) \o new, Len(bs) + k)
<1>1. /\ e \in 1..Len(new) /\ k \in 1..Len(new) /\ k # e
      /\ f.kind \in Constructs /\ f.end = Len(bs) + e /\ new[e] = NewBlock(0)
      /\ Clean(s) /\ HasJump(s)
  BY DEF Begins
<1>2. \A t \in Targets(s) : \E i \in 1..Len(new) : t = Len(bs) + i /\ new[i].fn = f.fn
  BY DEF Begins
<1>3. f.kind \in Selects /\ f.left > 0 =>
        \E i \in 1..Len(new) \ {k} : f.next = Len(bs) + i /\ new[i] = NewBlock(f.fn)
  BY DEF Begins
<1>4. f.kind \in Loops =>
        \E i \in 1..Len(new) : f.cond = Len(bs) + i /\ new[i].fn = f.fn
  BY DEF Begins
<1>5. \A i \in 1..Len(new) \ {e} :
        /\ new[i].fn = f.fn /\ Clean(new[i].insts)
        /\ Len(bs) + i \in {Len(bs) + k} \cup Holds(f) \/ HasJump(new[i].insts)
        /\ \A t \in Targets(new[i].insts) : t \in Len(bs) + 1..Len(bs) + Len(new)
  BY DEF Begins
<1> QED
  BY <1>1, <1>2, <1>3, <1>4, <1>5, BuiltConstruct

LEMMA NewAt ==
  ASSUME NEW bs \in Seq(Block), NEW new \in Seq(Block), NEW ins \in 1..Len(bs),
         NEW s \in Seq(Instruction), NEW k \in 1..Len(new)
  PROVE  (Emit(bs, ins, s) \o new)[Len(bs) + k] = new[k]
<1> DEFINE u == Emit(bs, ins, s)
<1>1. u \in Seq(Block) /\ Len(u) = Len(bs)
  BY EmitFields
<1> HIDE DEF u
<1>2. (u \o new)[Len(u) + k] = new[k]
  BY <1>1, ConcatFields
<1> QED
  BY <1>1, <1>2 DEF u

\* The blocks of the first test and the first branch of an if or a switch.
SelectBlocks(n, fn, m) ==
  LET false == IF n > 1 THEN m + 4 ELSE m + 2
      test  == [NewBlock(fn) EXCEPT !.insts = <<Work, CondBr(m + 3, false)>>]
  IN  <<test, NewBlock(0), NewBlock(fn)>> \o (IF n > 1 THEN <<NewBlock(fn)>> ELSE <<>>)

LEMMA SelectBlocksMade ==
  ASSUME NEW n \in Nat \ {0}, NEW fn \in Nat \ {0}, NEW m \in Nat
  PROVE  LET new == SelectBlocks(n, fn, m)
         IN  /\ new \in Seq(Block) /\ Len(new) = IF n > 1 THEN 4 ELSE 3
             /\ new[1].fn = fn
             /\ new[1].insts = <<Work, CondBr(m + 3, IF n > 1 THEN m + 4 ELSE m + 2)>>
             /\ new[2] = NewBlock(0) /\ new[3] = NewBlock(fn)
             /\ n > 1 => new[4] = NewBlock(fn)
<1> DEFINE false == IF n > 1 THEN m + 4 ELSE m + 2
           test  == [NewBlock(fn) EXCEPT !.insts = <<Work, CondBr(m + 3, false)>>]
           more  == IF n > 1 THEN <<NewBlock(fn)>> ELSE <<>>
           first == <<test, NewBlock(0), NewBlock(fn)>>
           new   == first \o more
<1>0. new = SelectBlocks(n, fn, m)
  BY DEF SelectBlocks
<1>1. CondBr(m + 3, false) \in Instruction /\ Work \in Instruction
  <2>1. m + 3 \in Nat /\ false \in Nat
    OBVIOUS
  <2> QED
    BY <2>1, InstructionTypes
<1>2. <<Work, CondBr(m + 3, false)>> \in Seq(Instruction)
  BY <1>1
<1> HIDE DEF false
<1>3. /\ test \in Block /\ NewBlock(0) \in Block /\ NewBlock(fn) \in Block
      /\ test.fn = fn /\ test.insts = <<Work, CondBr(m + 3, false)>>
  BY <1>2, NewBlockType DEF NewBlock
<1> HIDE DEF test
<1>4. first \in Seq(Block) /\ Len(first) = 3
      /\ first[1] = test /\ first[2] = NewBlock(0) /\ first[3] = NewBlock(fn)
  BY <1>3
<1>5. more \in Seq(Block) /\ Len(more) = (IF n > 1 THEN 1 ELSE 0)
      /\ (n > 1 => more[1] = NewBlock(fn))
  BY <1>3
<1> HIDE DEF first, more
<1>6. /\ new \in Seq(Block) /\ Len(new) = Len(first) + Len(more)
      /\ \A b \in 1..Len(first) : new[b] = first[b]
      /\ \A k \in 1..Len(more) : new[Len(first) + k] = more[k]
  BY <1>4, <1>5, ConcatFields
<1>7. /\ new[1] = test /\ new[2] = NewBlock(0) /\ new[3] = NewBlock(fn)
      /\ (n > 1 => new[4] = NewBlock(fn))
  <2>1. n > 1 => 1 \in 1..Len(more)
    BY <1>5
  <2> QED
    BY <1>4, <1>5, <1>6, <2>1
<1>8. Len(new) = IF n > 1 THEN 4 ELSE 3
  BY <1>4, <1>5, <1>6
<1> QED
  BY <1>0, <1>3, <1>6, <1>7, <1>8 DEF new, first, more, test, false

LEMMA EnterSelectKept ==
  ASSUME ClosedInv, Tame, NEW s \in Selects, NEW n \in Branches, EnterSelect(s, n)
  PROVE  ClosedKept
<1> DEFINE m     == Len(blocks)
           fn    == CurrentFunction
           false == IF n > 1 THEN m + 4 ELSE m + 2
           test  == [NewBlock(fn) EXCEPT !.insts = <<Work, CondBr(m + 3, false)>>]
           first == <<test, NewBlock(0), NewBlock(fn)>>
           more  == IF n > 1 THEN <<NewBlock(fn)>> ELSE <<>>
           new   == first \o more
           br    == <<Br(m + 1)>>
           left  == n - 1
           f     == [Frame(s) EXCEPT !.fn = fn, !.end = m + 2, !.next = false,
                                     !.left = left]
           vs    == Visiting
<1>1. /\ frames # <<>> /\ top.open /\ ~top.returning /\ s \in Statements
      /\ top.kind # "block" => top.kind \in Loops \cup Selects
      /\ blocks' = Emit(blocks, insert, br) \o first \o more
      /\ insert' = m + 3 /\ frames' = Append(vs, f)
      /\ UNCHANGED flags /\ defer_calls_stack' = defer_calls_stack
  BY StatementVisit DEF EnterSelect, Visits, Others, Inner, Selects, Loops, Constructs
<1>2. /\ blocks \in Seq(Block) /\ m \in Nat /\ insert \in 1..m
      /\ fn = blocks[insert].fn /\ fn \in Nat \ {0}
  BY <1>1, TopFacts
<1>3. n \in Nat \ {0} /\ left \in Nat /\ (left > 0 <=> n > 1)
  <2>1. n \in Nat \ {0}
    BY BoundsAssumption
  <2> QED
    BY <2>1
<1> HIDE DEF fn, left
<1>4. /\ new \in Seq(Block) /\ Len(new) = (IF n > 1 THEN 4 ELSE 3)
      /\ new[1].fn = fn /\ new[1].insts = <<Work, CondBr(m + 3, false)>>
      /\ new[2] = NewBlock(0) /\ new[3] = NewBlock(fn)
      /\ (n > 1 => new[4] = NewBlock(fn))
  <2>1. new = SelectBlocks(n, fn, m)
    BY DEF SelectBlocks
  <2> DEFINE b == SelectBlocks(n, fn, m)
  <2>2. m \in Nat /\ fn \in Nat \ {0} /\ n \in Nat \ {0}
    BY <1>2, <1>3
  <2> HIDE DEF m
  <2>3. b \in Seq(Block) /\ b[2] = NewBlock(0) /\ b[3] = NewBlock(fn)
    BY ZenonT(40), <2>2, SelectBlocksMade
  <2>4. Len(b) = (IF n > 1 THEN 4 ELSE 3)
    BY ZenonT(40), <2>2, SelectBlocksMade
  <2>5. b[1].fn = fn /\ b[1].insts = <<Work, CondBr(m + 3, false)>>
    BY ZenonT(40), <2>2, SelectBlocksMade
  <2>6. n > 1 => b[4] = NewBlock(fn)
    BY <2>2, SelectBlocksMade
  <2> HIDE DEF new, b, false
  <2>7. new = b
    BY <2>1 DEF b
  <2> QED
    BY <2>3, <2>4, <2>5, <2>6, <2>7
<1>5. FlagHolds /\ top.kind \notin Callables
  BY <1>1 DEF Tame, Callables, Loops, Selects
<1>6. /\ Frame(s) \in FrameType /\ Frame(s).kind = s /\ Frame(s).insert = insert
      /\ Frame(s).open /\ ~Frame(s).returning /\ Frame(s).depth = Len(defer_calls_stack)
      /\ Frame(s).scopes = Len(Peek(defer_calls_stack))
  BY <1>1, MadeFrame
<1>7. m + 1 \in Nat /\ m + 2 \in Nat /\ m + 3 \in Nat /\ false \in Nat
  BY <1>2
<1>8. /\ f \in FrameType /\ f.kind = s /\ f.insert = insert /\ f.open /\ ~f.returning
      /\ f.depth = Len(defer_calls_stack)
      /\ f.scopes = Len(Peek(defer_calls_stack))
      /\ f.fn = fn /\ f.end = m + 2 /\ f.next = false /\ f.left = left
  <2> DEFINE e == m + 2
  <2>1. e \in Nat
    BY <1>7
  <2> HIDE DEF e, false
  <2>2. [Frame(s) EXCEPT !.fn = fn, !.end = e, !.next = false, !.left = left]
          \in FrameType
    BY <1>2, <1>3, <1>6, <1>7, <2>1 DEF FrameType
  <2> QED
    BY <1>6, <2>2 DEF e, FrameType
<1>9. /\ br \in Seq(Instruction) /\ Clean(br) /\ HasJump(br) /\ Targets(br) = {m + 1}
  BY <1>7, InstructionTypes, InstructionFacts, OneClean
<1>10. /\ Clean(new[1].insts) /\ HasJump(new[1].insts)
       /\ Targets(new[1].insts) = {m + 3, false}
  BY <1>4, <1>7, InstructionTypes, InstructionFacts, TestClean
<1>11. /\ NewBlock(fn).fn = fn /\ NewBlock(fn).insts = <<>>
       /\ Clean(<<>>) /\ ~HasJump(<<>>) /\ Targets(<<>>) = {}
  BY NoneClean DEF NewBlock
<1>12. /\ s \in Constructs /\ (n > 1 => false \in Holds(f))
  BY <1>3, <1>8 DEF Constructs, Holds
<1>13. /\ vs \in Seq(FrameType) /\ vs # <<>> /\ Built(vs, blocks, insert)
       /\ ~HasJump(blocks[insert].insts)
  BY <1>1, WaitingBuilt, OpenClear
<1>14. blocks' = Emit(blocks, insert, br) \o new
  <2>1. Emit(blocks, insert, br) \in Seq(Block)
    BY <1>2, <1>9, EmitFields
  <2>2. first \in Seq(Block) /\ more \in Seq(Block)
    <3>1. <<Work, CondBr(m + 3, false)>> \in Seq(Instruction)
      BY <1>7, InstructionTypes, TestClean
    <3>2. test \in Block /\ NewBlock(0) \in Block /\ NewBlock(fn) \in Block
      BY <1>2, <3>1, NewBlockType
    <3> HIDE DEF test
    <3> QED
      BY <3>2
  <2> HIDE DEF first, more, br
  <2> QED
    BY SMTT(30), <1>1, <2>1, <2>2, ConcatAssociative
<1> HIDE DEF f, br, new, vs
<1>15. \A t \in Targets(br) : \E i \in 1..Len(new) : t = m + i /\ new[i].fn = f.fn
  <2>1. 1 \in 1..Len(new)
    BY <1>4
  <2> QED
    BY <1>4, <1>8, <1>9, <2>1
<1>16. /\ 2 \in 1..Len(new) /\ 3 \in 1..Len(new) /\ 3 # 2
       /\ (n > 1 => 4 \in 1..Len(new) \ {3})
       /\ \A i \in 1..Len(new) : i \in {1, 2, 3} \/ (i = 4 /\ n > 1)
  BY <1>4
<1>17. f.kind \in Selects /\ f.left > 0 =>
         \E i \in 1..Len(new) \ {3} : f.next = m + i /\ new[i] = NewBlock(f.fn)
  BY <1>3, <1>4, <1>8, <1>16
<1>18. ASSUME NEW i \in 1..Len(new) \ {2}
       PROVE  /\ new[i].fn = f.fn /\ Clean(new[i].insts)
              /\ m + i \in {m + 3} \cup Holds(f) \/ HasJump(new[i].insts)
              /\ \A t \in Targets(new[i].insts) : t \in m + 1..m + Len(new)
  <2>1. CASE i = 1
    <3>1. m + 3 \in m + 1..m + Len(new) /\ false \in m + 1..m + Len(new)
      BY <1>2, <1>4
    <3> QED
      BY <1>4, <1>8, <1>10, <2>1, <3>1
  <2>2. CASE i = 3
    BY <1>4, <1>8, <1>11, <2>2
  <2>3. CASE i = 4 /\ n > 1
    BY <1>4, <1>8, <1>11, <1>12, <2>3
  <2> QED
    BY <1>16, <2>1, <2>2, <2>3
<1>19. f.kind \notin Loops
  BY <1>8 DEF Loops, Selects
<1> HIDE DEF false
<1>20. /\ Built(Append(vs, f), Emit(blocks, insert, br) \o new, m + 3)
       /\ (Emit(blocks, insert, br) \o new)[m + 3] = new[3]
  <2>1. Begins(f, m, new, br, 2, 3)
    BY <1>4, <1>8, <1>9, <1>12, <1>15, <1>16, <1>17, <1>18, <1>19 DEF Begins
  <2>2. Built(Append(vs, f), Emit(blocks, insert, br) \o new, m + 3)
    BY <1>2, <1>4, <1>8, <1>9, <1>13, <2>1, BuiltBegins
  <2>3. (Emit(blocks, insert, br) \o new)[m + 3] = new[3]
    <3>1. /\ blocks \in Seq(Block) /\ new \in Seq(Block) /\ insert \in 1..Len(blocks)
          /\ br \in Seq(Instruction) /\ 3 \in 1..Len(new)
      BY <1>2, <1>4, <1>9, <1>16
    <3> QED
      BY <3>1, NewAt, Zenon
  <2> QED
    BY <2>2, <2>3
<1>21. ~HasJump(blocks'[insert'].insts)
  BY <1>1, <1>4, <1>11, <1>14, <1>20
<1> QED
  BY <1>1, <1>5, <1>8, <1>12, <1>14, <1>20, <1>21, EnterConstructKept DEF vs

LEMMA EnterConditionLoopKept ==
  ASSUME ClosedInv, NEW s \in Loops \ {"forever"}, EnterConditionLoop(s)
  PROVE  ClosedKept
<1> DEFINE m     == Len(blocks)
           fn    == CurrentFunction
           test  == [NewBlock(fn) EXCEPT !.insts = <<Work, CondBr(m + 2, m + 3)>>]
           first == IF s = "while" THEN <<>> ELSE <<Work>>
           body  == [NewBlock(fn) EXCEPT !.insts = first]
           new   == <<test, body, NewBlock(0)>>
           br    == first \o <<Br(m + 1)>>
           f     == [Frame(s) EXCEPT !.fn = fn, !.end = m + 3, !.cond = m + 1]
           vs    == Visiting
<1>1. /\ frames # <<>> /\ top.open /\ ~top.returning /\ s \in Statements
      /\ top.kind # "block" => top.kind \in Loops \cup Selects
      /\ blocks' = Emit(blocks, insert, br) \o new
      /\ insert' = m + 2 /\ frames' = Append(vs, f)
      /\ UNCHANGED flags /\ defer_calls_stack' = defer_calls_stack
  BY StatementVisit DEF EnterConditionLoop, PushLoop, Visits, Inner, Selects, Loops, Constructs
<1>2. /\ blocks \in Seq(Block) /\ m \in Nat /\ insert \in 1..m
      /\ fn = blocks[insert].fn /\ fn \in Nat \ {0}
  BY <1>1, TopFacts
<1> HIDE DEF fn
<1>3. m + 1 \in Nat /\ m + 2 \in Nat /\ m + 3 \in Nat
  BY <1>2
<1>4. /\ first \in Seq(Instruction) /\ Clean(first) /\ ~HasJump(first)
      /\ Targets(first) = {}
  BY InstructionTypes, InstructionFacts, OneClean, NoneClean
<1> HIDE DEF first
<1>5. /\ <<Br(m + 1)>> \in Seq(Instruction) /\ Clean(<<Br(m + 1)>>)
      /\ HasJump(<<Br(m + 1)>>) /\ Targets(<<Br(m + 1)>>) = {m + 1}
  BY <1>3, InstructionTypes, InstructionFacts, OneClean
<1>6. br \in Seq(Instruction) /\ Clean(br) /\ HasJump(br) /\ Targets(br) = {m + 1}
  <2>1. /\ br \in Seq(Instruction) /\ Clean(br)
        /\ HasJump(br) <=> HasJump(first) \/ HasJump(<<Br(m + 1)>>)
        /\ Targets(br) = Targets(first) \cup Targets(<<Br(m + 1)>>)
    BY <1>4, <1>5, ConcatClean
  <2> QED
    BY <1>4, <1>5, <2>1
<1>7. /\ <<Work, CondBr(m + 2, m + 3)>> \in Seq(Instruction)
      /\ Clean(<<Work, CondBr(m + 2, m + 3)>>) /\ HasJump(<<Work, CondBr(m + 2, m + 3)>>)
      /\ Targets(<<Work, CondBr(m + 2, m + 3)>>) = {m + 2, m + 3}
  BY <1>3, InstructionTypes, InstructionFacts, TestClean
<1>8. /\ test \in Block /\ body \in Block /\ NewBlock(0) \in Block
      /\ test.fn = fn /\ test.insts = <<Work, CondBr(m + 2, m + 3)>>
      /\ body.fn = fn /\ body.insts = first
  BY <1>2, <1>4, <1>7, NewBlockType DEF NewBlock
<1> HIDE DEF test, body, br
<1>9. /\ new \in Seq(Block) /\ Len(new) = 3
      /\ new[1] = test /\ new[2] = body /\ new[3] = NewBlock(0)
  BY <1>8
<1> HIDE DEF new
<1>10. /\ Frame(s) \in FrameType /\ Frame(s).kind = s /\ Frame(s).insert = insert
       /\ Frame(s).open /\ ~Frame(s).returning /\ Frame(s).depth = Len(defer_calls_stack)
       /\ Frame(s).scopes = Len(Peek(defer_calls_stack))
  BY <1>1, MadeFrame
<1>11. /\ f \in FrameType /\ f.kind = s /\ f.insert = insert /\ f.open /\ ~f.returning
       /\ f.depth = Len(defer_calls_stack)
       /\ f.scopes = Len(Peek(defer_calls_stack))
       /\ f.fn = fn /\ f.end = m + 3 /\ f.cond = m + 1
  <2> DEFINE e == m + 3
             c == m + 1
  <2>1. e \in Nat /\ c \in Nat
    BY <1>3
  <2> HIDE DEF e, c
  <2>2. [Frame(s) EXCEPT !.fn = fn, !.end = e, !.cond = c] \in FrameType
    BY <1>2, <1>10, <2>1 DEF FrameType
  <2> QED
    BY <1>10, <2>2 DEF e, c, FrameType
<1> HIDE DEF f, vs
<1>12. s \in Constructs /\ s \notin Selects
  BY DEF Constructs, Loops, Selects
<1>13. Begins(f, m, new, br, 3, 2)
  <2>1. \A i \in 1..Len(new) : i \in {1, 2, 3}
    BY <1>9
  <2>2. 1 \in 1..Len(new) /\ 2 \in 1..Len(new) /\ 3 \in 1..Len(new) /\ 2 # 3
    BY <1>9
  <2>3. \A t \in Targets(br) : \E i \in 1..Len(new) : t = m + i /\ new[i].fn = f.fn
    BY <1>6, <1>8, <1>9, <1>11, <2>2
  <2>4. \E i \in 1..Len(new) : f.cond = m + i /\ new[i].fn = f.fn
    BY <1>8, <1>9, <1>11, <2>2
  <2>5. m + 2 \in m + 1..m + Len(new) /\ m + 3 \in m + 1..m + Len(new)
    BY <1>2, <1>9
  <2>6. ASSUME NEW i \in 1..Len(new) \ {3}
        PROVE  /\ new[i].fn = f.fn /\ Clean(new[i].insts)
               /\ m + i \in {m + 2} \cup Holds(f) \/ HasJump(new[i].insts)
               /\ \A t \in Targets(new[i].insts) : t \in m + 1..m + Len(new)
    <3>1. CASE i = 1
      BY <1>7, <1>8, <1>9, <1>11, <2>5, <3>1
    <3>2. CASE i = 2
      BY <1>4, <1>8, <1>9, <1>11, <3>2
    <3> QED
      BY <2>1, <3>1, <3>2
  <2> QED
    BY <1>6, <1>9, <1>11, <1>12, <2>2, <2>3, <2>4, <2>6 DEF Begins
<1>14. /\ vs \in Seq(FrameType) /\ vs # <<>> /\ Built(vs, blocks, insert)
       /\ ~HasJump(blocks[insert].insts)
  BY <1>1, WaitingBuilt, OpenClear DEF vs
<1>15. Built(Append(vs, f), Emit(blocks, insert, br) \o new, m + 2)
  BY <1>2, <1>6, <1>9, <1>11, <1>13, <1>14, BuiltBegins
<1>16. (Emit(blocks, insert, br) \o new)[m + 2] = new[2]
  <2>1. /\ blocks \in Seq(Block) /\ new \in Seq(Block) /\ insert \in 1..Len(blocks)
        /\ br \in Seq(Instruction) /\ 2 \in 1..Len(new)
    BY <1>2, <1>6, <1>9
  <2> QED
    BY <2>1, NewAt, Zenon
<1>17. ~HasJump(blocks'[insert'].insts)
  BY <1>1, <1>4, <1>8, <1>9, <1>16
<1>18. top.kind \notin Callables
  BY <1>1 DEF Callables, Loops, Selects
<1> QED
  BY <1>1, <1>11, <1>12, <1>15, <1>17, <1>18, EnterConstructKept DEF vs

LEMMA EnterForeverKept ==
  ASSUME ClosedInv, EnterForever
  PROVE  ClosedKept
<1> DEFINE m     == Len(blocks)
           fn    == CurrentFunction
           new   == <<NewBlock(fn), NewBlock(0)>>
           br    == <<Br(m + 1)>>
           f     == [Frame("forever") EXCEPT !.fn = fn, !.end = m + 2, !.cond = m + 1]
           vs    == Visiting
<1>1. /\ frames # <<>> /\ top.open /\ ~top.returning /\ "forever" \in Statements
      /\ top.kind # "block" => top.kind \in Loops \cup Selects
      /\ blocks' = Emit(blocks, insert, br) \o new
      /\ insert' = m + 1 /\ frames' = Append(vs, f)
      /\ UNCHANGED flags /\ defer_calls_stack' = defer_calls_stack
  <2>1. "forever" \notin Inner /\ Visits("forever")
    BY DEF EnterForever, Inner
  <2>2. /\ frames # <<>> /\ top.open /\ ~top.returning /\ "forever" \in Statements
        /\ top.kind # "block" => top.kind \in Loops \cup Selects
    BY <2>1, StatementVisit DEF Visits, Constructs
  <2> QED
    BY <2>2 DEF EnterForever, PushLoop
<1>2. /\ blocks \in Seq(Block) /\ m \in Nat /\ insert \in 1..m
      /\ fn = blocks[insert].fn /\ fn \in Nat \ {0}
  BY <1>1, TopFacts
<1> HIDE DEF fn
<1>3. m + 1 \in Nat /\ m + 2 \in Nat
  BY <1>2
<1>4. /\ br \in Seq(Instruction) /\ Clean(br) /\ HasJump(br) /\ Targets(br) = {m + 1}
  BY <1>3, InstructionTypes, InstructionFacts, OneClean
<1>5. /\ NewBlock(fn) \in Block /\ NewBlock(0) \in Block
      /\ NewBlock(fn).fn = fn /\ NewBlock(fn).insts = <<>>
      /\ Clean(<<>>) /\ ~HasJump(<<>>) /\ Targets(<<>>) = {}
  BY <1>2, NewBlockType, NoneClean DEF NewBlock
<1> HIDE DEF br
<1>6. /\ new \in Seq(Block) /\ Len(new) = 2
      /\ new[1] = NewBlock(fn) /\ new[2] = NewBlock(0)
  BY <1>5
<1> HIDE DEF new
<1>7. /\ "forever" \in Loops /\ "forever" \in Constructs /\ "forever" \notin Selects
  BY DEF Constructs, Loops, Selects
<1>8. /\ Frame("forever") \in FrameType /\ Frame("forever").kind = "forever"
      /\ Frame("forever").insert = insert /\ Frame("forever").open /\ ~Frame("forever").returning
      /\ Frame("forever").depth = Len(defer_calls_stack)
      /\ Frame("forever").scopes = Len(Peek(defer_calls_stack))
  BY <1>1, <1>7, MadeFrame
<1>9. /\ f \in FrameType /\ f.kind = "forever" /\ f.insert = insert /\ f.open /\ ~f.returning
      /\ f.depth = Len(defer_calls_stack)
      /\ f.scopes = Len(Peek(defer_calls_stack))
      /\ f.fn = fn /\ f.end = m + 2 /\ f.cond = m + 1
  <2> DEFINE e == m + 2
             c == m + 1
  <2>1. e \in Nat /\ c \in Nat
    BY <1>3
  <2> HIDE DEF e, c
  <2>2. [Frame("forever") EXCEPT !.fn = fn, !.end = e, !.cond = c] \in FrameType
    BY <1>2, <1>8, <2>1 DEF FrameType
  <2> QED
    BY <1>8, <2>2 DEF e, c, FrameType
<1> HIDE DEF f, vs
<1>10. Begins(f, m, new, br, 2, 1)
  <2>1. \A i \in 1..Len(new) \ {2} : i = 1
    BY <1>6
  <2>2. 1 \in 1..Len(new) /\ 2 \in 1..Len(new) /\ 1 # 2
    BY <1>6
  <2>3. \A t \in Targets(br) : \E i \in 1..Len(new) : t = m + i /\ new[i].fn = f.fn
    BY <1>4, <1>5, <1>6, <1>9, <2>2
  <2>4. \E i \in 1..Len(new) : f.cond = m + i /\ new[i].fn = f.fn
    BY <1>5, <1>6, <1>9, <2>2
  <2>5. ASSUME NEW i \in 1..Len(new) \ {2}
        PROVE  /\ new[i].fn = f.fn /\ Clean(new[i].insts)
               /\ m + i \in {m + 1} \cup Holds(f) \/ HasJump(new[i].insts)
               /\ \A t \in Targets(new[i].insts) : t \in m + 1..m + Len(new)
    BY <1>5, <1>6, <1>9, <2>1
  <2> QED
    BY <1>4, <1>6, <1>7, <1>9, <2>2, <2>3, <2>4, <2>5 DEF Begins
<1>11. /\ vs \in Seq(FrameType) /\ vs # <<>> /\ Built(vs, blocks, insert)
       /\ ~HasJump(blocks[insert].insts)
  BY <1>1, WaitingBuilt, OpenClear DEF vs
<1>12. Built(Append(vs, f), Emit(blocks, insert, br) \o new, m + 1)
  BY <1>2, <1>4, <1>6, <1>9, <1>10, <1>11, BuiltBegins
<1>13. (Emit(blocks, insert, br) \o new)[m + 1] = new[1]
  <2>1. /\ blocks \in Seq(Block) /\ new \in Seq(Block) /\ insert \in 1..Len(blocks)
        /\ br \in Seq(Instruction) /\ 1 \in 1..Len(new)
    BY <1>2, <1>4, <1>6
  <2> QED
    BY <2>1, NewAt, Zenon
<1>14. ~HasJump(blocks'[insert'].insts)
  BY <1>1, <1>5, <1>6, <1>13
<1>15. top.kind \notin Callables
  BY <1>1 DEF Callables, Loops, Selects
<1> QED
  BY <1>1, <1>7, <1>9, <1>12, <1>14, <1>15, EnterConstructKept DEF vs

-----------------------------------------------------------------------------
(* Visits end.                                                             *)

\* The visit around the one that ends.
LEMMA Around ==
  ASSUME ClosedInv, frames # <<>>, top.kind # "function"
  PROVE  /\ Pop(frames) # <<>> /\ Peek(Pop(frames)) = Parent /\ KindsOK(Pop(frames))
         /\ Parent.open <=> Resumes(Parent)
         /\ Owns(Parent, top)
         /\ Parent.kind \in Selects => FlagHolds
<1>1. /\ frames \in Seq(FrameType) /\ KindsOK(frames) /\ top = Peek(frames)
      /\ Pop(frames) = <<>> <=> top.kind = "function"
  BY TopFacts DEF ClosedInv
<1>2. Pop(frames) # <<>>
  BY <1>1
<1>3. KindsOK(Pop(frames)) /\ Peek(Pop(frames)) = frames[Len(frames) - 1]
  BY <1>1, <1>2, KindsPop
<1> QED
  BY <1>2, <1>3, BlockParent DEF Parent

\* What has become of the body of a visit that ends.
LEMMA Ended ==
  ASSUME ClosedInv, frames # <<>>, ~top.open, top.kind # "block"
  PROVE  Over(top, Jumped, has_return_statement, has_break_or_continue_statement)
BY DEF ClosedInv, Status, top

\* The stack of the defers that is left behind when a function ends.
LEMMA DefersLeft ==
  ASSUME ClosedInv, frames # <<>>, top.kind \in Callables
  PROVE  DeclaredOK(Pop(frames), Pop(defer_calls_stack))
<1> DEFINE ds == defer_calls_stack
           n  == Len(frames)
           L  == Len(ds)
           es == Pop(ds)
<1>1. /\ frames \in Seq(FrameType) /\ DeclaredOK(frames, ds) /\ top \in FrameType
      /\ n \in Nat \ {0} /\ L \in Nat \ {0} /\ ds \in DeferStacks
      /\ L = top.depth + 1 /\ top = frames[n]
  BY TopFacts DEF ClosedInv, DepthIn
<1>2. n \in 1..n /\ \A i \in 1..n - 1 : i \in 1..n /\ i < n
  <2> HIDE DEF n
  <2> QED
    BY <1>1
<1>3. Len(es) = L - 1 /\ \A d \in 1..L - 1 : es[d] = ds[d]
  <2> HIDE DEF ds
  <2>1. ds \in Seq(Seq(Seq(DeferCall))) /\ ds # <<>>
    BY <1>1 DEF DeferStacks
  <2> QED
    BY <2>1, PopType
<1>4. top.depth \in Nat
  BY <1>1 DEF FrameType
<1> HIDE DEF es, n, L
<1>5. ASSUME NEW i \in 1..n - 1 PROVE Undeclared(frames[i], es)
  <2> DEFINE D == DepthIn(frames[i])
             S == ScopesIn(frames[i])
  <2> SUFFICES ASSUME frames[i].kind = "block"
               PROVE  /\ D \in 1..Len(es) /\ S \in 1..Len(es[D])
                      /\ frames[i].declared = <<>> => es[D][S] = <<>>
    BY DEF Undeclared
  <2>1. /\ D \in 1..L /\ S \in 1..Len(ds[D])
        /\ D < frames[n].depth \/ D = frames[n].depth
        /\ frames[i].declared = <<>> => ds[D][S] = <<>>
    BY <1>2, BelowTop DEF L, n
  <2>2. D \in 1..L - 1
    <3> HIDE DEF D
    <3> QED
      BY <1>1, <1>4, <2>1
  <2> QED
    BY <1>3, <2>1, <2>2
<1>6. frames # <<>> /\ \A i \in 1..Len(frames) - 1 : Undeclared(frames[i], es)
  BY <1>5 DEF n
<1>7. DeclaredOK(Pop(frames), es)
  BY <1>1, <1>6, DeclaredPop
<1> QED
  BY <1>7 DEF es

LEMMA LeaveFunctionKept ==
  ASSUME ClosedInv, LeaveFunction
  PROVE  ClosedKept
<1>1. /\ frames # <<>> /\ top.kind = "function" /\ ~top.open
      /\ defer_calls_stack' = Pop(defer_calls_stack) /\ has_return_statement' = FALSE
      /\ frames' = Pop(frames) /\ blocks' = blocks /\ insert' = insert
      /\ has_break_or_continue_statement' = has_break_or_continue_statement
  BY DEF LeaveFunction
<1>2. top.kind \in Callables /\ top.kind # "block"
  BY <1>1 DEF Callables
<1>3. Jumped /\ ~has_break_or_continue_statement
  BY <1>1, <1>2, Ended DEF Over
<1>4. /\ frames \in Seq(FrameType) /\ blocks \in Seq(Block) /\ Pop(frames) = <<>>
      /\ KindsOK(frames) /\ Built(frames, blocks, insert) /\ top = Peek(frames)
      /\ HasJump(blocks[insert].insts)
  BY <1>1, <1>3, TopFacts DEF ClosedInv
<1>5. KindsOK(Pop(frames))
  BY <1>1, <1>4, KindsPop
<1>6. Built(Pop(frames), blocks, insert)
  BY <1>1, <1>4, BuiltDone
<1>7. DeclaredOK(Pop(frames), Pop(defer_calls_stack))
  BY <1>1, <1>2, DefersLeft
<1>8. Status(frames', Jumped', has_return_statement',
             has_break_or_continue_statement')
  BY <1>1, <1>3, <1>4 DEF Status
<1> QED
  BY <1>1, <1>5, <1>6, <1>7, <1>8 DEF ClosedKept

\* Back in the function around a lambda or an instance.
LEMMA LeaveInnerKept ==
  ASSUME ClosedInv, frames # <<>>, top.kind \in Inner, ~top.open, LeaveInner,
         FlagHolds => ~has_return_statement'
  PROVE  ClosedKept
<1> DEFINE cs == Emit(blocks, top.insert, <<Work>>)
<1>1. /\ blocks' = cs /\ insert' = top.insert /\ frames' = Pop(frames)
      /\ defer_calls_stack' = Pop(defer_calls_stack)
      /\ has_break_or_continue_statement' = has_break_or_continue_statement
  BY DEF LeaveInner
<1>2. top.kind \in Callables /\ top.kind # "block" /\ top.kind # "function"
  BY DEF Callables, Inner
<1>3. Jumped /\ ~has_break_or_continue_statement
  BY <1>2, Ended DEF Over
<1>4. /\ frames \in Seq(FrameType) /\ blocks \in Seq(Block)
      /\ Built(frames, blocks, insert) /\ top = Peek(frames)
      /\ HasJump(blocks[insert].insts)
  BY <1>3, TopFacts DEF ClosedInv
<1>5. /\ Pop(frames) # <<>> /\ Peek(Pop(frames)) = Parent /\ KindsOK(Pop(frames))
      /\ Parent.open <=> Resumes(Parent)
      /\ Parent.kind \in Callables => Parent.returning
      /\ Parent.returning => ~FlagHolds
      /\ Parent.kind \in Selects => FlagHolds
  BY <1>2, Around DEF Owns
<1>6. Built(Pop(frames), cs, top.insert) /\ ~HasJump(cs[top.insert].insts)
  <2>1. Peek(frames).kind \in Inner
    BY <1>4
  <2>2. /\ Built(Pop(frames), Emit(blocks, Peek(frames).insert, <<Work>>), Peek(frames).insert)
        /\ ~HasJump(Emit(blocks, Peek(frames).insert, <<Work>>)[Peek(frames).insert].insts)
    BY <1>4, <1>5, <2>1, BuiltOuter
  <2> QED
    BY <1>4, <2>2
<1> HIDE DEF cs
<1>7. DeclaredOK(Pop(frames), Pop(defer_calls_stack))
  BY <1>2, DefersLeft
<1>8. Clear(Jumped', has_return_statement', has_break_or_continue_statement')
  BY <1>1, <1>3, <1>6 DEF Clear, Jumped
<1>9. Status(frames', Jumped', has_return_statement',
             has_break_or_continue_statement')
  BY <1>1, <1>5, <1>8, StatusBack
<1> QED
  BY <1>1, <1>5, <1>6, <1>7, <1>9 DEF ClosedKept

LEMMA LeaveLambdaKept ==
  ASSUME ClosedInv, LeaveLambda
  PROVE  ClosedKept
<1>1. frames # <<>> /\ top.kind = "lambda" /\ ~top.open /\ LeaveInner
  BY DEF LeaveLambda
<1>2. ~FlagHolds
  <2>1. Len(frames) \in 1..Len(frames) /\ top = frames[Len(frames)]
    BY <1>1, TopFacts
  <2> QED
    BY <1>1, <2>1 DEF ClosedInv, KindsOK
<1>3. top.kind \in Inner
  BY <1>1 DEF Inner
<1> QED
  BY <1>1, <1>2, <1>3, LeaveInnerKept

LEMMA LeaveGenericKept ==
  ASSUME ClosedInv, LeaveGeneric
  PROVE  ClosedKept
<1>1. /\ frames # <<>> /\ top.kind = "generic" /\ ~top.open /\ LeaveInner
      /\ has_return_statement' = FALSE
  BY DEF LeaveGeneric
<1>2. top.kind \in Inner
  BY <1>1 DEF Inner
<1> QED
  BY <1>1, <1>2, LeaveInnerKept

\* The end of a block runs the defers of its scope, where they are reached.
LEMMA BlockEnd ==
  ASSUME ClosedInv, LeaveBlock
  PROVE  /\ Built(frames, blocks', insert)
         /\ HasJump(blocks'[insert].insts) <=> Jumped
         /\ blocks' \in Seq(Block)
<1> DEFINE ds    == defer_calls_stack
           L     == Len(ds)
           scope == Peek(Peek(ds))
           c     == execute_scope_defer_calls(scope)
<1>1. /\ frames # <<>> /\ top.kind = "block"
      /\ blocks' = IF top.should_execute_defers THEN Emit(blocks, insert, <<c>>)
                   ELSE blocks
  BY DEF LeaveBlock
<1>2. /\ frames \in Seq(FrameType) /\ blocks \in Seq(Block) /\ top \in FrameType
      /\ Built(frames, blocks, insert) /\ Len(frames) \in Nat \ {0}
      /\ Jumped <=> HasJump(blocks[insert].insts)
      /\ L = DepthIn(top) /\ Len(Peek(ds)) = ScopesIn(top) /\ Peek(ds) = ds[L]
      /\ Peek(ds) \in Seq(Seq(DeferCall)) /\ top = frames[Len(frames)]
  BY <1>1, TopFacts DEF ClosedInv
<1>3. ScopesIn(top) = top.scopes + 1 /\ top.scopes \in Nat
  BY <1>1, <1>2 DEF ScopesIn, Callables, FrameType
<1>4. scope \in Seq(DeferCall) /\ scope = ds[L][ScopesIn(top)]
  <2> DEFINE p == Peek(ds)
             k == Len(p)
  <2>1. p \in Seq(Seq(DeferCall)) /\ k \in Nat \ {0} /\ k = ScopesIn(top) /\ p = ds[L]
    BY <1>2, <1>3
  <2> HIDE DEF p
  <2>2. p[k] \in Seq(DeferCall) /\ Peek(p) = p[k]
    BY <2>1 DEF Peek
  <2> QED
    BY <2>1, <2>2 DEF p
<1>5. Jumped /\ top.should_execute_defers => scope = <<>>
  <2> SUFFICES ASSUME Jumped, top.should_execute_defers PROVE scope = <<>>
    OBVIOUS
  <2>1. ~top.open
    BY <1>1, OpenClear
  <2>2. top.declared = <<>>
    BY <1>1, <2>1 DEF ClosedInv, Status, top
  <2>3. Len(frames) \in 1..Len(frames)
    BY <1>2
  <2>4. Undeclared(top, ds)
    BY <1>2, <2>3 DEF ClosedInv, DeclaredOK
  <2> QED
    BY <1>1, <1>2, <1>4, <2>2, <2>4 DEF Undeclared
<1> HIDE DEF scope, ds, L
<1>6. /\ c \in Instruction /\ ~IsJump(c) /\ c.to = {}
      /\ scope = <<>> => ~HasCode(c)
  BY <1>4, ScopeCallsClean
<1> HIDE DEF c
<1>7. CASE top.should_execute_defers
  <2> DEFINE s == <<c>>
  <2>1. /\ s \in Seq(Instruction) /\ Clean(s) /\ ~HasJump(s) /\ Targets(s) = {}
        /\ Jumped => Silent(s)
    BY <1>5, <1>6, <1>7, OneClean
  <2> HIDE DEF s
  <2>2. Stays(s, blocks[insert].fn, blocks, Promised(frames))
    BY <2>1 DEF Stays
  <2>3. \A i \in 1..Len(frames) : SameBlocks(frames[i], frames[i])
    BY DEF SameBlocks
  <2>4. /\ Emit(blocks, insert, s) \in Seq(Block)
        /\ Built(frames, Emit(blocks, insert, s), insert)
        /\ HasJump(Emit(blocks, insert, s)[insert].insts)
             <=> HasJump(blocks[insert].insts) \/ HasJump(s)
    BY <1>1, <1>2, <2>1, <2>2, <2>3, BuiltEmit
  <2>5. blocks' = Emit(blocks, insert, s)
    BY <1>1, <1>7 DEF s
  <2> QED
    BY <1>2, <2>1, <2>4, <2>5
<1>8. CASE ~top.should_execute_defers
  BY <1>1, <1>2, <1>8
<1> QED
  BY <1>7, <1>8

\* And drops the scope, which is above those of the blocks around it.
LEMMA ScopeLeft ==
  ASSUME ClosedInv, frames # <<>>, top.kind = "block",
         defer_calls_stack' =
           [defer_calls_stack EXCEPT ![Len(defer_calls_stack)] = Pop(@)]
  PROVE  DeclaredOK(Pop(frames), defer_calls_stack')
<1> DEFINE ds == defer_calls_stack
           n  == Len(frames)
           L  == Len(ds)
           e  == Pop(ds[L])
           es == defer_calls_stack'
<1>1. /\ frames \in Seq(FrameType) /\ DeclaredOK(frames, ds) /\ top \in FrameType
      /\ n \in Nat \ {0} /\ L \in Nat \ {0} /\ ds \in DeferStacks
      /\ L = top.depth /\ top = frames[n] /\ Len(ds[L]) = top.scopes + 1
      /\ ds[L] \in Seq(Seq(DeferCall)) /\ top.scopes \in Nat
  BY TopFacts DEF ClosedInv, DepthIn, ScopesIn, Callables, FrameType
<1>2. n \in 1..n /\ \A i \in 1..n - 1 : i \in 1..n /\ i < n
  <2> HIDE DEF n
  <2> QED
    BY <1>1
<1>3. /\ e \in Seq(Seq(DeferCall)) /\ Len(e) = top.scopes
      /\ \A k \in 1..top.scopes : e[k] = ds[L][k]
  <2> DEFINE p == ds[L]
  <2>1. p \in Seq(Seq(DeferCall)) /\ Len(p) = top.scopes + 1 /\ top.scopes \in Nat
    BY <1>1
  <2> HIDE DEF p
  <2>2. Pop(p) \in Seq(Seq(DeferCall)) /\ Len(Pop(p)) = Len(p) - 1
        /\ \A k \in 1..Len(p) - 1 : Pop(p)[k] = p[k]
    <3>1. p # <<>>
      BY <2>1
    <3> QED
      BY <2>1, <3>1, PopType
  <2>3. Len(p) - 1 = top.scopes
    BY <2>1
  <2> QED
    BY <2>2, <2>3 DEF p
<1> HIDE DEF e
<1>4. es = [ds EXCEPT ![L] = e]
  BY DEF e
<1> HIDE DEF es, ds
<1>5. Len(es) = L /\ \A i \in 1..L : es[i] = IF i = L THEN e ELSE ds[i]
  BY <1>1, <1>3, <1>4, ReplaceType DEF DeferStacks
<1> HIDE DEF n, L
<1>6. ASSUME NEW i \in 1..n - 1 PROVE Undeclared(frames[i], es)
  <2> DEFINE D == DepthIn(frames[i])
             S == ScopesIn(frames[i])
  <2> SUFFICES ASSUME frames[i].kind = "block"
               PROVE  /\ D \in 1..Len(es) /\ S \in 1..Len(es[D])
                      /\ frames[i].declared = <<>> => es[D][S] = <<>>
    BY DEF Undeclared
  <2>1. /\ D \in 1..L /\ S \in 1..Len(ds[D])
        /\ D < frames[n].depth \/ S <= frames[n].scopes
        /\ frames[i].declared = <<>> => ds[D][S] = <<>>
    BY <1>2, BelowTop DEF L, n, ds
  <2> HIDE DEF D, S
  <2>2. S \in 1..Len(es[D]) /\ es[D][S] = ds[D][S]
    <3>1. CASE D = L
      <4>1. es[D] = e /\ S \in 1..Len(ds[L]) /\ S <= top.scopes
        BY SMTT(30), <1>1, <1>5, <2>1, <3>1
      <4>2. S \in 1..top.scopes
        BY <1>1, <4>1
      <4> QED
        BY <1>3, <3>1, <4>1, <4>2
    <3>2. CASE D # L
      BY <1>5, <2>1, <3>2
    <3> QED
      BY <3>1, <3>2
  <2> QED
    BY <1>5, <2>1, <2>2
<1>7. frames # <<>> /\ \A i \in 1..Len(frames) - 1 : Undeclared(frames[i], es)
  BY <1>6 DEF n
<1>8. DeclaredOK(Pop(frames), es)
  BY <1>1, <1>7, DeclaredPop
<1> QED
  BY <1>8 DEF es

LEMMA LeaveBlockKept ==
  ASSUME ClosedInv, LeaveBlock
  PROVE  ClosedKept
<1>1. /\ frames # <<>> /\ top.kind = "block" /\ ~top.returning /\ insert' = insert
      /\ Parent.kind \in Callables => ~top.open
      /\ frames' = Pop(frames) /\ UNCHANGED flags
      /\ defer_calls_stack' =
           [defer_calls_stack EXCEPT ![Len(defer_calls_stack)] = Pop(@)]
  BY DEF LeaveBlock
<1>2. /\ frames \in Seq(FrameType) /\ top = Peek(frames)
  BY <1>1, TopFacts
<1>3. /\ Pop(frames) # <<>> /\ Peek(Pop(frames)) = Parent /\ KindsOK(Pop(frames))
      /\ Parent.open <=> Resumes(Parent)
      /\ Parent.kind \in Selects => FlagHolds
      /\ ~Parent.returning
  BY <1>1, Around DEF Owns, Inner
<1>4. /\ Built(frames, blocks', insert)
      /\ HasJump(blocks'[insert].insts) <=> Jumped
      /\ blocks' \in Seq(Block)
  BY BlockEnd
<1>5. Built(Pop(frames), blocks', insert)
  BY <1>1, <1>2, <1>3, <1>4, BuiltUnblock
<1>6. DeclaredOK(Pop(frames), defer_calls_stack')
  BY <1>1, ScopeLeft
<1>7. Jumped' <=> Jumped
  BY <1>1, <1>3, <1>4 DEF Jumped
<1>8. CASE top.open
  <2>1. Parent.kind \notin Callables
    BY <1>1, <1>8
  <2>2. Clear(Jumped', has_return_statement', has_break_or_continue_statement')
    BY <1>1, <1>7, <1>8, OpenClear DEF Clear, flags
  <2>3. Status(frames', Jumped', has_return_statement',
               has_break_or_continue_statement')
    BY <1>1, <1>3, <2>1, <2>2, StatusBack
  <2> QED
    BY <1>1, <1>3, <1>5, <1>6, <2>3 DEF ClosedKept
<1>9. CASE ~top.open
  <2>1. /\ Jumped /\ Parent.kind # "block"
        /\ Over(Parent, TRUE, has_return_statement, has_break_or_continue_statement)
    BY <1>1, <1>9 DEF ClosedInv, Status, top, Parent
  <2>2. Over(Parent, Jumped', has_return_statement', has_break_or_continue_statement')
    BY <1>1, <1>7, <2>1 DEF Over, flags
  <2>3. Status(frames', Jumped', has_return_statement',
               has_break_or_continue_statement')
    BY <1>1, <1>3, <2>1, <2>2 DEF Status, Resumes
  <2> QED
    BY <1>1, <1>3, <1>5, <1>6, <2>3 DEF ClosedKept
<1> QED
  BY <1>8, <1>9

\* The blocks that the end of a body may go to.
LEMMA ConstructTargets ==
  ASSUME ClosedInv, frames # <<>>, top.kind \in Constructs
  PROVE  /\ top.end \in 1..Len(blocks) /\ top.end \in Nat /\ top.fn = blocks[insert].fn
         /\ <<top.end, blocks[insert].fn>> \in Promised(frames)
         /\ top.kind \in Loops => /\ top.cond \in 1..Len(blocks) /\ top.cond \in Nat
                                  /\ blocks[top.cond].fn = blocks[insert].fn
<1>1. /\ frames \in Seq(FrameType) /\ blocks \in Seq(Block) /\ top = Peek(frames)
      /\ Built(frames, blocks, insert) /\ Len(frames) \in Nat \ {0}
      /\ top = frames[Len(frames)] /\ top \in FrameType
  BY TopFacts DEF ClosedInv
<1>2. FrameFits(top, blocks) /\ blocks[insert].fn = FnOf(top, blocks)
  <2>1. /\ FrameFits(Peek(frames), blocks)
        /\ blocks[insert].fn = FnOf(Peek(frames), blocks)
    BY <1>1, BuiltFacts
  <2> QED
    BY <1>1, <2>1
<1>3. top.kind # "block"
  BY DEF Constructs, Loops, Selects
<1>4. top.end \in 1..Len(blocks) /\ top.fn = blocks[insert].fn
  BY <1>2, <1>3 DEF FrameFits, Holds
<1>5. <<top.end, top.fn>> \in Promised(frames)
  <2>1. Len(frames) \in 1..Len(frames)
    BY <1>1
  <2>2. <<top.end, top.fn>> \in Promises(top)
    BY DEF Promises
  <2> QED
    BY <1>1, <2>1, <2>2 DEF Promised
<1>6. top.kind \in Loops => top.cond \in 1..Len(blocks) /\ blocks[top.cond].fn = top.fn
  BY <1>2 DEF FrameFits
<1>7. top.end \in Nat /\ top.cond \in Nat
  BY <1>1 DEF FrameType
<1> QED
  BY <1>4, <1>5, <1>6, <1>7

\* A branch that has not jumped goes to the end of its if or switch.
LEMMA BranchEndOK ==
  ASSUME ClosedInv, frames # <<>>, top.kind \in Selects, ~top.open
  PROVE  /\ BranchEnd \in Seq(Instruction) /\ Clean(BranchEnd)
         /\ Jumped => Silent(BranchEnd)
         /\ Jumped \/ HasJump(BranchEnd)
         /\ Stays(BranchEnd, blocks[insert].fn, blocks, Promised(frames))
         /\ has_break_or_continue_statement => top.left = 0
<1>1. top.kind # "block" /\ top.kind \in Constructs
  BY DEF Constructs, Selects
<1>2. /\ Jumped <=> has_return_statement \/ has_break_or_continue_statement
      /\ has_break_or_continue_statement => top.left = 0
  BY <1>1, Ended DEF Over
<1>3. /\ top.end \in 1..Len(blocks) /\ top.end \in Nat
      /\ <<top.end, blocks[insert].fn>> \in Promised(frames)
  BY <1>1, ConstructTargets
<1>4. CASE Jumped
  <2>1. BranchEnd = <<>>
    BY <1>2, <1>4 DEF BranchEnd
  <2>2. Stays(<<>>, blocks[insert].fn, blocks, Promised(frames))
    BY NoneClean DEF Stays
  <2> QED
    BY <1>2, <1>4, <2>1, <2>2, NoneClean
<1>5. CASE ~Jumped
  <2>1. BranchEnd = <<Br(top.end)>>
    BY <1>2, <1>5 DEF BranchEnd
  <2>2. /\ Br(top.end) \in Instruction /\ IsJump(Br(top.end))
        /\ Br(top.end).to = {top.end}
    BY <1>3, InstructionTypes, InstructionFacts
  <2>3. /\ <<Br(top.end)>> \in Seq(Instruction) /\ Clean(<<Br(top.end)>>)
        /\ HasJump(<<Br(top.end)>>) /\ Targets(<<Br(top.end)>>) = {top.end}
    BY <2>2, OneClean
  <2>4. Stays(<<Br(top.end)>>, blocks[insert].fn, blocks, Promised(frames))
    BY <1>3, <2>3 DEF Stays
  <2> QED
    BY <1>2, <1>5, <2>1, <2>3, <2>4
<1> QED
  BY <1>4, <1>5

\* The end of a construct is the block to fill next.
LEMMA LeaveConstructKept ==
  ASSUME ClosedInv, frames # <<>>, top.kind \in Constructs,
         ~(top.kind \in Selects /\ top.left > 0),
         NEW s \in Seq(Instruction), Clean(s), Jumped => Silent(s), Jumped \/ HasJump(s),
         Stays(s, blocks[insert].fn, blocks, Promised(frames)),
         blocks' = Place(Emit(blocks, insert, s), top.end, top.fn),
         insert' = top.end, frames' = Pop(frames),
         defer_calls_stack' = defer_calls_stack,
         ~has_break_or_continue_statement', FlagHolds => ~has_return_statement'
  PROVE  ClosedKept
<1>1. /\ frames \in Seq(FrameType) /\ blocks \in Seq(Block) /\ top = Peek(frames)
      /\ Built(frames, blocks, insert) /\ DeclaredOK(frames, defer_calls_stack)
      /\ Jumped <=> HasJump(blocks[insert].insts)
      /\ Len(frames) \in Nat \ {0}
  BY TopFacts DEF ClosedInv
<1>2. top.kind # "function" /\ top.kind # "block"
  BY DEF Constructs, Loops, Selects
<1>3. /\ Pop(frames) # <<>> /\ Peek(Pop(frames)) = Parent /\ KindsOK(Pop(frames))
      /\ Parent.open <=> Resumes(Parent)
      /\ Parent.kind \notin Callables /\ ~Parent.returning
      /\ Parent.kind \in Selects => FlagHolds
  BY <1>2, Around DEF Owns, Inner, Constructs, Loops, Selects
<1>4. /\ Built(Pop(frames), blocks', insert') /\ ~HasJump(blocks'[insert'].insts)
  <2> DEFINE f == Peek(frames)
             cs == Place(Emit(blocks, insert, s), f.end, f.fn)
  <2>1. /\ f.kind \in Constructs /\ ~(f.kind \in Selects /\ f.left > 0)
        /\ blocks' = cs /\ insert' = f.end
    BY <1>1
  <2>2. Built(Pop(frames), cs, f.end) /\ ~HasJump(cs[f.end].insts)
    BY <1>1, <1>3, <2>1, BuiltEnd
  <2> QED
    BY <2>1, <2>2
<1>5. DeclaredOK(Pop(frames), defer_calls_stack)
  <2>1. \A i \in 1..Len(frames) - 1 : i \in 1..Len(frames)
    BY <1>1
  <2>2. \A i \in 1..Len(frames) - 1 : Undeclared(frames[i], defer_calls_stack)
    BY <1>1, <2>1 DEF DeclaredOK
  <2> QED
    BY <1>1, <2>2, DeclaredPop
<1>6. Clear(Jumped', has_return_statement', has_break_or_continue_statement')
  BY <1>4 DEF Clear, Jumped
<1>7. Status(frames', Jumped', has_return_statement',
             has_break_or_continue_statement')
  BY <1>3, <1>6, StatusBack
<1> QED
  BY <1>3, <1>4, <1>5, <1>7 DEF ClosedKept

LEMMA LeaveSelectKept ==
  ASSUME ClosedInv, LeaveSelect
  PROVE  ClosedKept
<1>1. /\ frames # <<>> /\ top.kind \in Selects /\ ~top.open /\ top.left = 0
      /\ blocks' = Place(Emit(blocks, insert, BranchEnd), top.end, top.fn)
      /\ insert' = top.end /\ frames' = Pop(frames)
      /\ defer_calls_stack' = defer_calls_stack
      /\ has_return_statement' = FALSE /\ has_break_or_continue_statement' = FALSE
  BY DEF LeaveSelect
<1>2. top.kind \in Constructs /\ ~(top.kind \in Selects /\ top.left > 0)
  BY <1>1 DEF Constructs
<1>3. /\ BranchEnd \in Seq(Instruction) /\ Clean(BranchEnd)
      /\ Jumped => Silent(BranchEnd)
      /\ Jumped \/ HasJump(BranchEnd)
      /\ Stays(BranchEnd, blocks[insert].fn, blocks, Promised(frames))
  BY <1>1, BranchEndOK
<1> DEFINE s == BranchEnd
<1> HIDE DEF s
<1>5. /\ Jumped => Silent(s)
      /\ Jumped \/ HasJump(s)
      /\ Stays(s, blocks[insert].fn, blocks, Promised(frames))
      /\ blocks' = Place(Emit(blocks, insert, s), top.end, top.fn)
      /\ s \in Seq(Instruction) /\ Clean(s)
  BY <1>1, <1>3 DEF s
<1> QED
  BY <1>1, <1>2, <1>5, LeaveConstructKept

LEMMA LeaveLoopKept ==
  ASSUME ClosedInv, LeaveLoop
  PROVE  ClosedKept
<1> DEFINE s == IF has_break_or_continue_statement THEN <<>> ELSE <<Br(top.cond)>>
<1>1. /\ frames # <<>> /\ top.kind \in Loops /\ ~top.open
      /\ blocks' = Place(Emit(blocks, insert, s), top.end, top.fn)
      /\ insert' = top.end /\ frames' = Pop(frames)
      /\ defer_calls_stack' = defer_calls_stack
      /\ has_return_statement' = has_return_statement
      /\ has_break_or_continue_statement' = FALSE
  BY DEF LeaveLoop
<1>2. /\ top.kind \in Constructs /\ ~(top.kind \in Selects /\ top.left > 0)
      /\ top.kind # "block"
  BY <1>1 DEF Constructs, Loops, Selects
<1>3. /\ Jumped <=> has_break_or_continue_statement
      /\ FlagHolds => ~has_return_statement
  BY <1>1, <1>2, Ended DEF Over
<1>4. /\ top.cond \in 1..Len(blocks) /\ top.cond \in Nat
      /\ blocks[top.cond].fn = blocks[insert].fn
  BY <1>1, <1>2, ConstructTargets
<1>5. /\ s \in Seq(Instruction) /\ Clean(s)
      /\ Jumped => Silent(s)
      /\ Jumped \/ HasJump(s)
      /\ Stays(s, blocks[insert].fn, blocks, Promised(frames))
  <2>1. CASE has_break_or_continue_statement
    <3>1. s = <<>>
      BY <2>1
    <3>2. Stays(<<>>, blocks[insert].fn, blocks, Promised(frames))
      BY NoneClean DEF Stays
    <3> QED
      BY <1>3, <2>1, <3>1, <3>2, NoneClean
  <2>2. CASE ~has_break_or_continue_statement
    <3>1. s = <<Br(top.cond)>>
      BY <2>2
    <3>2. /\ Br(top.cond) \in Instruction /\ IsJump(Br(top.cond))
          /\ Br(top.cond).to = {top.cond}
      BY <1>4, InstructionTypes, InstructionFacts
    <3>3. /\ <<Br(top.cond)>> \in Seq(Instruction) /\ Clean(<<Br(top.cond)>>)
          /\ HasJump(<<Br(top.cond)>>) /\ Targets(<<Br(top.cond)>>) = {top.cond}
      BY <3>2, OneClean
    <3>4. Stays(<<Br(top.cond)>>, blocks[insert].fn, blocks, Promised(frames))
      BY <1>4, <3>3 DEF Stays
    <3> QED
      BY <1>3, <2>2, <3>1, <3>3, <3>4
  <2> QED
    BY <2>1, <2>2
<1> HIDE DEF s
<1> QED
  BY <1>1, <1>2, <1>3, <1>5, LeaveConstructKept

\* The next branch of an if or a switch, with its test.
LEMMA BranchBlocks ==
  ASSUME NEW fn \in Nat, NEW left \in Nat \ {0}
  PROVE  LET new == <<NewBlock(fn)>>
                    \o (IF left > 1 THEN <<NewBlock(fn)>> ELSE <<>>)
         IN  /\ new \in Seq(Block) /\ Len(new) = (IF left > 1 THEN 2 ELSE 1)
             /\ \A i \in 1..Len(new) : new[i] = NewBlock(fn)
<1> DEFINE x == NewBlock(fn)
<1>1. x \in Block
  BY NewBlockType, NoneClean, Zenon
<1> HIDE DEF x
<1>2. CASE left > 1
  <2> DEFINE new == <<x>> \o <<x>>
             one == <<x>>
  <2>1. one \in Seq(Block) /\ Len(one) = 1 /\ one[1] = x
    BY <1>1
  <2> HIDE DEF one
  <2>2. /\ one \o one \in Seq(Block) /\ Len(one \o one) = Len(one) + Len(one)
        /\ \A b \in 1..Len(one) : (one \o one)[b] = one[b]
        /\ \A k \in 1..Len(one) : (one \o one)[Len(one) + k] = one[k]
    BY <2>1, ConcatFields
  <2>3. (one \o one)[1] = x /\ (one \o one)[1 + 1] = x
    BY <2>1, <2>2
  <2>4. new \in Seq(Block) /\ Len(new) = 2 /\ \A i \in 1..Len(new) : new[i] = x
    BY <2>1, <2>2, <2>3 DEF one
  <2> QED
    BY <1>2, <2>4 DEF x
<1>3. CASE ~(left > 1)
  <2> DEFINE new == <<x>> \o <<>>
  <2>1. new = <<x>>
    BY <1>1
  <2>2. new \in Seq(Block) /\ Len(new) = 1 /\ \A i \in 1..Len(new) : new[i] = x
    BY <1>1, <2>1
  <2> QED
    BY <1>3, <2>2 DEF x
<1> QED
  BY <1>2, <1>3

LEMMA NextBranchKept ==
  ASSUME ClosedInv, NextBranch
  PROVE  ClosedKept
<1> DEFINE m     == Len(blocks)
           left  == top.left - 1
           false == IF top.left > 1 THEN m + 2 ELSE top.end
           first == <<NewBlock(top.fn)>>
           more  == IF top.left > 1 THEN <<NewBlock(top.fn)>> ELSE <<>>
           new   == first \o more
           s     == BranchEnd
           test  == <<Work, CondBr(m + 1, false)>>
           bs    == Emit(Emit(blocks, insert, s), top.next, test)
           g     == [top EXCEPT !.open = TRUE, !.next = false, !.left = left]
<1>1. /\ frames # <<>> /\ top.kind \in Selects /\ ~top.open /\ top.left > 0
      /\ blocks' = bs \o first \o more /\ insert' = m + 1
      /\ has_return_statement' = FALSE
      /\ has_break_or_continue_statement' = has_break_or_continue_statement
      /\ frames' = Retop(frames, g) /\ defer_calls_stack' = defer_calls_stack
  BY DEF NextBranch, Retop
<1>2. /\ frames \in Seq(FrameType) /\ blocks \in Seq(Block) /\ top = Peek(frames)
      /\ Built(frames, blocks, insert) /\ DeclaredOK(frames, defer_calls_stack)
      /\ Jumped <=> HasJump(blocks[insert].insts)
      /\ Len(frames) \in Nat \ {0} /\ KindsOK(frames) /\ top \in FrameType
      /\ m \in Nat /\ insert \in 1..m /\ top = frames[Len(frames)]
  BY <1>1, TopFacts DEF ClosedInv
<1>3. /\ top.left \in Nat \ {0} /\ left \in Nat /\ top.end \in Nat /\ top.fn \in Nat
  <2>1. top.left \in Nat /\ top.end \in Nat /\ top.fn \in Nat
    BY <1>2 DEF FrameType
  <2> QED
    BY <1>1, <2>1
<1>4. /\ s \in Seq(Instruction) /\ Clean(s)
      /\ Jumped => Silent(s)
      /\ Jumped \/ HasJump(s)
      /\ Stays(s, blocks[insert].fn, blocks, Promised(frames))
      /\ ~has_break_or_continue_statement
  BY <1>1, <1>3, BranchEndOK
<1>5. /\ new \in Seq(Block) /\ Len(new) = (IF top.left > 1 THEN 2 ELSE 1)
      /\ \A i \in 1..Len(new) : new[i] = NewBlock(top.fn)
  BY <1>3, BranchBlocks
<1>6. m + 1 \in Nat /\ m + 2 \in Nat /\ false \in Nat
  BY <1>2, <1>3
<1>7. /\ test \in Seq(Instruction) /\ top.next \in Nat
      /\ first \in Seq(Block) /\ more \in Seq(Block)
  <2>1. test \in Seq(Instruction)
    BY <1>6, InstructionTypes, TestClean
  <2>2. NewBlock(top.fn) \in Block
    BY <1>3, NewBlockType, NoneClean, Zenon
  <2> DEFINE x == NewBlock(top.fn)
  <2> HIDE DEF x
  <2>3. <<x>> \in Seq(Block) /\ (IF top.left > 1 THEN <<x>> ELSE <<>>) \in Seq(Block)
    BY <2>2 DEF x
  <2> QED
    BY <1>2, <2>1, <2>3 DEF x, FrameType
<1>8. blocks' = bs \o new
  <2>1. bs \in Seq(Block)
    <3>1. Emit(blocks, insert, s) \in Seq(Block)
      BY <1>2, <1>4, EmitFields
    <3> HIDE DEF test, s
    <3> QED
      BY <1>7, <3>1, EmitType
  <2> HIDE DEF bs, first, more
  <2> QED
    BY <1>1, <1>7, <2>1, ConcatAssociative
<1> HIDE DEF new, s, m, left
<1>9. /\ g \in FrameType /\ g.kind = top.kind /\ g.fn = top.fn /\ g.insert = top.insert
      /\ g.end = top.end /\ g.cond = top.cond /\ g.left = left /\ g.next = false
      /\ g.open = TRUE /\ g.depth = top.depth /\ g.scopes = top.scopes
      /\ g.declared = top.declared /\ g.returning = top.returning
  <2> HIDE DEF false
  <2> QED
    BY <1>2, <1>3, <1>6 DEF FrameType
<1> HIDE DEF g
<1>10. /\ Built(Retop(frames, g), blocks', m + 1) /\ ~HasJump(blocks'[m + 1].insts)
  <2> DEFINE f  == Peek(frames)
             cs == Emit(Emit(blocks, insert, s), f.next,
                        <<Work, CondBr(m + 1, g.next)>>) \o new
  <2>1. Pop(frames) # <<>>
    <3>1. top.kind # "function"
      BY <1>1 DEF Selects
    <3> QED
      BY <1>1, <3>1, Around
  <2>2. /\ f.kind \in Selects /\ f.left > 0 /\ g.kind = f.kind /\ g.fn = f.fn
        /\ g.insert = f.insert /\ g.end = f.end /\ g.cond = f.cond
        /\ g.left = f.left - 1
    BY <1>1, <1>2, <1>9 DEF left
  <2>3. /\ \A i \in 1..Len(new) : new[i] = NewBlock(g.fn)
        /\ Len(new) = IF f.left > 1 THEN 2 ELSE 1
    BY <1>2, <1>5, <1>9
  <2>4. g.next = IF f.left > 1 THEN m + 2 ELSE g.end
    BY <1>2, <1>9
  <2>5. blocks' = cs
    BY <1>2, <1>8, <1>9
  <2>6. Built(Retop(frames, g), cs, m + 1) /\ ~HasJump(cs[m + 1].insts)
    BY <1>1, <1>2, <1>4, <1>5, <1>9, <2>1, <2>2, <2>3, <2>4, BuiltBranch DEF m
  <2> QED
    BY <2>5, <2>6
<1>11. KindsOK(Retop(frames, g))
  <2>1. ReturnsIn(frames, Len(frames), g)
    BY <1>1, <1>9, WaitingReturns DEF ReturnsIn
  <2> QED
    BY <1>1, <1>2, <1>9, <2>1, KindsRetop
<1>12. DeclaredOK(Retop(frames, g), defer_calls_stack)
  <2>1. Undeclared(top, defer_calls_stack)
        /\ \A i \in 1..Len(frames) - 1 : Undeclared(frames[i], defer_calls_stack)
    BY <1>2 DEF DeclaredOK
  <2>2. Undeclared(g, defer_calls_stack)
    BY <1>9, <2>1 DEF Undeclared, DepthIn, ScopesIn
  <2> QED
    BY <1>1, <1>2, <1>9, <2>1, <2>2, DeclaredRetop
<1>13. Retop(frames, g) # <<>> /\ Peek(Retop(frames, g)) = g
  BY <1>1, <1>2, <1>9, RetopFacts
<1>14. Clear(Jumped', has_return_statement', has_break_or_continue_statement')
  BY <1>1, <1>4, <1>10 DEF Clear, Jumped
<1>15. Status(frames', Jumped', has_return_statement',
              has_break_or_continue_statement')
  <2>1. ~g.returning
    BY <1>1, <1>9, WaitingReturns DEF ReturnsIn
  <2> QED
    BY <1>1, <1>9, <1>13, <1>14, <2>1 DEF Status, Begun
<1> QED
  BY <1>1, <1>10, <1>11, <1>12, <1>15 DEF ClosedKept


-----------------------------------------------------------------------------
(* The unit.                                                               *)

LEMMA EnterFunctionKept ==
  ASSUME ClosedInv, EnterFunction
  PROVE  ClosedKept
<1> DEFINE entry == Len(blocks) + 1
           f     == [Frame("function") EXCEPT !.fn = entry]
           cs    == Append(blocks, [NewBlock(entry) EXCEPT !.insts = <<Work>>])
<1>1. /\ frames = <<>> /\ frames' = <<f>> /\ blocks' = cs /\ insert' = entry
      /\ UNCHANGED flags
  BY DEF EnterFunction
<1>2. /\ blocks \in Seq(Block) /\ entry \in Nat /\ TypeInv
      /\ Built(<<>>, blocks, insert)
      /\ ~has_break_or_continue_statement /\ (FlagHolds => ~has_return_statement)
  BY <1>1 DEF ClosedInv, LoopInv, TypeInv, TypeOK, Status
<1>3. f \in FrameType /\ f.kind = "function" /\ f.fn = entry /\ f.open /\ ~f.returning
  <2> HIDE DEF entry
  <2>1. defer_calls_stack = <<>>
    BY <1>1, <1>2 DEF TypeInv, DeferOK
  <2>2. /\ insert \in Nat /\ break_blocks_stack \in Seq(Nat)
        /\ continue_blocks_stack \in Seq(Nat)
    BY <1>2 DEF TypeInv, TypeOK
  <2>3. Len(defer_calls_stack) = 0 /\ <<>> \in Seq(Nat)
    BY <2>1
  <2> QED
    BY <1>2, <2>1, <2>2, <2>3 DEF Frame, FrameType, Callables
<1> HIDE DEF f
<1>4. Built(<<f>>, cs, entry) /\ ~HasJump(cs[entry].insts)
  BY <1>2, <1>3, BuiltFunction
<1> HIDE DEF cs, entry
<1> DEFINE fs == <<f>>
<1>5. Len(fs) = 1 /\ fs[1] = f /\ fs # <<>> /\ Peek(fs) = f
  BY <1>3 DEF Peek
<1> HIDE DEF fs
<1>6. \A i \in 1..Len(fs) : i = 1 /\ ~(i \in 1..Len(fs) - 1)
  BY <1>5
<1>7. KindsOK(fs)
  BY <1>3, <1>5, <1>6 DEF KindsOK, ReturnsIn, Selects, Loops
<1>8. DeclaredOK(fs, defer_calls_stack')
  BY <1>3, <1>5, <1>6 DEF DeclaredOK, Undeclared
<1>9. frames' = fs
  BY <1>1 DEF fs
<1>10. ~Jumped'
  BY <1>1, <1>4 DEF Jumped
<1>11. Status(frames', Jumped', has_return_statement',
              has_break_or_continue_statement')
  BY <1>1, <1>2, <1>3, <1>5, <1>9, <1>10 DEF Status, Begun, Clear, flags
<1> QED
  BY <1>1, <1>4, <1>7, <1>8, <1>9, <1>11 DEF ClosedKept, fs

LEMMA StutterKept ==
  ASSUME ClosedInv,
         UNCHANGED <<frames, blocks, insert, flags, defer_calls_stack>>
  PROVE  ClosedKept
BY DEF ClosedInv, ClosedKept, Jumped, flags

LEMMA StepClosed ==
  ASSUME Tame, ClosedInv, [Next]_vars
  PROVE  ClosedInv'
<1>0. SUFFICES ClosedKept
  <2>1. LoopInv'
    BY StepLoops DEF ClosedInv, Tame
  <2> QED
    BY <1>0, <2>1 DEF ClosedInv, ClosedKept
<1>1. CASE EnterFunction \/ LeaveFunction
  BY <1>1, EnterFunctionKept, LeaveFunctionKept
<1>2. CASE EnterLambda \/ LeaveLambda \/ LeaveGeneric
  BY <1>2, EnterLambdaKept, LeaveLambdaKept, LeaveGenericKept
<1>3. ASSUME NEW g \in Generics, EnterGeneric(g) \/ CallInstance(g)
      PROVE  ClosedKept
  BY <1>3, EnterGenericKept, CallInstanceKept
<1>4. CASE EnterBlock \/ LeaveBlock \/ Plain
  BY <1>4, EnterBlockKept, LeaveBlockKept, PlainStatementKept
<1>5. ASSUME NEW kind \in DeferCallees, Defer(kind)
      PROVE  ClosedKept
  BY <1>5, DeferKept
<1>6. ASSUME NEW s \in Selects, NEW n \in Branches, EnterSelect(s, n)
      PROVE  ClosedKept
  BY <1>6, EnterSelectKept
<1>7. CASE NextBranch \/ LeaveSelect
  BY <1>7, NextBranchKept, LeaveSelectKept
<1>8. ASSUME NEW s \in Loops \ {"forever"}, EnterConditionLoop(s)
      PROVE  ClosedKept
  BY <1>8, EnterConditionLoopKept
<1>9. CASE EnterForever \/ LeaveLoop
  BY <1>9, EnterForeverKept, LeaveLoopKept
<1>10. CASE EnterReturn \/ LeaveReturn
  BY <1>10, EnterReturnKept, LeaveReturnKept
<1>11. ASSUME NEW n \in Times, Break(n) \/ Continue(n)
       PROVE  ClosedKept
  <2>1. n = 1
    BY DEF Tame
  <2> QED
    BY <1>11, <2>1, BreakKept, ContinueKept
<1>12. CASE DeclareGeneric \/ Finished \/ UNCHANGED vars
  <2>1. UNCHANGED <<frames, blocks, insert, flags, defer_calls_stack>>
    BY <1>12 DEF DeclareGeneric, Finished, vars, tables, flags
  <2> QED
    BY <2>1, StutterKept
<1> QED
  BY <1>1, <1>2, <1>3, <1>4, <1>5, <1>6, <1>7, <1>8, <1>9, <1>10, <1>11, <1>12
  DEF Next

LEMMA InitClosed == Init => ClosedInv
<1> SUFFICES ASSUME Init PROVE ClosedInv
  OBVIOUS
<1>1. /\ frames = <<>> /\ blocks = <<>> /\ defer_calls_stack = <<>>
      /\ ~has_return_statement /\ ~has_break_or_continue_statement
  BY DEF Init
<1>2. LoopInv
  BY InitLoops
<1>3. KindsOK(frames) /\ DeclaredOK(frames, defer_calls_stack)
  BY <1>1 DEF KindsOK, DeclaredOK
<1>4. Built(frames, blocks, insert)
  BY <1>1 DEF Built, Fits, Current, GraphOK
<1>5. Status(frames, Jumped, has_return_statement, has_break_or_continue_statement)
  BY <1>1 DEF Status
<1> QED
  BY <1>2, <1>3, <1>4, <1>5 DEF ClosedInv

LEMMA ClosedSound == ClosedInv => BlocksClosed
<1> SUFFICES ASSUME ClosedInv PROVE BlocksClosed
  OBVIOUS
<1>1. /\ blocks \in Seq(Block)
      /\ GraphOK(blocks, Open(frames, insert), Promised(frames))
  BY DEF ClosedInv, LoopInv, TypeInv, TypeOK, Built
<1>2. NoCodeAfterJump
  BY <1>1, CleanSound
<1>3. Complete
  <2>1. CASE frames = <<>>
    <3>1. Open(frames, insert) = {} /\ Promised(frames) = {}
      BY <2>1 DEF Open, Promised
    <3> QED
      BY <1>1, <3>1, GraphOKSound
  <2>2. CASE frames # <<>>
    BY <2>2 DEF Complete
  <2> QED
    BY <2>1, <2>2
<1> QED
  BY <1>2, <1>3 DEF BlocksClosed

\* Every function made from a program that keeps clear of what the visitors get
\* wrong is a closed graph of basic blocks: each is placed in its function and ends
\* in a jump, no jump leaves the function, and no code follows a jump.
THEOREM FunctionsAreClosed ==
  ASSUME Tame
  PROVE  Spec => []BlocksClosed
<1>1. Init => ClosedInv
  BY InitClosed
<1>2. ClosedInv /\ [Next]_vars => ClosedInv'
  BY StepClosed
<1>3. ClosedInv => BlocksClosed
  BY ClosedSound
<1> QED
  BY <1>1, <1>2, <1>3, PTL DEF Spec
=============================================================================
