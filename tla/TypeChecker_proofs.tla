------------------------ MODULE TypeChecker_proofs ------------------------
(***************************************************************************)
(* What holds of TypeChecker for every bound and every class of programs,  *)
(* or, where a theorem says so, for the classes it names.                  *)
(***************************************************************************)
EXTENDS TypeChecker, SequenceTheorems, FiniteSetTheorems, WellFoundedInduction, TLAPS

-----------------------------------------------------------------------------
(* Stacks.                                                                 *)

\* What is left of a stack that is not empty when its top is taken away.
LEMMA PopType ==
  ASSUME NEW S, NEW s \in Seq(S), s # <<>>
  PROVE  /\ Pop(s) \in Seq(S) /\ Len(s) \in Nat \ {0} /\ Len(Pop(s)) = Len(s) - 1
         /\ \A i \in 1 .. Len(s) - 1 : Pop(s)[i] = s[i]
         /\ Peek(s) \in S
<1> DEFINE n == Len(s) - 1
<1>1. n \in Nat /\ Len(s) = n + 1 /\ \A i \in 1 .. n : s[i] \in S
  OBVIOUS
<1>2. 1 \in Int /\ n \in Int
  BY <1>1
<1> HIDE DEF n
<1>3. /\ SubSeq(s, 1, n) \in Seq(S)
      /\ Len(SubSeq(s, 1, n)) = IF 1 <= n THEN n - 1 + 1 ELSE 0
      /\ \A i \in 1 .. n - 1 + 1 : SubSeq(s, 1, n)[i] = s[1 + i - 1]
  BY <1>1, <1>2, SubSeqProperties
<1>4. n - 1 + 1 = n /\ (~(1 <= n) => n = 0) /\ \A i \in 1 .. n : 1 + i - 1 = i
  BY <1>1
<1>5. Len(SubSeq(s, 1, n)) = n /\ \A i \in 1 .. n : SubSeq(s, 1, n)[i] = s[i]
  BY <1>3, <1>4
<1>6. Peek(s) \in S /\ Len(s) \in Nat \ {0}
  BY DEF Peek
<1> QED
  BY <1>3, <1>5, <1>6 DEF Pop, n

\* Replacing an entry of a stack keeps its type, its length and the others.
LEMMA ReplaceType ==
  ASSUME NEW S, NEW s \in Seq(S), NEW e \in S, NEW i
  PROVE  /\ [s EXCEPT ![i] = e] \in Seq(S)
         /\ Len([s EXCEPT ![i] = e]) = Len(s)
         /\ \A j \in 1 .. Len(s) :
              [s EXCEPT ![i] = e][j] = IF j = i THEN e ELSE s[j]
<1>1. CASE i \in 1 .. Len(s)
  BY <1>1, ExceptSeq
<1>2. CASE i \notin 1 .. Len(s)
  <2>1. [s EXCEPT ![i] = e] = s
    BY <1>2
  <2> QED
    BY <1>2, <2>1
<1> QED
  BY <1>1, <1>2

-----------------------------------------------------------------------------
(* The scopes.                                                             *)

Map == UNION {[ns -> Type] : ns \in SUBSET (Names \cup Functions)}
Scopes == Seq(Map)

\* A scope with one more name is a scope: the others keep their types.
LEMMA BindType ==
  ASSUME NEW m \in Map, NEW k \in Names \cup Functions, NEW v \in Type
  PROVE  /\ Bind(m, k, v) \in Map
         /\ DOMAIN Bind(m, k, v) = DOMAIN m \cup {k}
         /\ \A x \in DOMAIN m : x # k => Bind(m, k, v)[x] = m[x]
<1>1. PICK ns \in SUBSET (Names \cup Functions) : m \in [ns -> Type]
  BY DEF Map
<1>2. Bind(m, k, v) \in [ns \cup {k} -> Type]
  BY <1>1 DEF Bind
<1>3. ns \cup {k} \in SUBSET (Names \cup Functions)
  OBVIOUS
<1> QED
  BY <1>1, <1>2, <1>3 DEF Map, Bind

LEMMA ScopeType ==
  ASSUME NEW ns \in SUBSET Names, NEW t \in Type
  PROVE  Scope(ns, t) \in Map
BY DEF Scope, Map

LEMMA EmptyScope == <<>> \in Map
<1>1. <<>> \in [{} -> Type]
  OBVIOUS
<1> QED
  BY <1>1 DEF Map

\* A set of positions that is not empty has a last one.
LEMMA LastOf ==
  ASSUME NEW n \in Nat, NEW T \in SUBSET (1 .. n), T # {}
  PROVE  \E i \in T : \A j \in T : j <= i
<1> DEFINE U == {n - i : i \in T}
<1>1. U \subseteq Nat /\ U # {}
  <2>1. \A i \in T : n - i \in Nat
    OBVIOUS
  <2> QED
    BY <2>1
<1>2. PICK x \in U : \A y \in U : ~(<<y, x>> \in OpToRel(<, Nat))
  BY <1>1, WFMin, NatLessThanWellFounded
<1>3. PICK i \in T : x = n - i
  OBVIOUS
<1>4. ASSUME NEW j \in T
      PROVE  j <= i
  <2>1. n - j \in U /\ n - j \in Nat /\ x \in Nat
    BY <1>1
  <2>2. ~(n - j < x)
    BY <1>2, <2>1 DEF OpToRel
  <2> QED
    BY <1>3, <2>2
<1> QED
  BY <1>4

\* lookup_with_level finds the innermost scope with the name.
LEMMA LevelFound ==
  ASSUME NEW scopes \in Scopes, NEW k, is_defined(scopes, k)
  PROVE  /\ lookup_with_level(scopes, k) \in 1 .. Len(scopes)
         /\ k \in DOMAIN scopes[lookup_with_level(scopes, k)]
         /\ \A j \in 1 .. Len(scopes) :
              j > lookup_with_level(scopes, k) => k \notin DOMAIN scopes[j]
<1> DEFINE T == {i \in 1 .. Len(scopes) : k \in DOMAIN scopes[i]}
           Found(i) == /\ k \in DOMAIN scopes[i]
                       /\ \A j \in i + 1 .. Len(scopes) : k \notin DOMAIN scopes[j]
<1>1. T # {} /\ Len(scopes) \in Nat /\ DOMAIN scopes = 1 .. Len(scopes)
  BY DEF is_defined, Scopes
<1>2. PICK i \in T : \A j \in T : j <= i
  BY <1>1, LastOf
<1>3. i \in DOMAIN scopes /\ Found(i)
  BY <1>1, <1>2
<1>4. lookup_with_level(scopes, k) = CHOOSE l \in DOMAIN scopes : Found(l)
  BY DEF lookup_with_level
<1>5. /\ lookup_with_level(scopes, k) \in DOMAIN scopes
      /\ Found(lookup_with_level(scopes, k))
  <2> HIDE DEF Found
  <2> QED
    BY <1>3, <1>4
<1> QED
  BY <1>1, <1>5

\* A name that is defined has a type.
LEMMA LookupType ==
  ASSUME NEW scopes \in Scopes, NEW k, is_defined(scopes, k)
  PROVE  lookup(scopes, k) \in Type
<1>1. /\ lookup_with_level(scopes, k) \in 1 .. Len(scopes)
      /\ k \in DOMAIN scopes[lookup_with_level(scopes, k)]
  BY LevelFound
<1>2. scopes[lookup_with_level(scopes, k)] \in Map
  BY <1>1 DEF Scopes
<1> QED
  BY <1>1, <1>2 DEF lookup, Map

\* define changes the current scope only, and there it adds the name.
Extends(old, new) ==
  /\ new \in Scopes /\ Len(new) = Len(old)
  /\ \A i \in 1 .. Len(old) - 1 : new[i] = old[i]
  /\ old # <<>> => \A n \in DOMAIN current(old) :
       n \in DOMAIN current(new) /\ current(new)[n] = current(old)[n]

LEMMA ExtendsSelf ==
  ASSUME NEW scopes \in Scopes
  PROVE  Extends(scopes, scopes)
BY DEF Extends

LEMMA ExtendsTrans ==
  ASSUME NEW a \in Scopes, NEW b, NEW c, Extends(a, b), Extends(b, c)
  PROVE  Extends(a, c)
BY DEF Extends, Scopes

LEMMA DefineExtends ==
  ASSUME NEW scopes \in Scopes, scopes # <<>>, NEW k \in Names \cup Functions, NEW t \in Type
  PROVE  /\ Extends(scopes, define(scopes, k, t))
         /\ k \in DOMAIN current(define(scopes, k, t))
<1>1. CASE ~Free(scopes, k)
  BY <1>1, ExtendsSelf DEF define, Free
<1>2. CASE Free(scopes, k)
  <2> DEFINE l == Len(scopes)
             m == Bind(scopes[l], k, t)
             new == [scopes EXCEPT ![l] = m]
  <2>1. define(scopes, k, t) = new
    BY <1>2 DEF define
  <2>2. l \in 1 .. Len(scopes) /\ scopes[l] \in Map /\ l \in Nat
    BY DEF Scopes
  <2>3. /\ m \in Map /\ DOMAIN m = DOMAIN scopes[l] \cup {k}
        /\ \A x \in DOMAIN scopes[l] : x # k => m[x] = scopes[l][x]
    BY <2>2, BindType
  <2>4. k \notin DOMAIN scopes[l]
    BY <1>2 DEF Free, current
  <2> HIDE DEF m
  <2>5. /\ new \in Scopes /\ Len(new) = l
        /\ \A j \in 1 .. l : new[j] = IF j = l THEN m ELSE scopes[j]
    BY <2>2, <2>3, ReplaceType DEF Scopes
  <2> HIDE DEF new
  <2>6. current(new) = m /\ current(scopes) = scopes[l]
    BY <2>2, <2>5 DEF current
  <2> QED
    BY <2>1, <2>2, <2>3, <2>4, <2>5, <2>6 DEF Extends
<1> QED
  BY <1>1, <1>2

-----------------------------------------------------------------------------
(* How many of the visitors in progress are of some kinds.                 *)

CountOf(fs, kinds, n) == Cardinality({i \in 1 .. n : fs[i].kind \in kinds})

LEMMA CountType ==
  ASSUME NEW fs, NEW kinds, NEW n \in Nat
  PROVE  /\ CountOf(fs, kinds, n) \in Nat
         /\ IsFiniteSet({i \in 1 .. n : fs[i].kind \in kinds})
         /\ CountOf(fs, kinds, 0) = 0
<1>1. IsFiniteSet(1 .. n)
  BY FS_Interval
<1>2. {i \in 1 .. n : fs[i].kind \in kinds} \in SUBSET (1 .. n)
  OBVIOUS
<1>3. IsFiniteSet({i \in 1 .. n : fs[i].kind \in kinds})
  BY <1>1, <1>2, FS_Subset
<1>4. {i \in 1 .. 0 : fs[i].kind \in kinds} = {}
  OBVIOUS
<1> QED
  BY <1>3, <1>4, FS_CardinalityType, FS_EmptySet DEF CountOf

\* One visitor more counts once, if it is of one of the kinds.
LEMMA CountNext ==
  ASSUME NEW fs, NEW kinds, NEW n \in Nat
  PROVE  CountOf(fs, kinds, n + 1) =
           IF fs[n + 1].kind \in kinds THEN CountOf(fs, kinds, n) + 1
           ELSE CountOf(fs, kinds, n)
<1> DEFINE T == {i \in 1 .. n : fs[i].kind \in kinds}
           U == {i \in 1 .. n + 1 : fs[i].kind \in kinds}
<1>1. IsFiniteSet(T)
  BY CountType
<1>5. n + 1 \notin T
  OBVIOUS
<1>2. U = IF fs[n + 1].kind \in kinds THEN T \cup {n + 1} ELSE T
  OBVIOUS
<1>3. CountOf(fs, kinds, n) = Cardinality(T) /\ CountOf(fs, kinds, n + 1) = Cardinality(U)
  BY DEF CountOf
<1> HIDE DEF T, U
<1>4. Cardinality(T \cup {n + 1}) = Cardinality(T) + 1
  BY <1>1, <1>5, FS_AddElement
<1> QED
  BY <1>2, <1>3, <1>4

LEMMA CountSame ==
  ASSUME NEW fs, NEW gs, NEW kinds, NEW n \in Nat,
         \A i \in 1 .. n : gs[i].kind = fs[i].kind
  PROVE  CountOf(gs, kinds, n) = CountOf(fs, kinds, n)
<1>1. {i \in 1 .. n : gs[i].kind \in kinds} = {i \in 1 .. n : fs[i].kind \in kinds}
  OBVIOUS
<1> QED
  BY <1>1 DEF CountOf

\* The outer ones are among them, and one of the kinds counts itself.
LEMMA CountBounds ==
  ASSUME NEW fs, NEW kinds, NEW n \in Nat, NEW i \in 1 .. n
  PROVE  /\ CountOf(fs, kinds, i) <= CountOf(fs, kinds, n)
         /\ fs[i].kind \in kinds => CountOf(fs, kinds, i) >= 1
<1> DEFINE T == {j \in 1 .. i : fs[j].kind \in kinds}
           U == {j \in 1 .. n : fs[j].kind \in kinds}
<1>4. i \in Nat
  OBVIOUS
<1>1. IsFiniteSet(T) /\ IsFiniteSet(U) /\ T \in SUBSET U
  <2>1. IsFiniteSet(T)
    BY <1>4, CountType
  <2>2. IsFiniteSet(U)
    BY CountType
  <2>3. T \in SUBSET U
    OBVIOUS
  <2> QED
    BY <2>1, <2>2, <2>3
<1>2. Cardinality(T) <= Cardinality(U)
  BY <1>1, FS_Subset
<1>3. CASE fs[i].kind \in kinds
  <2>1. T # {}
    BY <1>3
  <2>2. Cardinality(T) # 0 /\ Cardinality(T) \in Nat
    BY <1>1, <2>1, FS_EmptySet, FS_CardinalityType
  <2> QED
    BY <1>2, <2>2 DEF CountOf
<1> QED
  BY <1>2, <1>3 DEF CountOf

-----------------------------------------------------------------------------
(* The visitors in progress, and the statements they see.                  *)

FrameKind == Callables \cup Selects \cup Loops \cup {"block"}
Verdict == {"none", "covered", "crash"}
FrameType ==
  [kind : FrameKind, open : BOOLEAN, return : Type, base : Nat,
   name : Names \cup Functions \cup {"_"}, left : Nat, has_else : BOOLEAN,
   verdict : Verdict, last : BOOLEAN, body : Verdict, covered : Verdict,
   falls : BOOLEAN, used : SUBSET Names]
StatementType ==
  [decides : Verdict \cup {"-"}, body : Verdict, falls : BOOLEAN, is_return : BOOLEAN]

\* What a frame seeing a statement or a value keeps.
Like(f, g) == /\ g.kind = f.kind /\ g.return = f.return /\ g.base = f.base
              /\ g.name = f.name
Alike(fs, gs) ==
  /\ gs \in Seq(FrameType) /\ Len(gs) = Len(fs)
  /\ \A i \in 1 .. Len(fs) : Like(fs[i], gs[i])

LEMMA AlikeTrans ==
  ASSUME NEW fs, NEW gs, NEW hs, Alike(fs, gs), Alike(gs, hs)
  PROVE  Alike(fs, hs)
BY DEF Alike, Like

LEMMA AlikeSelf ==
  ASSUME NEW fs \in Seq(FrameType)
  PROVE  Alike(fs, fs)
BY DEF Alike, Like

LEMMA SimpleStatements ==
  /\ Plain \in StatementType /\ JumpPast \in StatementType /\ ReturnPast \in StatementType
BY DEF StatementType, Statement, Plain, JumpPast, ReturnPast, Verdict

\* What a frame that has been left counts for the one around it.
Seen(f) ==
  IF f.kind = "block" THEN BlockSeen(f)
  ELSE IF f.kind \in Selects THEN SelectSeen(f) ELSE Plain

LEMMA SeenType ==
  ASSUME NEW f \in FrameType
  PROVE  Seen(f) \in StatementType
<1>1. /\ f.verdict \in Verdict /\ f.covered \in Verdict /\ f.body \in Verdict
      /\ f.falls \in BOOLEAN /\ f.has_else \in BOOLEAN /\ f.last \in BOOLEAN
  BY DEF FrameType
<1>2. BlockCovered(f) \in Verdict
  BY <1>1 DEF BlockCovered, Verdict
<1>3. BlockSeen(f) \in StatementType
  BY <1>1, <1>2 DEF BlockSeen, Statement, StatementType, Verdict
<1>4. IfDecides(f) \in Verdict \cup {"-"} /\ SwitchDecides(f) \in Verdict \cup {"-"}
  BY <1>1 DEF IfDecides, SwitchDecides, Verdict
<1>5. (f.falls \/ ~f.has_else) \in BOOLEAN
  OBVIOUS
<1>6. SelectSeen(f) \in StatementType
  BY <1>4, <1>5 DEF SelectSeen, Statement, StatementType, Verdict
<1> QED
  BY <1>3, <1>6, SimpleStatements DEF Seen

\* Seeing a statement keeps what the frame is.
LEMMA AbsorbType ==
  ASSUME NEW f \in FrameType, NEW s \in StatementType
  PROVE  /\ Absorb(f, s) \in FrameType /\ Like(f, Absorb(f, s))
         /\ Absorb(f, s).left = f.left /\ Absorb(f, s).used = f.used
         /\ f.kind # "block" => ~Absorb(f, s).open
<1>1. s.falls \in BOOLEAN /\ s.is_return \in BOOLEAN /\ s.body \in Verdict
      /\ (s.decides = "-" \/ s.decides \in Verdict)
  BY DEF StatementType
<1>2. CASE f.kind = "block"
  <2> DEFINE v == IF s.decides = "-" THEN f.verdict ELSE s.decides
             b == f.falls /\ s.falls
             g == [f EXCEPT !.last = s.is_return, !.falls = b, !.verdict = v]
  <2>1. v \in Verdict /\ b \in BOOLEAN
    BY <1>1 DEF FrameType
  <2>3. f.kind \notin Selects
    BY <1>2 DEF Selects
  <2>2. Absorb(f, s) = g
    BY <1>2, <2>3 DEF Absorb
  <2> HIDE DEF v, b
  <2>4. g \in FrameType
    BY <1>1, <2>1 DEF FrameType
  <2>5. Like(f, g) /\ g.left = f.left /\ g.used = f.used
    BY DEF FrameType, Like
  <2> QED
    BY <1>2, <2>2, <2>4, <2>5
<1>3. CASE f.kind \in Selects
  <2> DEFINE v == IF f.covered = "covered" THEN s.body ELSE f.covered
             b == f.falls \/ s.falls
             g == [f EXCEPT !.open = FALSE, !.falls = b, !.body = s.body, !.covered = v]
  <2>1. v \in Verdict /\ b \in BOOLEAN
    BY <1>1 DEF FrameType
  <2>3. f.kind # "block"
    BY <1>3 DEF Selects
  <2>2. Absorb(f, s) = g
    BY <1>3, <2>3 DEF Absorb
  <2> HIDE DEF v, b
  <2>4. g \in FrameType
    BY <1>1, <2>1 DEF FrameType
  <2>5. Like(f, g) /\ g.left = f.left /\ g.used = f.used /\ ~g.open
    BY DEF FrameType, Like
  <2> QED
    BY <2>2, <2>3, <2>4, <2>5
<1>4. CASE f.kind # "block" /\ f.kind \notin Selects
  <2> DEFINE g == [f EXCEPT !.open = FALSE, !.falls = s.falls, !.body = s.body]
  <2>1. Absorb(f, s) = g
    BY <1>4 DEF Absorb
  <2> QED
    BY <1>1, <2>1 DEF FrameType, Like
<1> QED
  BY <1>2, <1>3, <1>4

LEMMA AbsorbedType ==
  ASSUME NEW fs \in Seq(FrameType), NEW s \in StatementType
  PROVE  /\ Alike(fs, Absorbed(fs, s))
         /\ \A i \in 1 .. Len(fs) :
              Absorbed(fs, s)[i] = IF i = Len(fs) THEN Absorb(fs[i], s) ELSE fs[i]
<1>1. CASE fs = <<>>
  <2>1. Absorbed(fs, s) = fs
    BY <1>1 DEF Absorbed
  <2>2. Alike(fs, Absorbed(fs, s))
    BY <2>1, AlikeSelf
  <2> QED
    BY <1>1, <2>2
<1>2. CASE fs # <<>>
  <2> DEFINE e == Absorb(fs[Len(fs)], s)
  <2>1. Len(fs) \in 1 .. Len(fs) /\ fs[Len(fs)] \in FrameType
    BY <1>2
  <2>2. e \in FrameType /\ Like(fs[Len(fs)], e)
    BY <2>1, AbsorbType
  <2>3. Absorbed(fs, s) = [fs EXCEPT ![Len(fs)] = e]
    BY DEF Absorbed
  <2> HIDE DEF e
  <2>4. /\ Absorbed(fs, s) \in Seq(FrameType) /\ Len(Absorbed(fs, s)) = Len(fs)
        /\ \A j \in 1 .. Len(fs) : Absorbed(fs, s)[j] = IF j = Len(fs) THEN e ELSE fs[j]
    BY <2>2, <2>3, ReplaceType
  <2> QED
    BY <2>1, <2>2, <2>4 DEF Alike, Like, e
<1> QED
  BY <1>1, <1>2
-----------------------------------------------------------------------------
(* The types that are returned.                                            *)

ReturnsOK(rs, fs) ==
  /\ Len(rs) = CountOf(fs, Callables, Len(fs))
  /\ \A i \in 1 .. Len(fs) : fs[i].kind \in Callables =>
       rs[CountOf(fs, Callables, i)] = fs[i].return

LEMMA ReturnsAlike ==
  ASSUME NEW rs, NEW fs \in Seq(FrameType), NEW gs, Alike(fs, gs), ReturnsOK(rs, fs)
  PROVE  ReturnsOK(rs, gs)
<1>1. /\ Len(gs) = Len(fs) /\ Len(fs) \in Nat
      /\ \A i \in 1 .. Len(fs) : gs[i].kind = fs[i].kind /\ gs[i].return = fs[i].return
  BY DEF Alike, Like
<1>2. ASSUME NEW n \in 0 .. Len(fs)
      PROVE  CountOf(gs, Callables, n) = CountOf(fs, Callables, n)
  BY <1>1, CountSame
<1> QED
  BY <1>1, <1>2 DEF ReturnsOK

LEMMA ReturnsPush ==
  ASSUME NEW rs \in Seq(Type), NEW fs \in Seq(FrameType), NEW f \in FrameType,
         ReturnsOK(rs, fs)
  PROVE  ReturnsOK(IF f.kind \in Callables THEN Append(rs, f.return) ELSE rs,
                   Append(fs, f))
<1> DEFINE n == Len(fs)
           gs == Append(fs, f)
           qs == IF f.kind \in Callables THEN Append(rs, f.return) ELSE rs
<1>1. /\ n \in Nat /\ Len(gs) = n + 1 /\ gs[n + 1] = f
      /\ \A i \in 1 .. n : gs[i] = fs[i]
  OBVIOUS
<1> HIDE DEF n, gs
<1>2. ASSUME NEW i \in 0 .. n
      PROVE  CountOf(gs, Callables, i) = CountOf(fs, Callables, i)
  <2>1. \A j \in 1 .. i : gs[j].kind = fs[j].kind
    BY <1>1
  <2> QED
    BY <2>1, CountSame
<1>3. /\ CountOf(gs, Callables, n + 1) =
           IF f.kind \in Callables THEN Len(rs) + 1 ELSE Len(rs)
      /\ Len(rs) = CountOf(fs, Callables, n)
  <2>1. CountOf(gs, Callables, n + 1) =
          IF gs[n + 1].kind \in Callables THEN CountOf(gs, Callables, n) + 1
          ELSE CountOf(gs, Callables, n)
    BY <1>1, CountNext
  <2>2. CountOf(gs, Callables, n) = CountOf(fs, Callables, n)
    BY <1>1, <1>2
  <2>3. Len(rs) = CountOf(fs, Callables, n)
    BY DEF ReturnsOK, n
  <2> QED
    BY <1>1, <2>1, <2>2, <2>3
<1>4. Len(qs) = CountOf(gs, Callables, n + 1)
  BY <1>3
<1>5. ASSUME NEW i \in 1 .. n, fs[i].kind \in Callables
      PROVE  qs[CountOf(gs, Callables, i)] = fs[i].return
  <2>1. CountOf(fs, Callables, i) \in 1 .. Len(rs)
    <3>3. i \in Nat
      BY <1>1
    <3>1. CountOf(fs, Callables, i) \in Nat
      BY <3>3, CountType
    <3>2. /\ CountOf(fs, Callables, i) <= CountOf(fs, Callables, n)
          /\ CountOf(fs, Callables, i) >= 1
      BY <1>1, <1>5, CountBounds
    <3> QED
      BY <1>3, <3>1, <3>2
  <2>2. rs[CountOf(fs, Callables, i)] = fs[i].return
    BY <1>5 DEF ReturnsOK, n
  <2> QED
    BY <1>2, <2>1, <2>2
<1>6. f.kind \in Callables => qs[CountOf(gs, Callables, n + 1)] = f.return
  BY <1>3
<1>7. ASSUME NEW i \in 1 .. n + 1, gs[i].kind \in Callables
      PROVE  qs[CountOf(gs, Callables, i)] = gs[i].return
  <2>1. CASE i \in 1 .. n
    <3>1. gs[i] = fs[i]
      BY <1>1, <2>1
    <3> QED
      BY <1>5, <1>7, <2>1, <3>1
  <2>2. CASE i = n + 1
    BY <1>1, <1>6, <1>7, <2>2
  <2>3. i \in 1 .. n \/ i = n + 1
    BY <1>1
  <2> QED
    BY <2>1, <2>2, <2>3
<1> HIDE DEF qs
<1>8. ReturnsOK(qs, gs)
  BY <1>1, <1>4, <1>7 DEF ReturnsOK
<1> QED
  BY <1>8 DEF qs, gs

LEMMA ReturnsPop ==
  ASSUME NEW rs \in Seq(Type), NEW fs \in Seq(FrameType), fs # <<>>, ReturnsOK(rs, fs)
  PROVE  /\ ReturnsOK(IF Peek(fs).kind \in Callables THEN Pop(rs) ELSE rs, Pop(fs))
         /\ Peek(fs).kind \in Callables => rs # <<>> /\ Peek(rs) = Peek(fs).return
<1> DEFINE n == Len(fs) - 1
           gs == Pop(fs)
           qs == IF Peek(fs).kind \in Callables THEN Pop(rs) ELSE rs
<1>1. /\ n \in Nat /\ Len(fs) = n + 1 /\ Len(gs) = n /\ Peek(fs) = fs[n + 1]
      /\ \A i \in 1 .. n : gs[i] = fs[i]
  BY PopType DEF Peek
<1> HIDE DEF n, gs
<1>2. ASSUME NEW i \in 0 .. n
      PROVE  CountOf(gs, Callables, i) = CountOf(fs, Callables, i)
  <2>1. \A j \in 1 .. i : gs[j].kind = fs[j].kind
    BY <1>1
  <2> QED
    BY <2>1, CountSame
<1>3. Len(rs) = IF Peek(fs).kind \in Callables THEN CountOf(fs, Callables, n) + 1
                ELSE CountOf(fs, Callables, n)
  BY <1>1, CountNext DEF ReturnsOK
<1>4. CountOf(fs, Callables, n) \in Nat
  BY <1>1, CountType
<1>5. Peek(fs).kind \in Callables =>
        /\ rs # <<>> /\ Len(Pop(rs)) = Len(rs) - 1
        /\ \A i \in 1 .. Len(rs) - 1 : Pop(rs)[i] = rs[i]
  <2>1. Peek(fs).kind \in Callables => rs # <<>>
    BY <1>3, <1>4
  <2> QED
    BY <2>1, PopType
<1>6. Len(qs) = CountOf(gs, Callables, n)
  BY <1>1, <1>2, <1>3, <1>4, <1>5
<1>7. ASSUME NEW i \in 1 .. n, gs[i].kind \in Callables
      PROVE  qs[CountOf(gs, Callables, i)] = gs[i].return
  <2>1. fs[i].kind \in Callables /\ fs[i] = gs[i] /\ i \in 1 .. Len(fs)
    BY <1>1, <1>7
  <2>2. CountOf(fs, Callables, i) \in 1 .. CountOf(fs, Callables, n)
    <3>3. i \in Nat
      BY <1>1
    <3>1. CountOf(fs, Callables, i) \in Nat
      BY <3>3, CountType
    <3>2. /\ CountOf(fs, Callables, i) <= CountOf(fs, Callables, n)
          /\ CountOf(fs, Callables, i) >= 1
      BY <1>1, <2>1, CountBounds
    <3> QED
      BY <1>4, <3>1, <3>2
  <2>3. rs[CountOf(fs, Callables, i)] = fs[i].return
    BY <2>1 DEF ReturnsOK
  <2>4. qs[CountOf(fs, Callables, i)] = rs[CountOf(fs, Callables, i)]
    BY <1>3, <1>4, <1>5, <2>2
  <2> QED
    BY <1>2, <2>1, <2>3, <2>4
<1>8. ReturnsOK(qs, gs)
  <2> HIDE DEF qs
  <2> QED
    BY <1>1, <1>6, <1>7 DEF ReturnsOK
<1>9. Peek(fs).kind \in Callables => Peek(rs) = Peek(fs).return
  <2>1. n + 1 \in 1 .. Len(fs) /\ Len(rs) = CountOf(fs, Callables, n + 1)
    BY <1>1 DEF ReturnsOK
  <2> QED
    BY <1>1, <2>1 DEF ReturnsOK, Peek
<1> QED
  BY <1>5, <1>8, <1>9 DEF gs

-----------------------------------------------------------------------------
(* The inductive invariant of the scopes.                                  *)

\* Each visitor owns the scope above its base; the outermost one, and no other, is a
\* function; the types in force are those of the callables in progress.
ScopesInv ==
  /\ TypeOK
  /\ frames \in Seq(FrameType)
  /\ Len(types_table) = Len(frames) + 1
  /\ \A i \in 1 .. Len(frames) : /\ frames[i].base = i
                                 /\ frames[i].kind = "function" <=> i = 1
                                 /\ frames[i].kind = "lambda" => frames[i].name \in Names
  /\ ReturnsOK(return_types_stack, frames)

LEMMA ScopesInvSound == ScopesInv => ScopesMatch
<1> SUFFICES ASSUME ScopesInv PROVE ScopesMatch
  OBVIOUS
<1>1. DOMAIN frames = 1 .. Len(frames)
  BY DEF ScopesInv
<1>2. ReturnsMatch
  BY <1>1 DEF ScopesInv, ReturnsOK, ReturnsMatch, Depth, CountOf
<1> QED
  BY <1>1, <1>2 DEF ScopesInv, ScopesMatch

LEMMA InitScopes == Init => ScopesInv
<1> SUFFICES ASSUME Init PROVE ScopesInv
  OBVIOUS
<1>1. types_table \in Scopes /\ Len(types_table) = 1
  BY EmptyScope DEF Init, Scopes
<1>2. TypeOK
  <2>1. return_types_stack \in Seq(Type) /\ lambda_implicit_parameters \in Seq(Seq(Names))
    BY DEF Init
  <2>2. is_inside_lambda_body \in BOOLEAN /\ generic_types \subseteq Type
    BY ConstantsAssumption DEF Init
  <2>3. status \in {"checking", "stopped", "crashed"} /\ visited \in 0 .. MaxStatements
    <3>1. MaxStatements \in Nat
      BY ConstantsAssumption
    <3> QED
      BY <3>1 DEF Init
  <2> QED
    BY <1>1, <2>1, <2>2, <2>3 DEF TypeOK, Scopes, Map
<1>3. frames \in Seq(FrameType) /\ Len(frames) = 0 /\ Len(return_types_stack) = 0
  BY DEF Init
<1>5. CountOf(frames, Callables, 0) = 0
  BY CountType
<1>4. ReturnsOK(return_types_stack, frames)
  BY <1>3, <1>5 DEF ReturnsOK
<1> QED
  BY <1>1, <1>2, <1>3, <1>4 DEF ScopesInv
-----------------------------------------------------------------------------
(* The visit of a value.                                                   *)

\* frames with more names used in some of them
Marked(fs) ==
  /\ fs \in Seq(FrameType) /\ Len(fs) = Len(frames)
  /\ \A i \in 1 .. Len(frames) : fs[i] = [frames[i] EXCEPT !.used = fs[i].used]

LEMMA MarkedAlike ==
  ASSUME frames \in Seq(FrameType), NEW fs, Marked(fs)
  PROVE  /\ Alike(frames, fs)
         /\ \A i \in 1 .. Len(frames) :
              /\ fs[i].open = frames[i].open /\ fs[i].left = frames[i].left
              /\ fs[i].has_else = frames[i].has_else /\ fs[i].verdict = frames[i].verdict
              /\ fs[i].last = frames[i].last /\ fs[i].body = frames[i].body
              /\ fs[i].covered = frames[i].covered /\ fs[i].falls = frames[i].falls
<1>1. ASSUME NEW i \in 1 .. Len(frames)
      PROVE  /\ Like(frames[i], fs[i])
             /\ fs[i].open = frames[i].open /\ fs[i].left = frames[i].left
             /\ fs[i].has_else = frames[i].has_else /\ fs[i].verdict = frames[i].verdict
             /\ fs[i].last = frames[i].last /\ fs[i].body = frames[i].body
             /\ fs[i].covered = frames[i].covered /\ fs[i].falls = frames[i].falls
  <2>1. frames[i] \in FrameType /\ fs[i] = [frames[i] EXCEPT !.used = fs[i].used]
    BY DEF Marked
  <2> QED
    BY <2>1 DEF FrameType, Like
<1> QED
  BY <1>1 DEF Marked, Alike

LEMMA MarkedSelf ==
  ASSUME frames \in Seq(FrameType)
  PROVE  Marked(frames)
<1>1. ASSUME NEW i \in 1 .. Len(frames)
      PROVE  frames[i] = [frames[i] EXCEPT !.used = frames[i].used]
  <2>1. frames[i] \in FrameType
    OBVIOUS
  <2> QED
    BY <2>1 DEF FrameType
<1> QED
  BY <1>1 DEF Marked

\* What the visit of a value that is resolved leaves: the scopes, the frames and the
\* names captured; or there is no value.
Visited(tt, fs, ip) ==
  \/ tt = types_table /\ fs = frames /\ ip = lambda_implicit_parameters
  \/ \E v \in Value : /\ ~Unresolved(v) /\ ~NoLambda(v)
                      /\ tt = TableAfter(v) /\ fs = Using(v) /\ ip = ImplicitAfter(v)

\* A value that is resolved has a type.
LEMMA ValueType ==
  ASSUME ScopesInv, NEW v \in Value, ~Unresolved(v)
  PROVE  TypeOf(v) \in Type
<1>1. types_table \in Scopes
  BY DEF ScopesInv, TypeOK, Scopes, Map
<1> QED
  BY <1>1, LookupType, ConstantsAssumption DEF Unresolved, TypeOf, Value

LEMMA UsingMarked ==
  ASSUME frames \in Seq(FrameType), NEW v
  PROVE  Marked(Using(v))
<1> DEFINE e(i) == IF Foreign(frames[i], v)
                   THEN [frames[i] EXCEPT !.used = frames[i].used \cup {v}]
                   ELSE frames[i]
<1>1. Using(v) = [i \in 1 .. Len(frames) |-> e(i)] /\ Len(frames) \in Nat
  BY DEF Using
<1>2. ASSUME NEW i \in 1 .. Len(frames)
      PROVE  e(i) \in FrameType /\ e(i) = [frames[i] EXCEPT !.used = e(i).used]
  <2>1. frames[i] \in FrameType
    OBVIOUS
  <2>2. Foreign(frames[i], v) => v \in Names
    BY DEF Foreign
  <2> QED
    BY <2>1, <2>2 DEF FrameType
<1> HIDE DEF e
<1>3. /\ Using(v) \in Seq(FrameType) /\ Len(Using(v)) = Len(frames)
      /\ \A i \in 1 .. Len(frames) : Using(v)[i] = e(i)
  BY <1>1, <1>2
<1> QED
  BY <1>2, <1>3 DEF Marked

LEMMA VisitedType ==
  ASSUME ScopesInv, NEW tt, NEW fs, NEW ip, Visited(tt, fs, ip)
  PROVE  /\ Extends(types_table, tt) /\ Marked(fs) /\ ip \in Seq(Seq(Names))
         /\ ~is_inside_lambda_body => ip = lambda_implicit_parameters
         /\ Len(ip) = Len(lambda_implicit_parameters)
<1> DEFINE lip == lambda_implicit_parameters
<1>1. /\ types_table \in Scopes /\ frames \in Seq(FrameType) /\ lip \in Seq(Seq(Names))
      /\ types_table # <<>>
  BY DEF ScopesInv, TypeOK, Scopes, Map
<1>2. CASE tt = types_table /\ fs = frames /\ ip = lip
  BY <1>1, <1>2, ExtendsSelf, MarkedSelf
<1>3. CASE \E v \in Value : /\ ~Unresolved(v) /\ ~NoLambda(v)
                            /\ tt = TableAfter(v) /\ fs = Using(v)
                            /\ ip = ImplicitAfter(v)
  <2>1. PICK v \in Value : /\ ~Unresolved(v) /\ ~NoLambda(v)
                           /\ tt = TableAfter(v) /\ fs = Using(v)
                           /\ ip = ImplicitAfter(v)
    BY <1>3
  <2>2. Marked(fs)
    BY <1>1, <2>1, UsingMarked
  <2>3. CASE ~Captures(v)
    <3>1. tt = types_table /\ ip = lip
      BY <2>1, <2>3 DEF TableAfter, ImplicitAfter
    <3> QED
      BY <1>1, <2>2, <3>1, ExtendsSelf
  <2>4. CASE Captures(v)
    <3>1. v \in Names /\ is_inside_lambda_body /\ lip # <<>>
      BY <2>1, <2>4 DEF Captures, NoLambda
    <3>2. Extends(types_table, tt)
      BY <1>1, <2>1, <2>4, <3>1, ValueType, DefineExtends DEF TableAfter
    <3>3. ip \in Seq(Seq(Names)) /\ Len(ip) = Len(lip)
      <4>1. lip[Len(lip)] \in Seq(Names)
        BY <1>1, <3>1
      <4>2. Append(lip[Len(lip)], v) \in Seq(Names)
        BY <3>1, <4>1
      <4>3. ip = [lip EXCEPT ![Len(lip)] = Append(lip[Len(lip)], v)]
        BY <2>1, <2>4 DEF ImplicitAfter
      <4> QED
        BY <1>1, <4>2, <4>3, ReplaceType
    <3> QED
      BY <2>2, <3>1, <3>2, <3>3
  <2> QED
    BY <2>3, <2>4
<1> QED
  BY <1>2, <1>3 DEF Visited

-----------------------------------------------------------------------------
(* The steps, by their shape.  Whatever the statement is, a visitor is     *)
(* entered or left, goes on to the next branch, or sees a statement that   *)
(* has no visitor of its own; the invariants are proved of these shapes.   *)

\* A visitor that has just been entered.
Fresh(f) ==
  /\ f \in FrameType /\ f.base = Len(types_table) /\ f.open
  /\ f.kind = "lambda" => f.name \in Names
  /\ f.verdict = "none" /\ ~f.last /\ f.body = "none" /\ f.covered = "covered"
  /\ f.falls <=> f.kind \notin Selects
  /\ f.used = {}

\* A statement of kind s may stand where the next one is visited.
Allowed(s) ==
  /\ top.kind = "block" \/ s = "return" \/ s \in Unbraced
  /\ top.kind # "lambda"
  /\ InCallable("lambda") => s \in InLambda
  /\ InCallable("instance") => s \in InInstance

Opens(tt, fs, ip, f) ==
  /\ status' = status
  /\ frames # <<>> => /\ top.open
                      /\ Allowed(f.kind) \/ (f.kind = "block" /\ top.kind # "block")
  /\ f.kind = "function" <=> frames = <<>>
  /\ Fresh(f) /\ Visited(tt, fs, ip)
  /\ f.kind = "block" => fs = frames /\ ip = lambda_implicit_parameters
  /\ frames' = Append(fs, f)
  /\ \E scopes \in Scopes, m \in Map : Extends(tt, scopes) /\ types_table' = Append(scopes, m)
  /\ return_types_stack' = IF f.kind \in Callables THEN Append(return_types_stack, f.return)
                           ELSE return_types_stack
  /\ is_inside_lambda_body' = IF f.kind = "lambda" THEN TRUE ELSE is_inside_lambda_body
  /\ lambda_implicit_parameters' = IF f.kind = "lambda" THEN Append(ip, <<>>) ELSE ip
  /\ IF f.kind = "instance" THEN generic_types' # {} /\ generic_types' \subseteq Type
     ELSE generic_types' = generic_types
  /\ visited' \in 0 .. MaxStatements

Closes ==
  /\ status' = status
  /\ frames # <<>> /\ top.kind # "function" /\ (top.kind = "block" \/ ~top.open)
  /\ Extends(pop_current_scope(types_table), types_table')
  /\ frames' = Absorbed(Pop(frames), Seen(top))
  /\ return_types_stack' = IF top.kind \in Callables THEN Pop(return_types_stack)
                           ELSE return_types_stack
  /\ is_inside_lambda_body' = IF top.kind = "lambda" THEN FALSE ELSE is_inside_lambda_body
  /\ lambda_implicit_parameters' = IF top.kind = "lambda"
                                   THEN Pop(lambda_implicit_parameters)
                                   ELSE lambda_implicit_parameters
  /\ generic_types' = IF top.kind = "instance" THEN {} ELSE generic_types
  /\ visited' = visited

\* The end of a function.
Ends ==
  /\ status' = status
  /\ frames # <<>> /\ top.kind = "function" /\ frames' = <<>>
  /\ top.return = "void" \/ top.body = "covered"
  /\ types_table' = pop_current_scope(types_table)
  /\ return_types_stack' = Pop(return_types_stack)
  /\ UNCHANGED <<lambdas, generic_types, visited>>

Stays(tt, fs, ip, s) ==
  /\ status' = status
  /\ frames # <<>> /\ top.open
  /\ \E kind : Allowed(kind) /\ (kind = "return" => s = ReturnPast)
  /\ s \in {Plain, JumpPast, ReturnPast} /\ Visited(tt, fs, ip)
  /\ frames' = Absorbed(fs, s)
  /\ Extends(tt, types_table')
  /\ lambda_implicit_parameters' = ip
  /\ UNCHANGED <<return_types_stack, is_inside_lambda_body, generic_types>>
  /\ visited' \in 0 .. MaxStatements

Branches ==
  /\ status' = status
  /\ frames # <<>> /\ top.kind \in Selects /\ ~top.open /\ top.left > 0
  /\ types_table' = push_new_scope(pop_current_scope(types_table))
  /\ frames' = [frames EXCEPT ![Len(frames)] = Reopened(@)]
  /\ UNCHANGED <<return_types_stack, lambdas, generic_types, visited>>

\* A global name.
Declares ==
  /\ status' = status
  /\ frames = <<>> /\ frames' = <<>>
  /\ Extends(types_table, types_table')
  /\ UNCHANGED <<return_types_stack, lambdas, generic_types>>
  /\ visited' \in 0 .. MaxStatements

\* What the checker reads that is not there.
Missing ==
  \/ \E v \in Value : NoLambda(v)
  \/ frames # <<>> /\ top.kind = "function" /\ top.body \notin {"covered", "none"}
  \/ InCallable("instance") /\ generic_types = {}

Halts ==
  /\ UNCHANGED <<types_table, return_types_stack, lambdas, generic_types, frames, visited>>
  /\ status' \in {status, "stopped", "crashed"}
  /\ status' = "crashed" => status = "crashed" \/ Missing

Step ==
  \/ \E tt, fs, ip, f : Opens(tt, fs, ip, f)
  \/ Closes \/ Ends
  \/ \E tt, fs, ip, s : Stays(tt, fs, ip, s)
  \/ Branches \/ Declares \/ Halts

LEMMA StopHalts == Stop => Halts
BY DEF Stop, Halts, lambdas

LEMMA CrashHalts == Crash /\ Missing => Halts
BY DEF Crash, Halts, lambdas

\* No value is visited: nothing is captured and nothing used.
LEMMA NoValue == Visited(types_table, frames, lambda_implicit_parameters)
BY DEF Visited

\* The types of what the actions take, and of the state.
LEMMA ConstantTypes ==
  /\ Values \subseteq Type /\ Returns \subseteq Type
  /\ {"number", "pointer", "void", "lambda", "function"} \subseteq Type
<1>1. Values \subseteq Type /\ Returns \subseteq Type
  BY ConstantsAssumption
<1> QED
  BY <1>1 DEF Type

LEMMA StateFacts ==
  ASSUME ScopesInv
  PROVE  /\ types_table \in Scopes /\ types_table # <<>> /\ Len(types_table) \in Nat
         /\ frames \in Seq(FrameType)
         /\ visited \in 0 .. MaxStatements /\ MaxStatements \in Nat
<1>1. MaxStatements \in Nat
  BY ConstantsAssumption
<1> QED
  BY <1>1 DEF ScopesInv, TypeOK, Scopes, Map

\* A statement that is visited is one that may stand there, and is counted.
LEMMA VisitsFacts ==
  ASSUME ScopesInv, NEW s, Visits(s)
  PROVE  /\ frames # <<>> /\ top.open /\ Allowed(s) /\ top \in FrameType
         /\ visited + 1 \in 0 .. MaxStatements
<1>1. frames # <<>> /\ top.open /\ visited < MaxStatements
  BY DEF Visits
<1>2. top \in FrameType
  BY <1>1, PopType DEF ScopesInv, top
<1>3. Allowed(s)
  BY <1>1 DEF Visits, Allowed, Callables
<1>4. visited \in 0 .. MaxStatements /\ MaxStatements \in Nat
  BY ConstantsAssumption DEF ScopesInv, TypeOK
<1> QED
  BY <1>1, <1>2, <1>3, <1>4

\* The visit of a value stops, crashes for want of a lambda, or goes on.
LEMMA ValueChecked ==
  ASSUME ScopesInv, NEW v \in Value
  PROVE  /\ Unresolved(v) /\ Stop => Halts
         /\ NoLambda(v) /\ Crash => Halts
         /\ ~Unresolved(v) /\ ~NoLambda(v) =>
              /\ Visited(TableAfter(v), Using(v), ImplicitAfter(v))
              /\ Extends(types_table, TableAfter(v)) /\ Marked(Using(v))
              /\ TypeOf(v) \in Type
<1>1. NoLambda(v) => Missing
  BY DEF Missing
<1>2. ~Unresolved(v) /\ ~NoLambda(v) =>
        Visited(TableAfter(v), Using(v), ImplicitAfter(v))
  BY DEF Visited
<1> QED
  BY <1>1, <1>2, StopHalts, CrashHalts, VisitedType, ValueType

\* Each action has one of the shapes.
LEMMA EnterFunctionStep ==
  ASSUME ScopesInv, NEW f \in Functions, NEW ps \in SUBSET Names, NEW r \in Returns,
         EnterFunction(f, ps, r)
  PROVE  Step
<1>1. CASE ~Free(types_table, f)
  BY <1>1, StopHalts DEF EnterFunction, Step
<1>2. CASE Free(types_table, f)
  <2> DEFINE g == [Frame("function") EXCEPT !.return = r, !.name = f]
             t == define(types_table, f, "function")
             m == Scope(ps, "number")
  <2>1. /\ types_table \in Scopes /\ types_table # <<>> /\ Len(types_table) \in Nat
        /\ "function" \in Type /\ "number" \in Type /\ r \in Type
    BY StateFacts, ConstantTypes
  <2>2. Extends(types_table, t) /\ m \in Map
    BY <2>1, DefineExtends, ScopeType
  <2>3. /\ frames = <<>> /\ frames' = <<g>> /\ types_table' = Append(t, m)
        /\ return_types_stack' = Append(return_types_stack, r)
        /\ UNCHANGED <<lambdas, generic_types, status>>
        /\ visited < MaxStatements /\ visited' = visited + 1
    BY <1>2 DEF EnterFunction, Count
  <2>4. Fresh(g) /\ g.kind = "function" /\ g.return = r
    BY <2>1 DEF Fresh, FrameType, Frame, FrameKind, Callables, Selects, Verdict, Type
  <2>5. visited' \in 0 .. MaxStatements
    BY <2>3, StateFacts
  <2> HIDE DEF g, t, m
  <2>6. frames' = Append(frames, g)
    BY <2>3
  <2>7. Opens(types_table, frames, lambda_implicit_parameters, g)
    <3>1. t \in Scopes
      BY <2>2 DEF Extends
    <3> QED
      BY <2>2, <2>3, <2>4, <2>5, <2>6, <3>1, NoValue DEF Opens, lambdas, Callables
  <2> QED
    BY <2>7 DEF Step
<1> QED
  BY <1>1, <1>2

LEMMA LeaveFunctionStep == ScopesInv /\ LeaveFunction => Step
<1> SUFFICES ASSUME ScopesInv, LeaveFunction PROVE Step
  OBVIOUS
<1>1. frames # <<>> /\ top.kind = "function" /\ status = "checking"
  BY DEF LeaveFunction, Leaves
<1>2. CASE top.return = "void" \/ top.body = "covered"
  BY <1>1, <1>2 DEF LeaveFunction, Ends, Step
<1>3. CASE ~(top.return = "void" \/ top.body = "covered") /\ top.body = "none"
  BY <1>3, StopHalts DEF LeaveFunction, Step
<1>4. CASE ~(top.return = "void" \/ top.body = "covered") /\ top.body # "none"
  <2>1. Crash /\ Missing
    BY <1>1, <1>4 DEF LeaveFunction, Missing
  <2> QED
    BY <2>1, CrashHalts DEF Step
<1> QED
  BY <1>2, <1>3, <1>4

LEMMA EnterLambdaStep ==
  ASSUME ScopesInv, NEW n \in Names, NEW ps \in SUBSET Names, NEW r \in Returns,
         EnterLambda(n, ps, r)
  PROVE  Step
<1> DEFINE g == [Frame("lambda") EXCEPT !.return = r, !.name = n]
           m == Scope(ps, "number")
<1>1. /\ types_table \in Scopes /\ types_table # <<>> /\ Len(types_table) \in Nat
      /\ "number" \in Type /\ r \in Type
  BY StateFacts, ConstantTypes
<1>2. Extends(types_table, types_table) /\ m \in Map
  BY <1>1, ExtendsSelf, ScopeType
<1>3. Visits("lambda")
  BY DEF EnterLambda
<1>4. /\ frames' = Append(frames, g) /\ types_table' = Append(types_table, m)
      /\ return_types_stack' = Append(return_types_stack, r)
      /\ is_inside_lambda_body' = TRUE
      /\ lambda_implicit_parameters' = Append(lambda_implicit_parameters, <<>>)
      /\ UNCHANGED <<generic_types, status>> /\ visited' = visited + 1
  BY DEF EnterLambda, Count
<1>5. Fresh(g) /\ g.kind = "lambda" /\ g.return = r
  BY <1>1 DEF Fresh, FrameType, Frame, FrameKind, Callables, Selects, Verdict, Type
<1> HIDE DEF g, m
<1>6. /\ frames # <<>> /\ top.open /\ Allowed(g.kind)
      /\ visited + 1 \in 0 .. MaxStatements
  BY <1>3, <1>5, VisitsFacts
<1>8. \E scopes \in Scopes, map \in Map :
        Extends(types_table, scopes) /\ types_table' = Append(scopes, map)
  BY <1>1, <1>2, <1>4
<1>7. Opens(types_table, frames, lambda_implicit_parameters, g)
  BY <1>4, <1>5, <1>6, <1>8, NoValue DEF Opens, Callables
<1> QED
  BY <1>7 DEF Step

LEMMA LeaveLambdaStep == ScopesInv /\ LeaveLambda => Step
<1> SUFFICES ASSUME ScopesInv, LeaveLambda PROVE Step
  OBVIOUS
<1> DEFINE outer == pop_current_scope(types_table)
<1>1. frames # <<>> /\ top.kind = "lambda" /\ ~top.open
  BY DEF LeaveLambda, Leaves
<1>2. CASE ~Free(outer, top.name)
  BY <1>2, StopHalts DEF LeaveLambda, Step
<1>3. CASE Free(outer, top.name)
  <2>1. outer \in Scopes /\ outer # <<>>
    <3>1. types_table \in Scopes /\ types_table # <<>> /\ Len(types_table) >= 2
      BY <1>1 DEF ScopesInv, TypeOK, Scopes, Map
    <3>2. outer = Pop(types_table)
      BY DEF pop_current_scope, Pop
    <3> QED
      BY <3>1, <3>2, PopType DEF Scopes
  <2>2. top.name \in Names
    BY <1>1 DEF ScopesInv, top, Peek
  <2>3. Extends(outer, define(outer, top.name, "lambda"))
    BY <2>1, <2>2, DefineExtends DEF Type
  <2>4. Seen(top) = Plain
    BY <1>1 DEF Seen, Selects
  <2>5. Closes
    BY <1>1, <1>3, <2>3, <2>4 DEF LeaveLambda, Closes, Callables
  <2> QED
    BY <2>5 DEF Step
<1> QED
  BY <1>2, <1>3

LEMMA EnterInstanceStep ==
  ASSUME ScopesInv, NEW n \in Names, NEW t \in {"number", "pointer"}, NEW r \in Returns,
         EnterInstance(n, t, r)
  PROVE  Step
<1> DEFINE g == [Frame("instance") EXCEPT !.return = r]
           m == Scope({n}, t)
<1>1. /\ types_table \in Scopes /\ types_table # <<>> /\ Len(types_table) \in Nat
      /\ t \in Type /\ r \in Type
  BY StateFacts, ConstantTypes
<1>2. Extends(types_table, types_table) /\ m \in Map
  BY <1>1, ExtendsSelf, ScopeType
<1>3. Visits("instance")
  BY DEF EnterInstance
<1>4. /\ frames' = Append(frames, g) /\ types_table' = Append(types_table, m)
      /\ return_types_stack' = Append(return_types_stack, r)
      /\ generic_types' = {t}
      /\ UNCHANGED <<lambdas, status>> /\ visited' = visited + 1
  BY DEF EnterInstance, Count
<1>5. Fresh(g) /\ g.kind = "instance" /\ g.return = r
  BY <1>1 DEF Fresh, FrameType, Frame, FrameKind, Callables, Selects, Verdict, Type
<1> HIDE DEF g, m
<1>6. /\ frames # <<>> /\ top.open /\ Allowed(g.kind)
      /\ visited + 1 \in 0 .. MaxStatements
  BY <1>3, <1>5, VisitsFacts
<1>7. {t} # {} /\ {t} \subseteq Type
  BY <1>1
<1>9. \E scopes \in Scopes, map \in Map :
        Extends(types_table, scopes) /\ types_table' = Append(scopes, map)
  BY <1>1, <1>2, <1>4
<1>8. Opens(types_table, frames, lambda_implicit_parameters, g)
  BY <1>4, <1>5, <1>6, <1>7, <1>9, NoValue DEF Opens, Callables, lambdas
<1> QED
  BY <1>8 DEF Step

LEMMA LeaveInstanceStep == ScopesInv /\ LeaveInstance => Step
<1> SUFFICES ASSUME ScopesInv, LeaveInstance PROVE Step
  OBVIOUS
<1>1. frames # <<>> /\ top.kind = "instance" /\ ~top.open /\ Seen(top) = Plain
  BY DEF LeaveInstance, Leaves, Seen, Selects
<1>2. Extends(pop_current_scope(types_table), types_table')
  <2>1. types_table \in Scopes /\ types_table # <<>>
    BY DEF ScopesInv, TypeOK, Scopes, Map
  <2>2. types_table' = pop_current_scope(types_table)
    BY DEF LeaveInstance
  <2> QED
    BY <2>1, <2>2, PopType, ExtendsSelf DEF Scopes, pop_current_scope, Pop
<1>3. Closes
  BY <1>1, <1>2 DEF LeaveInstance, Closes, Callables, lambdas
<1> QED
  BY <1>3 DEF Step

LEMMA GenericFieldStep ==
  ASSUME ScopesInv, NEW n \in Names, GenericField(n)
  PROVE  Step
<1>1. Visits("field") /\ InCallable("instance")
  BY DEF GenericField
<1>2. CASE generic_types = {}
  <2>1. Crash /\ Missing
    BY <1>1, <1>2 DEF GenericField, Missing
  <2> QED
    BY <2>1, CrashHalts DEF Step
<1>3. CASE generic_types # {} /\ ~Free(types_table, n)
  BY <1>3, StopHalts DEF GenericField, Step
<1>4. CASE generic_types # {} /\ Free(types_table, n)
  <2> DEFINE t == CHOOSE t \in generic_types : TRUE
  <2>1. t \in Type
    BY <1>4 DEF ScopesInv, TypeOK
  <2>2. /\ types_table' = define(types_table, n, t)
        /\ frames' = Absorbed(frames, Plain) /\ visited' = visited + 1
        /\ UNCHANGED <<return_types_stack, lambdas, generic_types, status>>
    BY <1>4 DEF GenericField, Count
  <2> HIDE DEF t
  <2>3. Extends(types_table, types_table')
    BY <2>1, <2>2, StateFacts, DefineExtends
  <2>4. frames # <<>> /\ top.open /\ Allowed("field") /\ visited' \in 0 .. MaxStatements
    BY <1>1, <2>2, VisitsFacts
  <2>5. \E kind : Allowed(kind) /\ (kind = "return" => Plain = ReturnPast)
    BY <2>4
  <2>6. Stays(types_table, frames, lambda_implicit_parameters, Plain)
    BY <2>2, <2>3, <2>4, <2>5, NoValue DEF Stays, lambdas
  <2> QED
    BY <2>6 DEF Step
<1> QED
  BY <1>2, <1>3, <1>4

LEMMA EnterBlockStep == ScopesInv /\ EnterBlock => Step
<1> SUFFICES ASSUME ScopesInv, EnterBlock PROVE Step
  OBVIOUS
<1> DEFINE g == Frame("block")
<1>1. /\ frames # <<>> /\ top.open
      /\ types_table' = Append(types_table, <<>>) /\ frames' = Append(frames, g)
      /\ UNCHANGED <<return_types_stack, lambdas, generic_types, status>>
  BY DEF EnterBlock, push_new_scope
<1>2. /\ top.kind = "block" => Allowed("block") /\ visited' \in 0 .. MaxStatements
      /\ top.kind # "block" => visited' \in 0 .. MaxStatements
  <2>1. CASE top.kind = "block"
    <3>1. Visits("block") /\ visited' = visited + 1
      BY <2>1 DEF EnterBlock, Count
    <3> QED
      BY <2>1, <3>1, VisitsFacts
  <2>2. CASE top.kind # "block"
    BY <2>2, StateFacts DEF EnterBlock
  <2> QED
    BY <2>1, <2>2
<1>3. Fresh(g) /\ g.kind = "block"
  BY StateFacts, ConstantTypes
  DEF Fresh, FrameType, Frame, FrameKind, Callables, Selects, Verdict
<1> HIDE DEF g
<1>4. Extends(types_table, types_table)
  BY StateFacts, ExtendsSelf
<1>6. \E scopes \in Scopes, map \in Map :
        Extends(types_table, scopes) /\ types_table' = Append(scopes, map)
  BY <1>1, <1>4, StateFacts, EmptyScope
<1>5. Opens(types_table, frames, lambda_implicit_parameters, g)
  BY <1>1, <1>2, <1>3, <1>6, NoValue DEF Opens, Callables, lambdas
<1> QED
  BY <1>5 DEF Step

\* A visitor that owns a scope and nothing else is left.
LEMMA LeavePlain ==
  ASSUME ScopesInv, frames # <<>>, top.kind \notin Callables,
         top.kind = "block" \/ ~top.open,
         types_table' = pop_current_scope(types_table),
         frames' = Absorbed(Pop(frames), Seen(top)),
         UNCHANGED <<return_types_stack, lambdas, generic_types, status, visited>>
  PROVE  Step
<1>1. Extends(pop_current_scope(types_table), types_table')
  BY StateFacts, PopType, ExtendsSelf DEF Scopes, pop_current_scope, Pop
<1>2. Closes
  BY <1>1 DEF Closes, Callables, lambdas
<1> QED
  BY <1>2 DEF Step

LEMMA LeaveBlockStep == ScopesInv /\ LeaveBlock => Step
BY LeavePlain DEF LeaveBlock, Seen, Callables

LEMMA LeaveSelectStep == ScopesInv /\ LeaveSelect => Step
BY LeavePlain DEF LeaveSelect, Leaves, Seen, Callables, Selects

LEMMA LeaveLoopStep == ScopesInv /\ LeaveLoop => Step
BY LeavePlain DEF LeaveLoop, Leaves, Seen, Callables, Loops, Selects

LEMMA NextBranchStep ==
  ASSUME ScopesInv, NEW v, NextBranch(v)
  PROVE  Step
<1>1. /\ frames # <<>> /\ top.kind \in Selects /\ ~top.open /\ top.left > 0
      /\ types_table' = push_new_scope(pop_current_scope(types_table))
      /\ UNCHANGED <<return_types_stack, lambdas, generic_types, visited, status>>
  BY DEF NextBranch, Leaves
<1>2. frames' = [frames EXCEPT ![Len(frames)] = Reopened(@)]
  BY DEF NextBranch
<1>3. Branches
  BY <1>1, <1>2 DEF Branches
<1> QED
  BY <1>3 DEF Step

\* A value is visited, then a visitor is entered that owns a scope and nothing else.
LEMMA EnterPlain ==
  ASSUME ScopesInv, NEW v \in Value, ~Unresolved(v), ~NoLambda(v),
         NEW f, Fresh(f), f.kind \in Selects \cup Loops, Visits(f.kind), NEW m \in Map,
         types_table' = Append(TableAfter(v), m), frames' = Append(Using(v), f), Count,
         lambda_implicit_parameters' = ImplicitAfter(v),
         UNCHANGED <<return_types_stack, is_inside_lambda_body, generic_types, status>>
  PROVE  Step
<1>1. /\ Visited(TableAfter(v), Using(v), ImplicitAfter(v))
      /\ Extends(types_table, TableAfter(v))
  BY ValueChecked
<1>2. TableAfter(v) \in Scopes
  BY <1>1 DEF Extends
<1>3. /\ frames # <<>> /\ top.open /\ Allowed(f.kind)
      /\ visited' \in 0 .. MaxStatements
  BY VisitsFacts DEF Count
<1>5. \E scopes \in Scopes, map \in Map :
        Extends(TableAfter(v), scopes) /\ types_table' = Append(scopes, map)
  BY <1>2, ExtendsSelf
<1>6. f.kind \notin {"function", "lambda", "instance", "block"}
  BY DEF Selects, Loops
<1>4. Opens(TableAfter(v), Using(v), ImplicitAfter(v), f)
  BY <1>1, <1>3, <1>5, <1>6 DEF Opens, Callables
<1> QED
  BY <1>4 DEF Step

LEMMA EnterSelectStep ==
  ASSUME ScopesInv, NEW k \in Selects, NEW b \in 1 .. 2, NEW e \in BOOLEAN,
         NEW v \in Value, EnterSelect(k, b, e, v)
  PROVE  Step
<1> DEFINE g == [Frame(k) EXCEPT !.left = b - 1, !.has_else = e]
<1>1. CASE Unresolved(v) /\ Stop
  BY <1>1, StopHalts DEF Step
<1>2. CASE NoLambda(v) /\ Crash
  BY <1>2, ValueChecked DEF Step
<1>3. CASE Stop
  BY <1>3, StopHalts DEF Step
<1>4. CASE /\ ~Unresolved(v) /\ ~NoLambda(v)
           /\ types_table' = push_new_scope(TableAfter(v))
           /\ frames' = Append(Using(v), g) /\ Count
           /\ lambda_implicit_parameters' = ImplicitAfter(v)
           /\ UNCHANGED <<return_types_stack, is_inside_lambda_body, generic_types, status>>
  <2>1. k \in {"if", "switch"} /\ b - 1 \in Nat
    BY DEF Selects
  <2>2. Fresh(g) /\ g.kind = k /\ g.kind \in Selects \cup Loops
    BY <2>1, StateFacts, ConstantTypes
    DEF Fresh, FrameType, Frame, FrameKind, Callables, Selects, Verdict
  <2>3. Visits(g.kind)
    BY <2>2 DEF EnterSelect
  <2> HIDE DEF g
  <2> QED
    BY <1>4, <2>2, <2>3, EnterPlain, EmptyScope DEF push_new_scope
<1> QED
  BY <1>1, <1>2, <1>3, <1>4 DEF EnterSelect, Checks

LEMMA ElementsType ==
  ASSUME NEW k \in Loops, NEW n \in NameOrNone, NEW i \in NameOrNone, NEW t \in Type,
         LoopNames(k, n, i)
  PROVE  Elements(k, n, i, t) \in Map
<1>1. CASE k = "range"
  <2>1. {n} \in SUBSET Names
    BY <1>1 DEF LoopNames, NameOrNone
  <2> QED
    BY <1>1, <2>1, ScopeType DEF Elements
<1>2. CASE k = "each"
  <2>1. {n, i} \ {"_"} \in SUBSET Names
    BY DEF NameOrNone
  <2> QED
    BY <1>2, <2>1, ScopeType, ConstantTypes DEF Elements
<1>3. CASE k \in {"while", "forever"}
  BY <1>3, EmptyScope DEF Elements
<1> QED
  BY <1>1, <1>2, <1>3 DEF Loops

LEMMA EnterLoopStep ==
  ASSUME ScopesInv, NEW k \in Loops, NEW v \in Value, NEW n \in NameOrNone,
         NEW i \in NameOrNone, EnterLoop(k, v, n, i)
  PROVE  Step
<1> DEFINE g == Frame(k)
           m == Elements(k, n, i, TypeOf(v))
<1>1. CASE Unresolved(v) /\ Stop
  BY <1>1, StopHalts DEF Step
<1>2. CASE NoLambda(v) /\ Crash
  BY <1>2, ValueChecked DEF Step
<1>3. CASE Stop
  BY <1>3, StopHalts DEF Step
<1>4. CASE /\ ~Unresolved(v) /\ ~NoLambda(v)
           /\ types_table' = Append(TableAfter(v), m)
           /\ frames' = Append(Using(v), g) /\ Count
           /\ lambda_implicit_parameters' = ImplicitAfter(v)
           /\ UNCHANGED <<return_types_stack, is_inside_lambda_body, generic_types, status>>
  <2>1. k \in {"while", "range", "each", "forever"}
    BY DEF Loops
  <2>2. Fresh(g) /\ g.kind = k /\ g.kind \in Selects \cup Loops
    BY <2>1, StateFacts, ConstantTypes
    DEF Fresh, FrameType, Frame, FrameKind, Callables, Selects, Loops, Verdict
  <2>3. Visits(g.kind) /\ LoopNames(k, n, i)
    BY <2>2 DEF EnterLoop
  <2>4. m \in Map
    BY <1>4, <2>3, ElementsType, ValueChecked
  <2> HIDE DEF g, m
  <2> QED
    BY <1>4, <2>2, <2>3, <2>4, EnterPlain
<1> QED
  BY <1>1, <1>2, <1>3, <1>4 DEF EnterLoop, Checks

\* A statement that has no visitor of its own: a value is visited, then a name may
\* be defined.
LEMMA PlainStep ==
  ASSUME ScopesInv, NEW v \in Value, ~Unresolved(v), ~NoLambda(v),
         NEW kind, Visits(kind), NEW s \in {Plain, JumpPast, ReturnPast},
         kind = "return" => s = ReturnPast,
         Extends(TableAfter(v), types_table'), frames' = Absorbed(Using(v), s), Count,
         lambda_implicit_parameters' = ImplicitAfter(v),
         UNCHANGED <<return_types_stack, is_inside_lambda_body, generic_types, status>>
  PROVE  Step
<1>1. Visited(TableAfter(v), Using(v), ImplicitAfter(v))
  BY ValueChecked
<1>2. /\ frames # <<>> /\ top.open /\ Allowed(kind)
      /\ visited' \in 0 .. MaxStatements
  BY VisitsFacts DEF Count
<1>3. Stays(TableAfter(v), Using(v), ImplicitAfter(v), s)
  BY <1>1, <1>2 DEF Stays
<1> QED
  BY <1>3 DEF Step

LEMMA FieldStep ==
  ASSUME ScopesInv, NEW n \in Names, NEW d \in Values \cup {"none"}, NEW v \in Value,
         Field(n, d, v)
  PROVE  Step
<1> DEFINE t == IF d = "none" THEN TypeOf(v) ELSE d
<1>1. CASE Unresolved(v) /\ Stop
  BY <1>1, StopHalts DEF Step
<1>2. CASE NoLambda(v) /\ Crash
  BY <1>2, ValueChecked DEF Step
<1>3. CASE Stop
  BY <1>3, StopHalts DEF Step
<1>4. CASE /\ ~Unresolved(v) /\ ~NoLambda(v)
           /\ types_table' = define(TableAfter(v), n, t)
           /\ frames' = Absorbed(Using(v), Plain) /\ Count
           /\ lambda_implicit_parameters' = ImplicitAfter(v)
           /\ UNCHANGED <<return_types_stack, is_inside_lambda_body, generic_types, status>>
  <2>1. Extends(types_table, TableAfter(v)) /\ TypeOf(v) \in Type
    BY <1>4, ValueChecked
  <2>2. t \in Type
    BY <2>1, ConstantTypes
  <2>3. TableAfter(v) \in Scopes /\ TableAfter(v) # <<>>
    BY <2>1, StateFacts DEF Extends, Scopes
  <2> HIDE DEF t
  <2>4. Extends(TableAfter(v), types_table')
    BY <1>4, <2>2, <2>3, DefineExtends
  <2>5. Visits("field")
    BY DEF Field
  <2> QED
    BY <1>4, <2>4, <2>5, PlainStep
<1> QED
  BY <1>1, <1>2, <1>3, <1>4 DEF Field, Checks

LEMMA GlobalFieldStep ==
  ASSUME ScopesInv, NEW n \in Names, NEW d \in Values \cup {"none"}, NEW v \in Value,
         GlobalField(n, d, v)
  PROVE  Step
<1> DEFINE t == IF d = "none" THEN v ELSE d
<1>1. CASE Stop
  BY <1>1, StopHalts DEF Step
<1>2. CASE /\ types_table' = define(types_table, n, t) /\ Count
           /\ UNCHANGED <<return_types_stack, lambdas, generic_types, frames, status>>
  <2>1. frames = <<>> /\ visited < MaxStatements /\ v \notin Names
    BY DEF GlobalField
  <2>2. t \in Type
    BY <2>1, ConstantTypes DEF Value
  <2> HIDE DEF t
  <2>3. Extends(types_table, types_table')
    BY <1>2, <2>2, StateFacts, DefineExtends
  <2>4. visited' \in 0 .. MaxStatements
    BY <1>2, <2>1, StateFacts DEF Count
  <2> QED
    BY <1>2, <2>1, <2>3, <2>4 DEF Declares, Step, lambdas
<1> QED
  BY <1>1, <1>2 DEF GlobalField

LEMMA ExpressionStep ==
  ASSUME ScopesInv, NEW v \in Value, Expression(v)
  PROVE  Step
<1>1. CASE Unresolved(v) /\ Stop
  BY <1>1, StopHalts DEF Step
<1>2. CASE NoLambda(v) /\ Crash
  BY <1>2, ValueChecked DEF Step
<1>3. CASE /\ ~Unresolved(v) /\ ~NoLambda(v)
           /\ types_table' = TableAfter(v)
           /\ frames' = Absorbed(Using(v), Plain) /\ Count
           /\ lambda_implicit_parameters' = ImplicitAfter(v)
           /\ UNCHANGED <<return_types_stack, is_inside_lambda_body, generic_types, status>>
  <2>1. Extends(TableAfter(v), types_table')
    BY <1>3, ValueChecked, ExtendsSelf DEF Extends
  <2>2. Visits("expression")
    BY DEF Expression
  <2> QED
    BY <1>3, <2>1, <2>2, PlainStep
<1> QED
  BY <1>1, <1>2, <1>3 DEF Expression, Checks

LEMMA ReturnStep ==
  ASSUME ScopesInv, NEW v \in Value, Return(v)
  PROVE  Step
<1>1. CASE Unresolved(v) /\ Stop
  BY <1>1, StopHalts DEF Step
<1>2. CASE NoLambda(v) /\ Crash
  BY <1>2, ValueChecked DEF Step
<1>3. CASE Stop
  BY <1>3, StopHalts DEF Step
<1>4. CASE /\ ~Unresolved(v) /\ ~NoLambda(v)
           /\ types_table' = TableAfter(v)
           /\ frames' = Absorbed(Using(v), ReturnPast) /\ Count
           /\ lambda_implicit_parameters' = ImplicitAfter(v)
           /\ UNCHANGED <<return_types_stack, is_inside_lambda_body, generic_types, status>>
  <2>1. Extends(TableAfter(v), types_table')
    BY <1>4, ValueChecked, ExtendsSelf DEF Extends
  <2>2. Visits("return")
    BY DEF Return
  <2> QED
    BY <1>4, <2>1, <2>2, PlainStep
<1> QED
  BY <1>1, <1>2, <1>3, <1>4 DEF Return, Checks

LEMMA JumpStep == ScopesInv /\ Jump => Step
<1> SUFFICES ASSUME ScopesInv, Jump PROVE Step
  OBVIOUS
<1>1. /\ Visits("jump") /\ frames' = Absorbed(frames, JumpPast) /\ visited' = visited + 1
      /\ UNCHANGED <<types_table, return_types_stack, lambdas, generic_types, status>>
  BY DEF Jump, Count
<1>2. frames # <<>> /\ top.open /\ Allowed("jump") /\ visited' \in 0 .. MaxStatements
  BY <1>1, VisitsFacts
<1>3. \E kind : Allowed(kind) /\ (kind = "return" => JumpPast = ReturnPast)
  BY <1>2
<1>4. Extends(types_table, types_table')
  BY <1>1, StateFacts, ExtendsSelf
<1>5. Stays(types_table, frames, lambda_implicit_parameters, JumpPast)
  BY <1>1, <1>2, <1>3, <1>4, NoValue DEF Stays, lambdas
<1> QED
  BY <1>5 DEF Step

LEMMA StepShape == ScopesInv /\ [Next]_vars => Step
<1> SUFFICES ASSUME ScopesInv, [Next]_vars PROVE Step
  OBVIOUS
<1>1. CASE UNCHANGED vars
  BY <1>1 DEF vars, Step, Halts, lambdas
<1>2. CASE Next
  BY <1>1, <1>2, EnterFunctionStep, LeaveFunctionStep, EnterLambdaStep, LeaveLambdaStep,
     EnterInstanceStep, LeaveInstanceStep, EnterBlockStep, LeaveBlockStep,
     EnterSelectStep, NextBranchStep, LeaveSelectStep, EnterLoopStep, LeaveLoopStep,
     GenericFieldStep, FieldStep, GlobalFieldStep, ExpressionStep, ReturnStep, JumpStep
  DEF Next, Finished
<1> QED
  BY <1>1, <1>2

-----------------------------------------------------------------------------
(* The scopes, the visitors and the types that are returned stay in step.  *)

\* What every invariant needs to know of the frames after a step.
FramesOK(fs) ==
  /\ fs \in Seq(FrameType)
  /\ \A i \in 1 .. Len(fs) : /\ fs[i].base = i
                             /\ fs[i].kind = "function" <=> i = 1
                             /\ fs[i].kind = "lambda" => fs[i].name \in Names

LEMMA FramesOKAlike ==
  ASSUME NEW fs, NEW gs, FramesOK(fs), Alike(fs, gs)
  PROVE  FramesOK(gs)
BY DEF FramesOK, Alike, Like

LEMMA FramesOKPush ==
  ASSUME NEW fs, NEW f, FramesOK(fs), f \in FrameType, f.base = Len(fs) + 1,
         f.kind = "function" <=> fs = <<>>, f.kind = "lambda" => f.name \in Names
  PROVE  FramesOK(Append(fs, f))
<1> DEFINE gs == Append(fs, f)
           n == Len(fs)
<1>1. /\ n \in Nat /\ gs \in Seq(FrameType) /\ Len(gs) = n + 1 /\ gs[n + 1] = f
      /\ \A i \in 1 .. n : gs[i] = fs[i]
      /\ fs = <<>> <=> n = 0
  BY DEF FramesOK
<1> HIDE DEF gs
<1>2. ASSUME NEW i \in 1 .. n + 1
      PROVE  /\ gs[i].base = i /\ (gs[i].kind = "function" <=> i = 1)
             /\ gs[i].kind = "lambda" => gs[i].name \in Names
  <2>1. CASE i \in 1 .. n
    BY <1>1, <2>1 DEF FramesOK
  <2>2. CASE i = n + 1
    BY <1>1, <2>2
  <2>3. i \in 1 .. n \/ i = n + 1
    BY <1>1
  <2> QED
    BY <2>1, <2>2, <2>3
<1>3. FramesOK(gs)
  BY <1>1, <1>2 DEF FramesOK
<1> QED
  BY <1>3 DEF gs

LEMMA FramesOKPop ==
  ASSUME NEW fs, FramesOK(fs), fs # <<>>
  PROVE  FramesOK(Pop(fs)) /\ Len(Pop(fs)) = Len(fs) - 1
<1>1. fs \in Seq(FrameType)
  BY DEF FramesOK
<1>2. /\ Pop(fs) \in Seq(FrameType) /\ Len(fs) \in Nat \ {0}
      /\ Len(Pop(fs)) = Len(fs) - 1
      /\ \A i \in 1 .. Len(fs) - 1 : Pop(fs)[i] = fs[i]
  BY <1>1, PopType
<1> QED
  BY <1>2 DEF FramesOK

\* The invariant after a step, put together from its parts.
LEMMA ScopesInvNext ==
  ASSUME types_table' \in Scopes, return_types_stack' \in Seq(Type),
         is_inside_lambda_body' \in BOOLEAN,
         lambda_implicit_parameters' \in Seq(Seq(Names)), generic_types' \subseteq Type,
         status' \in {"checking", "stopped", "crashed"}, visited' \in 0 .. MaxStatements,
         FramesOK(frames'), Len(types_table') = Len(frames') + 1,
         ReturnsOK(return_types_stack', frames')
  PROVE  ScopesInv'
BY DEF ScopesInv, TypeOK, FramesOK, Scopes, Map

LEMMA ScopesInvParts ==
  ASSUME ScopesInv
  PROVE  /\ types_table \in Scopes /\ return_types_stack \in Seq(Type)
         /\ is_inside_lambda_body \in BOOLEAN
         /\ lambda_implicit_parameters \in Seq(Seq(Names)) /\ generic_types \subseteq Type
         /\ status \in {"checking", "stopped", "crashed"} /\ visited \in 0 .. MaxStatements
         /\ FramesOK(frames) /\ Len(types_table) = Len(frames) + 1
         /\ ReturnsOK(return_types_stack, frames) /\ frames \in Seq(FrameType)
         /\ Len(frames) \in Nat
BY DEF ScopesInv, TypeOK, FramesOK, Scopes, Map

LEMMA OpensScopes ==
  ASSUME ScopesInv, NEW tt, NEW fs, NEW ip, NEW f, Opens(tt, fs, ip, f)
  PROVE  ScopesInv'
<1>1. /\ Fresh(f) /\ Visited(tt, fs, ip) /\ frames' = Append(fs, f)
      /\ f.kind = "function" <=> frames = <<>>
  BY DEF Opens
<1>2. /\ Extends(types_table, tt) /\ Marked(fs) /\ ip \in Seq(Seq(Names))
  BY <1>1, VisitedType
<1>3. Alike(frames, fs) /\ fs \in Seq(FrameType) /\ Len(fs) = Len(frames)
  BY <1>2, MarkedAlike, ScopesInvParts DEF Marked
<1>4. /\ types_table' \in Scopes /\ Len(types_table') = Len(types_table) + 1
  <2>1. PICK scopes \in Scopes, m \in Map :
          Extends(tt, scopes) /\ types_table' = Append(scopes, m)
    BY DEF Opens
  <2>2. Len(scopes) = Len(types_table)
    BY <1>2, <2>1 DEF Extends
  <2> QED
    BY <2>1, <2>2, ScopesInvParts DEF Scopes
<1>5. FramesOK(frames')
  <2>1. FramesOK(fs)
    BY <1>3, ScopesInvParts, FramesOKAlike
  <2>2. f \in FrameType /\ f.base = Len(fs) + 1 /\ (f.kind = "lambda" => f.name \in Names)
    BY <1>1, <1>3, ScopesInvParts DEF Fresh
  <2>3. fs = <<>> <=> frames = <<>>
    BY <1>3, ScopesInvParts
  <2> QED
    BY <1>1, <2>1, <2>2, <2>3, FramesOKPush
<1>6. Len(frames') = Len(frames) + 1
  BY <1>1, <1>3
<1>7. /\ return_types_stack' \in Seq(Type)
      /\ ReturnsOK(return_types_stack', frames')
  <2>1. ReturnsOK(return_types_stack, fs)
    BY <1>3, ScopesInvParts, ReturnsAlike
  <2>2. return_types_stack' = IF f.kind \in Callables THEN Append(return_types_stack, f.return)
                              ELSE return_types_stack
    BY DEF Opens
  <2>3. f \in FrameType /\ f.return \in Type
    BY <1>1 DEF Fresh, FrameType
  <2>4. return_types_stack' \in Seq(Type)
    BY <2>2, <2>3, ScopesInvParts
  <2> QED
    BY <1>1, <1>3, <2>1, <2>2, <2>3, <2>4, ScopesInvParts, ReturnsPush
<1>8. lambda_implicit_parameters' \in Seq(Seq(Names))
  <2>1. <<>> \in Seq(Names)
    OBVIOUS
  <2> QED
    BY <1>2, <2>1 DEF Opens
<1>9. is_inside_lambda_body' \in BOOLEAN
  BY ScopesInvParts DEF Opens
<1>10. generic_types' \subseteq Type
  BY ScopesInvParts DEF Opens
<1>11. status' \in {"checking", "stopped", "crashed"} /\ visited' \in 0 .. MaxStatements
  BY ScopesInvParts DEF Opens
<1>12. Len(types_table') = Len(frames') + 1
  BY <1>4, <1>6, ScopesInvParts
<1> QED
  BY <1>4, <1>5, <1>7, <1>8, <1>9, <1>10, <1>11, <1>12, ScopesInvNext

LEMMA ClosesScopes == ScopesInv /\ Closes => ScopesInv'
<1> SUFFICES ASSUME ScopesInv, Closes PROVE ScopesInv'
  OBVIOUS
<1>1. /\ frames # <<>> /\ top = Peek(frames) /\ top \in FrameType
      /\ Pop(frames) \in Seq(FrameType) /\ Len(Pop(frames)) = Len(frames) - 1
      /\ Len(frames) \in Nat \ {0}
  BY PopType, ScopesInvParts DEF Closes, top
<1>2. Alike(Pop(frames), frames')
  BY <1>1, SeenType, AbsorbedType DEF Closes
<1>3. FramesOK(frames')
  BY <1>1, <1>2, ScopesInvParts, FramesOKPop, FramesOKAlike
<1>4. types_table' \in Scopes /\ Len(types_table') = Len(types_table) - 1
  <2>1. Len(pop_current_scope(types_table)) = Len(types_table) - 1
    BY PopType, StateFacts DEF Scopes, pop_current_scope, Pop
  <2> QED
    BY <2>1 DEF Closes, Extends
<1>5. Len(types_table') = Len(frames') + 1
  BY <1>1, <1>2, <1>4, ScopesInvParts DEF Alike
<1>6. /\ ReturnsOK(return_types_stack', Pop(frames))
      /\ return_types_stack' \in Seq(Type)
  <2>1. return_types_stack' = IF top.kind \in Callables THEN Pop(return_types_stack)
                              ELSE return_types_stack
    BY DEF Closes
  <2>2. /\ ReturnsOK(return_types_stack', Pop(frames))
        /\ top.kind \in Callables => return_types_stack # <<>>
    BY <1>1, <2>1, ScopesInvParts, ReturnsPop
  <2> QED
    BY <2>1, <2>2, ScopesInvParts, PopType
<1>7. ReturnsOK(return_types_stack', frames')
  BY <1>1, <1>2, <1>6, ReturnsAlike
<1>8. lambda_implicit_parameters' \in Seq(Seq(Names))
  <2>1. Pop(lambda_implicit_parameters) \in Seq(Seq(Names))
    <3>1. CASE lambda_implicit_parameters = <<>>
      <4>1. Pop(lambda_implicit_parameters) = <<>>
        BY <3>1 DEF Pop
      <4> QED
        BY <4>1
    <3> QED
      BY <3>1, ScopesInvParts, PopType
  <2> QED
    BY <2>1, ScopesInvParts DEF Closes
<1>9. /\ is_inside_lambda_body' \in BOOLEAN
      /\ status' \in {"checking", "stopped", "crashed"} /\ visited' \in 0 .. MaxStatements
  BY ScopesInvParts DEF Closes
<1>10. generic_types' \subseteq Type
  BY ScopesInvParts DEF Closes
<1> QED
  BY <1>3, <1>4, <1>5, <1>6, <1>7, <1>8, <1>9, <1>10, ScopesInvNext

LEMMA EndsScopes == ScopesInv /\ Ends => ScopesInv'
<1> SUFFICES ASSUME ScopesInv, Ends PROVE ScopesInv'
  OBVIOUS
<1>1. /\ frames # <<>> /\ top = Peek(frames) /\ top \in FrameType /\ top = frames[Len(frames)]
      /\ Pop(frames) \in Seq(FrameType) /\ Len(Pop(frames)) = Len(frames) - 1
      /\ Len(frames) \in Nat \ {0}
  BY PopType, ScopesInvParts DEF Ends, top, Peek
<1>2. Len(frames) = 1
  BY <1>1, ScopesInvParts DEF Ends, FramesOK
<1>3. frames' = <<>> /\ Pop(frames) = <<>>
  BY <1>1, <1>2 DEF Ends
<1>4. types_table' \in Scopes /\ Len(types_table') = 1
  <2>1. types_table' = Pop(types_table)
    BY DEF Ends, pop_current_scope, Pop
  <2>2. Pop(types_table) \in Scopes /\ Len(Pop(types_table)) = Len(types_table) - 1
    BY PopType, StateFacts DEF Scopes
  <2>3. Len(types_table) = 2
    BY <1>2, ScopesInvParts
  <2> QED
    BY <2>1, <2>2, <2>3
<1>5. FramesOK(frames') /\ Len(frames') = 0
  BY <1>3 DEF FramesOK
<1>6. /\ ReturnsOK(return_types_stack', frames')
      /\ return_types_stack' \in Seq(Type)
  <2>1. return_types_stack' = Pop(return_types_stack) /\ top.kind \in Callables
    BY DEF Ends, Callables
  <2>2. /\ ReturnsOK(Pop(return_types_stack), Pop(frames))
        /\ return_types_stack # <<>>
    BY <1>1, <2>1, ScopesInvParts, ReturnsPop
  <2> QED
    BY <1>3, <2>1, <2>2, ScopesInvParts, PopType
<1>7. /\ is_inside_lambda_body' \in BOOLEAN /\ generic_types' \subseteq Type
      /\ lambda_implicit_parameters' \in Seq(Seq(Names))
      /\ status' \in {"checking", "stopped", "crashed"} /\ visited' \in 0 .. MaxStatements
  BY ScopesInvParts DEF Ends, lambdas
<1> QED
  BY <1>4, <1>5, <1>6, <1>7, ScopesInvNext

LEMMA StaysScopes ==
  ASSUME ScopesInv, NEW tt, NEW fs, NEW ip, NEW s, Stays(tt, fs, ip, s)
  PROVE  ScopesInv'
<1>1. Extends(types_table, tt) /\ Marked(fs) /\ ip \in Seq(Seq(Names))
  BY VisitedType DEF Stays
<1>2. Alike(frames, fs) /\ fs \in Seq(FrameType)
  BY <1>1, MarkedAlike, ScopesInvParts DEF Marked
<1>3. frames' = Absorbed(fs, s) /\ s \in StatementType
  BY SimpleStatements DEF Stays
<1>4. Alike(frames, frames')
  BY <1>2, <1>3, AbsorbedType, AlikeTrans
<1>5. types_table' \in Scopes /\ Len(types_table') = Len(types_table)
  BY <1>1 DEF Stays, Extends
<1>6. FramesOK(frames') /\ Len(frames') = Len(frames)
  BY <1>4, ScopesInvParts, FramesOKAlike DEF Alike
<1>7. return_types_stack' = return_types_stack
  BY DEF Stays
<1>8. ReturnsOK(return_types_stack', frames') /\ return_types_stack' \in Seq(Type)
  BY <1>4, <1>7, ScopesInvParts, ReturnsAlike
<1>9. /\ is_inside_lambda_body' \in BOOLEAN /\ generic_types' \subseteq Type
      /\ lambda_implicit_parameters' \in Seq(Seq(Names))
      /\ status' \in {"checking", "stopped", "crashed"} /\ visited' \in 0 .. MaxStatements
  BY <1>1, ScopesInvParts DEF Stays
<1>10. Len(types_table') = Len(frames') + 1
  BY <1>5, <1>6, ScopesInvParts
<1> QED
  BY <1>5, <1>6, <1>8, <1>9, <1>10, ScopesInvNext

\* The frames after a branch ends: the top is open again and has one branch less.
LEMMA BranchesFrames ==
  ASSUME ScopesInv, Branches
  PROVE  /\ Alike(frames, frames')
         /\ frames' = [frames EXCEPT ![Len(frames)] = Reopened(top)]
         /\ \A i \in 1 .. Len(frames) :
              frames'[i] = IF i = Len(frames) THEN Reopened(frames[i]) ELSE frames[i]
         /\ Reopened(top) \in FrameType /\ Len(frames) \in 1 .. Len(frames)
         /\ top = frames[Len(frames)] /\ top \in FrameType
<1>1. /\ Len(frames) \in 1 .. Len(frames) /\ top = frames[Len(frames)] /\ top \in FrameType
  BY PopType, ScopesInvParts DEF Branches, top, Peek
<1>2. frames' = [frames EXCEPT ![Len(frames)] = Reopened(top)]
  BY <1>1 DEF Branches
<1>3. top.left - 1 \in Nat
  <2>1. top.left \in Nat
    BY <1>1 DEF FrameType
  <2>2. top.left > 0
    BY DEF Branches
  <2> QED
    BY <2>1, <2>2
<1>4. Reopened(top) \in FrameType /\ Like(top, Reopened(top))
  BY <1>1, <1>3 DEF FrameType, Like, Reopened
<1>5. /\ frames' \in Seq(FrameType) /\ Len(frames') = Len(frames)
      /\ \A j \in 1 .. Len(frames) :
           frames'[j] = IF j = Len(frames) THEN Reopened(top) ELSE frames[j]
  BY <1>2, <1>4, ReplaceType, ScopesInvParts
<1>6. Alike(frames, frames')
  BY <1>1, <1>4, <1>5 DEF Alike, Like
<1> QED
  BY <1>1, <1>2, <1>4, <1>5, <1>6

LEMMA BranchesScopes == ScopesInv /\ Branches => ScopesInv'
<1> SUFFICES ASSUME ScopesInv, Branches PROVE ScopesInv'
  OBVIOUS
<1>1. Alike(frames, frames') /\ Len(frames') = Len(frames)
  BY BranchesFrames DEF Alike
<1>2. FramesOK(frames') /\ ReturnsOK(return_types_stack, frames')
  BY <1>1, ScopesInvParts, FramesOKAlike, ReturnsAlike
<1>3. types_table' \in Scopes /\ Len(types_table') = Len(types_table)
  <2>1. types_table' = Append(Pop(types_table), <<>>)
    BY DEF Branches, push_new_scope, pop_current_scope, Pop
  <2>2. Pop(types_table) \in Scopes /\ Len(Pop(types_table)) = Len(types_table) - 1
    BY PopType, StateFacts DEF Scopes
  <2> QED
    BY <2>1, <2>2, EmptyScope, StateFacts DEF Scopes
<1>4. /\ is_inside_lambda_body' \in BOOLEAN /\ generic_types' \subseteq Type
      /\ lambda_implicit_parameters' \in Seq(Seq(Names)) /\ return_types_stack' \in Seq(Type)
      /\ status' \in {"checking", "stopped", "crashed"} /\ visited' \in 0 .. MaxStatements
      /\ return_types_stack' = return_types_stack
  BY ScopesInvParts DEF Branches, lambdas
<1>5. ReturnsOK(return_types_stack', frames') /\ Len(types_table') = Len(frames') + 1
  BY <1>1, <1>2, <1>3, <1>4, ScopesInvParts
<1> QED
  BY <1>2, <1>3, <1>4, <1>5, ScopesInvNext

LEMMA DeclaresScopes == ScopesInv /\ Declares => ScopesInv'
<1> SUFFICES ASSUME ScopesInv, Declares PROVE ScopesInv'
  OBVIOUS
<1>1. types_table' \in Scopes /\ Len(types_table') = Len(types_table) /\ frames' = frames
  BY DEF Declares, Extends
<1>2. /\ is_inside_lambda_body' \in BOOLEAN /\ generic_types' \subseteq Type
      /\ lambda_implicit_parameters' \in Seq(Seq(Names)) /\ return_types_stack' \in Seq(Type)
      /\ status' \in {"checking", "stopped", "crashed"} /\ visited' \in 0 .. MaxStatements
      /\ return_types_stack' = return_types_stack
  BY ScopesInvParts DEF Declares, lambdas
<1>3. FramesOK(frames') /\ Len(types_table') = Len(frames') + 1
  BY <1>1, ScopesInvParts
<1>4. ReturnsOK(return_types_stack', frames')
  BY <1>1, <1>2, ScopesInvParts
<1> QED
  BY <1>1, <1>2, <1>3, <1>4, ScopesInvNext

LEMMA HaltsScopes == ScopesInv /\ Halts => ScopesInv'
<1> SUFFICES ASSUME ScopesInv, Halts PROVE ScopesInv'
  OBVIOUS
<1>1. /\ types_table' = types_table /\ return_types_stack' = return_types_stack
      /\ is_inside_lambda_body' = is_inside_lambda_body
      /\ lambda_implicit_parameters' = lambda_implicit_parameters
      /\ generic_types' = generic_types /\ frames' = frames /\ visited' = visited
  BY DEF Halts, lambdas
<1>2. status' \in {"checking", "stopped", "crashed"}
  BY ScopesInvParts DEF Halts
<1> QED
  BY <1>1, <1>2, ScopesInvParts, ScopesInvNext

LEMMA StepScopes == ScopesInv /\ [Next]_vars => ScopesInv'
BY StepShape, OpensScopes, ClosesScopes, EndsScopes, StaysScopes, BranchesScopes,
   DeclaresScopes, HaltsScopes DEF Step

\* Every construct owns exactly one scope while it is visited, and a return is
\* compared with the type of the callable it leaves.
THEOREM ScopesAlwaysMatch == Spec => []ScopesMatch
<1>1. Spec => []ScopesInv
  BY InitScopes, StepScopes, PTL DEF Spec
<1> QED
  BY <1>1, ScopesInvSound, PTL

-----------------------------------------------------------------------------
(* The names of a scope keep their types.                                  *)

LEMMA ExtendsKeeps ==
  ASSUME NEW a \in Scopes, NEW b, Extends(a, b), NEW i \in 1 .. Len(a), NEW n \in DOMAIN a[i]
  PROVE  n \in DOMAIN b[i] /\ b[i][n] = a[i][n]
<1>1. Len(a) \in Nat /\ a # <<>>
  BY DEF Scopes
<1>2. CASE i = Len(a)
  BY <1>1, <1>2 DEF Extends, current
<1>3. CASE i \in 1 .. Len(a) - 1
  BY <1>3 DEF Extends
<1> QED
  BY <1>1, <1>2, <1>3

LEMMA EntriesStep ==
  ASSUME ScopesInv, [Next]_vars, NEW i \in DOMAIN types_table, Lasts(i),
         NEW n \in DOMAIN types_table[i]
  PROVE  n \in DOMAIN types_table'[i] /\ types_table'[i][n] = types_table[i][n]
<1>1. /\ types_table \in Scopes /\ Len(types_table) \in Nat /\ i \in 1 .. Len(types_table)
      /\ i \in DOMAIN types_table' /\ Len(types_table) = Len(frames) + 1
      /\ Len(frames) \in Nat
  BY StateFacts, ScopesInvParts DEF Lasts, Scopes
<1>2. ASSUME NEW tt, NEW fs, NEW ip, NEW f, Opens(tt, fs, ip, f)
      PROVE  n \in DOMAIN types_table'[i] /\ types_table'[i][n] = types_table[i][n]
  <2>1. PICK scopes \in Scopes, m \in Map :
          Extends(tt, scopes) /\ types_table' = Append(scopes, m)
    BY <1>2 DEF Opens
  <2>2. Extends(types_table, tt)
    BY <1>2, VisitedType DEF Opens
  <2>3. Extends(types_table, scopes)
    BY <1>1, <2>1, <2>2, ExtendsTrans
  <2>4. n \in DOMAIN scopes[i] /\ scopes[i][n] = types_table[i][n]
    BY <1>1, <2>3, ExtendsKeeps
  <2>5. types_table'[i] = scopes[i]
    BY <1>1, <2>1, <2>3 DEF Extends, Scopes
  <2> QED
    BY <2>4, <2>5
<1>3. ASSUME Closes \/ Ends
      PROVE  n \in DOMAIN types_table'[i] /\ types_table'[i][n] = types_table[i][n]
  <2>1. /\ Pop(types_table) \in Scopes /\ Len(Pop(types_table)) = Len(types_table) - 1
        /\ \A j \in 1 .. Len(types_table) - 1 : Pop(types_table)[j] = types_table[j]
    BY PopType, StateFacts DEF Scopes
  <2>2. Extends(Pop(types_table), types_table')
    <3>1. CASE Closes
      BY <3>1 DEF Closes, pop_current_scope, Pop
    <3>2. CASE Ends
      <4>1. types_table' = Pop(types_table)
        BY <3>2 DEF Ends, pop_current_scope, Pop
      <4> QED
        BY <2>1, <4>1, ExtendsSelf
    <3> QED
      BY <1>3, <3>1, <3>2
  <2>3. i \in 1 .. Len(types_table) - 1
    BY <1>1, <2>1, <2>2 DEF Extends, Scopes
  <2>4. Pop(types_table)[i] = types_table[i] /\ i \in 1 .. Len(Pop(types_table))
    BY <2>1, <2>3
  <2> QED
    BY <2>1, <2>2, <2>4, ExtendsKeeps
<1>4. ASSUME NEW tt, NEW fs, NEW ip, NEW s, Stays(tt, fs, ip, s)
      PROVE  n \in DOMAIN types_table'[i] /\ types_table'[i][n] = types_table[i][n]
  <2>1. Extends(types_table, tt) /\ Extends(tt, types_table')
    BY <1>4, VisitedType DEF Stays
  <2> QED
    BY <1>1, <2>1, ExtendsTrans, ExtendsKeeps
<1>5. ASSUME Branches
      PROVE  n \in DOMAIN types_table'[i] /\ types_table'[i][n] = types_table[i][n]
  <2>1. i # Len(types_table)
    <3> SUFFICES ASSUME i = Len(types_table) PROVE FALSE
      OBVIOUS
    <3>1. i > 1 /\ i - 1 = Len(frames) /\ Len(frames) \in 1 .. Len(frames)
      BY <1>1, <1>5, BranchesFrames
    <3>2. frames'[i - 1].left = frames[i - 1].left
      BY <3>1 DEF Lasts
    <3>3. frames'[i - 1] = Reopened(top) /\ top = frames[i - 1] /\ top \in FrameType
      BY <1>5, <3>1, BranchesFrames
    <3>4. top.left \in Nat /\ Reopened(top).left = top.left - 1
      BY <3>3 DEF FrameType, Reopened
    <3> QED
      BY <3>2, <3>3, <3>4
  <2>2. types_table' = Append(Pop(types_table), <<>>)
    BY <1>5 DEF Branches, push_new_scope, pop_current_scope, Pop
  <2>3. /\ Pop(types_table) \in Scopes /\ Len(Pop(types_table)) = Len(types_table) - 1
        /\ \A j \in 1 .. Len(types_table) - 1 : Pop(types_table)[j] = types_table[j]
    BY PopType, StateFacts DEF Scopes
  <2>4. i \in 1 .. Len(types_table) - 1
    BY <1>1, <2>1
  <2>5. types_table'[i] = types_table[i]
    BY <2>2, <2>3, <2>4, EmptyScope DEF Scopes
  <2> QED
    BY <2>5
<1>6. ASSUME Declares
      PROVE  n \in DOMAIN types_table'[i] /\ types_table'[i][n] = types_table[i][n]
  BY <1>1, <1>6, ExtendsKeeps DEF Declares
<1>7. ASSUME Halts
      PROVE  n \in DOMAIN types_table'[i] /\ types_table'[i][n] = types_table[i][n]
  BY <1>7 DEF Halts
<1> QED
  BY <1>2, <1>3, <1>4, <1>5, <1>6, <1>7, StepShape DEF Step

\* Whatever is visited, a name keeps the type it was declared with for as long as
\* its scope lasts.
THEOREM EntriesAreKept == Spec => EntriesKept
<1>1. Spec => []ScopesInv
  BY InitScopes, StepScopes, PTL DEF Spec
<1>2. ScopesInv /\ [Next]_vars => [\A i \in DOMAIN types_table : Lasts(i) =>
        \A n \in DOMAIN types_table[i] :
           n \in DOMAIN types_table'[i] /\ types_table'[i][n] = types_table[i][n]]_vars
  <2> SUFFICES ASSUME ScopesInv, [Next]_vars
               PROVE  [\A i \in DOMAIN types_table : Lasts(i) =>
                 \A n \in DOMAIN types_table[i] :
                    n \in DOMAIN types_table'[i]
                      /\ types_table'[i][n] = types_table[i][n]]_vars
    OBVIOUS
  <2> QED
    BY EntriesStep
<1> QED
  BY <1>1, <1>2, PTL DEF Spec, EntriesKept

-----------------------------------------------------------------------------
(* Returns.                                                                *)

\* What a statement is taken for is so: one that is covered by returns, or is a
\* return, cannot be passed.
Sound(s) ==
  /\ s.decides = "covered" => ~s.falls
  /\ s.body = "covered" => ~s.falls
  /\ s.is_return => ~s.falls

\* And what a frame has gathered: the last statement of a block that decides, all
\* the branches of an if or a switch, the body of the others.
FrameSound(f) ==
  IF f.kind = "block" THEN f.last \/ f.verdict = "covered" => ~f.falls
  ELSE IF f.kind \in Selects THEN f.covered = "covered" => ~f.falls
  ELSE f.body = "covered" => ~f.falls
FramesSound(fs) == \A i \in 1 .. Len(fs) : FrameSound(fs[i])

LEMMA SimpleSound == Sound(Plain) /\ Sound(JumpPast) /\ Sound(ReturnPast)
BY DEF Sound, Plain, JumpPast, ReturnPast, Statement

LEMMA SeenSound ==
  ASSUME NEW f \in FrameType, FrameSound(f)
  PROVE  Sound(Seen(f))
<1>1. /\ f.verdict \in Verdict /\ f.covered \in Verdict /\ f.body \in Verdict
      /\ f.falls \in BOOLEAN /\ f.has_else \in BOOLEAN /\ f.last \in BOOLEAN
  BY DEF FrameType
<1>2. CASE f.kind = "block"
  <2>1. BlockCovered(f) = "covered" => ~f.falls
    BY <1>2 DEF FrameSound, BlockCovered
  <2>2. Sound(BlockSeen(f))
    BY <2>1 DEF BlockSeen, Statement, Sound
  <2> QED
    BY <1>2, <2>2 DEF Seen
<1>3. CASE f.kind \in Selects
  <2>1. f.covered = "covered" => ~f.falls
    BY <1>3 DEF FrameSound, Selects
  <2>2. IfDecides(f) = "covered" => f.covered = "covered" /\ f.has_else
    BY <1>1 DEF IfDecides, Verdict
  <2>3. SwitchDecides(f) = "covered" => f.covered = "covered" /\ f.has_else
    BY <1>1 DEF SwitchDecides, Verdict
  <2>4. Sound(SelectSeen(f))
    BY <2>1, <2>2, <2>3 DEF SelectSeen, Statement, Sound
  <2> QED
    BY <1>3, <2>4 DEF Seen, Selects
<1>4. CASE f.kind # "block" /\ f.kind \notin Selects
  BY <1>4, SimpleSound DEF Seen
<1> QED
  BY <1>2, <1>3, <1>4

LEMMA AbsorbSound ==
  ASSUME NEW f \in FrameType, NEW s \in StatementType, FrameSound(f), Sound(s)
  PROVE  FrameSound(Absorb(f, s))
<1>1. /\ f.verdict \in Verdict /\ f.covered \in Verdict /\ f.body \in Verdict
      /\ f.falls \in BOOLEAN /\ f.last \in BOOLEAN
      /\ s.falls \in BOOLEAN /\ s.is_return \in BOOLEAN /\ s.body \in Verdict
      /\ (s.decides = "-" \/ s.decides \in Verdict)
  BY DEF FrameType, StatementType
<1>2. Absorb(f, s).kind = f.kind
  BY AbsorbType DEF Like
<1>3. CASE f.kind = "block"
  <2>1. f.kind \notin Selects
    BY <1>3 DEF Selects
  <2>2. /\ Absorb(f, s).last = s.is_return
        /\ Absorb(f, s).falls = (f.falls /\ s.falls)
        /\ Absorb(f, s).verdict = IF s.decides = "-" THEN f.verdict ELSE s.decides
    BY <1>3, <2>1 DEF Absorb, FrameType
  <2> QED
    BY <1>2, <1>3, <2>2 DEF FrameSound, Sound
<1>4. CASE f.kind \in Selects
  <2>1. f.kind # "block"
    BY <1>4 DEF Selects
  <2>2. /\ Absorb(f, s).covered = IF f.covered = "covered" THEN s.body ELSE f.covered
        /\ Absorb(f, s).falls = (f.falls \/ s.falls)
    BY <1>4, <2>1 DEF Absorb, FrameType
  <2> QED
    BY <1>2, <1>4, <2>1, <2>2 DEF FrameSound, Sound
<1>5. CASE f.kind # "block" /\ f.kind \notin Selects
  <2>1. Absorb(f, s).body = s.body /\ Absorb(f, s).falls = s.falls
    BY <1>5 DEF Absorb, FrameType
  <2> QED
    BY <1>2, <1>5, <2>1 DEF FrameSound, Sound
<1> QED
  BY <1>3, <1>4, <1>5

LEMMA FreshSound ==
  ASSUME NEW f, Fresh(f)
  PROVE  FrameSound(f)
BY DEF Fresh, FrameSound

LEMMA AbsorbedSound ==
  ASSUME NEW fs \in Seq(FrameType), FramesSound(fs), NEW s \in StatementType, Sound(s)
  PROVE  FramesSound(Absorbed(fs, s))
<1>1. /\ Len(Absorbed(fs, s)) = Len(fs)
      /\ \A i \in 1 .. Len(fs) :
           Absorbed(fs, s)[i] = IF i = Len(fs) THEN Absorb(fs[i], s) ELSE fs[i]
  BY AbsorbedType DEF Alike
<1>2. ASSUME NEW i \in 1 .. Len(fs)
      PROVE  FrameSound(Absorbed(fs, s)[i])
  <2>1. fs[i] \in FrameType /\ FrameSound(fs[i])
    BY DEF FramesSound
  <2> QED
    BY <1>1, <2>1, AbsorbSound
<1> QED
  BY <1>1, <1>2 DEF FramesSound

LEMMA MarkedSound ==
  ASSUME frames \in Seq(FrameType), FramesSound(frames), NEW fs, Marked(fs)
  PROVE  FramesSound(fs)
<1>1. Len(fs) = Len(frames)
  BY DEF Marked
<1>2. ASSUME NEW i \in 1 .. Len(frames)
      PROVE  FrameSound(fs[i])
  <2>1. FrameSound(frames[i])
    BY DEF FramesSound
  <2>2. /\ fs[i].kind = frames[i].kind /\ fs[i].verdict = frames[i].verdict
        /\ fs[i].last = frames[i].last /\ fs[i].body = frames[i].body
        /\ fs[i].covered = frames[i].covered /\ fs[i].falls = frames[i].falls
    BY MarkedAlike DEF Alike, Like
  <2> QED
    BY <2>1, <2>2 DEF FrameSound
<1> QED
  BY <1>1, <1>2 DEF FramesSound

LEMMA StepSound ==
  ASSUME ScopesInv, FramesSound(frames), [Next]_vars
  PROVE  FramesSound(frames')
<1>1. ASSUME NEW tt, NEW fs, NEW ip, NEW f, Opens(tt, fs, ip, f)
      PROVE  FramesSound(frames')
  <2>1. Marked(fs) /\ Fresh(f) /\ frames' = Append(fs, f)
    BY <1>1, VisitedType DEF Opens
  <2>2. FramesSound(fs) /\ FrameSound(f) /\ fs \in Seq(FrameType)
    BY <2>1, MarkedSound, FreshSound, ScopesInvParts DEF Marked
  <2> QED
    BY <2>1, <2>2 DEF FramesSound
<1>2. ASSUME Closes
      PROVE  FramesSound(frames')
  <2>1. /\ top \in FrameType /\ FrameSound(top)
        /\ Pop(frames) \in Seq(FrameType) /\ FramesSound(Pop(frames))
    <3>1. /\ frames # <<>> /\ Pop(frames) \in Seq(FrameType) /\ top \in FrameType
          /\ Len(frames) \in Nat \ {0} /\ Len(Pop(frames)) = Len(frames) - 1
          /\ \A i \in 1 .. Len(frames) - 1 : Pop(frames)[i] = frames[i]
      BY <1>2, PopType, ScopesInvParts DEF Closes, top
    <3>2. Len(frames) \in 1 .. Len(frames) /\ top = frames[Len(frames)]
      BY <3>1 DEF top, Peek
    <3> QED
      BY <3>1, <3>2 DEF FramesSound
  <2>2. Sound(Seen(top)) /\ Seen(top) \in StatementType
    BY <2>1, SeenSound, SeenType
  <2>3. frames' = Absorbed(Pop(frames), Seen(top))
    BY <1>2 DEF Closes
  <2> QED
    BY <2>1, <2>2, <2>3, AbsorbedSound
<1>3. ASSUME Ends \/ Declares
      PROVE  FramesSound(frames')
  BY <1>3 DEF Ends, Declares, FramesSound
<1>4. ASSUME NEW tt, NEW fs, NEW ip, NEW s, Stays(tt, fs, ip, s)
      PROVE  FramesSound(frames')
  <2>1. /\ Marked(fs) /\ frames' = Absorbed(fs, s)
        /\ s \in StatementType /\ Sound(s)
    BY <1>4, VisitedType, SimpleStatements, SimpleSound DEF Stays
  <2>2. FramesSound(fs) /\ fs \in Seq(FrameType)
    BY <2>1, MarkedSound, ScopesInvParts DEF Marked
  <2> QED
    BY <2>1, <2>2, AbsorbedSound
<1>5. ASSUME Branches
      PROVE  FramesSound(frames')
  <2>1. /\ Len(frames') = Len(frames) /\ Len(frames) \in 1 .. Len(frames)
        /\ top = frames[Len(frames)] /\ top \in FrameType
        /\ \A i \in 1 .. Len(frames) :
             frames'[i] = IF i = Len(frames) THEN Reopened(frames[i]) ELSE frames[i]
    BY <1>5, BranchesFrames DEF Alike
  <2>2. FrameSound(top)
    BY <2>1 DEF FramesSound
  <2>3. FrameSound(Reopened(top))
    BY <2>1, <2>2 DEF FrameSound, Reopened, FrameType
  <2> QED
    BY <2>1, <2>3 DEF FramesSound
<1>6. ASSUME Halts
      PROVE  FramesSound(frames')
  BY <1>6 DEF Halts
<1> QED
  BY <1>1, <1>2, <1>3, <1>4, <1>5, <1>6, StepShape DEF Step

\* Only the end of a function leaves no visitor in progress.
LEMMA LastVisitorEnds ==
  ASSUME ScopesInv, [Next]_vars, frames # <<>>, frames' = <<>>
  PROVE  Ends
<1>1. ASSUME NEW tt, NEW fs, NEW ip, NEW f, Opens(tt, fs, ip, f)
      PROVE  FALSE
  <2>1. Marked(fs) /\ frames' = Append(fs, f)
    BY <1>1, VisitedType DEF Opens
  <2> QED
    BY <2>1 DEF Marked
<1>2. ASSUME Closes
      PROVE  FALSE
  <2>1. /\ Pop(frames) \in Seq(FrameType) /\ Len(Pop(frames)) = Len(frames) - 1
        /\ top \in FrameType /\ Len(frames) \in Nat \ {0} /\ top = frames[Len(frames)]
    BY PopType, ScopesInvParts DEF top, Peek
  <2>2. Alike(Pop(frames), frames')
    BY <1>2, <2>1, SeenType, AbsorbedType DEF Closes
  <2>3. Len(frames) = 1
    <3>1. Len(frames') = Len(Pop(frames))
      BY <2>2 DEF Alike
    <3>2. Len(frames') = 0
      OBVIOUS
    <3>3. Len(frames) - 1 = 0 /\ Len(frames) \in Nat
      BY <2>1, <3>1, <3>2
    <3> QED
      BY <3>3
  <2>4. top.kind = "function"
    BY <2>1, <2>3, ScopesInvParts DEF FramesOK
  <2> QED
    BY <1>2, <2>4 DEF Closes
<1>3. ASSUME NEW tt, NEW fs, NEW ip, NEW s, Stays(tt, fs, ip, s)
      PROVE  FALSE
  <2>1. Marked(fs) /\ s \in StatementType /\ frames' = Absorbed(fs, s)
    BY <1>3, VisitedType, SimpleStatements DEF Stays
  <2>2. Alike(fs, frames') /\ Len(fs) = Len(frames)
    BY <2>1, AbsorbedType DEF Marked
  <2> QED
    BY <2>2, ScopesInvParts DEF Alike
<1>4. ASSUME Branches
      PROVE  FALSE
  <2>1. Len(frames') = Len(frames) /\ Len(frames) \in 1 .. Len(frames)
    BY <1>4, BranchesFrames DEF Alike
  <2> QED
    BY <2>1
<1>5. ~Declares /\ ~Halts
  BY DEF Declares, Halts
<1> QED
  BY <1>1, <1>2, <1>3, <1>4, <1>5, StepShape DEF Step

\* A function that is to return a value, and whose check ends, cannot be left
\* without a return.
THEOREM AcceptedFunctionsReturn == Spec => AcceptedReturns
<1>1. Init => ScopesInv /\ FramesSound(frames)
  <2>1. Init => FramesSound(frames)
    BY DEF Init, FramesSound
  <2> QED
    BY <2>1, InitScopes
<1>2. /\ ScopesInv /\ FramesSound(frames) /\ [Next]_vars
      => (ScopesInv /\ FramesSound(frames))'
  <2>1. ScopesInv /\ FramesSound(frames) /\ [Next]_vars => FramesSound(frames')
    BY StepSound
  <2> QED
    BY <2>1, StepScopes
<1>3. ScopesInv /\ FramesSound(frames) /\ [Next]_vars
      => [frames # <<>> /\ frames' = <<>> /\ top.return # "void" => ~top.falls]_vars
  <2> SUFFICES ASSUME ScopesInv, FramesSound(frames), [Next]_vars,
                      frames # <<>>, frames' = <<>>, top.return # "void"
               PROVE  ~top.falls
    OBVIOUS
  <2>1. top.kind = "function" /\ top.body = "covered"
    BY LastVisitorEnds DEF Ends
  <2>2. top = frames[Len(frames)] /\ Len(frames) \in 1 .. Len(frames)
    BY ScopesInvParts DEF top, Peek
  <2>3. FrameSound(top)
    BY <2>2 DEF FramesSound
  <2> QED
    BY <2>1, <2>3 DEF FrameSound, Selects
<1> QED
  BY <1>1, <1>2, <1>3, PTL DEF Spec, AcceptedReturns

-----------------------------------------------------------------------------
(* What the checker reads is there.                                        *)

\* The invariant: inside a lambda there is a list for what it captures; inside an
\* instance, of which there is one, its type is known; and the body that is not a
\* block is a return, so that none is worth "crash".
FramesSafe(fs) ==
  /\ \A i \in 1 .. Len(fs) : "crash" \notin {fs[i].body, fs[i].covered, fs[i].verdict}
  /\ \A i \in 2 .. Len(fs) : fs[i - 1].kind = "block" \/ fs[i].kind = "block"
  /\ \A i, j \in 1 .. Len(fs) : fs[i].kind = "instance" /\ fs[j].kind = "instance" => i = j
SafeInv ==
  /\ FramesSafe(frames)
  /\ is_inside_lambda_body => lambda_implicit_parameters # <<>>
  /\ InCallable("instance") => generic_types # {}
  /\ status # "crashed"

\* What a block, and what anything else, must not be handed.
Harmless(s, kind) ==
  IF kind = "block" THEN s.decides # "crash" ELSE s.body # "crash"

LEMMA SeenHarmless ==
  ASSUME NEW f \in FrameType, NEW kind, f.kind = "block" \/ kind = "block",
         "crash" \notin {f.body, f.covered, f.verdict}
  PROVE  Harmless(Seen(f), kind)
<1>1. /\ f.verdict \in Verdict /\ f.covered \in Verdict /\ f.body \in Verdict
      /\ f.last \in BOOLEAN
  BY DEF FrameType
<1>2. CASE f.kind = "block"
  <2>1. BlockCovered(f) # "crash"
    BY DEF BlockCovered
  <2> QED
    BY <1>2, <2>1 DEF Seen, BlockSeen, Statement, Harmless
<1>3. CASE f.kind \in Selects /\ kind = "block"
  <2>1. f.kind # "block"
    BY <1>3 DEF Selects
  <2>2. IfDecides(f) # "crash"
    BY <1>1 DEF IfDecides
  <2>3. SwitchDecides(f) # "crash"
    BY <1>1 DEF SwitchDecides, Verdict
  <2> QED
    BY <1>3, <2>1, <2>2, <2>3 DEF Seen, SelectSeen, Statement, Harmless
<1>4. CASE f.kind # "block" /\ f.kind \notin Selects /\ kind = "block"
  BY <1>4 DEF Seen, Plain, Statement, Harmless
<1> QED
  BY <1>2, <1>3, <1>4

LEMMA AbsorbHarmless ==
  ASSUME NEW f \in FrameType, NEW s \in StatementType, Harmless(s, f.kind),
         "crash" \notin {f.body, f.covered, f.verdict}
  PROVE  LET g == Absorb(f, s) IN "crash" \notin {g.body, g.covered, g.verdict}
<1>1. CASE f.kind = "block"
  <2>1. f.kind \notin Selects /\ s.decides # "crash"
    BY <1>1 DEF Selects, Harmless
  <2>2. /\ Absorb(f, s).body = f.body /\ Absorb(f, s).covered = f.covered
        /\ Absorb(f, s).verdict = IF s.decides = "-" THEN f.verdict ELSE s.decides
    BY <1>1, <2>1 DEF Absorb, FrameType
  <2> QED
    BY <2>1, <2>2
<1>2. CASE f.kind \in Selects
  <2>1. f.kind # "block" /\ s.body # "crash"
    BY <1>2 DEF Selects, Harmless
  <2>2. /\ Absorb(f, s).body = s.body /\ Absorb(f, s).verdict = f.verdict
        /\ Absorb(f, s).covered = IF f.covered = "covered" THEN s.body ELSE f.covered
    BY <1>2, <2>1 DEF Absorb, FrameType
  <2> QED
    BY <2>1, <2>2
<1>3. CASE f.kind # "block" /\ f.kind \notin Selects
  <2>1. s.body # "crash"
    BY <1>3 DEF Harmless
  <2>2. /\ Absorb(f, s).body = s.body /\ Absorb(f, s).verdict = f.verdict
        /\ Absorb(f, s).covered = f.covered
    BY <1>3 DEF Absorb, FrameType
  <2> QED
    BY <2>1, <2>2
<1> QED
  BY <1>1, <1>2, <1>3

\* A step down the stack, up, and along it.
LEMMA FramesSafeAlike ==
  ASSUME NEW fs, FramesSafe(fs), NEW gs, Alike(fs, gs),
         \A i \in 1 .. Len(fs) : "crash" \notin {gs[i].body, gs[i].covered, gs[i].verdict}
  PROVE  FramesSafe(gs)
<1>1. Len(gs) = Len(fs) /\ \A i \in 1 .. Len(fs) : gs[i].kind = fs[i].kind
  BY DEF Alike, Like
<1>2. \A i \in 2 .. Len(fs) : i \in 1 .. Len(fs) /\ i - 1 \in 1 .. Len(fs)
  OBVIOUS
<1> QED
  BY <1>1, <1>2 DEF FramesSafe

LEMMA FramesSafePop ==
  ASSUME NEW fs \in Seq(FrameType), fs # <<>>, FramesSafe(fs)
  PROVE  FramesSafe(Pop(fs))
<1>1. /\ Len(fs) \in Nat \ {0} /\ Len(Pop(fs)) = Len(fs) - 1
      /\ \A i \in 1 .. Len(fs) - 1 : Pop(fs)[i] = fs[i]
  BY PopType
<1> DEFINE gs == Pop(fs)
           n == Len(fs) - 1
<1>2. n \in Nat /\ Len(fs) = n + 1 /\ Len(gs) = n /\ \A i \in 1 .. n : gs[i] = fs[i]
  BY <1>1
<1> HIDE DEF gs, n
<1>3. \A i \in 1 .. n : i \in 1 .. Len(fs)
  BY <1>2
<1>4. \A i \in 2 .. n : i \in 2 .. Len(fs) /\ i \in 1 .. n /\ i - 1 \in 1 .. n
  BY <1>2
<1>5. FramesSafe(gs)
  BY <1>2, <1>3, <1>4 DEF FramesSafe
<1> QED
  BY <1>5 DEF gs

LEMMA FramesSafePush ==
  ASSUME NEW fs \in Seq(FrameType), FramesSafe(fs), NEW f \in FrameType,
         "crash" \notin {f.body, f.covered, f.verdict},
         fs # <<>> => Peek(fs).kind = "block" \/ f.kind = "block",
         f.kind = "instance" => \A i \in 1 .. Len(fs) : fs[i].kind # "instance"
  PROVE  FramesSafe(Append(fs, f))
<1> DEFINE gs == Append(fs, f)
           n == Len(fs)
<1>1. /\ n \in Nat /\ Len(gs) = n + 1 /\ gs[n + 1] = f
      /\ \A i \in 1 .. n : gs[i] = fs[i]
      /\ fs = <<>> <=> n = 0
  OBVIOUS
<1>2. Peek(fs) = fs[n]
  BY DEF Peek
<1> HIDE DEF gs, n
<1>3. \A i \in 1 .. n + 1 : i \in 1 .. n \/ i = n + 1
  BY <1>1
<1>4. \A i \in 1 .. n : "crash" \notin {fs[i].body, fs[i].covered, fs[i].verdict}
  BY DEF FramesSafe, n
<1>5. \A i \in 1 .. n + 1 : "crash" \notin {gs[i].body, gs[i].covered, gs[i].verdict}
  BY <1>1, <1>3, <1>4
<1>6. ASSUME NEW i \in 2 .. n + 1
      PROVE  gs[i - 1].kind = "block" \/ gs[i].kind = "block"
  <2>1. CASE i \in 2 .. n
    <3>1. gs[i - 1] = fs[i - 1] /\ gs[i] = fs[i]
      BY <1>1, <2>1
    <3> QED
      BY <2>1, <3>1 DEF FramesSafe, n
  <2>2. CASE i = n + 1
    <3>1. n # 0 /\ gs[i - 1] = fs[n] /\ gs[i] = f
      BY <1>1, <2>2
    <3> QED
      BY <1>1, <1>2, <3>1
  <2>3. i \in 2 .. n \/ i = n + 1
    BY <1>1
  <2> QED
    BY <2>1, <2>2, <2>3
<1>7. ASSUME NEW i \in 1 .. n + 1, NEW j \in 1 .. n + 1,
             gs[i].kind = "instance", gs[j].kind = "instance"
      PROVE  i = j
  <2>1. \A k \in 1 .. n : fs[k].kind = "instance" => f.kind # "instance"
    BY DEF n
  <2>2. \A k, l \in 1 .. n : fs[k].kind = "instance" /\ fs[l].kind = "instance" => k = l
    BY DEF FramesSafe, n
  <2> QED
    BY <1>1, <1>3, <1>7, <2>1, <2>2
<1>8. FramesSafe(gs)
  BY <1>1, <1>5, <1>6, <1>7 DEF FramesSafe
<1> QED
  BY <1>8 DEF gs

LEMMA MarkedSafe ==
  ASSUME frames \in Seq(FrameType), FramesSafe(frames), NEW fs, Marked(fs)
  PROVE  FramesSafe(fs)
<1>1. \A i \in 1 .. Len(frames) : /\ fs[i].body = frames[i].body
                                  /\ fs[i].covered = frames[i].covered
                                  /\ fs[i].verdict = frames[i].verdict
  BY MarkedAlike
<1>2. \A i \in 1 .. Len(frames) :
        "crash" \notin {fs[i].body, fs[i].covered, fs[i].verdict}
  BY <1>1 DEF FramesSafe
<1> QED
  BY <1>2, MarkedAlike, FramesSafeAlike

LEMMA AbsorbedSafe ==
  ASSUME NEW fs \in Seq(FrameType), FramesSafe(fs), NEW s \in StatementType,
         fs # <<>> => Harmless(s, Peek(fs).kind)
  PROVE  FramesSafe(Absorbed(fs, s))
<1>1. /\ Alike(fs, Absorbed(fs, s))
      /\ \A i \in 1 .. Len(fs) :
           Absorbed(fs, s)[i] = IF i = Len(fs) THEN Absorb(fs[i], s) ELSE fs[i]
  BY AbsorbedType
<1>2. ASSUME NEW i \in 1 .. Len(fs)
      PROVE  LET g == Absorbed(fs, s)[i] IN "crash" \notin {g.body, g.covered, g.verdict}
  <2>1. fs[i] \in FrameType /\ "crash" \notin {fs[i].body, fs[i].covered, fs[i].verdict}
    BY DEF FramesSafe
  <2>2. CASE i = Len(fs)
    <3>1. fs # <<>> /\ Peek(fs) = fs[i]
      BY <2>2 DEF Peek
    <3> QED
      BY <1>1, <2>1, <2>2, <3>1, AbsorbHarmless
  <2>3. CASE i # Len(fs)
    BY <1>1, <2>1, <2>3
  <2> QED
    BY <2>2, <2>3
<1> QED
  BY <1>1, <1>2, FramesSafeAlike

LEMMA CallablesIn ==
  ASSUME ScopesInv, NEW kind
  PROVE  InCallable(kind) <=> \E i \in 1 .. Len(frames) : frames[i].kind = kind
<1>1. DOMAIN frames = 1 .. Len(frames)
  BY ScopesInvParts
<1> QED
  BY <1>1 DEF InCallable

\* The instances in progress after a step that keeps the kinds of the frames.
LEMMA SameCallables ==
  ASSUME NEW kind, NEW fs, Alike(fs, frames'), fs \in Seq(FrameType),
         InCallable(kind)'
  PROVE  \E i \in 1 .. Len(fs) : fs[i].kind = kind
<1>1. PICK i \in DOMAIN frames' : frames'[i].kind = kind
  BY DEF InCallable
<1>2. i \in 1 .. Len(fs) /\ fs[i].kind = kind
  BY <1>1 DEF Alike, Like
<1> QED
  BY <1>2

LEMMA OpensSafe ==
  ASSUME Unbraced \subseteq {"return"}, "instance" \notin InInstance,
         ScopesInv, SafeInv, NEW tt, NEW fs, NEW ip, NEW f, Opens(tt, fs, ip, f)
  PROVE  SafeInv'
<1>1. /\ Fresh(f) /\ Visited(tt, fs, ip) /\ frames' = Append(fs, f)
      /\ f.kind = "function" <=> frames = <<>>
  BY DEF Opens
<1>2. Marked(fs) /\ Len(ip) = Len(lambda_implicit_parameters) /\ ip \in Seq(Seq(Names))
  BY <1>1, VisitedType
<1>3. Alike(frames, fs) /\ fs \in Seq(FrameType) /\ Len(fs) = Len(frames)
  BY <1>2, MarkedAlike, ScopesInvParts DEF Marked
<1>4. f \in FrameType /\ "crash" \notin {f.body, f.covered, f.verdict}
  BY <1>1 DEF Fresh
<1>5. fs # <<>> => Peek(fs).kind = "block" \/ f.kind = "block"
  <2> SUFFICES ASSUME fs # <<>> PROVE Peek(fs).kind = "block" \/ f.kind = "block"
    OBVIOUS
  <2>1. frames # <<>> /\ Len(frames) \in 1 .. Len(frames) /\ Peek(fs).kind = top.kind
    BY <1>3, ScopesInvParts DEF Alike, Like, Peek, top
  <2>2. Allowed(f.kind) \/ f.kind = "block"
    BY <2>1 DEF Opens
  <2>3. Allowed(f.kind) => top.kind = "block" \/ f.kind = "return"
    BY DEF Allowed
  <2>4. f.kind # "return"
    BY <1>4 DEF FrameType, FrameKind, Callables, Selects, Loops
  <2> QED
    BY <2>1, <2>2, <2>3, <2>4
<1>6. f.kind = "instance" => ~InCallable("instance")
  <2> SUFFICES ASSUME f.kind = "instance" PROVE ~InCallable("instance")
    OBVIOUS
  <2>1. Allowed("instance")
    BY <1>1 DEF Opens
  <2> QED
    BY <2>1 DEF Allowed
<1>7. \A i \in 1 .. Len(fs) : fs[i].kind = frames[i].kind
  BY <1>3 DEF Alike, Like
<1>8. f.kind = "instance" => \A i \in 1 .. Len(fs) : fs[i].kind # "instance"
  BY <1>3, <1>6, <1>7, CallablesIn
<1>9. FramesSafe(frames')
  <2>1. FramesSafe(fs)
    BY <1>2, MarkedSafe, ScopesInvParts DEF SafeInv
  <2> QED
    BY <1>1, <1>3, <1>4, <1>5, <1>8, <2>1, FramesSafePush
<1>10. is_inside_lambda_body' => lambda_implicit_parameters' # <<>>
  <2>1. CASE f.kind = "lambda"
    <3>1. lambda_implicit_parameters' = Append(ip, <<>>)
      BY <2>1 DEF Opens
    <3> QED
      BY <1>2, <3>1
  <2>2. CASE f.kind # "lambda"
    <3>1. is_inside_lambda_body' = is_inside_lambda_body /\ lambda_implicit_parameters' = ip
      BY <2>2 DEF Opens
    <3> QED
      BY <1>2, <3>1, ScopesInvParts DEF SafeInv
  <2> QED
    BY <2>1, <2>2
<1>11. InCallable("instance")' => generic_types' # {}
  <2>1. CASE f.kind = "instance"
    BY <2>1 DEF Opens
  <2>2. CASE f.kind # "instance"
    <3>1. generic_types' = generic_types
      BY <2>2 DEF Opens
    <3>2. ASSUME NEW i \in DOMAIN frames', frames'[i].kind = "instance"
          PROVE  InCallable("instance")
      <4>1. i \in 1 .. Len(fs) /\ frames'[i] = fs[i]
        BY <1>1, <1>3, <2>2, <3>2
      <4>2. i \in DOMAIN frames /\ frames[i].kind = "instance"
        BY <1>3, <1>7, <3>2, <4>1, ScopesInvParts
      <4> QED
        BY <4>2 DEF InCallable
    <3> QED
      BY <3>1, <3>2 DEF InCallable, SafeInv
  <2> QED
    BY <2>1, <2>2
<1>12. status' # "crashed"
  BY DEF Opens, SafeInv
<1> QED
  BY <1>9, <1>10, <1>11, <1>12 DEF SafeInv

LEMMA ClosesSafe == ScopesInv /\ SafeInv /\ Closes => SafeInv'
<1> SUFFICES ASSUME ScopesInv, SafeInv, Closes PROVE SafeInv'
  OBVIOUS
<1> DEFINE fs == Pop(frames)
           n == Len(frames)
<1>1. /\ frames # <<>> /\ fs \in Seq(FrameType) /\ n \in Nat \ {0} /\ Len(fs) = n - 1
      /\ \A i \in 1 .. n - 1 : fs[i] = frames[i]
      /\ top \in FrameType /\ top = frames[n]
  BY PopType, ScopesInvParts DEF Closes, top, Peek
<1>2. frames' = Absorbed(fs, Seen(top)) /\ Seen(top) \in StatementType
  BY <1>1, SeenType DEF Closes
<1>3. FramesSafe(fs)
  BY <1>1, ScopesInvParts, FramesSafePop DEF SafeInv
<1>4. fs # <<>> => Harmless(Seen(top), Peek(fs).kind)
  <2> SUFFICES ASSUME fs # <<>> PROVE Harmless(Seen(top), Peek(fs).kind)
    OBVIOUS
  <2>1. n \in 2 .. n /\ Peek(fs) = frames[n - 1] /\ n \in 1 .. n
    BY <1>1 DEF Peek
  <2>2. top.kind = "block" \/ Peek(fs).kind = "block"
    BY <1>1, <2>1 DEF SafeInv, FramesSafe
  <2>3. "crash" \notin {top.body, top.covered, top.verdict}
    BY <1>1, <2>1 DEF SafeInv, FramesSafe
  <2> QED
    BY <1>1, <2>2, <2>3, SeenHarmless
<1> HIDE DEF fs, n
<1>5. FramesSafe(frames')
  BY <1>1, <1>2, <1>3, <1>4, AbsorbedSafe
<1>6. is_inside_lambda_body' => lambda_implicit_parameters' # <<>>
  BY DEF Closes, SafeInv
<1>7. InCallable("instance")' => generic_types' # {}
  <2> SUFFICES ASSUME InCallable("instance")' PROVE generic_types' # {}
    OBVIOUS
  <2>1. Alike(fs, frames')
    BY <1>1, <1>2, AbsorbedType
  <2>2. PICK i \in 1 .. Len(fs) : fs[i].kind = "instance"
    BY <1>1, <2>1, SameCallables
  <2>3. i \in 1 .. n /\ i # n /\ n \in 1 .. n /\ frames[i].kind = "instance"
    BY <1>1, <2>2
  <2>4. InCallable("instance")
    BY <2>3, ScopesInvParts DEF InCallable, n
  <2>5. top.kind # "instance"
    BY <1>1, <2>3 DEF SafeInv, FramesSafe, n
  <2> QED
    BY <2>4, <2>5 DEF Closes, SafeInv
<1>8. status' # "crashed"
  BY DEF Closes, SafeInv
<1> QED
  BY <1>5, <1>6, <1>7, <1>8 DEF SafeInv

LEMMA StaysSafe ==
  ASSUME Unbraced \subseteq {"return"},
         ScopesInv, SafeInv, NEW tt, NEW fs, NEW ip, NEW s, Stays(tt, fs, ip, s)
  PROVE  SafeInv'
<1>1. Marked(fs) /\ Len(ip) = Len(lambda_implicit_parameters) /\ ip \in Seq(Seq(Names))
  BY VisitedType DEF Stays
<1>2. Alike(frames, fs) /\ fs \in Seq(FrameType) /\ Len(fs) = Len(frames)
  BY <1>1, MarkedAlike, ScopesInvParts DEF Marked
<1>3. frames' = Absorbed(fs, s) /\ s \in StatementType /\ frames # <<>>
  BY SimpleStatements DEF Stays
<1>4. Harmless(s, Peek(fs).kind)
  <2>1. Peek(fs).kind = top.kind /\ Len(frames) \in 1 .. Len(frames)
    BY <1>2, <1>3, ScopesInvParts DEF Alike, Like, Peek, top
  <2>2. s.decides # "crash" /\ (s = ReturnPast => s.body # "crash")
    BY DEF Stays, Plain, JumpPast, ReturnPast, Statement
  <2>3. top.kind = "block" \/ s = ReturnPast
    BY DEF Stays, Allowed
  <2> QED
    BY <2>1, <2>2, <2>3 DEF Harmless
<1>5. FramesSafe(frames')
  <2>1. FramesSafe(fs)
    BY <1>1, MarkedSafe, ScopesInvParts DEF SafeInv
  <2> QED
    BY <1>2, <1>3, <1>4, <2>1, AbsorbedSafe
<1>6. is_inside_lambda_body' => lambda_implicit_parameters' # <<>>
  BY <1>1, ScopesInvParts DEF Stays, SafeInv
<1>7. InCallable("instance")' => generic_types' # {}
  <2> SUFFICES ASSUME InCallable("instance")' PROVE generic_types' # {}
    OBVIOUS
  <2>1. Alike(frames, frames')
    BY <1>2, <1>3, AbsorbedType, AlikeTrans
  <2>2. InCallable("instance")
    <3>1. \E i \in 1 .. Len(frames) : frames[i].kind = "instance"
      BY <2>1, SameCallables, ScopesInvParts
    <3> QED
      BY <3>1, CallablesIn
  <2> QED
    BY <2>2 DEF Stays, SafeInv
<1>8. status' # "crashed"
  BY DEF Stays, SafeInv
<1> QED
  BY <1>5, <1>6, <1>7, <1>8 DEF SafeInv

LEMMA BranchesSafe == ScopesInv /\ SafeInv /\ Branches => SafeInv'
<1> SUFFICES ASSUME ScopesInv, SafeInv, Branches PROVE SafeInv'
  OBVIOUS
<1>1. /\ Alike(frames, frames') /\ Len(frames) \in 1 .. Len(frames)
      /\ top = frames[Len(frames)] /\ top \in FrameType
      /\ \A i \in 1 .. Len(frames) :
           frames'[i] = IF i = Len(frames) THEN Reopened(frames[i]) ELSE frames[i]
  BY BranchesFrames
<1>2. \A i \in 1 .. Len(frames) :
        "crash" \notin {frames'[i].body, frames'[i].covered, frames'[i].verdict}
  <2>1. \A i \in 1 .. Len(frames) :
          "crash" \notin {frames[i].body, frames[i].covered, frames[i].verdict}
    BY DEF SafeInv, FramesSafe
  <2>2. "crash" \notin {Reopened(top).body, Reopened(top).covered, Reopened(top).verdict}
    BY <1>1, <2>1 DEF Reopened, FrameType
  <2> QED
    BY <1>1, <2>1, <2>2
<1>3. FramesSafe(frames')
  BY <1>1, <1>2, FramesSafeAlike DEF SafeInv
<1>4. InCallable("instance")' => InCallable("instance")
  <2> SUFFICES ASSUME InCallable("instance")' PROVE InCallable("instance")
    OBVIOUS
  <2>1. \E i \in 1 .. Len(frames) : frames[i].kind = "instance"
    BY <1>1, SameCallables, ScopesInvParts
  <2> QED
    BY <2>1, CallablesIn
<1> QED
  BY <1>3, <1>4 DEF Branches, SafeInv, lambdas

LEMMA HaltsSafe == ScopesInv /\ SafeInv /\ Halts => SafeInv'
<1> SUFFICES ASSUME ScopesInv, SafeInv, Halts PROVE SafeInv'
  OBVIOUS
<1>1. ~Missing
  <2>1. \A v \in Value : ~NoLambda(v)
    BY DEF NoLambda, Captures, SafeInv
  <2>2. frames # <<>> => top.body \in {"covered", "none"}
    <3> SUFFICES ASSUME frames # <<>> PROVE top.body \in {"covered", "none"}
      OBVIOUS
    <3>1. top \in FrameType /\ top = frames[Len(frames)] /\ Len(frames) \in 1 .. Len(frames)
      BY PopType, ScopesInvParts DEF top, Peek
    <3>2. top.body # "crash"
      BY <3>1 DEF SafeInv, FramesSafe
    <3> QED
      BY <3>1, <3>2 DEF FrameType, Verdict
  <2> QED
    BY <2>1, <2>2 DEF Missing, SafeInv
<1>2. /\ frames' = frames /\ is_inside_lambda_body' = is_inside_lambda_body
      /\ lambda_implicit_parameters' = lambda_implicit_parameters
      /\ generic_types' = generic_types /\ status' # "crashed"
  BY <1>1 DEF Halts, lambdas, SafeInv
<1>3. InCallable("instance")' => InCallable("instance")
  BY <1>2 DEF InCallable
<1> QED
  BY <1>2, <1>3 DEF SafeInv

LEMMA StepSafe ==
  ASSUME Unbraced \subseteq {"return"}, "instance" \notin InInstance,
         ScopesInv, SafeInv, [Next]_vars
  PROVE  SafeInv'
<1>1. ASSUME Ends \/ Declares
      PROVE  SafeInv'
  <2>1. frames' = <<>> /\ status' = status /\ UNCHANGED lambdas
    BY <1>1 DEF Ends, Declares
  <2>2. FramesSafe(frames') /\ ~InCallable("instance")'
    BY <2>1 DEF FramesSafe, InCallable
  <2> QED
    BY <2>1, <2>2 DEF SafeInv, lambdas
<1> QED
  BY <1>1, StepShape, OpensSafe, ClosesSafe, StaysSafe, BranchesSafe, HaltsSafe DEF Step

\* When the flag of the lambdas starts cleared, and in programs whose bodies are
\* blocks or returns and whose generic functions call no generic function, the
\* checker never reads a list, a type or a body that is not there.
THEOREM NeverMissing ==
  ASSUME FlagAtStart = {FALSE}, Unbraced \subseteq {"return"}, "instance" \notin InInstance
  PROVE  Spec => []CheckerSafe
<1>1. Init => ScopesInv /\ SafeInv
  <2>1. Init => SafeInv
    BY DEF Init, SafeInv, FramesSafe, InCallable
  <2> QED
    BY <2>1, InitScopes
<1>2. ScopesInv /\ SafeInv /\ [Next]_vars => (ScopesInv /\ SafeInv)'
  BY StepScopes, StepSafe
<1>3. SafeInv => CheckerSafe
  BY DEF SafeInv, CheckerSafe
<1> QED
  BY <1>1, <1>2, <1>3, PTL DEF Spec

-----------------------------------------------------------------------------
(* What a lambda captures.                                                 *)

\* The invariant: one lambda at most is in progress, with no more than its block
\* above it.  What it uses of the functions around it is what it has captured, and
\* that is defined in the scope of its block.
HasLambda(fs) == \E i \in 1 .. Len(fs) : fs[i].kind = "lambda"
Elems(s) == {s[k] : k \in DOMAIN s}
Gathered(captured, used) ==
  /\ IsFiniteSet(used) /\ Elems(captured) = used /\ Len(captured) = Cardinality(used)
LambdaOK(ip, tt, fs, p) ==
  /\ \A i \in 1 .. Len(fs) : fs[i].kind = "lambda" => i = p
  /\ Len(fs) = p \/ (Len(fs) = p + 1 /\ fs[Len(fs)].kind = "block")
  /\ Len(ip) = 1 /\ Gathered(ip[1], fs[p].used)
  /\ Len(fs) = p /\ fs[p].open => fs[p].used = {}
  /\ Len(fs) = p + 1 => fs[p].used \subseteq DOMAIN current(tt)
CapturesOK(flag, ip, tt, fs) ==
  /\ flag <=> HasLambda(fs)
  /\ ~HasLambda(fs) => ip = <<>>
  /\ \A p \in 1 .. Len(fs) : fs[p].kind = "lambda" => LambdaOK(ip, tt, fs, p)
CaptureInv ==
  CapturesOK(is_inside_lambda_body, lambda_implicit_parameters, types_table, frames)

LEMMA CaptureInvSound == ScopesInv /\ CaptureInv => CapturesExact
<1> SUFFICES ASSUME ScopesInv, CaptureInv PROVE CapturesExact
  OBVIOUS
<1> DEFINE lip == lambda_implicit_parameters
           n == Len(frames)
<1>1. n \in Nat /\ DOMAIN frames = 1 .. n
  BY ScopesInvParts
<1>2. FlagMatches
  BY CallablesIn DEF FlagMatches, CaptureInv, CapturesOK, HasLambda
<1>3. CASE ~HasLambda(frames)
  <2>1. \A i \in 1 .. n : frames[i].kind # "lambda"
    BY <1>3 DEF HasLambda
  <2>2. {i \in 1 .. n : frames[i].kind \in {"lambda"}} = {}
    BY <2>1
  <2>3. Depth({"lambda"}, Len(frames)) = 0
    BY <2>2, FS_EmptySet DEF Depth
  <2>4. Len(lip) = 0
    BY <1>3 DEF CaptureInv, CapturesOK
  <2> QED
    BY <1>1, <1>2, <2>1, <2>3, <2>4 DEF CapturesExact
<1>4. CASE HasLambda(frames)
  <2>1. PICK p \in 1 .. n : frames[p].kind = "lambda"
    BY <1>4 DEF HasLambda
  <2>2. LambdaOK(lip, types_table, frames, p)
    BY <2>1 DEF CaptureInv, CapturesOK
  <2>3. \A i \in 1 .. n : frames[i].kind = "lambda" <=> i = p
    BY <2>1, <2>2 DEF LambdaOK
  <2>4. /\ {i \in 1 .. n : frames[i].kind \in {"lambda"}} = {p}
        /\ {i \in 1 .. p : frames[i].kind \in {"lambda"}} = {p}
    BY <1>1, <2>3
  <2>5. Depth({"lambda"}, Len(frames)) = 1 /\ Depth({"lambda"}, p) = 1
    BY <2>4, FS_Singleton DEF Depth
  <2>6. /\ Len(lip) = 1
        /\ {lip[1][k] : k \in DOMAIN lip[1]} = frames[p].used
        /\ Len(lip[1]) = Cardinality(frames[p].used)
    BY <2>2 DEF LambdaOK, Gathered, Elems
  <2> QED
    BY <1>1, <1>2, <2>3, <2>5, <2>6 DEF CapturesExact
<1> QED
  BY <1>3, <1>4

\* No lambda is in progress, before and after.
LEMMA NoLambdaOK ==
  ASSUME NEW tt, NEW fs, ~HasLambda(fs)
  PROVE  CapturesOK(FALSE, <<>>, tt, fs)
BY DEF CapturesOK, HasLambda

LEMMA NothingGathered == Gathered(<<>>, {})
BY FS_EmptySet DEF Gathered, Elems

\* A name more.
LEMMA OneGathered ==
  ASSUME NEW s \in Seq(Names), NEW used, Gathered(s, used), NEW v \in Names, v \notin used
  PROVE  Gathered(Append(s, v), used \cup {v})
<1> DEFINE t == Append(s, v)
<1>1. /\ Len(s) \in Nat /\ Len(t) = Len(s) + 1 /\ DOMAIN t = 1 .. Len(s) + 1
      /\ DOMAIN s = 1 .. Len(s)
      /\ t[Len(s) + 1] = v /\ \A i \in 1 .. Len(s) : t[i] = s[i]
  OBVIOUS
<1> HIDE DEF t
<1>2. Elems(t) = Elems(s) \cup {v}
  <2>1. \A i \in 1 .. Len(s) + 1 : i \in 1 .. Len(s) \/ i = Len(s) + 1
    BY <1>1
  <2>2. \A i \in 1 .. Len(s) : i \in 1 .. Len(s) + 1
    BY <1>1
  <2>3. Len(s) + 1 \in 1 .. Len(s) + 1
    BY <1>1
  <2> QED
    BY <1>1, <2>1, <2>2, <2>3 DEF Elems
<1>3. /\ IsFiniteSet(used \cup {v})
      /\ Cardinality(used \cup {v}) = Cardinality(used) + 1
  BY FS_AddElement DEF Gathered
<1>4. Gathered(t, used \cup {v})
  BY <1>1, <1>2, <1>3 DEF Gathered
<1> QED
  BY <1>4 DEF t

\* In the block of a lambda a value is captured if it is used of a function around
\* the lambda, and then it is in the scope of the block.
LEMMA CapturesForeign ==
  ASSUME ScopesInv, is_inside_lambda_body, NEW p \in 1 .. Len(frames),
         frames[p].kind = "lambda", Len(frames) = p + 1, NEW v \in Value, ~Unresolved(v)
  PROVE  /\ Captures(v) <=> Foreign(frames[p], v)
         /\ Captures(v) => /\ v \in Names /\ v \notin DOMAIN current(types_table)
                           /\ v \in DOMAIN current(TableAfter(v))
<1>1. /\ frames[p].base = p /\ Len(types_table) = p + 2 /\ p \in Nat
      /\ types_table \in Scopes /\ types_table # <<>>
  <2>1. FramesOK(frames) /\ Len(types_table) = Len(frames) + 1 /\ types_table \in Scopes
    BY ScopesInvParts
  <2>2. p \in Nat
    OBVIOUS
  <2>3. frames[p].base = p
    BY <2>1 DEF FramesOK
  <2>4. Len(types_table) = p + 2
    BY <2>1, <2>2
  <2>5. types_table # <<>>
    BY <2>2, <2>4
  <2> QED
    BY <2>1, <2>2, <2>3, <2>4, <2>5
<1>2. ASSUME v \in Names
      PROVE  /\ Level(v) \in 1 .. Len(types_table)
             /\ \A j \in 1 .. Len(types_table) :
                  j > Level(v) => v \notin DOMAIN types_table[j]
  <2>1. is_defined(types_table, v)
    BY <1>2 DEF Unresolved
  <2> QED
    BY <1>1, <2>1, LevelFound DEF Level
<1>3. ASSUME v \in Names, Level(v) <= p
      PROVE  v \notin DOMAIN current(types_table)
  <2>1. Len(types_table) \in 1 .. Len(types_table) /\ Len(types_table) > Level(v)
    BY <1>1, <1>2, <1>3
  <2> QED
    BY <1>2, <1>3, <2>1 DEF current
<1>4. Captures(v) <=> Foreign(frames[p], v)
  <2>1. v \in Names => (Level(v) < Len(types_table) - 1 <=> Level(v) <= p)
    BY <1>1, <1>2
  <2> QED
    BY <1>1, <1>3, <2>1 DEF Captures, Foreign, lookup_on_current, Callables
<1>5. ASSUME Captures(v)
      PROVE  /\ v \in Names /\ v \notin DOMAIN current(types_table)
             /\ v \in DOMAIN current(TableAfter(v))
  <2>1. v \in Names /\ v \notin DOMAIN current(types_table)
    BY <1>5 DEF Captures, lookup_on_current
  <2>2. TypeOf(v) \in Type
    BY ValueType
  <2> QED
    BY <1>1, <1>5, <2>1, <2>2, DefineExtends DEF TableAfter
<1> QED
  BY <1>4, <1>5

\* Where a statement is seen inside a lambda, it is in its block.
LEMMA InsideLambda ==
  ASSUME ScopesInv, CaptureInv, NEW p \in 1 .. Len(frames), frames[p].kind = "lambda"
  PROVE  /\ LambdaOK(lambda_implicit_parameters, types_table, frames, p)
         /\ is_inside_lambda_body /\ InCallable("lambda") /\ HasLambda(frames)
         /\ p \in Nat /\ frames # <<>> /\ top = frames[Len(frames)] /\ top \in FrameType
         /\ top.kind = "lambda" => Len(frames) = p
         /\ top.kind # "lambda" => Len(frames) = p + 1 /\ top.kind = "block"
<1>1. HasLambda(frames)
  BY DEF HasLambda
<1>2. /\ LambdaOK(lambda_implicit_parameters, types_table, frames, p)
      /\ is_inside_lambda_body
  BY <1>1 DEF CaptureInv, CapturesOK
<1>3. InCallable("lambda")
  BY CallablesIn
<1>4. frames # <<>> /\ p \in Nat /\ Len(frames) \in 1 .. Len(frames)
  BY ScopesInvParts
<1>5. top = frames[Len(frames)] /\ top \in FrameType
  BY <1>4, PopType, ScopesInvParts DEF top, Peek
<1> QED
  BY <1>1, <1>2, <1>3, <1>4, <1>5 DEF LambdaOK

\* The invariant, put together from its parts.
LEMMA NoLambdaNext ==
  ASSUME ~HasLambda(frames'), is_inside_lambda_body' = FALSE,
         lambda_implicit_parameters' = <<>>
  PROVE  CaptureInv'
BY DEF CaptureInv, CapturesOK, HasLambda

LEMMA LambdaNext ==
  ASSUME NEW p \in 1 .. Len(frames'), frames'[p].kind = "lambda",
         is_inside_lambda_body' = TRUE,
         LambdaOK(lambda_implicit_parameters', types_table', frames', p)
  PROVE  CaptureInv'
<1>1. HasLambda(frames')
  BY DEF HasLambda
<1>2. \A i \in 1 .. Len(frames') : frames'[i].kind = "lambda" => i = p
  BY DEF LambdaOK
<1> QED
  BY <1>1, <1>2 DEF CaptureInv, CapturesOK

\* Outside the lambdas nothing is captured.
LEMMA OutsideLambda ==
  ASSUME ScopesInv, CaptureInv, ~HasLambda(frames)
  PROVE  /\ is_inside_lambda_body = FALSE /\ lambda_implicit_parameters = <<>>
         /\ \A i \in 1 .. Len(frames) : frames[i].kind # "lambda"
<1>1. is_inside_lambda_body \in BOOLEAN
  BY ScopesInvParts
<1> QED
  BY <1>1 DEF CaptureInv, CapturesOK, HasLambda

LEMMA OpensCaptures ==
  ASSUME InLambda \subseteq {"field", "expression", "return", "jump"},
         ScopesInv, CaptureInv, NEW tt, NEW fs, NEW ip, NEW f, Opens(tt, fs, ip, f)
  PROVE  CaptureInv'
<1> DEFINE n == Len(frames)
<1>1. /\ Fresh(f) /\ Visited(tt, fs, ip) /\ frames' = Append(fs, f) /\ f \in FrameType
      /\ f.kind = "function" <=> frames = <<>>
  BY DEF Opens, Fresh
<1>2. Marked(fs) /\ (~is_inside_lambda_body => ip = lambda_implicit_parameters)
  BY <1>1, VisitedType
<1>3. Alike(frames, fs) /\ n \in Nat
  BY <1>2, MarkedAlike, ScopesInvParts
<1>4. /\ fs \in Seq(FrameType) /\ Len(fs) = n
      /\ \A i \in 1 .. n : fs[i].kind = frames[i].kind
  BY <1>3 DEF Alike, Like
<1>5. /\ Len(frames') = n + 1 /\ frames'[n + 1] = f
      /\ \A i \in 1 .. n : frames'[i] = fs[i]
  BY <1>1, <1>3, <1>4
<1>6. \A i \in 1 .. n + 1 : i \in 1 .. n \/ i = n + 1
  BY <1>3
<1>7. n + 1 \in 1 .. n + 1
  BY <1>3
<1>8. CASE HasLambda(frames)
  <2>1. PICK p \in 1 .. n : frames[p].kind = "lambda"
    BY <1>8 DEF HasLambda
  <2>2. /\ LambdaOK(lambda_implicit_parameters, types_table, frames, p)
        /\ is_inside_lambda_body /\ InCallable("lambda") /\ p \in Nat /\ frames # <<>>
        /\ top = frames[n] /\ (top.kind = "lambda" => n = p)
        /\ top.kind # "lambda" => n = p + 1 /\ top.kind = "block"
    BY <2>1, InsideLambda
  <2>3. ~Allowed(f.kind)
    <3>1. f.kind \notin {"field", "expression", "return", "jump"}
      BY <1>1 DEF FrameType, FrameKind, Callables, Selects, Loops
    <3> QED
      BY <2>2, <3>1 DEF Allowed
  <2>4. f.kind = "block" /\ top.kind # "block" /\ top.open
    BY <2>2, <2>3 DEF Opens
  <2>5. top.kind = "lambda" /\ n = p
    BY <2>2, <2>4
  <2>6. fs = frames /\ ip = lambda_implicit_parameters
    BY <2>4 DEF Opens
  <2>7. /\ lambda_implicit_parameters' = lambda_implicit_parameters
        /\ is_inside_lambda_body' = is_inside_lambda_body
    BY <2>4, <2>6 DEF Opens
  <2>8. frames'[p] = frames[p]
    BY <1>5, <2>1, <2>6
  <2>9. frames[p].used = {}
    BY <2>2, <2>4, <2>5 DEF LambdaOK
  <2>10. \A i \in 1 .. n + 1 : frames'[i].kind = "lambda" => i = p
    <3>1. \A i \in 1 .. n : frames[i].kind = "lambda" => i = p
      BY <2>2 DEF LambdaOK
    <3> QED
      BY <1>5, <1>6, <2>4, <2>6, <3>1
  <2>11. LambdaOK(lambda_implicit_parameters', types_table', frames', p)
    <3>1. Len(frames') = p + 1 /\ frames'[Len(frames')].kind = "block"
      BY <1>5, <2>4, <2>5
    <3>2. /\ Len(lambda_implicit_parameters') = 1
          /\ Gathered(lambda_implicit_parameters'[1], frames'[p].used)
      BY <2>2, <2>7, <2>8 DEF LambdaOK
    <3>3. \A i \in 1 .. Len(frames') : frames'[i].kind = "lambda" => i = p
      BY <1>5, <2>10
    <3>4. frames'[p].used = {}
      BY <2>8, <2>9
    <3> QED
      BY <3>1, <3>2, <3>3, <3>4 DEF LambdaOK
  <2>12. p \in 1 .. Len(frames') /\ frames'[p].kind = "lambda"
    BY <1>5, <2>1, <2>5, <2>8
  <2>13. is_inside_lambda_body' = TRUE
    BY <2>2, <2>7, ScopesInvParts
  <2> QED
    BY <2>11, <2>12, <2>13, LambdaNext
<1>9. CASE ~HasLambda(frames)
  <2>1. is_inside_lambda_body = FALSE /\ lambda_implicit_parameters = <<>>
    BY <1>9, OutsideLambda
  <2>2. ip = <<>>
    BY <1>2, <2>1
  <2>3. \A i \in 1 .. n : frames'[i].kind # "lambda"
    BY <1>4, <1>5, <1>9, OutsideLambda
  <2>4. CASE f.kind # "lambda"
    <3>1. is_inside_lambda_body' = FALSE /\ lambda_implicit_parameters' = <<>>
      BY <2>1, <2>2, <2>4 DEF Opens
    <3>2. ~HasLambda(frames')
      BY <1>5, <1>6, <2>3, <2>4 DEF HasLambda
    <3> QED
      BY <3>1, <3>2, NoLambdaNext
  <2>5. CASE f.kind = "lambda"
    <3>1. is_inside_lambda_body' = TRUE /\ lambda_implicit_parameters' = <<<<>>>>
      BY <2>2, <2>5 DEF Opens
    <3>2. \A i \in 1 .. n + 1 : frames'[i].kind = "lambda" => i = n + 1
      BY <1>6, <2>3
    <3>3. frames'[n + 1].used = {} /\ frames'[n + 1].kind = "lambda"
      BY <1>1, <1>5, <2>5 DEF Fresh
    <3>4. Gathered(lambda_implicit_parameters'[1], {}) /\ Len(lambda_implicit_parameters') = 1
      BY <3>1, NothingGathered
    <3>5. LambdaOK(lambda_implicit_parameters', types_table', frames', n + 1)
      BY <1>5, <3>2, <3>3, <3>4 DEF LambdaOK
    <3> QED
      BY <1>5, <1>7, <3>1, <3>3, <3>5, LambdaNext
  <2> QED
    BY <2>4, <2>5
<1> QED
  BY <1>8, <1>9

LEMMA ClosesCaptures == ScopesInv /\ CaptureInv /\ Closes => CaptureInv'
<1> SUFFICES ASSUME ScopesInv, CaptureInv, Closes PROVE CaptureInv'
  OBVIOUS
<1> DEFINE n == Len(frames)
           lip == lambda_implicit_parameters
<1>1. /\ frames # <<>> /\ n \in Nat \ {0} /\ Pop(frames) \in Seq(FrameType)
      /\ Len(Pop(frames)) = n - 1 /\ \A i \in 1 .. n - 1 : Pop(frames)[i] = frames[i]
      /\ top \in FrameType /\ top = frames[n]
  BY PopType, ScopesInvParts DEF Closes, top, Peek
<1>2. frames' = Absorbed(Pop(frames), Seen(top)) /\ Seen(top) \in StatementType
  BY <1>1, SeenType DEF Closes
<1>3. /\ Alike(Pop(frames), frames')
      /\ \A i \in 1 .. n - 1 : frames'[i] = IF i = n - 1 THEN Absorb(frames[i], Seen(top))
                                            ELSE frames[i]
  BY <1>1, <1>2, AbsorbedType
<1>4. Len(frames') = n - 1 /\ \A i \in 1 .. n - 1 : frames'[i].kind = frames[i].kind
  BY <1>1, <1>3 DEF Alike, Like
<1>5. CASE HasLambda(frames)
  <2>1. PICK p \in 1 .. n : frames[p].kind = "lambda"
    BY <1>5 DEF HasLambda
  <2>2. /\ LambdaOK(lip, types_table, frames, p) /\ is_inside_lambda_body /\ p \in Nat
        /\ (top.kind = "lambda" => n = p)
        /\ top.kind # "lambda" => n = p + 1 /\ top.kind = "block"
    BY <2>1, InsideLambda
  <2>3. \A i \in 1 .. n - 1 : frames'[i].kind = "lambda" => i = p
    BY <1>1, <1>4, <2>2 DEF LambdaOK
  <2>4. CASE top.kind = "lambda"
    <3>1. n = p
      BY <2>2, <2>4
    <3>2. ~HasLambda(frames')
      BY <1>1, <1>4, <2>3, <3>1 DEF HasLambda
    <3>3. lip \in Seq(Seq(Names)) /\ Len(lip) = 1
      BY <2>2, ScopesInvParts DEF LambdaOK
    <3>4. Pop(lip) = <<>>
      <4> DEFINE S == Seq(Names)
      <4> HIDE DEF lip
      <4>0. lip \in Seq(S) /\ Len(lip) = 1
        BY <3>3
      <4> HIDE DEF S
      <4>1. lip # <<>>
        BY <4>0
      <4>2. Pop(lip) \in Seq(S) /\ Len(Pop(lip)) = Len(lip) - 1
        BY <4>0, <4>1, PopType
      <4> QED
        BY <4>0, <4>2
    <3>5. lambda_implicit_parameters' = <<>> /\ is_inside_lambda_body' = FALSE
      BY <2>4, <3>4 DEF Closes
    <3> QED
      BY <3>2, <3>5, NoLambdaNext
  <2>5. CASE top.kind # "lambda"
    <3>1. n = p + 1 /\ top.kind = "block"
      BY <2>2, <2>5
    <3>2. p \in 1 .. Len(frames') /\ frames'[p] = Absorb(frames[p], Seen(top))
      BY <1>3, <1>4, <2>1, <2>2, <3>1
    <3>3. frames[p] \in FrameType
      BY <2>1, ScopesInvParts
    <3>4. /\ frames'[p].kind = "lambda" /\ ~frames'[p].open
          /\ frames'[p].used = frames[p].used
      BY <1>2, <2>1, <3>2, <3>3, AbsorbType DEF Like
    <3>5. lambda_implicit_parameters' = lip /\ is_inside_lambda_body' = is_inside_lambda_body
      BY <2>5 DEF Closes
    <3>6. Len(lip) = 1 /\ Gathered(lip[1], frames[p].used)
      BY <2>2 DEF LambdaOK
    <3>7. Len(frames') = p
      BY <1>4, <2>2, <3>1
    <3>8. \A i \in 1 .. Len(frames') : frames'[i].kind = "lambda" => i = p
      BY <1>4, <2>3
    <3>9. LambdaOK(lambda_implicit_parameters', types_table', frames', p)
      BY <2>2, <3>4, <3>5, <3>6, <3>7, <3>8 DEF LambdaOK
    <3>10. is_inside_lambda_body' = TRUE
      BY <2>2, <3>5, ScopesInvParts
    <3> QED
      BY <3>2, <3>4, <3>9, <3>10, LambdaNext
  <2> QED
    BY <2>4, <2>5
<1>6. CASE ~HasLambda(frames)
  <2>1. /\ is_inside_lambda_body = FALSE /\ lip = <<>>
        /\ \A i \in 1 .. n : frames[i].kind # "lambda"
    BY <1>6, OutsideLambda
  <2>2. ~HasLambda(frames')
    BY <1>1, <1>4, <2>1 DEF HasLambda
  <2>3. top.kind # "lambda"
    BY <1>1, <2>1
  <2>4. lambda_implicit_parameters' = <<>> /\ is_inside_lambda_body' = FALSE
    BY <2>1, <2>3 DEF Closes
  <2> QED
    BY <2>2, <2>4, NoLambdaNext
<1> QED
  BY <1>5, <1>6

\* A value visited in the block of a lambda: what is captured is what is used.
LEMMA VisitedInLambda ==
  ASSUME ScopesInv, CaptureInv, NEW p \in 1 .. Len(frames), frames[p].kind = "lambda",
         Len(frames) = p + 1, NEW tt, NEW fs, NEW ip, Visited(tt, fs, ip)
  PROVE  /\ Len(ip) = 1 /\ Gathered(ip[1], fs[p].used)
         /\ fs[p].used \subseteq DOMAIN current(tt)
<1> DEFINE lip == lambda_implicit_parameters
           used == frames[p].used
<1>1. /\ Len(lip) = 1 /\ Gathered(lip[1], used) /\ used \subseteq DOMAIN current(types_table)
      /\ is_inside_lambda_body
  BY InsideLambda DEF LambdaOK
<1>2. CASE tt = types_table /\ fs = frames /\ ip = lip
  BY <1>1, <1>2
<1>3. CASE \E v \in Value : /\ ~Unresolved(v) /\ ~NoLambda(v)
                            /\ tt = TableAfter(v) /\ fs = Using(v)
                            /\ ip = ImplicitAfter(v)
  <2>1. PICK v \in Value : /\ ~Unresolved(v) /\ ~NoLambda(v)
                           /\ tt = TableAfter(v) /\ fs = Using(v)
                           /\ ip = ImplicitAfter(v)
    BY <1>3
  <2>2. /\ Captures(v) <=> Foreign(frames[p], v)
        /\ Captures(v) => /\ v \in Names /\ v \notin DOMAIN current(types_table)
                          /\ v \in DOMAIN current(TableAfter(v))
    BY <1>1, <2>1, CapturesForeign
  <2>3. frames[p] \in FrameType /\ p \in DOMAIN frames
    BY ScopesInvParts
  <2>4. fs[p] = IF Foreign(frames[p], v) THEN [frames[p] EXCEPT !.used = used \cup {v}]
                ELSE frames[p]
    BY <2>1, <2>3 DEF Using
  <2>5. fs[p].used = IF Captures(v) THEN used \cup {v} ELSE used
    BY <2>2, <2>3, <2>4 DEF FrameType
  <2>6. CASE ~Captures(v)
    <3>1. tt = types_table /\ ip = lip
      BY <2>1, <2>6 DEF TableAfter, ImplicitAfter
    <3> QED
      BY <1>1, <2>5, <2>6, <3>1
  <2>7. CASE Captures(v)
    <3>1. /\ v \in Names /\ v \notin used /\ v \in DOMAIN current(tt)
          /\ fs[p].used = used \cup {v}
      BY <1>1, <2>1, <2>2, <2>5, <2>7
    <3>2. lip \in Seq(Seq(Names)) /\ lip[1] \in Seq(Names)
      <4>1. lip \in Seq(Seq(Names))
        BY ScopesInvParts
      <4>2. 1 \in 1 .. Len(lip)
        BY <1>1
      <4> QED
        BY <4>1, <4>2
    <3>3. Gathered(Append(lip[1], v), used \cup {v})
      BY <1>1, <3>1, <3>2, OneGathered
    <3>4. ip = [lip EXCEPT ![1] = Append(lip[1], v)]
      BY <1>1, <2>1, <2>7 DEF ImplicitAfter
    <3>5. Len(ip) = 1 /\ ip[1] = Append(lip[1], v)
      BY <1>1, <3>2, <3>4
    <3>6. Extends(types_table, tt) /\ types_table # <<>>
      BY VisitedType, ScopesInvParts
    <3>7. used \subseteq DOMAIN current(tt)
      BY <1>1, <3>6 DEF Extends
    <3> QED
      BY <3>1, <3>3, <3>5, <3>7
  <2> QED
    BY <2>6, <2>7
<1> QED
  BY <1>2, <1>3 DEF Visited

LEMMA StaysCaptures ==
  ASSUME ScopesInv, CaptureInv, NEW tt, NEW fs, NEW ip, NEW s, Stays(tt, fs, ip, s)
  PROVE  CaptureInv'
<1> DEFINE n == Len(frames)
<1>1. /\ Marked(fs) /\ (~is_inside_lambda_body => ip = lambda_implicit_parameters)
      /\ Extends(types_table, tt)
  BY VisitedType DEF Stays
<1>2. Alike(frames, fs) /\ n \in Nat /\ fs \in Seq(FrameType)
  BY <1>1, MarkedAlike, ScopesInvParts DEF Marked
<1>3. frames' = Absorbed(fs, s) /\ s \in StatementType
  BY SimpleStatements DEF Stays
<1>4. /\ Alike(frames, frames') /\ Len(fs) = n
      /\ \A i \in 1 .. n : i # n => frames'[i] = fs[i]
  BY <1>2, <1>3, AbsorbedType, AlikeTrans DEF Alike
<1>5. Len(frames') = n /\ \A i \in 1 .. n : frames'[i].kind = frames[i].kind
  BY <1>4 DEF Alike, Like
<1>6. is_inside_lambda_body' = is_inside_lambda_body /\ lambda_implicit_parameters' = ip
  BY DEF Stays
<1>7. CASE HasLambda(frames)
  <2>1. PICK p \in 1 .. n : frames[p].kind = "lambda"
    BY <1>7 DEF HasLambda
  <2>2. /\ LambdaOK(lambda_implicit_parameters, types_table, frames, p)
        /\ is_inside_lambda_body /\ p \in Nat /\ top = frames[n]
        /\ top.kind # "lambda" => n = p + 1 /\ top.kind = "block"
    BY <2>1, InsideLambda
  <2>3. top.kind # "lambda"
    BY DEF Stays, Allowed
  <2>4. n = p + 1 /\ frames[n].kind = "block" /\ n \in 1 .. n /\ p # n
    BY <1>2, <2>2, <2>3
  <2>5. /\ Len(ip) = 1 /\ Gathered(ip[1], fs[p].used)
        /\ fs[p].used \subseteq DOMAIN current(tt)
    BY <2>1, <2>4, VisitedInLambda DEF Stays
  <2>6. frames'[p] = fs[p] /\ frames'[p].kind = "lambda"
    BY <1>4, <1>5, <2>1, <2>4
  <2>7. fs[p].used \subseteq DOMAIN current(types_table')
    <3>1. tt # <<>>
      BY <1>1, ScopesInvParts DEF Extends
    <3>2. Extends(tt, types_table')
      BY DEF Stays
    <3> QED
      BY <2>5, <3>1, <3>2 DEF Extends
  <2>8. \A i \in 1 .. n : frames'[i].kind = "lambda" => i = p
    BY <1>5, <2>2 DEF LambdaOK
  <2>9. LambdaOK(lambda_implicit_parameters', types_table', frames', p)
    <3>1. Len(frames') = p + 1 /\ frames'[Len(frames')].kind = "block"
      BY <1>5, <2>4
    <3> QED
      BY <1>5, <1>6, <2>2, <2>5, <2>6, <2>7, <2>8, <3>1 DEF LambdaOK
  <2>10. is_inside_lambda_body' = TRUE
    BY <1>6, <2>2, ScopesInvParts
  <2> QED
    BY <1>5, <2>6, <2>9, <2>10, LambdaNext
<1>8. CASE ~HasLambda(frames)
  <2>1. /\ is_inside_lambda_body = FALSE /\ lambda_implicit_parameters = <<>>
        /\ \A i \in 1 .. n : frames[i].kind # "lambda"
    BY <1>8, OutsideLambda
  <2>2. ~HasLambda(frames')
    BY <1>5, <2>1 DEF HasLambda
  <2>3. lambda_implicit_parameters' = <<>> /\ is_inside_lambda_body' = FALSE
    BY <1>1, <1>6, <2>1
  <2> QED
    BY <2>2, <2>3, NoLambdaNext
<1> QED
  BY <1>7, <1>8

LEMMA BranchesCaptures == ScopesInv /\ CaptureInv /\ Branches => CaptureInv'
<1> SUFFICES ASSUME ScopesInv, CaptureInv, Branches PROVE CaptureInv'
  OBVIOUS
<1>1. top.kind \notin {"lambda", "block"}
  BY DEF Branches, Selects
<1>2. ~HasLambda(frames)
  <2> SUFFICES ASSUME HasLambda(frames) PROVE FALSE
    OBVIOUS
  <2>1. PICK p \in 1 .. Len(frames) : frames[p].kind = "lambda"
    BY DEF HasLambda
  <2> QED
    BY <1>1, <2>1, InsideLambda
<1>3. /\ is_inside_lambda_body = FALSE /\ lambda_implicit_parameters = <<>>
      /\ \A i \in 1 .. Len(frames) : frames[i].kind # "lambda"
  BY <1>2, OutsideLambda
<1>4. Alike(frames, frames')
  BY BranchesFrames
<1>5. ~HasLambda(frames')
  BY <1>3, <1>4 DEF HasLambda, Alike, Like
<1>6. is_inside_lambda_body' = FALSE /\ lambda_implicit_parameters' = <<>>
  BY <1>3 DEF Branches, lambdas
<1> QED
  BY <1>5, <1>6, NoLambdaNext

\* Where a function ends and between the functions there is no lambda.
LEMMA EndsCaptures == ScopesInv /\ CaptureInv /\ (Ends \/ Declares) => CaptureInv'
<1> SUFFICES ASSUME ScopesInv, CaptureInv, Ends \/ Declares PROVE CaptureInv'
  OBVIOUS
<1>1. ~HasLambda(frames)
  <2> SUFFICES ASSUME HasLambda(frames) PROVE FALSE
    OBVIOUS
  <2>1. PICK p \in 1 .. Len(frames) : frames[p].kind = "lambda"
    BY DEF HasLambda
  <2>2. top.kind \in {"lambda", "block"} /\ frames # <<>>
    BY <2>1, InsideLambda
  <2> QED
    BY <2>2 DEF Ends, Declares
<1>2. frames' = <<>> /\ UNCHANGED lambdas
  BY DEF Ends, Declares
<1>3. ~HasLambda(frames')
  BY <1>2 DEF HasLambda
<1> QED
  BY <1>1, <1>2, <1>3, OutsideLambda, NoLambdaNext DEF lambdas

LEMMA HaltsCaptures == CaptureInv /\ Halts => CaptureInv'
BY DEF CaptureInv, Halts, lambdas

LEMMA StepCaptures ==
  ASSUME InLambda \subseteq {"field", "expression", "return", "jump"},
         ScopesInv, CaptureInv, [Next]_vars
  PROVE  CaptureInv'
BY StepShape, OpensCaptures, ClosesCaptures, EndsCaptures, StaysCaptures,
   BranchesCaptures, HaltsCaptures DEF Step

\* When the flag of the lambdas starts cleared, and the body of a lambda is a list of
\* statements without a body of their own, the flag is right everywhere, and a lambda
\* gets each variable it uses of the functions around it once and nothing else.
THEOREM CapturesAreExact ==
  ASSUME FlagAtStart = {FALSE}, InLambda \subseteq {"field", "expression", "return", "jump"}
  PROVE  Spec => []CapturesExact
<1>1. Init => ScopesInv /\ CaptureInv
  <2>1. Init => CaptureInv
    BY DEF Init, CaptureInv, CapturesOK, HasLambda
  <2> QED
    BY <2>1, InitScopes
<1>2. ScopesInv /\ CaptureInv /\ [Next]_vars => (ScopesInv /\ CaptureInv)'
  BY StepScopes, StepCaptures
<1>3. ScopesInv /\ CaptureInv => CapturesExact
  BY CaptureInvSound
<1> QED
  BY <1>1, <1>2, <1>3, PTL DEF Spec
=============================================================================
