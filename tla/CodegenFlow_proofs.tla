------------------------- MODULE CodegenFlow_proofs -------------------------
(***************************************************************************)
(* DefersBalanced, proved: every path through the code of a finished       *)
(* function makes each deferred call as often as its defer was reached,    *)
(* the latest first, and leaves none behind.  What is pending where a      *)
(* block begins does not depend on the path to it: E[b].  The invariant    *)
(* says that the code keeps to it (FlowOK), and that it is what the scopes *)
(* of the compiler say where the visits in progress will go on (Waits).    *)
(***************************************************************************)
EXTENDS CodegenDefers, CodegenBlocks_proofs

-----------------------------------------------------------------------------
(* The paths through the generated code.  What is pending at the end of a  *)
(* list of instructions is a recursive function of their number.           *)

\* Induction up to n, for a set of numbers.
LEMMA CountUp ==
  ASSUME NEW n \in Nat, NEW T, 0 \in T, \A m \in 0..n - 1 : m \in T => m + 1 \in T
  PROVE  0..n \subseteq T
<1> DEFINE U == {m \in 0..n : m \notin T}
<1> SUFFICES ASSUME U # {} PROVE FALSE
  OBVIOUS
<1>1. U \in SUBSET Nat
  OBVIOUS
<1>2. PICK x \in U : \A y \in U : ~(<<y, x>> \in OpToRel(<, Nat))
  BY <1>1, WFMin, NatLessThanWellFounded
<1>3. x \in 0..n /\ x # 0 /\ x \notin T
  OBVIOUS
<1>4. x - 1 \in 0..n - 1 /\ x - 1 \in Nat /\ x \in Nat /\ x - 1 < x /\ (x - 1) + 1 = x
      /\ x - 1 \in 0..n
  BY <1>3
<1>5. x - 1 \notin T
  BY <1>3, <1>4
<1>6. <<x - 1, x>> \in OpToRel(<, Nat)
  BY <1>4 DEF OpToRel
<1> QED
  BY <1>2, <1>4, <1>5, <1>6

\* The instructions have been run one by one.
Ran(f, stack, insts) ==
  f = [k \in 0..Len(insts) |-> IF k = 0 THEN stack ELSE After(f[k - 1], insts[k])]

LEMMA RunExists ==
  ASSUME NEW stack, NEW insts, Len(insts) \in Nat
  PROVE  \E f : Ran(f, stack, insts) /\ AfterAll(stack, insts) = f[Len(insts)]
<1> DEFINE n == Len(insts)
           G(f, m) == f = [k \in 0..m |-> IF k = 0 THEN stack
                                          ELSE After(f[k - 1], insts[k])]
           T == {m \in 0..n : \E f : G(f, m)}
<1>1. 0 \in T
  <2> DEFINE f == [k \in 0..0 |-> stack]
  <2>1. f = [k \in 0..0 |-> IF k = 0 THEN stack ELSE After(f[k - 1], insts[k])]
    <3> \A k \in 0..0 : k = 0
      OBVIOUS
    <3> HIDE DEF After
    <3> QED
      OBVIOUS
  <2> HIDE DEF f
  <2>2. \E g : G(g, 0)
    BY <2>1
  <2> QED
    BY <2>2
<1>2. ASSUME NEW m \in 0..n - 1, m \in T PROVE m + 1 \in T
  <2>1. PICK f : G(f, m)
    BY <1>2
  <2> DEFINE g == [k \in 0..m + 1 |-> IF k \in 0..m THEN f[k]
                                      ELSE After(f[m], insts[m + 1])]
  <2>2. ASSUME NEW k \in 0..m + 1
        PROVE  g[k] = IF k = 0 THEN stack ELSE After(g[k - 1], insts[k])
    <3>1. CASE k = 0
      <4>1. 0 \in 0..m /\ 0 \in 0..m + 1
        OBVIOUS
      <4>2. g[0] = f[0] /\ f[0] = stack
        BY <2>1, <4>1
      <4> QED
        BY <3>1, <4>2
    <3>2. CASE k \in 1..m
      <4>1. k \in 0..m /\ k - 1 \in 0..m /\ k - 1 \in 0..m + 1 /\ k # 0
        BY <3>2
      <4>2. g[k] = f[k] /\ g[k - 1] = f[k - 1]
        BY <4>1
      <4>3. f[k] = After(f[k - 1], insts[k])
        BY <2>1, <4>1
      <4> HIDE DEF g
      <4> QED
        BY <4>1, <4>2, <4>3
    <3>3. CASE k = m + 1
      <4>1. k \notin 0..m /\ k # 0 /\ k - 1 = m /\ m \in 0..m /\ m \in 0..m + 1
        BY <3>3
      <4>2. g[k] = After(f[m], insts[m + 1]) /\ g[m] = f[m]
        BY <3>3, <4>1
      <4> HIDE DEF g
      <4> QED
        BY <3>3, <4>1, <4>2
    <3> QED
      BY <3>1, <3>2, <3>3
  <2>3. g = [k \in 0..m + 1 |-> g[k]]
    OBVIOUS
  <2> HIDE DEF g
  <2>4. G(g, m + 1)
    BY <2>2, <2>3
  <2> QED
    BY <2>4
<1>3. n \in T
  <2> HIDE DEF T
  <2>1. 0..n \subseteq T
    BY <1>1, <1>2, CountUp
  <2> QED
    BY <2>1
<1>4. \E f : G(f, n)
  BY <1>3
<1> DEFINE r == CHOOSE f : G(f, n)
<1>5. G(r, n)
  BY <1>4
<1>6. AfterAll(stack, insts) = r[n]
  BY DEF AfterAll
<1> QED
  BY <1>5, <1>6 DEF Ran

\* What is pending depends on the instructions only: s is the piece of u behind o.
Piece(s, u, o) ==
  /\ o \in Nat /\ Len(s) \in Nat /\ Len(u) \in Nat /\ o + Len(s) <= Len(u)
  /\ \A k \in 1..Len(s) : u[o + k] = s[k]

LEMMA RunSame ==
  ASSUME NEW f, NEW g, NEW a, NEW b, NEW s, NEW u, NEW o,
         Ran(f, a, s), Ran(g, b, u), Piece(s, u, o), g[o] = a
  PROVE  g[o + Len(s)] = f[Len(s)]
<1> DEFINE n == Len(s)
           T == {m \in 0..n : g[o + m] = f[m]}
<1>0. /\ o \in Nat /\ n \in Nat /\ Len(u) \in Nat /\ o + n <= Len(u)
      /\ \A k \in 1..n : u[o + k] = s[k]
  BY DEF Piece
<1>1. 0 \in T
  <2>1. 0 \in 0..n /\ o + 0 = o
    BY <1>0
  <2>2. f[0] = a
    BY <2>1 DEF Ran
  <2> QED
    BY <2>1, <2>2
<1>2. ASSUME NEW m \in 0..n - 1, m \in T PROVE m + 1 \in T
  <2>1. /\ m + 1 \in 0..n /\ m + 1 \in 1..n /\ (m + 1) - 1 = m /\ m + 1 # 0
        /\ o + (m + 1) \in 0..Len(u) /\ (o + (m + 1)) - 1 = o + m /\ o + (m + 1) # 0
    BY <1>0
  <2>2. f[m + 1] = After(f[(m + 1) - 1], s[m + 1])
    BY <2>1 DEF Ran
  <2>3. g[o + (m + 1)] = After(g[(o + (m + 1)) - 1], u[o + (m + 1)])
    BY <2>1 DEF Ran
  <2>4. g[o + m] = f[m] /\ u[o + (m + 1)] = s[m + 1]
    BY <1>0, <1>2, <2>1
  <2>5. g[o + (m + 1)] = f[m + 1]
    BY <2>1, <2>2, <2>3, <2>4
  <2> QED
    BY <2>1, <2>5
<1>3. 0..n \subseteq T
  <2> HIDE DEF T
  <2> QED
    BY <1>0, <1>1, <1>2, CountUp
<1>4. n \in T
  <2> HIDE DEF T
  <2>1. n \in 0..n
    BY <1>0
  <2> QED
    BY <1>3, <2>1
<1> QED
  BY <1>4

\* Nothing, one instruction, one list after the other.
LEMMA AfterNone == ASSUME NEW stack PROVE AfterAll(stack, <<>>) = stack
<1>1. PICK f : Ran(f, stack, <<>>) /\ AfterAll(stack, <<>>) = f[Len(<<>>)]
  BY RunExists
<1> QED
  BY <1>1 DEF Ran

LEMMA AfterOne == ASSUME NEW stack, NEW x PROVE AfterAll(stack, <<x>>) = After(stack, x)
<1> DEFINE s == <<x>>
<1>1. Len(s) = 1 /\ s[1] = x
  OBVIOUS
<1> HIDE DEF s
<1>2. PICK f : Ran(f, stack, s) /\ AfterAll(stack, s) = f[Len(s)]
  BY <1>1, RunExists
<1>3. f[0] = stack /\ f[1] = After(f[1 - 1], s[1])
  BY <1>1, <1>2 DEF Ran
<1> QED
  BY <1>1, <1>2, <1>3 DEF s

LEMMA AfterConcat ==
  ASSUME NEW stack, NEW s \in Seq(Instruction), NEW t \in Seq(Instruction)
  PROVE  AfterAll(stack, s \o t) = AfterAll(AfterAll(stack, s), t)
<1> DEFINE u == s \o t
           b == AfterAll(stack, s)
<1>1. /\ Len(u) = Len(s) + Len(t) /\ Len(s) \in Nat /\ Len(t) \in Nat /\ Len(u) \in Nat
      /\ \A k \in 1..Len(s) : u[k] = s[k]
      /\ \A k \in 1..Len(t) : u[Len(s) + k] = t[k]
  BY ConcatProperties
<1> HIDE DEF u
<1>2. PICK f : Ran(f, stack, s) /\ b = f[Len(s)]
  BY <1>1, RunExists
<1> HIDE DEF b
<1>3. PICK g : Ran(g, b, t) /\ AfterAll(b, t) = g[Len(t)]
  BY <1>1, RunExists
<1>4. PICK h : Ran(h, stack, u) /\ AfterAll(stack, u) = h[Len(u)]
  BY <1>1, RunExists
<1>5. h[Len(s)] = b
  <2>1. h[0] = stack
    BY <1>1, <1>4 DEF Ran
  <2>2. Piece(s, u, 0)
    BY <1>1 DEF Piece
  <2>3. h[0 + Len(s)] = f[Len(s)]
    <3> DEFINE o == 0
    <3>1. Piece(s, u, o) /\ h[o] = stack
      BY <2>1, <2>2
    <3> HIDE DEF o
    <3>2. h[o + Len(s)] = f[Len(s)]
      BY <1>2, <1>4, <3>1, RunSame
    <3> QED
      BY <3>2 DEF o
  <2> QED
    BY <1>1, <1>2, <2>3
<1>6. h[Len(s) + Len(t)] = g[Len(t)]
  <2>1. Piece(t, u, Len(s))
    BY <1>1 DEF Piece
  <2> QED
    BY <1>3, <1>4, <1>5, <2>1, RunSame
<1> QED
  BY <1>1, <1>3, <1>4, <1>6 DEF u, b

-----------------------------------------------------------------------------
(* The deferred calls of a scope.                                          *)

\* A sequence of steps that stay in a set.
Stepped(f, base, step, n) == f[0] = base /\ \A k \in 1..n : f[k] = step[k][f[k - 1]]

LEMMA Steps ==
  ASSUME NEW n \in Nat, NEW S, NEW base \in S, NEW step \in [1..n -> [S -> S]]
  PROVE  \E f \in [0..n -> S] : Stepped(f, base, step, n)
<1> DEFINE G(f, m) == f[0] = base /\ \A k \in 1..m : f[k] = step[k][f[k - 1]]
           T == {m \in 0..n : \E f \in [0..m -> S] : G(f, m)}
<1>1. 0 \in T
  <2> DEFINE f == [k \in 0..0 |-> base]
  <2>1. f \in [0..0 -> S] /\ G(f, 0)
    OBVIOUS
  <2> HIDE DEF f
  <2>2. \E g \in [0..0 -> S] : G(g, 0)
    BY <2>1
  <2> QED
    BY <2>2
<1>2. ASSUME NEW m \in 0..n - 1, m \in T PROVE m + 1 \in T
  <2>1. PICK f \in [0..m -> S] : G(f, m)
    BY <1>2
  <2> DEFINE g == [k \in 0..m + 1 |-> IF k \in 0..m THEN f[k] ELSE step[m + 1][f[m]]]
  <2>2. \A k \in 0..m + 1 : g[k] \in S
    <3>1. m \in 0..m /\ m + 1 \in 1..n
      OBVIOUS
    <3>2. step[m + 1] \in [S -> S] /\ f[m] \in S
      BY <3>1
    <3>3. step[m + 1][f[m]] \in S
      BY <3>2
    <3> QED
      BY <3>3
  <2>3. g \in [0..m + 1 -> S]
    BY <2>2
  <2>4. ASSUME NEW k \in 1..m + 1 PROVE g[k] = step[k][g[k - 1]]
    <3>1. CASE k \in 1..m
      <4>1. k \in 0..m /\ k - 1 \in 0..m /\ k - 1 \in 0..m + 1 /\ k \in 0..m + 1
        BY <3>1
      <4>2. g[k] = f[k] /\ g[k - 1] = f[k - 1]
        BY <4>1
      <4>3. f[k] = step[k][f[k - 1]]
        BY <2>1, <3>1
      <4> HIDE DEF g
      <4> QED
        BY <4>2, <4>3
    <3>2. CASE k = m + 1
      <4>1. k \notin 0..m /\ k - 1 = m /\ m \in 0..m /\ m \in 0..m + 1 /\ k \in 0..m + 1
        BY <3>2
      <4>2. g[k] = step[m + 1][f[m]] /\ g[m] = f[m]
        BY <4>1
      <4> HIDE DEF g
      <4> QED
        BY <3>2, <4>1, <4>2
    <3> QED
      BY <3>1, <3>2
  <2>5. g[0] = base
    <3>1. 0 \in 0..m /\ 0 \in 0..m + 1
      OBVIOUS
    <3> QED
      BY <2>1, <3>1
  <2> HIDE DEF g
  <2>6. \E h \in [0..m + 1 -> S] : G(h, m + 1)
    BY <2>3, <2>4, <2>5
  <2>7. m + 1 \in 0..n
    OBVIOUS
  <2> HIDE DEF G
  <2> QED
    BY <2>6, <2>7
<1>3. n \in T
  <2> HIDE DEF T
  <2>1. 0..n \subseteq T
    BY <1>1, <1>2, CountUp
  <2> QED
    BY <2>1
<1> QED
  BY <1>3 DEF Stepped

\* What may be pending: defers are numbered from 1.
Stacks == Seq(Nat \ {0})

LEMMA StackFacts ==
  /\ <<>> \in Stacks /\ Bad \notin Stacks
  /\ \A s \in Stacks : /\ s \in Seq(Nat) /\ Len(s) \in Nat
                       /\ \A k \in 1..Len(s) : s[k] \in Nat \ {0}
<1>1. Bad \notin Stacks
  <2> SUFFICES ASSUME Bad \in Stacks PROVE FALSE
    OBVIOUS
  <2>1. Len(Bad) = 1 /\ Bad[1] = 0
    BY DEF Bad
  <2> DEFINE S == Nat \ {0}
           c == Bad
  <2>2. c \in Seq(S) /\ Len(c) = 1
    BY <2>1 DEF Stacks
  <2> HIDE DEF S, c
  <2>3. c[1] \in S
    BY <2>2
  <2> QED
    BY <2>1, <2>3 DEF S, c
<1> QED
  BY <1>1 DEF Stacks

\* The first m elements.
LEMMA FirstOf ==
  ASSUME NEW S, NEW s \in Seq(S), NEW m \in Nat, m <= Len(s)
  PROVE  /\ SubSeq(s, 1, m) \in Seq(S) /\ Len(SubSeq(s, 1, m)) = m
         /\ \A j \in 1..m : SubSeq(s, 1, m)[j] = s[j]
<1>1. Len(s) \in Nat
  OBVIOUS
<1>2. \A j \in 1..m : s[j] \in S
  BY <1>1
<1>3. SubSeq(s, 1, m) = [j \in 1..m |-> s[j]]
  BY <1>1, <1>2
<1> QED
  BY <1>2, <1>3

\* The calls of a list are made one by one, if each is the latest that is pending.
LEMMA CallsRun ==
  ASSUME NEW w \in Stacks, NEW calls \in Seq(Nat), Len(calls) <= Len(w),
         \A k \in 1..Len(calls) : calls[k] = w[Len(w) + 1 - k]
  PROVE  AfterCalls(w, calls) = SubSeq(w, 1, Len(w) - Len(calls))
<1> DEFINE n == Len(calls)
           N == Len(w)
           f == [k \in 0..n |-> SubSeq(w, 1, N - k)]
           G(g) == g = [k \in 0..n |-> IF k = 0 THEN w ELSE CallOne(g[k - 1], calls[k])]
<1>1. n \in Nat /\ N \in Nat /\ n <= N
  OBVIOUS
<1>2. ASSUME NEW k \in 1..n
      PROVE  SubSeq(w, 1, N - k) = CallOne(SubSeq(w, 1, N - (k - 1)), calls[k])
  <2> DEFINE v == SubSeq(w, 1, N - (k - 1))
  <2>1. N - (k - 1) \in 1..N /\ N + 1 - k = N - (k - 1) /\ k \in Nat
    BY <1>1
  <2>2. /\ v \in Stacks /\ Len(v) = N - (k - 1) /\ v # <<>>
        /\ \A j \in 1..N - (k - 1) : v[j] = w[j]
    <3>1. N - (k - 1) \in Nat /\ N - (k - 1) <= Len(w) /\ w \in Seq(Nat \ {0})
      BY <1>1, <2>1 DEF Stacks
    <3>2. /\ v \in Seq(Nat \ {0}) /\ Len(v) = N - (k - 1)
          /\ \A j \in 1..N - (k - 1) : v[j] = w[j]
      BY <3>1, FirstOf
    <3> HIDE DEF v
    <3>3. v # <<>>
      BY <2>1, <3>2
    <3> QED
      BY <3>2, <3>3 DEF Stacks
  <2>3. Peek(v) = calls[k] /\ calls[k] # 0
    <3>1. Peek(v) = w[N + 1 - k]
      BY <2>1, <2>2 DEF Peek
    <3>2. w[N + 1 - k] \in Nat \ {0}
      BY <2>1, StackFacts
    <3> QED
      BY <3>1, <3>2
  <2>4. v \notin {<<>>, Bad}
    BY <2>2, StackFacts
  <2> HIDE DEF v
  <2>5. CallOne(v, calls[k]) = Pop(v)
    BY <2>3, <2>4 DEF CallOne
  <2>6. Pop(v) = SubSeq(w, 1, N - k)
    <3>1. Len(v) - 1 = N - k /\ N - k \in Nat
      BY <1>1, <2>1, <2>2
    <3>2. Pop(v) = SubSeq(v, 1, N - k)
      BY <3>1 DEF Pop
    <3>3. v \in Seq(Nat \ {0}) /\ w \in Seq(Nat \ {0})
      BY <2>2 DEF Stacks
    <3>4. N - k <= Len(v) /\ N - k <= Len(w)
      BY <1>1, <2>1, <2>2
    <3>5. /\ SubSeq(v, 1, N - k) \in Seq(Nat \ {0}) /\ Len(SubSeq(v, 1, N - k)) = N - k
          /\ \A j \in 1..N - k : SubSeq(v, 1, N - k)[j] = v[j]
      BY <3>1, <3>3, <3>4, FirstOf
    <3>6. /\ SubSeq(w, 1, N - k) \in Seq(Nat \ {0}) /\ Len(SubSeq(w, 1, N - k)) = N - k
          /\ \A j \in 1..N - k : SubSeq(w, 1, N - k)[j] = w[j]
      BY <3>1, <3>3, <3>4, FirstOf
    <3>7. \A j \in 1..N - k : v[j] = w[j]
      BY <1>1, <2>1, <2>2
    <3>8. SubSeq(v, 1, N - k) = SubSeq(w, 1, N - k)
      BY <3>5, <3>6, <3>7, SeqEqual
    <3> QED
      BY <3>2, <3>8
  <2> QED
    BY <2>5, <2>6 DEF v
<1>3. SubSeq(w, 1, N - 0) = w
  BY <1>1 DEF Stacks
<1>4. ASSUME NEW k \in 0..n
      PROVE  f[k] = IF k = 0 THEN w ELSE CallOne(f[k - 1], calls[k])
  <2>1. CASE k = 0
    BY <1>3, <2>1
  <2>2. CASE k # 0
    <3>1. k \in 1..n /\ k - 1 \in 0..n
      BY <1>1, <2>2
    <3>2. f[k] = SubSeq(w, 1, N - k) /\ f[k - 1] = SubSeq(w, 1, N - (k - 1))
      BY <3>1
    <3> QED
      BY <1>2, <2>2, <3>1, <3>2
  <2> QED
    BY <2>1, <2>2
<1>5. f = [k \in 0..n |-> f[k]] /\ f[n] = SubSeq(w, 1, N - n) /\ n \in 0..n
  BY <1>1
<1> HIDE DEF f
<1>6. G(f)
  BY <1>4, <1>5
<1> DEFINE r == CHOOSE g : G(g)
<1>7. G(r)
  BY <1>6
<1>8. AfterCalls(w, calls) = r[n]
  BY DEF AfterCalls
<1> HIDE DEF r, N
<1>9. ASSUME NEW k \in 0..n, r[k] = f[k], k + 1 \in 0..n PROVE r[k + 1] = f[k + 1]
  <2>1. (k + 1) - 1 = k /\ k + 1 # 0
    BY <1>1
  <2>2. r[k + 1] = CallOne(r[(k + 1) - 1], calls[k + 1])
    BY <1>7, <1>9, <2>1
  <2>3. f[k + 1] = CallOne(f[(k + 1) - 1], calls[k + 1])
    BY <1>4, <1>9, <2>1
  <2> QED
    BY <1>9, <2>1, <2>2, <2>3
<1>10. r[n] = f[n]
  <2> DEFINE T == {k \in 0..n : r[k] = f[k]}
  <2>1. 0 \in T
    <3>1. 0 \in 0..n
      BY <1>1
    <3>2. r[0] = w /\ f[0] = w
      BY <1>6, <1>7, <3>1
    <3> QED
      BY <3>1, <3>2
  <2>2. ASSUME NEW k \in 0..n - 1, k \in T PROVE k + 1 \in T
    <3>1. k + 1 \in 0..n
      BY <1>1
    <3> QED
      BY <1>9, <2>2, <3>1
  <2> HIDE DEF T
  <2>3. n \in T
    <3>1. 0..n \subseteq T
      BY <1>1, <2>1, <2>2, CountUp
    <3> QED
      BY <1>5, <3>1
  <2> QED
    BY <2>3 DEF T
<1> QED
  BY <1>5, <1>8, <1>10 DEF N

\* The defers of a scope, the way they are pending: its list is the other way round.
Ids(scope) == [k \in 1..Len(scope) |-> scope[Len(scope) + 1 - k].id]

\* Every deferred call leaves code.
Callable(scope) ==
  \A k \in 1..Len(scope) : scope[k].kind = "function" /\ scope[k].id # 0

LEMMA IdsType ==
  ASSUME NEW scope \in Seq(DeferCall), Callable(scope)
  PROVE  /\ Ids(scope) \in Stacks /\ Len(Ids(scope)) = Len(scope)
         /\ \A k \in 1..Len(scope) : Ids(scope)[k] = scope[Len(scope) + 1 - k].id
         /\ scope = <<>> => Ids(scope) = <<>>
<1>1. Len(scope) \in Nat
  OBVIOUS
<1>2. ASSUME NEW k \in 1..Len(scope)
      PROVE  scope[Len(scope) + 1 - k].id \in Nat \ {0}
  <2>1. Len(scope) + 1 - k \in 1..Len(scope)
    BY <1>1
  <2>2. scope[Len(scope) + 1 - k] \in DeferCall
    BY <2>1
  <2> QED
    BY <2>1, <2>2 DEF Callable, DeferCall
<1>3. Ids(scope) \in Seq(Nat \ {0}) /\ Len(Ids(scope)) = Len(scope)
  BY <1>1, <1>2 DEF Ids
<1> QED
  BY <1>3 DEF Ids, Stacks

\* The code of a scope takes what is pending back to what it was around the block.
LEMMA ScopeRuns ==
  ASSUME NEW scope \in Seq(DeferCall), Callable(scope), NEW s \in Stacks
  PROVE  /\ s \o Ids(scope) \in Stacks
         /\ After(s \o Ids(scope), execute_scope_defer_calls(scope)) = s
<1> DEFINE ids   == Ids(scope)
           w     == s \o ids
           x     == execute_scope_defer_calls(scope)
           calls == x.calls
<1>1. /\ s \in Seq(Nat \ {0}) /\ ids \in Seq(Nat \ {0}) /\ Len(ids) = Len(scope)
      /\ \A k \in 1..Len(scope) : ids[k] = scope[Len(scope) + 1 - k].id
      /\ Len(s) \in Nat /\ Len(ids) \in Nat
  BY IdsType DEF Stacks
<1>2. x.op = "defers" /\ calls = [k \in 1..Len(scope) |-> execute_defer_call(scope[k])]
  BY DEF execute_scope_defer_calls
<1>3. x \in Instruction
  BY ScopeCallsType
<1>4. calls \in Seq(Nat) /\ Len(calls) = Len(scope)
  <2>1. calls \in Seq(Nat)
    BY <1>3 DEF Instruction
  <2> HIDE DEF x
  <2> QED
    BY <1>2, <2>1
<1> HIDE DEF ids, x
<1>5. /\ w \in Seq(Nat \ {0}) /\ Len(w) = Len(s) + Len(ids)
      /\ \A k \in 1..Len(s) : w[k] = s[k]
      /\ \A k \in 1..Len(ids) : w[Len(s) + k] = ids[k]
  <2> DEFINE S == Nat \ {0}
  <2>1. s \in Seq(S) /\ ids \in Seq(S)
    BY <1>1
  <2> HIDE DEF S
  <2>2. /\ w \in Seq(S) /\ Len(w) = Len(s) + Len(ids)
        /\ \A k \in 1..Len(s) : w[k] = s[k]
        /\ \A k \in 1..Len(ids) : w[Len(s) + k] = ids[k]
    BY <2>1, ConcatProperties
  <2> QED
    BY <2>2 DEF S
<1> HIDE DEF w
<1>6. ASSUME NEW k \in 1..Len(calls) PROVE calls[k] = w[Len(w) + 1 - k]
  <2>1. /\ k \in 1..Len(scope) /\ Len(ids) + 1 - k \in 1..Len(ids)
        /\ Len(w) + 1 - k = Len(s) + (Len(ids) + 1 - k)
        /\ Len(scope) + 1 - (Len(ids) + 1 - k) = k
    BY <1>1, <1>4, <1>5
  <2>2. w[Len(w) + 1 - k] = ids[Len(ids) + 1 - k]
    BY <1>5, <2>1
  <2>3. ids[Len(ids) + 1 - k] = scope[k].id
    BY <1>1, <2>1
  <2>4. calls[k] = scope[k].id
    BY <1>2, <2>1 DEF execute_defer_call, Callable
  <2> QED
    BY <2>2, <2>3, <2>4
<1>7. AfterCalls(w, calls) = SubSeq(w, 1, Len(w) - Len(calls))
  <2>1. w \in Stacks /\ Len(calls) <= Len(w)
    BY <1>1, <1>4, <1>5 DEF Stacks
  <2> QED
    BY <1>4, <1>6, <2>1, CallsRun
<1>8. SubSeq(w, 1, Len(w) - Len(calls)) = s
  <2>1. Len(w) - Len(calls) = Len(s) /\ Len(s) <= Len(w)
    BY <1>1, <1>4, <1>5
  <2>2. /\ SubSeq(w, 1, Len(s)) \in Seq(Nat \ {0}) /\ Len(SubSeq(w, 1, Len(s))) = Len(s)
        /\ \A j \in 1..Len(s) : SubSeq(w, 1, Len(s))[j] = w[j]
    BY <1>1, <1>5, <2>1, FirstOf
  <2>3. SubSeq(w, 1, Len(s)) = s
    BY <1>1, <1>5, <2>2, SeqEqual
  <2> QED
    BY <2>1, <2>3
<1>9. After(w, x) = AfterCalls(w, calls)
  <2>1. ~(x.op = "eval") /\ x.op = "defers"
    BY <1>2
  <2> QED
    BY <2>1 DEF After
<1> QED
  BY <1>5, <1>7, <1>8, <1>9 DEF w, x, ids, Stacks

\* A scope without a defer leaves no code, whatever is pending.
LEMMA EmptyScopeRuns ==
  ASSUME NEW s PROVE After(s, execute_scope_defer_calls(<<>>)) = s
<1> DEFINE x == execute_scope_defer_calls(<<>>)
<1>1. x.op = "defers" /\ x.calls = <<>>
  BY DEF execute_scope_defer_calls
<1> HIDE DEF x
<1>2. AfterCalls(s, <<>>) = s
  <2> DEFINE G(g) == g = [k \in 0..0 |-> IF k = 0 THEN s ELSE CallOne(g[k - 1], <<>>[k])]
             f    == [k \in 0..0 |-> s]
             r    == CHOOSE g : G(g)
  <2>1. \A k \in 0..0 : k = 0
    OBVIOUS
  <2>2. G(f)
    BY <2>1
  <2>3. G(r)
    BY <2>2
  <2>4. r[0] = s
    BY <2>1, <2>3
  <2>5. AfterCalls(s, <<>>) = r[Len(<<>>)]
    BY DEF AfterCalls
  <2> QED
    BY <2>4, <2>5
<1>3. ~(x.op = "eval") /\ x.op = "defers"
  BY <1>1
<1>4. After(s, x) = AfterCalls(s, x.calls)
  BY <1>3 DEF After
<1> QED
  BY <1>1, <1>2, <1>4 DEF x

\* The other instructions.
LEMMA AfterFacts ==
  /\ \A s : After(s, Work) = s
  /\ \A s, b : After(s, Br(b)) = s
  /\ \A s, t, f : After(s, CondBr(t, f)) = s
  /\ \A s \in Stacks : \A id : After(s, Eval(id)) = Append(s, id)
  /\ After(<<>>, Ret) = <<>>
<1>1. \A s \in Stacks : s # Bad
  BY StackFacts
<1> QED
  BY <1>1 DEF After, Work, Br, CondBr, Eval, Ret

-----------------------------------------------------------------------------
(* What is pending in a scope: the defers of the scopes around it and its  *)
(* own.                                                                    *)

ScopeList    == Seq(Seq(DeferCall))
AllCallable(scopes) == \A k \in 1..Len(scopes) : Callable(scopes[k])

Stacked(f, scopes) ==
  f[0] = <<>> /\ \A k \in 1..Len(scopes) : f[k] = f[k - 1] \o Ids(scopes[k])
Flat(scopes) == CHOOSE f \in [0..Len(scopes) -> Stacks] : Stacked(f, scopes)

LEMMA FlatIs ==
  ASSUME NEW scopes \in ScopeList, AllCallable(scopes)
  PROVE  /\ Flat(scopes) \in [0..Len(scopes) -> Stacks] /\ Len(scopes) \in Nat
         /\ Stacked(Flat(scopes), scopes)
<1> DEFINE n    == Len(scopes)
           step == [k \in 1..n |-> [s \in Stacks |-> s \o Ids(scopes[k])]]
<1>1. n \in Nat
  BY DEF ScopeList
<1>2. ASSUME NEW k \in 1..n, NEW s \in Stacks PROVE s \o Ids(scopes[k]) \in Stacks
  <2>1. scopes[k] \in Seq(DeferCall) /\ Callable(scopes[k])
    BY DEF ScopeList, AllCallable
  <2> QED
    BY <2>1, ScopeRuns
<1>3. step \in [1..n -> [Stacks -> Stacks]]
  BY <1>2
<1>4. \A k \in 1..n : \A s \in Stacks : step[k][s] = s \o Ids(scopes[k])
  OBVIOUS
<1> HIDE DEF step
<1>5. PICK f \in [0..n -> Stacks] : Stepped(f, <<>>, step, n)
  <2>1. <<>> \in Stacks
    BY StackFacts
  <2> QED
    BY <1>1, <1>3, <2>1, Steps
<1>6. \A k \in 1..n : f[k - 1] \in Stacks
  <2>1. \A k \in 1..n : k - 1 \in 0..n
    BY <1>1
  <2> QED
    BY <2>1
<1>7. Stacked(f, scopes)
  BY <1>4, <1>5, <1>6 DEF Stacked, Stepped
<1>8. \E g \in [0..Len(scopes) -> Stacks] : Stacked(g, scopes)
  BY <1>7
<1> QED
  BY <1>1, <1>8 DEF Flat

\* Only the scopes around count.
LEMMA FlatSame ==
  ASSUME NEW a \in ScopeList, AllCallable(a), NEW b \in ScopeList, AllCallable(b),
         NEW m \in Nat, m <= Len(a), m <= Len(b), \A k \in 1..m : a[k] = b[k]
  PROVE  Flat(a)[m] = Flat(b)[m]
<1> DEFINE f == Flat(a)
           g == Flat(b)
           T == {k \in 0..m : f[k] = g[k]}
<1>1. Stacked(f, a) /\ Stacked(g, b) /\ Len(a) \in Nat /\ Len(b) \in Nat
  BY FlatIs
<1> HIDE DEF f, g
<1>2. 0 \in T
  BY <1>1 DEF Stacked
<1>3. ASSUME NEW k \in 0..m - 1, k \in T PROVE k + 1 \in T
  <2>1. /\ k + 1 \in 1..m /\ k + 1 \in 1..Len(a) /\ k + 1 \in 1..Len(b)
        /\ (k + 1) - 1 = k /\ k + 1 \in 0..m
    BY <1>1
  <2>2. f[k + 1] = f[(k + 1) - 1] \o Ids(a[k + 1])
    BY <1>1, <2>1 DEF Stacked
  <2>3. g[k + 1] = g[(k + 1) - 1] \o Ids(b[k + 1])
    BY <1>1, <2>1 DEF Stacked
  <2>4. a[k + 1] = b[k + 1]
    BY <2>1
  <2> QED
    BY <1>3, <2>1, <2>2, <2>3, <2>4
<1>4. m \in T
  <2> HIDE DEF T
  <2>1. 0..m \subseteq T
    BY <1>2, <1>3, CountUp
  <2>2. m \in 0..m
    OBVIOUS
  <2> QED
    BY <2>1, <2>2
<1> QED
  BY <1>4 DEF f, g

\* A return runs all that is pending in its function.
LEMMA ReturnRunsAll ==
  ASSUME NEW scopes \in ScopeList, AllCallable(scopes)
  PROVE  AfterAll(Flat(scopes)[Len(scopes)], execute_all_defer_calls(scopes)) = <<>>
<1> DEFINE n == Len(scopes)
           g == Flat(scopes)
           s == execute_all_defer_calls(scopes)
<1>1. g \in [0..n -> Stacks] /\ Stacked(g, scopes) /\ n \in Nat
  BY FlatIs
<1>2. /\ s \in Seq(Instruction) /\ Len(s) = n
      /\ \A k \in 1..n : s[k] = execute_scope_defer_calls(scopes[n + 1 - k])
  <2>1. scopes \in Seq(Seq(DeferCall))
    BY DEF ScopeList
  <2>2. s \in Seq(Instruction)
    BY <2>1, AllCallsType
  <2> QED
    BY <1>1, <2>2 DEF execute_all_defer_calls
<1> HIDE DEF g, s
<1>3. PICK f : Ran(f, g[n], s) /\ AfterAll(g[n], s) = f[n]
  BY <1>1, <1>2, RunExists
<1> DEFINE T == {k \in 0..n : f[k] = g[n - k]}
<1>4. 0 \in T
  <2>1. 0 \in 0..n /\ n - 0 = n
    BY <1>1
  <2>2. f[0] = g[n]
    BY <1>2, <1>3, <2>1 DEF Ran
  <2> QED
    BY <2>1, <2>2
<1>5. ASSUME NEW k \in 0..n - 1, k \in T PROVE k + 1 \in T
  <2>1. /\ k + 1 \in 0..n /\ k + 1 \in 1..n /\ (k + 1) - 1 = k /\ k + 1 # 0
        /\ n - k \in 1..n /\ (n - k) - 1 = n - (k + 1) /\ n + 1 - (k + 1) = n - k
        /\ n - (k + 1) \in 0..n
    BY <1>1
  <2>2. f[k + 1] = After(f[(k + 1) - 1], s[k + 1])
    BY <1>2, <1>3, <2>1 DEF Ran
  <2>3. s[k + 1] = execute_scope_defer_calls(scopes[n - k])
    BY <1>2, <2>1
  <2>4. g[n - k] = g[(n - k) - 1] \o Ids(scopes[n - k])
    BY <1>1, <2>1 DEF Stacked
  <2>5. scopes[n - k] \in Seq(DeferCall) /\ Callable(scopes[n - k])
    BY <2>1 DEF ScopeList, AllCallable
  <2>6. g[n - (k + 1)] \in Stacks
    BY <1>1, <2>1
  <2>7. After(g[n - (k + 1)] \o Ids(scopes[n - k]), s[k + 1]) = g[n - (k + 1)]
    BY <2>3, <2>5, <2>6, ScopeRuns
  <2>8. f[k] = g[n - (k + 1)] \o Ids(scopes[n - k])
    BY <1>5, <2>1, <2>4
  <2> QED
    BY <2>1, <2>2, <2>7, <2>8
<1>6. f[n] = g[0]
  <2>1. n \in T
    <3> HIDE DEF T
    <3>1. 0..n \subseteq T
      BY <1>1, <1>4, <1>5, CountUp
    <3>2. n \in 0..n
      BY <1>1
    <3> QED
      BY <3>1, <3>2
  <2>2. n - n = 0
    BY <1>1
  <2> QED
    BY <2>1, <2>2
<1>7. g[0] = <<>>
  BY <1>1 DEF Stacked
<1>8. AfterAll(g[n], s) = <<>>
  BY <1>3, <1>6, <1>7
<1> QED
  BY <1>8 DEF g, s

-----------------------------------------------------------------------------
(* The graph.  E says for every block what is pending where it begins, on  *)
(* whichever path.                                                         *)

\* Where a list of instructions goes.
Goes(s) == UNION {s[i].to : i \in {j \in 1..Len(s) : IsJump(s[j])}}

LEMMA GoesConcat ==
  ASSUME NEW s \in Seq(Instruction), NEW t \in Seq(Instruction)
  PROVE  Goes(s \o t) = Goes(s) \cup Goes(t)
<1> DEFINE r == s \o t
<1>1. /\ Len(r) = Len(s) + Len(t) /\ Len(s) \in Nat /\ Len(t) \in Nat
      /\ \A i \in 1..Len(s) : i \in 1..Len(r) /\ r[i] = s[i]
      /\ \A i \in 1..Len(t) : Len(s) + i \in 1..Len(r) /\ r[Len(s) + i] = t[i]
      /\ \A i \in 1..Len(r) :
           \/ i \in 1..Len(s) /\ r[i] = s[i]
           \/ i - Len(s) \in 1..Len(t) /\ r[i] = t[i - Len(s)]
  BY ConcatProperties
<1> HIDE DEF r
<1>2. ASSUME NEW x \in Goes(r) PROVE x \in Goes(s) \cup Goes(t)
  <2>1. PICK i \in 1..Len(r) : IsJump(r[i]) /\ x \in r[i].to
    BY DEF Goes
  <2>2. CASE i \in 1..Len(s) /\ r[i] = s[i]
    BY <2>1, <2>2 DEF Goes
  <2>3. CASE i - Len(s) \in 1..Len(t) /\ r[i] = t[i - Len(s)]
    BY <2>1, <2>3 DEF Goes
  <2> QED
    BY <1>1, <2>2, <2>3
<1>3. ASSUME NEW x \in Goes(s) PROVE x \in Goes(r)
  <2>1. PICK i \in 1..Len(s) : IsJump(s[i]) /\ x \in s[i].to
    BY DEF Goes
  <2> QED
    BY <1>1, <2>1 DEF Goes
<1>4. ASSUME NEW x \in Goes(t) PROVE x \in Goes(r)
  <2>1. PICK i \in 1..Len(t) : IsJump(t[i]) /\ x \in t[i].to
    BY DEF Goes
  <2>2. Len(s) + i \in 1..Len(r) /\ r[Len(s) + i] = t[i]
    BY <1>1
  <2> QED
    BY <2>1, <2>2 DEF Goes
<1> QED
  BY <1>2, <1>3, <1>4 DEF r

LEMMA GoesOne ==
  ASSUME NEW x
  PROVE  /\ ~IsJump(x) => Goes(<<x>>) = {}
         /\ IsJump(x) => Goes(<<x>>) = x.to
<1> DEFINE s == <<x>>
<1>1. 1..Len(s) = {1} /\ s[1] = x
  OBVIOUS
<1> HIDE DEF s
<1>2. (~IsJump(x) => Goes(s) = {}) /\ (IsJump(x) => Goes(s) = x.to)
  BY <1>1 DEF Goes
<1> QED
  BY <1>2 DEF s

LEMMA GoesNowhere ==
  ASSUME NEW s, ~HasJump(s)
  PROVE  Goes(s) = {}
BY DEF Goes, HasJump

FlowOK(E, bs) ==
  \A b \in 1..Len(bs) :
    /\ bs[b].fn \in 0..b
    /\ bs[b].fn = b => E[b] = <<>>
    /\ AfterAll(E[b], bs[b].insts) \in Stacks
    /\ \A t \in Goes(bs[b].insts) :
         t \in 1..Len(bs) /\ E[t] = AfterAll(E[b], bs[b].insts)

\* Code is added to a block.
LEMMA FlowEmit ==
  ASSUME NEW E, NEW bs \in Seq(Block), FlowOK(E, bs), NEW b \in 1..Len(bs),
         NEW s \in Seq(Instruction), NEW r \in Stacks,
         r = AfterAll(AfterAll(E[b], bs[b].insts), s),
         HasJump(bs[b].insts) => r = AfterAll(E[b], bs[b].insts),
         \A t \in Goes(s) : t \in 1..Len(bs) /\ E[t] = r
  PROVE  /\ FlowOK(E, Emit(bs, b, s))
         /\ AfterAll(E[b], Emit(bs, b, s)[b].insts) = r
<1> DEFINE cs == Emit(bs, b, s)
<1>1. /\ cs \in Seq(Block) /\ Len(cs) = Len(bs)
      /\ bs[b].insts \in Seq(Instruction) /\ cs[b].insts = bs[b].insts \o s
      /\ \A c \in 1..Len(bs) : cs[c].fn = bs[c].fn /\ (c # b => cs[c] = bs[c])
  BY EmitFields
<1>2. AfterAll(E[b], cs[b].insts) = r
  BY <1>1, AfterConcat
<1>3. Goes(cs[b].insts) = Goes(bs[b].insts) \cup Goes(s)
  BY <1>1, GoesConcat
<1> HIDE DEF cs
<1>4. ASSUME NEW t \in Goes(bs[b].insts) PROVE t \in 1..Len(bs) /\ E[t] = r
  <2>1. HasJump(bs[b].insts)
    BY GoesNowhere
  <2> QED
    BY <2>1 DEF FlowOK
<1>5. ASSUME NEW c \in 1..Len(cs)
      PROVE  /\ cs[c].fn \in 0..c
             /\ cs[c].fn = c => E[c] = <<>>
             /\ AfterAll(E[c], cs[c].insts) \in Stacks
             /\ \A t \in Goes(cs[c].insts) :
                  t \in 1..Len(cs) /\ E[t] = AfterAll(E[c], cs[c].insts)
  <2>1. c \in 1..Len(bs) /\ cs[c].fn = bs[c].fn
    BY <1>1
  <2>2. CASE c # b
    <3>1. cs[c] = bs[c]
      BY <1>1, <2>1, <2>2
    <3> QED
      BY <1>1, <2>1, <3>1 DEF FlowOK
  <2>3. CASE c = b
    <3>1. cs[b].fn \in 0..b /\ (cs[b].fn = b => E[b] = <<>>)
      BY <1>1 DEF FlowOK
    <3> QED
      BY <1>1, <1>2, <1>3, <1>4, <2>3, <3>1
  <2> QED
    BY <2>2, <2>3
<1> QED
  BY <1>2, <1>5 DEF FlowOK, cs

\* Blocks are created, all with the same defers pending.
Grown(E, m, x) == [b \in Nat |-> IF b <= m THEN E[b] ELSE x]

LEMMA GrownFacts ==
  ASSUME NEW E \in [Nat -> Stacks], NEW m \in Nat, NEW x \in Stacks
  PROVE  /\ Grown(E, m, x) \in [Nat -> Stacks]
         /\ \A b \in 1..m : Grown(E, m, x)[b] = E[b]
         /\ \A b \in Nat : b > m => Grown(E, m, x)[b] = x
BY DEF Grown

LEMMA FlowNew ==
  ASSUME NEW E \in [Nat -> Stacks], NEW bs \in Seq(Block), FlowOK(E, bs),
         NEW new \in Seq(Block), NEW x \in Stacks,
         \A k \in 1..Len(new) :
           /\ AfterAll(x, new[k].insts) = x
           /\ new[k].fn \in 0..Len(bs) + k
           /\ new[k].fn = Len(bs) + k => x = <<>>
           /\ \A t \in Goes(new[k].insts) :
                /\ t \in 1..Len(bs) + Len(new)
                /\ t \in 1..Len(bs) => E[t] = x
  PROVE  FlowOK(Grown(E, Len(bs), x), bs \o new)
<1> DEFINE cs == bs \o new
           m  == Len(bs)
           F  == Grown(E, m, x)
<1>1. /\ cs \in Seq(Block) /\ Len(cs) = m + Len(new) /\ m \in Nat /\ Len(new) \in Nat
      /\ \A b \in 1..m : cs[b] = bs[b]
      /\ \A k \in 1..Len(new) : cs[m + k] = new[k]
  BY ConcatFields
<1>2. /\ \A b \in 1..m : F[b] = E[b]
      /\ \A b \in Nat : b > m => F[b] = x
  BY <1>1, GrownFacts
<1> HIDE DEF cs, m, F
<1>3. ASSUME NEW c \in 1..Len(cs)
      PROVE  /\ cs[c].fn \in 0..c
             /\ cs[c].fn = c => F[c] = <<>>
             /\ AfterAll(F[c], cs[c].insts) \in Stacks
             /\ \A t \in Goes(cs[c].insts) :
                  t \in 1..Len(cs) /\ F[t] = AfterAll(F[c], cs[c].insts)
  <2>1. CASE c \in 1..m
    <3>1. cs[c] = bs[c] /\ F[c] = E[c]
      BY <1>1, <1>2, <2>1
    <3>2. /\ bs[c].fn \in 0..c
          /\ bs[c].fn = c => E[c] = <<>>
          /\ AfterAll(E[c], bs[c].insts) \in Stacks
          /\ \A t \in Goes(bs[c].insts) :
               t \in 1..m /\ E[t] = AfterAll(E[c], bs[c].insts)
      BY <2>1 DEF FlowOK, m
    <3>3. \A t \in 1..m : t \in 1..Len(cs)
      BY <1>1
    <3> QED
      BY <1>2, <3>1, <3>2, <3>3
  <2>2. CASE c \notin 1..m
    <3>1. c - m \in 1..Len(new) /\ c = m + (c - m) /\ c \in Nat /\ c > m
      BY <1>1, <2>2
    <3>2. cs[c] = new[c - m] /\ F[c] = x
      BY <1>1, <1>2, <3>1
    <3>3. /\ AfterAll(x, new[c - m].insts) = x
          /\ new[c - m].fn \in 0..c
          /\ new[c - m].fn = c => x = <<>>
          /\ \A t \in Goes(new[c - m].insts) :
               /\ t \in 1..m + Len(new)
               /\ t \in 1..m => E[t] = x
      BY <3>1 DEF m
    <3>4. ASSUME NEW t \in Goes(new[c - m].insts) PROVE t \in 1..Len(cs) /\ F[t] = x
      <4>1. t \in 1..m + Len(new) /\ (t \in 1..m => E[t] = x)
        BY <3>3
      <4>2. t \in 1..m \/ (t \in Nat /\ t > m)
        BY <1>1, <4>1
      <4> QED
        BY <1>1, <1>2, <4>1, <4>2
    <3> QED
      BY <3>2, <3>3, <3>4
  <2> QED
    BY <2>1, <2>2
<1> QED
  BY <1>3 DEF FlowOK, cs, m, F

\* A block is placed in a function that began before it was created.
LEMMA FlowPlace ==
  ASSUME NEW E, NEW bs \in Seq(Block), FlowOK(E, bs), NEW b \in 1..Len(bs),
         NEW f \in Nat, f < b
  PROVE  FlowOK(E, Place(bs, b, f))
<1> DEFINE cs == Place(bs, b, f)
<1>1. /\ cs \in Seq(Block) /\ Len(cs) = Len(bs)
      /\ cs[b].fn = f /\ cs[b].insts = bs[b].insts
      /\ \A c \in 1..Len(bs) : c # b => cs[c] = bs[c]
  BY PlaceFields
<1> HIDE DEF cs
<1>2. ASSUME NEW c \in 1..Len(cs)
      PROVE  /\ cs[c].fn \in 0..c
             /\ cs[c].fn = c => E[c] = <<>>
             /\ AfterAll(E[c], cs[c].insts) \in Stacks
             /\ \A t \in Goes(cs[c].insts) :
                  t \in 1..Len(cs) /\ E[t] = AfterAll(E[c], cs[c].insts)
  <2>1. c \in 1..Len(bs) /\ cs[c].insts = bs[c].insts
    BY <1>1
  <2>2. cs[c].fn \in 0..c /\ (cs[c].fn = c => E[c] = <<>>)
    <3>1. CASE c = b
      BY <1>1, <3>1
    <3>2. CASE c # b
      BY <1>1, <2>1, <3>2 DEF FlowOK
    <3> QED
      BY <3>1, <3>2
  <2> QED
    BY <1>1, <2>1, <2>2 DEF FlowOK
<1> QED
  BY <1>2 DEF FlowOK, cs

-----------------------------------------------------------------------------
(* The visits.  The blocks that wait for the end of one begin with what    *)
(* was pending where the visit began.                                      *)

Outside(f, ds) == Flat(ds[f.depth])[f.scopes]
Inside(f, ds)  == Flat(ds[DepthIn(f)])[ScopesIn(f)]
AllDefers(ds)  == \A d \in 1..Len(ds) : AllCallable(ds[d])

\* A return has run what was pending before its value is evaluated.
Remains(f, ds) == IF f.returning THEN <<>> ELSE Inside(f, ds)

\* r says that the visit is that of a function made by the value of a return.
Waits(f, r, E, bs, ds) ==
  /\ f.kind \in Constructs => f.fn < f.end /\ E[f.end] = Outside(f, ds)
  /\ f.kind \in Selects /\ f.left > 0 => E[f.next] = Outside(f, ds)
  /\ f.kind \in Loops => E[f.cond] = Outside(f, ds)
  /\ f.kind \in Inner => AfterAll(E[f.insert], bs[f.insert].insts)
                            = IF r THEN <<>> ELSE Outside(f, ds)
InReturn(fs, i) == i > 1 /\ fs[i - 1].returning

\* A block that is open runs its defers at its end, unless it is at a return.
Willing(f) ==
  f.kind = "block" /\ f.open /\ ~f.returning => f.should_execute_defers

\* What is pending where the code is written is what the scopes say, unless the
\* block has ended.
Flows(E, fs, bs, ins, ds) ==
  /\ E \in [Nat -> Stacks] /\ FlowOK(E, bs) /\ AllDefers(ds)
  /\ \A i \in 1..Len(fs) :
       Waits(fs[i], InReturn(fs, i), E, bs, ds) /\ Willing(fs[i])
  /\ fs # <<>> /\ ~HasJump(bs[ins].insts) =>
       AfterAll(E[ins], bs[ins].insts) = Remains(Peek(fs), ds)

FlowInv ==
  ClosedInv /\ \E E : Flows(E, frames, blocks, insert, defer_calls_stack)

\* The blocks of a visit are left alone, and so are the scopes around it.
LEMMA WaitsKept ==
  ASSUME NEW f \in FrameType, NEW g \in FrameType, SameBlocks(f, g),
         g.depth = f.depth, g.scopes = f.scopes,
         NEW bs, NEW cs, FrameFits(f, bs), \A b \in Holds(f) : cs[b] = bs[b],
         NEW E, NEW F, \A b \in 1..Len(bs) : F[b] = E[b],
         NEW ds, NEW es, NEW r, Waits(f, r, E, bs, ds),
         f.kind \in Constructs \cup Inner => Outside(f, es) = Outside(f, ds)
  PROVE  Waits(g, r, F, cs, es)
<1>1. /\ g.kind = f.kind /\ g.fn = f.fn /\ g.insert = f.insert
      /\ g.end = f.end /\ g.cond = f.cond /\ g.next = f.next /\ g.left = f.left
  BY DEF SameBlocks
<1>2. Outside(g, es) = Outside(f, es)
  BY DEF Outside
<1>3. CASE f.kind \in Constructs
  <2>1. f.end \in 1..Len(bs)
    BY <1>3 DEF FrameFits, Holds
  <2>2. f.kind \in Selects /\ f.left > 0 => f.next \in 1..Len(bs)
    BY DEF FrameFits, Holds
  <2>3. f.kind \in Loops => f.cond \in 1..Len(bs)
    BY DEF FrameFits
  <2>4. f.kind \notin Inner
    BY <1>3 DEF Constructs, Inner, Loops, Selects
  <2> QED
    BY <1>1, <1>2, <1>3, <2>1, <2>2, <2>3, <2>4 DEF Waits
<1>4. CASE f.kind \in Inner
  <2>1. f.insert \in 1..Len(bs) /\ cs[f.insert] = bs[f.insert]
    BY <1>4 DEF FrameFits, Holds
  <2>2. f.kind \notin Constructs /\ f.kind \notin Loops /\ f.kind \notin Selects
    BY <1>4 DEF Constructs, Inner, Loops, Selects
  <2> QED
    BY <1>1, <1>2, <1>4, <2>1, <2>2 DEF Waits
<1>5. CASE f.kind \notin Constructs /\ f.kind \notin Inner
  <2>1. f.kind \notin Loops /\ f.kind \notin Selects
    BY <1>5 DEF Constructs
  <2> QED
    BY <1>1, <1>5, <2>1 DEF Waits
<1> QED
  BY <1>3, <1>4, <1>5

\* Only the scopes around a visit count for it, and those of the visits around.
LowerScope(g, f) ==
  g.depth < f.depth \/ (g.depth = f.depth /\ g.scopes <= f.scopes)
SameAround(f, ds, es) ==
  /\ f.depth \in 1..Len(ds) /\ f.depth \in 1..Len(es)
  /\ f.scopes <= Len(ds[f.depth]) /\ f.scopes <= Len(es[f.depth])
  /\ \A d \in 1..f.depth - 1 : es[d] = ds[d]
  /\ \A s \in 1..f.scopes : es[f.depth][s] = ds[f.depth][s]

LEMMA OutsideSame ==
  ASSUME NEW ds \in DeferStacks, NEW es \in DeferStacks, AllDefers(ds), AllDefers(es),
         NEW f \in FrameType, SameAround(f, ds, es), NEW g \in FrameType,
         g.depth >= 1, LowerScope(g, f)
  PROVE  Outside(g, es) = Outside(g, ds)
<1>1. g.depth \in Nat /\ g.scopes \in Nat
  BY DEF FrameType
<1>2. CASE g.depth < f.depth
  <2>1. g.depth \in 1..f.depth - 1
    BY <1>1, <1>2 DEF SameAround
  <2> QED
    BY <2>1 DEF SameAround, Outside
<1>3. CASE g.depth = f.depth /\ g.scopes <= f.scopes
  <2> DEFINE d == g.depth
             a == ds[d]
             b == es[d]
  <2>1. d \in 1..Len(ds) /\ d \in 1..Len(es)
    BY <1>3 DEF SameAround
  <2>2. a \in ScopeList /\ b \in ScopeList /\ AllCallable(a) /\ AllCallable(b)
    BY <2>1 DEF DeferStacks, ScopeList, AllDefers
  <2>3. g.scopes <= Len(a) /\ g.scopes <= Len(b) /\ \A k \in 1..g.scopes : b[k] = a[k]
    <3>1. /\ f.scopes <= Len(a) /\ f.scopes <= Len(b)
          /\ \A s \in 1..f.scopes : b[s] = a[s]
      BY <1>3 DEF SameAround
    <3>2. Len(a) \in Nat /\ Len(b) \in Nat
      BY <2>2 DEF ScopeList
    <3> HIDE DEF a, b
    <3>3. f.scopes \in Nat
      BY DEF FrameType
    <3> QED
      BY <1>1, <1>3, <3>1, <3>2, <3>3
  <2> HIDE DEF a, b
  <2>4. Flat(a)[g.scopes] = Flat(b)[g.scopes]
    BY <1>1, <2>2, <2>3, FlatSame
  <2> QED
    BY <2>4 DEF a, b, Outside
<1> QED
  BY <1>2, <1>3 DEF LowerScope

-----------------------------------------------------------------------------
(* What the visits in progress say of the scopes.                          *)

\* The scopes around a visit are among those around every visit in it.
LEMMA NestedScopes ==
  ASSUME ClosedInv, frames # <<>>, NEW i \in 1..Len(frames),
         frames[i].kind \in Constructs \cup Inner
  PROVE  /\ top.kind # "function" /\ frames[i].depth >= 1 /\ i > 1
         /\ LowerScope(frames[i], top) /\ frames[i] \in FrameType
<1>1. /\ frames \in Seq(FrameType) /\ Len(frames) \in Nat \ {0}
      /\ top = frames[Len(frames)] /\ defer_calls_stack \in DeferStacks
      /\ DeferOK(frames, defer_calls_stack) /\ KindsOK(frames)
      /\ DeclaredOK(frames, defer_calls_stack)
  BY TopFacts DEF ClosedInv, TypeInv
<1>2. frames[i] \in FrameType /\ frames[i].kind # "function" /\ i # 1
  BY <1>1 DEF KindsOK, Constructs, Inner, Loops, Selects
<1>3. i - 1 \in 1..Len(frames) - 1 /\ i = (i - 1) + 1 /\ i > 1 /\ i - 1 \in 1..Len(frames)
  BY <1>1, <1>2
<1>4. frames[i].depth >= 1
  <2>1. frames[i].depth = DepthIn(frames[i - 1])
    BY <1>1, <1>3 DEF DeferOK
  <2>2. DepthIn(frames[i - 1]) \in 1..Len(defer_calls_stack)
    BY <1>1, <1>3, DeferDepths
  <2>3. Len(defer_calls_stack) \in Nat
    BY <1>1 DEF DeferStacks
  <2> QED
    BY <2>1, <2>2, <2>3
<1>5. top.kind # "function"
  <2>1. Len(frames) # 1 /\ Len(frames) \in 1..Len(frames)
    BY <1>1, <1>3
  <2> QED
    BY <1>1, <2>1 DEF KindsOK
<1>6. LowerScope(frames[i], top)
  <2>1. CASE i = Len(frames)
    <3>1. frames[i].scopes \in Nat
      BY <1>2 DEF FrameType
    <3> QED
      BY <1>1, <2>1, <3>1 DEF LowerScope
  <2>2. CASE i # Len(frames)
    <3>1. i < Len(frames) /\ Len(frames) \in 1..Len(frames)
      BY <1>1, <2>2
    <3>2. Below(frames[i], top)
      BY <1>1, <3>1 DEF DeclaredOK
    <3>3. /\ frames[i].depth \in Nat /\ frames[i].scopes \in Nat
          /\ DepthIn(frames[i]) \in {frames[i].depth, frames[i].depth + 1}
          /\ DepthIn(frames[i]) = frames[i].depth => ScopesIn(frames[i]) >= frames[i].scopes
      BY <1>2 DEF FrameType, DepthIn, ScopesIn
    <3>4. top.depth \in Nat /\ top.scopes \in Nat /\ ScopesIn(frames[i]) \in Nat
      <4>1. top \in FrameType
        BY TopFacts
      <4>2. ScopesIn(frames[i]) \in Nat
        BY <1>1, FrameFields
      <4>3. top.depth \in Nat /\ top.scopes \in Nat
        BY <4>1 DEF FrameType
      <4> QED
        BY <4>2, <4>3
    <3> QED
      BY <3>2, <3>3, <3>4 DEF Below, LowerScope
  <2> QED
    BY <2>1, <2>2
<1> QED
  BY <1>2, <1>3, <1>4, <1>5, <1>6

\* The scopes around the innermost visit are there.
LEMMA TopScopes ==
  ASSUME ClosedInv, frames # <<>>, top.kind # "function"
  PROVE  /\ top.depth \in 1..Len(defer_calls_stack) /\ top.scopes \in Nat
         /\ top.scopes <= Len(defer_calls_stack[top.depth])
         /\ DepthIn(Parent) = top.depth /\ ScopesIn(Parent) = top.scopes
         /\ Inside(Parent, defer_calls_stack) = Outside(top, defer_calls_stack)
<1> DEFINE n == Len(frames) - 1
           ds == defer_calls_stack
<1>1. /\ frames \in Seq(FrameType) /\ Len(frames) \in Nat \ {0} /\ top \in FrameType
      /\ top = frames[Len(frames)] /\ ds \in DeferStacks
      /\ DeferOK(frames, ds) /\ Len(ds) = DepthIn(top) /\ Len(ds) \in Nat \ {0}
      /\ Len(Peek(ds)) = ScopesIn(top) /\ Peek(ds) = ds[Len(ds)]
  BY TopFacts DEF ClosedInv, LoopInv, TypeInv
<1>2. n \in 1..Len(frames) - 1 /\ Parent = frames[n] /\ top = frames[n + 1]
      /\ n \in 1..Len(frames)
  <2>1. n \in 1..Len(frames) - 1
    BY BlockParent
  <2> QED
    BY <1>1, <2>1 DEF Parent
<1>3. top.depth = DepthIn(Parent) /\ top.scopes = ScopesIn(Parent)
  BY <1>1, <1>2 DEF DeferOK
<1>4. top.kind \in Callables => Len(ds[top.depth]) = top.scopes
  BY <1>1, <1>2 DEF DeferOK
<1>5. DepthIn(Parent) \in 1..Len(ds)
  BY <1>1, <1>2, DeferDepths
<1>6. top.scopes \in Nat /\ top.depth \in Nat
  BY <1>1 DEF FrameType
<1>7. top.scopes <= Len(ds[top.depth])
  <2>1. CASE top.kind \in Callables
    BY <1>4, <1>6, <2>1
  <2>2. CASE top.kind \notin Callables
    <3>1. Len(ds) = top.depth /\ ScopesIn(top) \in {top.scopes, top.scopes + 1}
      BY <1>1, <2>2 DEF DepthIn, ScopesIn
    <3>2. Len(ds[top.depth]) = ScopesIn(top)
      BY <1>1, <3>1
    <3> QED
      BY <1>6, <3>1, <3>2
  <2> QED
    BY <2>1, <2>2
<1> QED
  BY <1>3, <1>5, <1>6, <1>7 DEF Inside, Outside

LEMMA AroundSelf ==
  ASSUME ClosedInv, frames # <<>>
  PROVE  top.kind # "function" => SameAround(top, defer_calls_stack, defer_calls_stack)
BY TopScopes DEF SameAround

\* The visits that go on still wait.
LEMMA WaitsStay ==
  ASSUME ClosedInv, frames # <<>>, NEW E, AllDefers(defer_calls_stack),
         NEW i \in 1..Len(frames), NEW r,
         Waits(frames[i], r, E, blocks, defer_calls_stack),
         NEW es \in DeferStacks, AllDefers(es),
         top.kind # "function" => SameAround(top, defer_calls_stack, es),
         NEW g \in FrameType, SameBlocks(frames[i], g),
         g.depth = frames[i].depth, g.scopes = frames[i].scopes,
         NEW F, \A b \in 1..Len(blocks) : F[b] = E[b],
         NEW cs, \A b \in Holds(frames[i]) : cs[b] = blocks[b]
  PROVE  Waits(g, r, F, cs, es)
<1> DEFINE f == frames[i]
           ds == defer_calls_stack
<1>1. f \in FrameType /\ FrameFits(f, blocks) /\ ds \in DeferStacks
  <2>1. Fits(frames, blocks)
    BY DEF ClosedInv, Built
  <2>2. frames \in Seq(FrameType) /\ ds \in DeferStacks
    BY TopFacts
  <2>3. FrameFits(frames[i], blocks)
    BY <2>1 DEF Fits
  <2> QED
    BY <2>2, <2>3
<1>2. f.kind \in Constructs \cup Inner => Outside(f, es) = Outside(f, ds)
  <2> SUFFICES ASSUME f.kind \in Constructs \cup Inner
               PROVE  Outside(f, es) = Outside(f, ds)
    OBVIOUS
  <2>1. f.depth >= 1 /\ LowerScope(f, top) /\ SameAround(top, ds, es)
    BY NestedScopes
  <2>2. top \in FrameType
    BY TopFacts
  <2> HIDE DEF f, ds
  <2> QED
    BY <1>1, <2>1, <2>2, OutsideSame DEF ds
<1> HIDE DEF f, ds
<1> QED
  BY <1>1, <1>2, WaitsKept DEF f, ds

-----------------------------------------------------------------------------
(* The steps that begin and end no visit.                                  *)

SameVisit(f, g) ==
  SameBlocks(f, g) /\ g.depth = f.depth /\ g.scopes = f.scopes /\ Willing(g)

LEMMA SameInside ==
  ASSUME NEW f, NEW g, SameVisit(f, g), NEW ds
  PROVE  Inside(g, ds) = Inside(f, ds)
BY DEF SameVisit, SameBlocks, Inside, DepthIn, ScopesIn

\* The code s is added to the block being filled, after which r is pending.
Leads(E, s, r) ==
  /\ s \in Seq(Instruction) /\ r \in Stacks
  /\ r = AfterAll(AfterAll(E[insert], blocks[insert].insts), s)
  /\ Jumped => r = AfterAll(E[insert], blocks[insert].insts)
  /\ \A t \in Goes(s) : t \in 1..Len(blocks) /\ E[t] = r

LEMMA LeadsOK ==
  ASSUME ClosedInv, frames # <<>>, NEW E, FlowOK(E, blocks), NEW s, NEW r, Leads(E, s, r)
  PROVE  /\ FlowOK(E, Emit(blocks, insert, s))
         /\ AfterAll(E[insert], Emit(blocks, insert, s)[insert].insts) = r
         /\ Emit(blocks, insert, s) \in Seq(Block)
         /\ Len(Emit(blocks, insert, s)) = Len(blocks)
         /\ \A b \in 1..Len(blocks) : b # insert => Emit(blocks, insert, s)[b] = blocks[b]
         /\ \A i \in 1..Len(frames) : insert \notin Holds(frames[i])
<1>1. /\ blocks \in Seq(Block) /\ insert \in 1..Len(blocks)
      /\ Jumped <=> HasJump(blocks[insert].insts)
  BY TopFacts
<1>2. insert \notin Held(frames)
  BY DEF ClosedInv, Built, Current
<1>3. s \in Seq(Instruction) /\ r \in Stacks
  BY DEF Leads
<1>4. /\ FlowOK(E, Emit(blocks, insert, s))
      /\ AfterAll(E[insert], Emit(blocks, insert, s)[insert].insts) = r
  BY <1>1, <1>3, FlowEmit DEF Leads
<1>5. \A i \in 1..Len(frames) : insert \notin Holds(frames[i])
  BY <1>2 DEF Held
<1>6. /\ Emit(blocks, insert, s) \in Seq(Block)
      /\ Len(Emit(blocks, insert, s)) = Len(blocks)
      /\ \A b \in 1..Len(blocks) : b # insert => Emit(blocks, insert, s)[b] = blocks[b]
  BY <1>1, <1>3, EmitFields
<1> QED
  BY <1>4, <1>5, <1>6

\* A list jumps if a part of it does.
LEMMA ConcatJumps ==
  ASSUME NEW s \in Seq(Instruction), NEW t \in Seq(Instruction)
  PROVE  HasJump(s) \/ HasJump(t) => HasJump(s \o t)
<1> DEFINE r == s \o t
<1>1. /\ Len(r) = Len(s) + Len(t) /\ Len(s) \in Nat /\ Len(t) \in Nat
      /\ \A i \in 1..Len(s) : i \in 1..Len(r) /\ r[i] = s[i]
      /\ \A i \in 1..Len(t) : Len(s) + i \in 1..Len(r) /\ r[Len(s) + i] = t[i]
  BY ConcatProperties
<1> HIDE DEF r
<1>2. HasJump(s) => HasJump(r)
  BY <1>1 DEF HasJump
<1>3. HasJump(t) => HasJump(r)
  <2> SUFFICES ASSUME NEW i \in 1..Len(t), IsJump(t[i]) PROVE HasJump(r)
    BY DEF HasJump
  <2>1. Len(s) + i \in 1..Len(r) /\ r[Len(s) + i] = t[i]
    BY <1>1
  <2> QED
    BY <2>1 DEF HasJump
<1> QED
  BY <1>2, <1>3 DEF r

LEMMA FlowStay ==
  ASSUME ClosedInv, frames # <<>>,
         NEW E, Flows(E, frames, blocks, insert, defer_calls_stack),
         NEW gs \in Seq(FrameType), Len(gs) = Len(frames),
         \A i \in 1..Len(frames) : SameVisit(frames[i], gs[i]),
         \A i \in 1..Len(frames) - 1 : gs[i].returning = frames[i].returning,
         NEW es \in DeferStacks, AllDefers(es),
         top.kind # "function" => SameAround(top, defer_calls_stack, es),
         NEW s, NEW r, Leads(E, s, r),
         Jumped \/ HasJump(s) \/ r = Remains(Peek(gs), es)
  PROVE  Flows(E, gs, Emit(blocks, insert, s), insert, es)
<1> DEFINE cs == Emit(blocks, insert, s)
           ds == defer_calls_stack
<1>1. E \in [Nat -> Stacks] /\ FlowOK(E, blocks) /\ AllDefers(ds)
      /\ \A i \in 1..Len(frames) : Waits(frames[i], InReturn(frames, i), E, blocks, ds)
  BY DEF Flows
<1>2. /\ FlowOK(E, cs) /\ AfterAll(E[insert], cs[insert].insts) = r
      /\ \A b \in 1..Len(blocks) : b # insert => cs[b] = blocks[b]
      /\ \A i \in 1..Len(frames) : insert \notin Holds(frames[i])
  BY <1>1, LeadsOK
<1>3. frames \in Seq(FrameType) /\ Len(frames) \in Nat \ {0} /\ top = frames[Len(frames)]
      /\ Fits(frames, blocks) /\ insert \in 1..Len(blocks) /\ blocks \in Seq(Block)
      /\ (Jumped <=> HasJump(blocks[insert].insts))
  BY TopFacts DEF ClosedInv, Built
<1>4. ASSUME NEW i \in 1..Len(gs) 
      PROVE  Waits(gs[i], InReturn(gs, i), E, cs, es) /\ Willing(gs[i])
  <2>1. i \in 1..Len(frames)
    OBVIOUS
  <2>2. gs[i] \in FrameType /\ SameVisit(frames[i], gs[i])
    BY <2>1
  <2>3. \A b \in Holds(frames[i]) : cs[b] = blocks[b]
    <3>1. Holds(frames[i]) \subseteq 1..Len(blocks)
      BY <1>3, <2>1 DEF Fits, FrameFits
    <3> HIDE DEF cs
    <3> QED
      BY <1>2, <2>1, <3>1
  <2> HIDE DEF cs, ds
  <2>4. InReturn(gs, i) = InReturn(frames, i)
    <3>1. i > 1 => i - 1 \in 1..Len(frames) - 1
      BY <1>3, <2>1
    <3> QED
      BY <2>1, <3>1 DEF InReturn
  <2>5. Waits(gs[i], InReturn(frames, i), E, cs, es)
    BY <1>1, <2>1, <2>2, <2>3, WaitsStay DEF SameVisit, ds
  <2> QED
    BY <2>2, <2>4, <2>5 DEF SameVisit
<1>5. HasJump(s) \/ Jumped => HasJump(cs[insert].insts)
  <2>1. s \in Seq(Instruction) /\ blocks[insert].insts \in Seq(Instruction)
        /\ cs[insert].insts = blocks[insert].insts \o s
    BY <1>3, EmitFields DEF Leads
  <2> DEFINE a == blocks[insert].insts
  <2> HIDE DEF a, cs
  <2>2. HasJump(s) \/ HasJump(a) => HasJump(a \o s)
    BY <2>1, ConcatJumps DEF a
  <2> QED
    BY <1>3, <2>1, <2>2 DEF a
<1> HIDE DEF cs
<1>6. ~HasJump(cs[insert].insts) =>
        AfterAll(E[insert], cs[insert].insts) = Remains(Peek(gs), es)
  BY <1>2, <1>5
<1> QED
  BY <1>1, <1>2, <1>4, <1>6 DEF Flows, cs

FlowKept == \E E : Flows(E, frames', blocks', insert', defer_calls_stack')

\* What is pending where the code of the innermost visit goes.
LEMMA InsideTop ==
  ASSUME ClosedInv, frames # <<>>, AllDefers(defer_calls_stack)
  PROVE  LET scopes == Peek(defer_calls_stack)
         IN  /\ scopes \in ScopeList /\ AllCallable(scopes) /\ Len(scopes) \in Nat
             /\ Inside(top, defer_calls_stack) = Flat(scopes)[Len(scopes)]
             /\ Inside(top, defer_calls_stack) \in Stacks
             /\ Len(scopes) = ScopesIn(top)
<1> DEFINE ds == defer_calls_stack
           n  == Len(ds)
           sc == Peek(ds)
<1>1. /\ ds \in DeferStacks /\ n \in Nat \ {0} /\ n = DepthIn(top)
      /\ sc \in Seq(Seq(DeferCall)) /\ sc = ds[n] /\ Len(sc) = ScopesIn(top)
  BY TopFacts
<1>2. sc \in ScopeList
  BY <1>1 DEF ScopeList
<1>3. AllCallable(sc)
  <2>1. n \in 1..n
    BY <1>1
  <2> QED
    BY <1>1, <2>1 DEF AllDefers
<1> HIDE DEF sc
<1>4. Flat(sc) \in [0..Len(sc) -> Stacks] /\ Len(sc) \in Nat
  BY <1>2, <1>3, FlatIs
<1>5. Len(sc) \in 0..Len(sc)
  BY <1>4
<1>6. Inside(top, ds) = Flat(sc)[Len(sc)]
  BY <1>1 DEF Inside
<1>7. Flat(sc)[Len(sc)] \in Stacks
  BY <1>4, <1>5
<1> QED
  BY <1>1, <1>2, <1>3, <1>4, <1>6, <1>7 DEF sc

LEMMA OpenFlow ==
  ASSUME ClosedInv, frames # <<>>, top.open,
         NEW E, Flows(E, frames, blocks, insert, defer_calls_stack)
  PROVE  /\ AfterAll(E[insert], blocks[insert].insts) = Remains(top, defer_calls_stack)
         /\ Remains(top, defer_calls_stack) \in Stacks /\ ~Jumped
         /\ Inside(top, defer_calls_stack) \in Stacks
         /\ ~top.returning =>
              Remains(top, defer_calls_stack) = Inside(top, defer_calls_stack)
         /\ FlowOK(E, blocks) /\ AllDefers(defer_calls_stack) /\ Willing(top)
         /\ E \in [Nat -> Stacks]
<1>1. ~Jumped /\ ~HasJump(blocks[insert].insts)
  BY OpenClear
<1>2. top = Peek(frames) /\ top = frames[Len(frames)] /\ Len(frames) \in Nat \ {0}
  BY TopFacts
<1>3. Willing(top)
  BY <1>2 DEF Flows
<1>4. Inside(top, defer_calls_stack) \in Stacks
  BY InsideTop DEF Flows
<1>5. /\ Remains(top, defer_calls_stack) \in Stacks
      /\ ~top.returning =>
           Remains(top, defer_calls_stack) = Inside(top, defer_calls_stack)
  BY <1>4, StackFacts DEF Remains
<1> QED
  BY <1>1, <1>2, <1>3, <1>4, <1>5 DEF Flows

\* The visits stay, but for the one on top.
LEMMA SameRetop ==
  ASSUME ClosedInv, frames # <<>>,
         NEW E, Flows(E, frames, blocks, insert, defer_calls_stack),
         NEW f \in FrameType, SameVisit(top, f)
  PROVE  /\ Retop(frames, f) \in Seq(FrameType) /\ Len(Retop(frames, f)) = Len(frames)
         /\ \A i \in 1..Len(frames) : SameVisit(frames[i], Retop(frames, f)[i])
         /\ \A i \in 1..Len(frames) - 1 : Retop(frames, f)[i] = frames[i]
         /\ Peek(Retop(frames, f)) = f
<1>1. /\ frames \in Seq(FrameType) /\ Len(frames) \in Nat \ {0}
      /\ top = frames[Len(frames)]
  BY TopFacts
<1>2. \A i \in 1..Len(frames) : Willing(frames[i])
  BY DEF Flows
<1>3. /\ Retop(frames, f) \in Seq(FrameType) /\ Len(Retop(frames, f)) = Len(frames)
      /\ Retop(frames, f)[Len(frames)] = f
      /\ \A i \in 1..Len(frames) - 1 : Retop(frames, f)[i] = frames[i]
      /\ \A i \in 1..Len(frames) : i = Len(frames) \/ i \in 1..Len(frames) - 1
  <2> DEFINE fs == Retop(frames, f)
  <2>1. /\ fs \in Seq(FrameType) /\ Len(fs) = Len(frames) /\ fs[Len(frames)] = f
        /\ \A i \in 1..Len(frames) - 1 : fs[i] = frames[i]
    BY <1>1, RetopFacts
  <2>2. \A i \in 1..Len(frames) : i = Len(frames) \/ i \in 1..Len(frames) - 1
    BY <1>1
  <2> HIDE DEF fs
  <2>3. /\ fs \in Seq(FrameType) /\ Len(fs) = Len(frames) /\ fs[Len(frames)] = f
        /\ \A i \in 1..Len(frames) - 1 : fs[i] = frames[i]
        /\ \A i \in 1..Len(frames) : i = Len(frames) \/ i \in 1..Len(frames) - 1
    BY <2>1, <2>2
  <2> QED
    BY <2>3 DEF fs
<1>4. ASSUME NEW i \in 1..Len(frames) PROVE SameVisit(frames[i], Retop(frames, f)[i])
  <2>1. CASE i = Len(frames)
    BY <1>1, <1>3, <2>1
  <2>2. CASE i \in 1..Len(frames) - 1
    BY <1>2, <1>3, <2>2 DEF SameVisit, SameBlocks
  <2> QED
    BY <1>3, <2>1, <2>2
<1>5. Peek(Retop(frames, f)) = f
  BY <1>1, RetopFacts
<1> QED
  BY <1>3, <1>4, <1>5

\* The code s is added, and the frame on top replaced.
LEMMA RetopFlow ==
  ASSUME ClosedInv, frames # <<>>,
         NEW E, Flows(E, frames, blocks, insert, defer_calls_stack),
         NEW f \in FrameType, SameVisit(top, f), NEW s, NEW r, Leads(E, s, r),
         Jumped \/ HasJump(s) \/ r = Remains(f, defer_calls_stack)
  PROVE  Flows(E, Retop(frames, f), Emit(blocks, insert, s), insert, defer_calls_stack)
<1> DEFINE gs == Retop(frames, f)
<1>1. /\ gs \in Seq(FrameType) /\ Len(gs) = Len(frames)
      /\ \A i \in 1..Len(frames) : SameVisit(frames[i], gs[i])
      /\ \A i \in 1..Len(frames) - 1 : gs[i] = frames[i]
      /\ Peek(gs) = f
  BY SameRetop
<1> HIDE DEF gs
<1>2. \A i \in 1..Len(frames) - 1 : gs[i].returning = frames[i].returning
  BY <1>1
<1>3. top.kind # "function" => SameAround(top, defer_calls_stack, defer_calls_stack)
  BY AroundSelf
<1>4. defer_calls_stack \in DeferStacks /\ AllDefers(defer_calls_stack)
  BY TopFacts DEF Flows
<1>5. Flows(E, gs, Emit(blocks, insert, s), insert, defer_calls_stack)
  BY <1>1, <1>2, <1>3, <1>4, FlowStay
<1> QED
  BY <1>5 DEF gs

LEMMA SameOpened ==
  ASSUME ClosedInv, frames # <<>>, top.open, Willing(top)
  PROVE  /\ Opened(top, Resumes(top)) \in FrameType
         /\ SameVisit(top, Opened(top, Resumes(top)))
         /\ Opened(top, FALSE) \in FrameType /\ SameVisit(top, Opened(top, FALSE))
<1>1. top \in FrameType
  BY TopFacts
<1>2. ASSUME NEW o \in BOOLEAN
      PROVE  Opened(top, o) \in FrameType /\ SameVisit(top, Opened(top, o))
  BY <1>1, <1>2, OpenedFacts DEF SameVisit, Willing
<1>3. Resumes(top) \in BOOLEAN
  BY <1>1 DEF Resumes, FrameType
<1> QED
  BY <1>2, <1>3

\* A statement that is none of the others.
LEMMA WorkFlow ==
  ASSUME ClosedInv, frames # <<>>, top.open,
         NEW E, Flows(E, frames, blocks, insert, defer_calls_stack),
         frames' = Visiting, blocks' = Emit(blocks, insert, <<Work>>),
         insert' = insert, defer_calls_stack' = defer_calls_stack
  PROVE  FlowKept
<1> DEFINE f == Opened(top, Resumes(top))
           r == Remains(top, defer_calls_stack)
           s == <<Work>>
<1>1. /\ AfterAll(E[insert], blocks[insert].insts) = r /\ r \in Stacks /\ ~Jumped
      /\ Willing(top)
  BY OpenFlow
<1>2. f \in FrameType /\ SameVisit(top, f)
  BY <1>1, SameOpened
<1>3. frames \in Seq(FrameType) /\ top \in FrameType
  BY TopFacts
<1>4. frames' = Retop(frames, f)
  BY <1>3, VisitingRetop
<1>5. r = Remains(f, defer_calls_stack)
  <2>1. f.returning = top.returning
    BY <1>3, OpenedFacts DEF Resumes, FrameType
  <2> HIDE DEF f
  <2>2. Inside(f, defer_calls_stack) = Inside(top, defer_calls_stack)
    BY <1>2, SameInside
  <2> QED
    BY <2>1, <2>2 DEF Remains
<1>6. s \in Seq(Instruction) /\ Goes(s) = {} /\ AfterAll(r, s) = r
  <2>1. AfterAll(r, s) = r
    BY AfterOne, AfterFacts
  <2>2. Goes(s) = {}
    BY GoesOne, InstructionFacts
  <2>3. s \in Seq(Instruction)
    BY InstructionTypes
  <2> QED
    BY <2>1, <2>2, <2>3
<1> HIDE DEF f, r, s
<1>7. Leads(E, s, r)
  BY <1>1, <1>6 DEF Leads
<1>8. Flows(E, Retop(frames, f), Emit(blocks, insert, s), insert, defer_calls_stack)
  BY <1>2, <1>5, <1>7, RetopFlow
<1> QED
  BY <1>4, <1>8 DEF FlowKept, s

LEMMA PlainFlow ==
  ASSUME FlowInv, Plain \/ \E g \in Generics : CallInstance(g)
  PROVE  FlowKept
<1>1. PICK E : Flows(E, frames, blocks, insert, defer_calls_stack)
  BY DEF FlowInv
<1>2. /\ frames # <<>> /\ top.open /\ frames' = Visiting
      /\ blocks' = Emit(blocks, insert, <<Work>>)
      /\ insert' = insert /\ defer_calls_stack' = defer_calls_stack
  BY DEF Plain, CallInstance, Visits, tables
<1> QED
  BY <1>1, <1>2, WorkFlow DEF FlowInv

LEMMA GoesTargets == ASSUME NEW s PROVE Goes(s) \subseteq Targets(s)
BY DEF Goes, Targets

LEMMA FirstScope ==
  ASSUME NEW scopes \in ScopeList, AllCallable(scopes) PROVE Flat(scopes)[0] = <<>>
<1>1. Stacked(Flat(scopes), scopes)
  BY FlatIs
<1> QED
  BY <1>1 DEF Stacked

\* A return runs all that is pending, and then evaluates its value.
LEMMA EnterReturnFlow ==
  ASSUME FlowInv, "return" \notin Unbraced, EnterReturn
  PROVE  FlowKept
<1> DEFINE ds == defer_calls_stack
           sc == Peek(ds)
           f  == WithReturn(top)
           s  == IF top.kind = "block" THEN execute_all_defer_calls(sc) ELSE <<>>
<1>0. ClosedInv
  BY DEF FlowInv
<1>1. /\ frames # <<>> /\ top.open /\ ~top.returning
      /\ blocks' = Emit(blocks, insert, s)
      /\ frames' = Returning /\ insert' = insert /\ ds' = ds
      /\ ~IsLast => Visits("return")
  BY DEF EnterReturn, tables
<1>2. PICK E : Flows(E, frames, blocks, insert, ds)
  BY DEF FlowInv
<1>3. frames \in Seq(FrameType) /\ top \in FrameType
  BY <1>0, <1>1, TopFacts
<1>4. /\ AfterAll(E[insert], blocks[insert].insts) = Inside(top, ds) /\ ~Jumped
      /\ AllDefers(ds)
  BY <1>0, <1>1, <1>2, OpenFlow
<1>5. /\ sc \in ScopeList /\ AllCallable(sc) /\ Len(sc) \in Nat
      /\ Inside(top, ds) = Flat(sc)[Len(sc)] /\ Len(sc) = ScopesIn(top)
  BY <1>0, <1>1, <1>4, InsideTop
<1>6. f \in FrameType /\ SameVisit(top, f) /\ Remains(f, ds) = <<>>
  <2>1. f \in {WithReturn(top), WithoutReturn(top)}
    OBVIOUS
  <2>2. f = WithReturn(top)
    OBVIOUS
  <2> HIDE DEF f
  <2>3. /\ f \in FrameType /\ SameBlocks(top, f) /\ f.returning
        /\ f.depth = top.depth /\ f.scopes = top.scopes
    BY <1>3, <2>1, <2>2, ReturnFrames
  <2> QED
    BY <2>3 DEF SameVisit, Willing, Remains
<1>7. frames' = Retop(frames, f)
  BY <1>1, <1>3, VisitingRetop
<1> HIDE DEF f, ds
<1>8. /\ s \in Seq(Instruction) /\ Goes(s) = {}
      /\ AfterAll(Inside(top, ds), s) = <<>>
  <2>1. CASE top.kind = "block"
    <3>1. s = execute_all_defer_calls(sc)
      BY <2>1
    <3>2. sc \in Seq(Seq(DeferCall))
      BY <1>5 DEF ScopeList
    <3> HIDE DEF s, sc
    <3>3. s \in Seq(Instruction) /\ Targets(s) = {}
      BY <3>1, <3>2, DefersClean
    <3>4. AfterAll(Flat(sc)[Len(sc)], s) = <<>>
      BY <1>5, <3>1, ReturnRunsAll
    <3>5. Goes(s) = {}
      BY <3>3, GoesTargets
    <3> QED
      BY <1>5, <3>3, <3>4, <3>5
  <2>2. CASE top.kind # "block"
    <3>1. top.kind \in {"function", "generic"}
      <4>1. "return" \notin Inner
        BY DEF Inner
      <4>2. CASE IsLast
        BY <2>2, <4>2 DEF IsLast
      <4>3. CASE ~IsLast
        BY <1>1, <2>2, <4>3 DEF Visits
      <4> QED
        BY <4>2, <4>3
    <3>2. Len(sc) = 0
      BY <1>5, <3>1 DEF ScopesIn, Callables
    <3>3. Inside(top, ds) = <<>>
      BY <1>5, <3>2, FirstScope
    <3>4. s = <<>> /\ <<>> \in Seq(Instruction)
      BY <2>2
    <3>5. AfterAll(<<>>, <<>>) = <<>> /\ Goes(<<>>) = {}
      BY AfterNone DEF Goes
    <3> HIDE DEF s
    <3> QED
      BY <3>3, <3>4, <3>5
  <2> QED
    BY <2>1, <2>2
<1> HIDE DEF s
<1> DEFINE r == <<>>
<1>9. Leads(E, s, r)
  BY <1>4, <1>8, StackFacts DEF Leads
<1>10. r = Remains(f, ds)
  BY <1>6
<1> HIDE DEF r
<1>11. Flows(E, Retop(frames, f), Emit(blocks, insert, s), insert, ds)
  BY <1>0, <1>1, <1>2, <1>6, <1>9, <1>10, RetopFlow DEF ds
<1> QED
  BY <1>1, <1>7, <1>11 DEF FlowKept, ds

\* After the value nothing is pending.
LEMMA LeaveReturnFlow ==
  ASSUME FlowInv, LeaveReturn
  PROVE  FlowKept
<1> DEFINE ds == defer_calls_stack
           f  == WithoutReturn(top)
           s  == <<Ret>>
<1>0. ClosedInv
  BY DEF FlowInv
<1>1. /\ frames # <<>> /\ top.returning /\ blocks' = Emit(blocks, insert, s)
      /\ frames' = Returned /\ insert' = insert /\ ds' = ds
  BY DEF LeaveReturn, tables
<1>2. PICK E : Flows(E, frames, blocks, insert, ds)
  BY DEF FlowInv
<1>3. frames \in Seq(FrameType) /\ top \in FrameType
  BY <1>0, <1>1, TopFacts
<1>4. top.open
  BY <1>0, <1>1, WaitingReturns DEF ReturnsIn
<1>5. AfterAll(E[insert], blocks[insert].insts) = <<>> /\ ~Jumped
  BY <1>0, <1>1, <1>2, <1>4, OpenFlow DEF Remains
<1>6. f \in FrameType /\ SameVisit(top, f)
  <2>1. f \in {WithReturn(top), WithoutReturn(top)}
    OBVIOUS
  <2>2. f = WithoutReturn(top)
    OBVIOUS
  <2> HIDE DEF f
  <2>3. /\ f \in FrameType /\ SameBlocks(top, f) /\ ~f.open
        /\ f.depth = top.depth /\ f.scopes = top.scopes
    BY <1>3, <2>1, <2>2, ReturnFrames
  <2> QED
    BY <2>3 DEF SameVisit, Willing
<1>7. frames' = Retop(frames, f)
  BY <1>1, <1>3, VisitingRetop
<1> DEFINE r == <<>>
<1>8. /\ s \in Seq(Instruction) /\ HasJump(s) /\ Goes(s) = {}
      /\ AfterAll(r, s) = r
  <2>1. s \in Seq(Instruction) /\ HasJump(s) /\ Targets(s) = {}
    BY InstructionTypes, InstructionFacts, OneClean
  <2>2. AfterAll(r, s) = r
    BY AfterOne, AfterFacts
  <2>3. Goes(s) = {}
    BY <2>1, GoesTargets
  <2> QED
    BY <2>1, <2>2, <2>3
<1> HIDE DEF f, s
<1>9. Leads(E, s, r)
  BY <1>5, <1>8, StackFacts DEF Leads
<1> HIDE DEF r
<1>10. Flows(E, Retop(frames, f), Emit(blocks, insert, s), insert, ds)
  BY <1>0, <1>1, <1>2, <1>6, <1>8, <1>9, RetopFlow
<1> QED
  BY <1>1, <1>7, <1>10 DEF FlowKept

\* A scope without a defer adds nothing to what is pending.
LEMMA EmptyScope ==
  ASSUME NEW scopes \in ScopeList, AllCallable(scopes),
         NEW k \in 1..Len(scopes), scopes[k] = <<>>
  PROVE  Flat(scopes)[k] = Flat(scopes)[k - 1]
<1>1. /\ Flat(scopes) \in [0..Len(scopes) -> Stacks] /\ Len(scopes) \in Nat
      /\ Stacked(Flat(scopes), scopes)
  BY FlatIs
<1>2. k - 1 \in 0..Len(scopes)
  BY <1>1
<1>3. Flat(scopes)[k] = Flat(scopes)[k - 1] \o Ids(<<>>)
  BY <1>1 DEF Stacked
<1>4. Ids(<<>>) = <<>>
  BY DEF Ids
<1>5. Flat(scopes)[k - 1] \in Seq(Nat)
  BY <1>1, <1>2, StackFacts
<1> QED
  BY <1>3, <1>4, <1>5

\* Where nothing has been deferred since a loop began, what was pending there is.
LEMMA NothingBetween ==
  ASSUME ClosedInv, AllDefers(defer_calls_stack), NEW i \in OpenLoops,
         \A j \in i + 1..Len(frames) : frames[j].declared = <<>>
  PROVE  Inside(top, defer_calls_stack) = Outside(frames[i], defer_calls_stack)
<1> DEFINE ds == defer_calls_stack
           n  == Len(frames) - i
           x  == Outside(frames[i], ds)
           T  == {m \in 0..n : Inside(frames[i + m], ds) = x}
<1>1. /\ i \in 1..Len(frames) /\ frames[i].kind \in Loops
      /\ \A j \in i..Len(frames) : frames[j].kind \notin Callables
  BY DEF OpenLoops, InCurrentFunction
<1>2. /\ frames \in Seq(FrameType) /\ Len(frames) \in Nat \ {0}
      /\ top = frames[Len(frames)] /\ ds \in DeferStacks
      /\ DeferOK(frames, ds) /\ DeclaredOK(frames, ds)
  <2>1. frames # <<>>
    BY <1>1
  <2> QED
    BY <2>1, TopFacts DEF ClosedInv, LoopInv, TypeInv
<1>3. n \in Nat /\ i + n = Len(frames)
  BY <1>1, <1>2
<1>4. 0 \in T
  <2>1. i + 0 = i
    BY <1>1, <1>2
  <2>2. Inside(frames[i], ds) = x
    BY <1>1 DEF Inside, Outside, DepthIn, ScopesIn, Callables, Loops
  <2> QED
    BY <1>3, <2>1, <2>2
<1>5. ASSUME NEW m \in 0..n - 1, m \in T PROVE m + 1 \in T
  <2> DEFINE j == i + m
             f == frames[j + 1]
             d == f.depth
             k == f.scopes
  <2>1. /\ j \in 1..Len(frames) - 1 /\ j \in 1..Len(frames) /\ j + 1 \in 1..Len(frames)
        /\ j + 1 \in i + 1..Len(frames) /\ j + 1 \in i..Len(frames)
        /\ i + (m + 1) = j + 1 /\ m + 1 \in 0..n
    BY <1>1, <1>2, <1>3
  <2>2. /\ f \in FrameType /\ f.kind \notin Callables /\ f.declared = <<>>
        /\ d = DepthIn(frames[j]) /\ k = ScopesIn(frames[j])
    BY <1>1, <1>2, <2>1 DEF DeferOK
  <2>3. Flat(ds[d])[k] = x
    BY <1>5, <2>2 DEF Inside
  <2>4. CASE f.kind # "block"
    <3>1. Inside(f, ds) = x
      BY <2>2, <2>3, <2>4 DEF Inside, DepthIn, ScopesIn
    <3> QED
      BY <2>1, <3>1
  <2>5. CASE f.kind = "block"
    <3>1. DepthIn(f) = d /\ ScopesIn(f) = k + 1 /\ k \in Nat
      BY <2>2, <2>5 DEF DepthIn, ScopesIn, FrameType, Callables
    <3>2. Undeclared(f, ds)
      BY <1>2, <2>1 DEF DeclaredOK
    <3>3. d \in 1..Len(ds) /\ k + 1 \in 1..Len(ds[d]) /\ ds[d][k + 1] = <<>>
      BY <2>2, <2>5, <3>1, <3>2 DEF Undeclared
    <3>4. ds[d] \in ScopeList /\ AllCallable(ds[d])
      BY <1>2, <3>3 DEF DeferStacks, ScopeList, AllDefers
    <3> DEFINE sc == ds[d]
               l  == k + 1
    <3>5. sc \in ScopeList /\ AllCallable(sc) /\ l \in 1..Len(sc) /\ sc[l] = <<>>
      BY <3>3, <3>4
    <3>6. l - 1 = k
      BY <3>1
    <3> HIDE DEF sc, l
    <3>7. Flat(sc)[l] = Flat(sc)[l - 1]
      BY <3>5, EmptyScope
    <3>8. Inside(f, ds) = Flat(sc)[l]
      BY <3>1 DEF Inside, sc, l
    <3>9. Inside(f, ds) = x
      BY <2>3, <3>6, <3>7, <3>8 DEF sc
    <3> QED
      BY <2>1, <3>9
  <2> QED
    BY <2>4, <2>5
<1>6. n \in T
  <2> HIDE DEF T
  <2>1. 0..n \subseteq T
    BY <1>3, <1>4, <1>5, CountUp
  <2>2. n \in 0..n
    BY <1>3
  <2> QED
    BY <2>1, <2>2
<1> QED
  BY <1>2, <1>3, <1>6

\* A break or a continue of one level.
LEMMA JumpFlow ==
  ASSUME ClosedInv, Tame, NEW s, MayJump(s, 1), NEW i \in OpenLoops, NthLoop(1, i),
         s \notin Inner,
         NEW E, Flows(E, frames, blocks, insert, defer_calls_stack),
         NEW b \in {frames[i].end, frames[i].cond}, frames' = Closed,
         blocks' = Emit(blocks, insert, <<Br(b)>>), insert' = insert,
         defer_calls_stack' = defer_calls_stack
  PROVE  FlowKept
<1> DEFINE f == Opened(top, FALSE)
           c == <<Br(b)>>
           r == Inside(top, defer_calls_stack)
           ds == defer_calls_stack
<1>1. frames # <<>> /\ top.open /\ ~top.returning
  BY StatementVisit DEF MayJump
<1>2. /\ frames \in Seq(FrameType) /\ ds \in DeferStacks /\ Fits(frames, blocks)
      /\ i \in 1..Len(frames) /\ frames[i].kind \in Loops
  BY <1>1, TopFacts DEF ClosedInv, Built, OpenLoops
<1>3. /\ AfterAll(E[insert], blocks[insert].insts) = r /\ r \in Stacks /\ ~Jumped
      /\ Willing(top) /\ AllDefers(ds)
  BY <1>1, OpenFlow
<1>4. f \in FrameType /\ SameVisit(top, f)
  BY <1>1, <1>3, SameOpened
<1>5. frames' = Retop(frames, f)
  BY <1>1, <1>2, VisitingRetop
<1>6. r = Outside(frames[i], ds)
  <2>1. NothingLeft(1)
    BY DEF MayJump, Tame
  <2>2. \A j \in i + 1..Len(frames) : frames[j].declared = <<>>
    <3>1. ASSUME NEW j \in i + 1..Len(frames) PROVE frames[j].declared = <<>>
      <4>1. i < j /\ j \in 1..Len(frames)
        BY <1>2
      <4> QED
        BY <2>1, <4>1 DEF NothingLeft
    <3> QED
      BY <3>1
  <2> QED
    BY <1>3, <2>2, NothingBetween
<1>7. b \in 1..Len(blocks) /\ b \in Nat /\ E[b] = r
  <2>1. frames[i].kind \in Constructs
    BY <1>2 DEF Constructs
  <2>2. frames[i].end \in 1..Len(blocks) /\ frames[i].cond \in 1..Len(blocks)
    BY <1>2, <2>1 DEF Fits, FrameFits, Holds
  <2>3. Waits(frames[i], InReturn(frames, i), E, blocks, ds)
    BY <1>2 DEF Flows
  <2>4. E[frames[i].end] = r /\ E[frames[i].cond] = r
    BY <1>2, <1>6, <2>1, <2>3 DEF Waits
  <2> QED
    BY <2>2, <2>4
<1>8. /\ c \in Seq(Instruction) /\ HasJump(c) /\ Goes(c) = {b} /\ AfterAll(r, c) = r
  <2>1. c \in Seq(Instruction) /\ HasJump(c)
    BY <1>7, InstructionTypes, InstructionFacts, OneClean
  <2>2. Goes(c) = {b}
    BY <1>7, InstructionFacts, GoesOne
  <2>3. AfterAll(r, c) = r
    BY AfterOne, AfterFacts
  <2> QED
    BY <2>1, <2>2, <2>3
<1> HIDE DEF f, c, r, ds
<1>9. Leads(E, c, r)
  BY <1>3, <1>7, <1>8 DEF Leads
<1>10. Flows(E, Retop(frames, f), Emit(blocks, insert, c), insert, ds)
  BY <1>1, <1>4, <1>8, <1>9, RetopFlow DEF ds
<1> QED
  BY <1>5, <1>10 DEF FlowKept, ds, c

LEMMA BreakFlow ==
  ASSUME FlowInv, Tame, Break(1) \/ Continue(1)
  PROVE  FlowKept
<1>1. PICK E : Flows(E, frames, blocks, insert, defer_calls_stack)
  BY DEF FlowInv
<1>2. ClosedInv /\ LoopInv
  BY DEF FlowInv, ClosedInv
<1>3. CASE Break(1)
  <2>1. MayJump("break", 1) /\ Jump(1, break_blocks_stack)
    BY <1>3 DEF Break
  <2>2. PICK i \in OpenLoops : NthLoop(1, i)
    BY <1>2, <2>1, InnermostLoop DEF MayJump
  <2>3. blocks' = Emit(blocks, insert, <<Br(frames[i].end)>>)
    BY <1>2, <1>3, <2>2, InnermostTargets, BreakLoops
  <2>4. frames' = Closed /\ insert' = insert /\ defer_calls_stack' = defer_calls_stack
    BY <2>1 DEF Jump, tables
  <2>5. frames[i].end \in {frames[i].end, frames[i].cond} /\ "break" \notin Inner
    BY DEF Inner
  <2> QED
    BY <1>1, <1>2, <2>1, <2>2, <2>3, <2>4, <2>5, JumpFlow
<1>4. CASE Continue(1)
  <2>1. MayJump("continue", 1) /\ Jump(1, continue_blocks_stack)
    BY <1>4 DEF Continue
  <2>2. PICK i \in OpenLoops : NthLoop(1, i)
    BY <1>2, <2>1, InnermostLoop DEF MayJump
  <2>3. blocks' = Emit(blocks, insert, <<Br(frames[i].cond)>>)
    BY <1>2, <1>4, <2>2, InnermostTargets, ContinueLoops
  <2>4. frames' = Closed /\ insert' = insert /\ defer_calls_stack' = defer_calls_stack
    BY <2>1 DEF Jump, tables
  <2>5. frames[i].cond \in {frames[i].end, frames[i].cond} /\ "continue" \notin Inner
    BY DEF Inner
  <2> QED
    BY <1>1, <1>2, <2>1, <2>2, <2>3, <2>4, <2>5, JumpFlow
<1> QED
  BY <1>3, <1>4

\* One more defer is pending in a scope.
LEMMA IdsMore ==
  ASSUME NEW scope \in Seq(DeferCall), Callable(scope), NEW id \in Nat \ {0}, NEW c,
         c = [id |-> id, kind |-> "function"]
  PROVE  /\ PushFront(c, scope) \in Seq(DeferCall) /\ Callable(PushFront(c, scope))
         /\ Ids(PushFront(c, scope)) = Append(Ids(scope), id)
<1> DEFINE more == PushFront(c, scope)
           n    == Len(scope)
<1>1. c \in DeferCall /\ n \in Nat
  BY DEF DeferCall
<1>2. /\ more \in Seq(DeferCall) /\ Len(more) = n + 1
      /\ more[1] = c /\ \A k \in 1..n : more[k + 1] = scope[k]
  <2>1. <<c>> \in Seq(DeferCall) /\ Len(<<c>>) = 1 /\ <<c>>[1] = c
    BY <1>1
  <2> DEFINE s == <<c>>
  <2> HIDE DEF s
  <2>2. /\ s \o scope \in Seq(DeferCall) /\ Len(s \o scope) = 1 + n
        /\ \A k \in 1..1 : (s \o scope)[k] = s[k]
        /\ \A k \in 1..n : (s \o scope)[1 + k] = scope[k]
    BY <2>1, ConcatProperties DEF s
  <2>3. 1 + n = n + 1 /\ \A k \in 1..n : 1 + k = k + 1
    BY <1>1
  <2>4. more = s \o scope
    BY DEF PushFront, s
  <2> HIDE DEF more
  <2>5. more[1] = c
    BY <2>1, <2>2, <2>4 DEF s
  <2>6. ASSUME NEW k \in 1..n PROVE more[k + 1] = scope[k]
    <3>1. (s \o scope)[1 + k] = scope[k] /\ 1 + k = k + 1
      BY <2>2, <2>3
    <3> QED
      BY <2>4, <3>1
  <2>7. more \in Seq(DeferCall) /\ Len(more) = n + 1
    BY <2>2, <2>3, <2>4
  <2> QED
    BY <2>5, <2>6, <2>7
<1> HIDE DEF more
<1>3. \A k \in 1..Len(more) : k = 1 \/ (k - 1 \in 1..n /\ (k - 1) + 1 = k)
  BY <1>1, <1>2
<1>4. Callable(more)
  <2>1. ASSUME NEW k \in 1..Len(more)
        PROVE  more[k].kind = "function" /\ more[k].id # 0
    <3>1. CASE k = 1
      BY <1>2, <3>1
    <3>2. CASE k # 1
      <4>1. k - 1 \in 1..n /\ (k - 1) + 1 = k
        BY <1>3, <3>2
      <4>2. more[k] = scope[k - 1]
        BY <1>2, <4>1
      <4> QED
        BY <4>1, <4>2 DEF Callable
    <3> QED
      BY <3>1, <3>2
  <2> QED
    BY <2>1 DEF Callable
<1>5. /\ Ids(scope) \in Stacks /\ Len(Ids(scope)) = n
      /\ \A k \in 1..n : Ids(scope)[k] = scope[n + 1 - k].id
      /\ Ids(more) \in Stacks /\ Len(Ids(more)) = n + 1
      /\ \A k \in 1..n + 1 : Ids(more)[k] = more[(n + 1) + 1 - k].id
  BY <1>2, <1>4, IdsType
<1> DEFINE a == Ids(scope)
           b == Ids(more)
           S == Nat \ {0}
<1>6. a \in Seq(S) /\ b \in Seq(S) /\ id \in S
  BY <1>5 DEF Stacks
<1> HIDE DEF a, b, S
<1>7. Append(a, id) \in Seq(S) /\ Len(Append(a, id)) = n + 1
      /\ Append(a, id)[n + 1] = id /\ \A k \in 1..n : Append(a, id)[k] = a[k]
  <2>1. Len(a) = n
    BY <1>5 DEF a
  <2> QED
    BY <1>1, <1>6, <2>1, AppendProperties
<1>8. ASSUME NEW k \in 1..n + 1 PROVE b[k] = Append(a, id)[k]
  <2>1. CASE k = n + 1
    <3>1. (n + 1) + 1 - k = 1
      BY <1>1, <2>1
    <3>2. b[k] = more[1].id
      BY <1>5, <3>1 DEF b
    <3> QED
      BY <1>2, <1>7, <2>1, <3>2
  <2>2. CASE k # n + 1
    <3>1. k \in 1..n /\ n + 1 - k \in 1..n /\ (n + 1) + 1 - k = (n + 1 - k) + 1
      BY <1>1, <2>2
    <3>2. b[k] = more[(n + 1 - k) + 1].id
      BY <1>5, <3>1 DEF b
    <3>3. a[k] = scope[n + 1 - k].id
      BY <1>5, <3>1 DEF a
    <3> QED
      BY <1>2, <1>7, <3>1, <3>2, <3>3
  <2> QED
    BY <2>1, <2>2
<1>9. b = Append(a, id)
  <2>1. Len(b) = n + 1
    BY <1>5 DEF b
  <2> DEFINE c2 == Append(a, id)
  <2> HIDE DEF c2
  <2>2. c2 \in Seq(S) /\ Len(c2) = n + 1 /\ \A k \in 1..n + 1 : b[k] = c2[k]
    BY <1>7, <1>8 DEF c2
  <2>3. b = c2
    BY <1>6, <2>1, <2>2, SeqEqual
  <2> QED
    BY <2>3 DEF c2
<1> QED
  BY <1>2, <1>4, <1>9 DEF a, b, more

Deferring(sc, id) ==
  [sc EXCEPT ![Len(sc)] = PushFront([id |-> id, kind |-> "function"], sc[Len(sc)])]

LEMMA ScopeMore ==
  ASSUME NEW sc \in ScopeList, AllCallable(sc), Len(sc) \in Nat \ {0},
         NEW id \in Nat \ {0}
  PROVE  /\ Deferring(sc, id) \in ScopeList /\ AllCallable(Deferring(sc, id))
         /\ Len(Deferring(sc, id)) = Len(sc)
         /\ \A k \in 1..Len(sc) - 1 : Deferring(sc, id)[k] = sc[k]
         /\ Flat(Deferring(sc, id))[Len(sc)] = Append(Flat(sc)[Len(sc)], id)
<1> DEFINE m     == Len(sc)
           scope == sc[m]
           c     == [id |-> id, kind |-> "function"]
           more  == PushFront(c, scope)
           e     == Deferring(sc, id)
<1>0. m \in Nat \ {0} /\ m = Len(sc) /\ e = [sc EXCEPT ![m] = PushFront(c, sc[m])]
      /\ c = [id |-> id, kind |-> "function"]
  BY DEF Deferring
<1> HIDE DEF m, c, e
<1>1. m \in 1..m /\ m - 1 \in 0..m /\ m - 1 \in Nat /\ m \in 0..m
  BY <1>0
<1>2. scope \in Seq(DeferCall) /\ Callable(scope)
  BY <1>0, <1>1 DEF ScopeList, AllCallable
<1> HIDE DEF scope
<1>3. /\ more \in Seq(DeferCall) /\ Callable(more)
      /\ Ids(more) = Append(Ids(scope), id) /\ Ids(scope) \in Stacks
  BY <1>0, <1>2, IdsMore, IdsType
<1>4. /\ e \in ScopeList /\ Len(e) = m /\ e[m] = more
      /\ \A k \in 1..m - 1 : e[k] = sc[k]
  <2>1. sc \in Seq(Seq(DeferCall))
    BY DEF ScopeList
  <2>2. e = [sc EXCEPT ![m] = more]
    BY <1>0 DEF scope
  <2> HIDE DEF more
  <2>3. /\ e \in Seq(Seq(DeferCall)) /\ Len(e) = Len(sc)
        /\ \A j \in 1..Len(sc) : e[j] = IF j = m THEN more ELSE sc[j]
    BY <1>0, <1>3, <2>1, <2>2, ReplaceType
  <2>4. \A k \in 1..m - 1 : k \in 1..Len(sc) /\ k # m
    BY <1>0
  <2> QED
    BY <1>0, <1>1, <2>3, <2>4 DEF ScopeList
<1> HIDE DEF more
<1>5. AllCallable(e)
  <2>1. ASSUME NEW k \in 1..Len(e) PROVE Callable(e[k])
    <3>1. CASE k = m
      BY <1>3, <1>4, <3>1
    <3>2. CASE k # m
      <4>1. k \in 1..m - 1 /\ k \in 1..Len(sc)
        BY <1>0, <1>4, <3>2
      <4> QED
        BY <1>4, <4>1 DEF AllCallable
    <3> QED
      BY <3>1, <3>2
  <2> QED
    BY <2>1 DEF AllCallable
<1>6. /\ Flat(e) \in [0..m -> Stacks] /\ Stacked(Flat(e), e)
      /\ Flat(sc) \in [0..m -> Stacks] /\ Stacked(Flat(sc), sc)
  BY <1>0, <1>4, <1>5, FlatIs
<1>7. Flat(e)[m - 1] = Flat(sc)[m - 1]
  <2> DEFINE l == m - 1
  <2>1. /\ l \in Nat /\ l <= Len(e) /\ l <= Len(sc)
        /\ \A k \in 1..l : e[k] = sc[k]
    BY <1>0, <1>4
  <2> HIDE DEF l
  <2>2. Flat(e)[l] = Flat(sc)[l]
    BY <1>4, <1>5, <2>1, FlatSame
  <2> QED
    BY <2>2 DEF l
<1>8. Flat(e)[m] = Flat(sc)[m - 1] \o Append(Ids(scope), id)
  <2>1. m \in 1..Len(e)
    BY <1>1, <1>4
  <2>2. Flat(e)[m] = Flat(e)[m - 1] \o Ids(e[m])
    BY <1>6, <2>1 DEF Stacked
  <2> QED
    BY <1>3, <1>4, <1>7, <2>2
<1>9. Flat(sc)[m] = Flat(sc)[m - 1] \o Ids(scope)
  BY <1>0, <1>1, <1>6 DEF Stacked, scope
<1>10. Flat(sc)[m - 1] \o Append(Ids(scope), id) = Append(Flat(sc)[m - 1] \o Ids(scope), id)
  <2> DEFINE a == Flat(sc)[m - 1]
             b == Ids(scope)
             S == Nat \ {0}
  <2>1. a \in Seq(S) /\ b \in Seq(S) /\ id \in S
    BY <1>1, <1>3, <1>6 DEF Stacks
  <2> HIDE DEF a, b, S
  <2>2. a \o Append(b, id) = Append(a \o b, id)
    BY <2>1
  <2> QED
    BY <2>2 DEF a, b
<1> QED
  BY <1>0, <1>4, <1>5, <1>8, <1>9, <1>10 DEF e

\* The scopes of the function being generated change.
WithTop(ds, e) == [ds EXCEPT ![Len(ds)] = e]

LEMMA TopEntry ==
  ASSUME NEW ds \in DeferStacks, AllDefers(ds), Len(ds) \in Nat \ {0},
         NEW e \in ScopeList, AllCallable(e)
  PROVE  /\ WithTop(ds, e) \in DeferStacks /\ AllDefers(WithTop(ds, e))
         /\ Len(WithTop(ds, e)) = Len(ds) /\ WithTop(ds, e)[Len(ds)] = e
         /\ \A k \in 1..Len(ds) - 1 : WithTop(ds, e)[k] = ds[k]
<1> DEFINE n  == Len(ds)
           es == WithTop(ds, e)
<1>0. n \in Nat \ {0} /\ n = Len(ds) /\ es = [ds EXCEPT ![n] = e]
  BY DEF WithTop
<1> HIDE DEF n, es
<1>1. ds \in Seq(ScopeList)
  BY DEF DeferStacks, ScopeList
<1>2. /\ es \in Seq(ScopeList) /\ Len(es) = Len(ds)
      /\ \A j \in 1..Len(ds) : es[j] = IF j = n THEN e ELSE ds[j]
  BY <1>0, <1>1, ReplaceType
<1>3. es \in DeferStacks
  BY <1>2 DEF DeferStacks, ScopeList
<1>4. n \in 1..n /\ \A k \in 1..n - 1 : k \in 1..Len(ds) /\ k # n
  BY <1>0
<1>5. AllDefers(es)
  BY <1>0, <1>2 DEF AllDefers
<1> QED
  BY <1>0, <1>2, <1>3, <1>4, <1>5 DEF n, es

LEMMA DeferFlow ==
  ASSUME FlowInv, DeferCallees \subseteq {"function"}, "defer" \notin Unbraced,
         NEW kind \in DeferCallees, Defer(kind)
  PROVE  FlowKept
<1> DEFINE ds == defer_calls_stack
           n  == Len(ds)
           sc == Peek(ds)
           m  == Len(sc)
           id == visited + 1
           e  == Deferring(sc, id)
           s  == <<Eval(id)>>
           r  == Append(Inside(top, ds), id)
           es == defer_calls_stack'
<1>0. ClosedInv
  BY DEF FlowInv
<1>1. /\ frames # <<>> /\ top.open /\ ~top.returning /\ top.kind = "block"
      /\ blocks' = Emit(blocks, insert, s) /\ insert' = insert
      /\ es = WithTop(ds, e)
  <2>1. kind = "function"
    OBVIOUS
  <2>2. ~top.returning
    BY <1>0, DeferFrames
  <2> QED
    BY <2>1, <2>2 DEF Defer, Visits, WithTop, Deferring
<1>2. PICK E : Flows(E, frames, blocks, insert, ds)
  BY DEF FlowInv
<1>3. /\ AfterAll(E[insert], blocks[insert].insts) = Inside(top, ds) /\ ~Jumped
      /\ Inside(top, ds) \in Stacks /\ AllDefers(ds)
      /\ \A i \in 1..Len(frames) : Willing(frames[i])
  <2>1. \A i \in 1..Len(frames) : Willing(frames[i])
    BY <1>2 DEF Flows
  <2> QED
    BY <1>0, <1>1, <1>2, <2>1, OpenFlow
<1>4. /\ sc \in ScopeList /\ AllCallable(sc) /\ m \in Nat
      /\ Inside(top, ds) = Flat(sc)[m] /\ m = ScopesIn(top)
  BY <1>0, <1>1, <1>3, InsideTop
<1>5. /\ ds \in DeferStacks /\ n \in Nat \ {0} /\ n = DepthIn(top) /\ top \in FrameType
      /\ sc = ds[n] /\ visited \in Nat
  BY <1>0, <1>1, TopFacts DEF TypeInv, TypeOK
<1>6. top.scopes \in Nat /\ m = top.scopes + 1 /\ n = top.depth /\ m \in Nat \ {0}
  BY <1>1, <1>4, <1>5 DEF ScopesIn, DepthIn, Callables, FrameType
<1>7. /\ id \in Nat \ {0} /\ id \in Nat
      /\ Len(sc) \in Nat \ {0} /\ Len(ds) \in Nat \ {0}
  BY <1>5, <1>6
<1> HIDE DEF ds, sc, id, es
<1>8. /\ e \in ScopeList /\ AllCallable(e) /\ Len(e) = m
      /\ \A k \in 1..m - 1 : e[k] = sc[k]
      /\ Flat(e)[m] = Append(Flat(sc)[m], id)
  BY <1>4, <1>7, ScopeMore
<1> HIDE DEF e
<1>9. /\ es \in DeferStacks /\ AllDefers(es) /\ Len(es) = n /\ es[n] = e
      /\ \A k \in 1..n - 1 : es[k] = ds[k]
  BY <1>1, <1>3, <1>5, <1>7, <1>8, TopEntry
<1> HIDE DEF n, m
<1>10. Inside(top, es) = r
  BY <1>4, <1>5, <1>8, <1>9 DEF Inside
<1>11. SameAround(top, ds, es)
  <2>1. n \in 1..Len(ds) /\ n \in 1..Len(es)
    BY <1>5, <1>9 DEF n
  <2>2. m - 1 = top.scopes /\ top.scopes <= m
    BY <1>6
  <2>3. top.scopes <= Len(ds[n]) /\ top.scopes <= Len(es[n])
    BY <1>5, <1>8, <1>9, <2>2 DEF m
  <2>4. \A k \in 1..top.scopes : es[n][k] = ds[n][k]
    BY <1>5, <1>8, <1>9, <2>2
  <2> QED
    BY <1>6, <1>9, <2>1, <2>3, <2>4 DEF SameAround
<1>12. /\ s \in Seq(Instruction) /\ Goes(s) = {} /\ AfterAll(Inside(top, ds), s) = r
       /\ r \in Stacks
  <2>1. AfterAll(Inside(top, ds), s) = r
    BY <1>3, AfterOne, AfterFacts
  <2>2. Goes(s) = {}
    BY <1>7, GoesOne, InstructionFacts
  <2>3. s \in Seq(Instruction)
    BY <1>7, InstructionTypes
  <2>4. r \in Stacks
    <3> DEFINE S == Nat \ {0}
               a == Inside(top, ds)
    <3>1. a \in Seq(S) /\ id \in S
      BY <1>3, <1>7 DEF Stacks
    <3> HIDE DEF S, a
    <3>2. Append(a, id) \in Seq(S)
      BY <3>1
    <3> QED
      BY <3>2 DEF Stacks, S, a
  <2> QED
    BY <2>1, <2>2, <2>3, <2>4
<1> HIDE DEF s, r
<1>13. Leads(E, s, r)
  BY <1>3, <1>12 DEF Leads
<1>14. /\ frames' \in Seq(FrameType) /\ Len(frames') = Len(frames)
       /\ \A i \in 1..Len(frames) : SameVisit(frames[i], frames'[i])
       /\ \A i \in 1..Len(frames) : frames'[i].returning = frames[i].returning
  <2>1. /\ frames' \in Seq(FrameType) /\ Len(frames') = Len(frames)
        /\ \A i \in 1..Len(frames) :
             /\ SameBlocks(frames[i], frames'[i])
             /\ frames'[i].depth = frames[i].depth /\ frames'[i].scopes = frames[i].scopes
             /\ frames'[i].should_execute_defers = frames[i].should_execute_defers
             /\ frames'[i].open = IF i = Len(frames) THEN top.kind = "block"
                                  ELSE frames[i].open
             /\ frames'[i].returning = frames[i].returning
    BY <1>0, DeferFrames
  <2>2. top = frames[Len(frames)]
    BY <1>0, <1>1, TopFacts
  <2>3. ASSUME NEW i \in 1..Len(frames) PROVE SameVisit(frames[i], frames'[i])
    <3>1. Willing(frames[i])
      BY <1>3
    <3>2. Willing(frames'[i])
      BY <1>1, <2>1, <2>2, <3>1 DEF Willing, SameBlocks
    <3> QED
      BY <2>1, <3>2 DEF SameVisit
  <2> QED
    BY <2>1, <2>3
<1>15. Flows(E, frames', Emit(blocks, insert, s), insert, es)
  <2> DEFINE gs == frames'
  <2>1. /\ gs \in Seq(FrameType) /\ Len(gs) = Len(frames)
        /\ \A i \in 1..Len(frames) : SameVisit(frames[i], gs[i])
        /\ \A i \in 1..Len(frames) : gs[i].returning = frames[i].returning
    BY <1>14
  <2>2. Len(frames) \in Nat \ {0} /\ top = frames[Len(frames)]
    BY <1>0, <1>1, TopFacts
  <2> HIDE DEF gs
  <2>3. r = Remains(Peek(gs), es)
    <3>1. Peek(gs) = gs[Len(frames)] /\ Len(frames) \in 1..Len(frames)
      BY <2>1, <2>2 DEF Peek
    <3>2. SameVisit(top, Peek(gs)) /\ ~Peek(gs).returning
      BY <1>1, <2>1, <2>2, <3>1
    <3>3. Inside(Peek(gs), es) = Inside(top, es)
      BY <3>2, SameInside
    <3> QED
      BY <1>10, <3>2, <3>3 DEF Remains
  <2>4. \A i \in 1..Len(frames) - 1 : gs[i].returning = frames[i].returning
    BY <2>1, <2>2
  <2>5. Flows(E, gs, Emit(blocks, insert, s), insert, es)
    BY <1>0, <1>1, <1>2, <1>9, <1>11, <1>13, <2>1, <2>3, <2>4, FlowStay DEF ds
  <2> QED
    BY <2>5 DEF gs
<1> QED
  BY <1>1, <1>15 DEF FlowKept, es

-----------------------------------------------------------------------------
(* Visits begin.                                                           *)

LEMMA PushFlow ==
  ASSUME ClosedInv, frames # <<>>, top.open,
         NEW E, Flows(E, frames, blocks, insert, defer_calls_stack),
         NEW f \in FrameType, Willing(f), ~f.returning,
         NEW es \in DeferStacks, AllDefers(es),
         top.kind # "function" => SameAround(top, defer_calls_stack, es),
         NEW F \in [Nat -> Stacks], \A b \in 1..Len(blocks) : F[b] = E[b],
         NEW cs, FlowOK(F, cs),
         \A b \in 1..Len(blocks) : b # insert => cs[b] = blocks[b],
         Waits(f, top.returning, F, cs, es),
         NEW ins, AfterAll(F[ins], cs[ins].insts) = Inside(f, es)
  PROVE  Flows(F, Append(Visiting, f), cs, ins, es)
<1> DEFINE g  == Opened(top, Resumes(top))
           vs == Visiting
           gs == Append(vs, f)
<1>1. /\ AllDefers(defer_calls_stack) /\ Willing(top) /\ E \in [Nat -> Stacks]
      /\ \A i \in 1..Len(frames) :
           Waits(frames[i], InReturn(frames, i), E, blocks, defer_calls_stack)
  <2>1. \A i \in 1..Len(frames) :
          Waits(frames[i], InReturn(frames, i), E, blocks, defer_calls_stack)
    BY DEF Flows
  <2> QED
    BY <2>1, OpenFlow
<1>2. g \in FrameType /\ SameVisit(top, g) /\ g.returning = top.returning
  <2>1. top \in FrameType
    BY TopFacts
  <2>2. Resumes(top) \in BOOLEAN
    BY <2>1 DEF Resumes, FrameType
  <2> QED
    BY <1>1, <2>1, <2>2, SameOpened, OpenedFacts
<1>3. /\ frames \in Seq(FrameType) /\ vs = Retop(frames, g)
      /\ top.returning \in BOOLEAN
  <2>1. frames \in Seq(FrameType) /\ top \in FrameType
    BY TopFacts
  <2> QED
    BY <2>1, VisitingRetop DEF FrameType
<1> HIDE DEF g, vs
<1>4. /\ vs \in Seq(FrameType) /\ Len(vs) = Len(frames) /\ Len(frames) \in Nat \ {0}
      /\ \A i \in 1..Len(frames) : SameVisit(frames[i], vs[i])
      /\ \A i \in 1..Len(frames) - 1 : vs[i] = frames[i]
      /\ vs[Len(vs)] = g
  <2>1. Len(frames) \in Nat \ {0}
    BY TopFacts
  <2> QED
    BY <1>2, <1>3, <2>1, SameRetop DEF Peek
<1>5. ASSUME NEW i \in 1..Len(vs)
      PROVE  Waits(vs[i], InReturn(frames, i), F, cs, es) /\ Willing(vs[i])
  <2>1. i \in 1..Len(frames) /\ vs[i] \in FrameType /\ SameVisit(frames[i], vs[i])
    BY <1>4
  <2>2. \A b \in Holds(frames[i]) : cs[b] = blocks[b]
    <3>1. Fits(frames, blocks) /\ Built(frames, blocks, insert)
      BY DEF ClosedInv, Built
    <3>2. Holds(frames[i]) \subseteq 1..Len(blocks)
      BY <2>1, <3>1 DEF Fits, FrameFits
    <3>3. insert \notin Held(frames) /\ Holds(frames[i]) \subseteq Held(frames)
      BY <1>3, <2>1, <3>1, HeldFacts DEF Built, Current
    <3> QED
      BY <3>2, <3>3
  <2>3. Waits(vs[i], InReturn(frames, i), F, cs, es)
    BY <1>1, <2>1, <2>2, WaitsStay DEF SameVisit
  <2> QED
    BY <2>1, <2>3 DEF SameVisit
<1>6. /\ gs \in Seq(FrameType) /\ Len(gs) = Len(vs) + 1 /\ gs[Len(vs) + 1] = f
      /\ \A i \in 1..Len(vs) : gs[i] = vs[i]
  BY <1>4
<1> HIDE DEF gs
<1>7. ASSUME NEW i \in 1..Len(gs)
      PROVE  Waits(gs[i], InReturn(gs, i), F, cs, es) /\ Willing(gs[i])
  <2>1. CASE i \in 1..Len(vs)
    <3>1. i > 1 => i - 1 \in 1..Len(frames) - 1 /\ i - 1 \in 1..Len(vs)
      BY <1>4, <2>1
    <3>2. i > 1 => gs[i - 1] = frames[i - 1]
      BY <1>4, <1>6, <3>1
    <3>3. InReturn(gs, i) = InReturn(frames, i)
      BY <3>2 DEF InReturn
    <3> QED
      BY <1>5, <1>6, <2>1, <3>3
  <2>2. CASE i = Len(vs) + 1
    <3>1. i > 1 /\ i - 1 = Len(vs) /\ Len(vs) \in 1..Len(vs)
      BY <1>4, <2>2
    <3>2. gs[i - 1].returning = top.returning
      BY <1>2, <1>4, <1>6, <3>1
    <3>3. InReturn(gs, i) = top.returning
      BY <1>3, <3>1, <3>2 DEF InReturn
    <3> QED
      BY <1>6, <2>2, <3>3
  <2> QED
    BY <1>4, <1>6, <2>1, <2>2
<1>8. Peek(gs) = f
  BY <1>6 DEF Peek
<1>9. Remains(Peek(gs), es) = Inside(f, es)
  BY <1>8 DEF Remains
<1> QED
  BY <1>7, <1>9 DEF Flows, gs, vs

\* A block begins: its scope is empty.
LEMMA ScopeNew ==
  ASSUME NEW sc \in ScopeList, AllCallable(sc)
  PROVE  LET e == Append(sc, <<>>)
         IN  /\ e \in ScopeList /\ AllCallable(e) /\ Len(e) = Len(sc) + 1
             /\ \A k \in 1..Len(sc) : e[k] = sc[k]
             /\ Flat(e)[Len(sc) + 1] = Flat(sc)[Len(sc)]
<1> DEFINE e == Append(sc, <<>>)
           m == Len(sc)
<1>1. /\ e \in ScopeList /\ Len(e) = m + 1 /\ m \in Nat /\ e[m + 1] = <<>>
      /\ \A k \in 1..m : e[k] = sc[k]
  <2>1. <<>> \in Seq(DeferCall)
    OBVIOUS
  <2> DEFINE S == Seq(DeferCall)
  <2>2. sc \in Seq(S) /\ <<>> \in S
    BY <2>1 DEF ScopeList
  <2> HIDE DEF S
  <2>3. e \in Seq(S) /\ Len(e) = m + 1 /\ m \in Nat /\ e[m + 1] = <<>>
        /\ \A k \in 1..m : e[k] = sc[k]
    BY <2>2
  <2> QED
    BY <2>3 DEF S, ScopeList
<1> HIDE DEF e
<1>2. AllCallable(e)
  <2>1. ASSUME NEW k \in 1..Len(e) PROVE Callable(e[k])
    <3>1. CASE k = m + 1
      BY <1>1, <3>1 DEF Callable
    <3>2. CASE k \in 1..m
      BY <1>1, <3>2 DEF AllCallable
    <3> QED
      BY <1>1, <3>1, <3>2
  <2> QED
    BY <2>1 DEF AllCallable
<1>3. Flat(e)[m + 1] = Flat(e)[m]
  <2> DEFINE k == m + 1
  <2>1. k \in 1..Len(e) /\ e[k] = <<>> /\ k - 1 = m
    BY <1>1
  <2> HIDE DEF k
  <2>2. Flat(e)[k] = Flat(e)[k - 1]
    BY <1>1, <1>2, <2>1, EmptyScope
  <2> QED
    BY <2>1, <2>2 DEF k
<1>4. Flat(e)[m] = Flat(sc)[m]
  <2>1. m <= Len(e) /\ m <= Len(sc) /\ \A k \in 1..m : e[k] = sc[k]
    BY <1>1
  <2> HIDE DEF m
  <2> QED
    BY <1>1, <1>2, <2>1, FlatSame
<1> QED
  BY <1>1, <1>2, <1>3, <1>4 DEF e

\* Where a scope is added, the visit around it keeps those it had.
LEMMA ScopeAdded ==
  ASSUME ClosedInv, frames # <<>>, AllDefers(defer_calls_stack)
  PROVE  LET ds == defer_calls_stack
             es == WithTop(ds, Append(Peek(ds), <<>>))
         IN  /\ es \in DeferStacks /\ AllDefers(es) /\ Len(es) = Len(ds)
             /\ es[Len(ds)] = Append(Peek(ds), <<>>)
             /\ top.kind # "function" => SameAround(top, ds, es)
             /\ Flat(es[Len(ds)])[Len(Peek(ds)) + 1] = Inside(top, ds)
<1> DEFINE ds == defer_calls_stack
           n  == Len(ds)
           sc == Peek(ds)
           e  == Append(sc, <<>>)
           es == WithTop(ds, e)
<1>1. /\ sc \in ScopeList /\ AllCallable(sc) /\ Len(sc) \in Nat
      /\ Inside(top, ds) = Flat(sc)[Len(sc)]
  BY InsideTop
<1>2. /\ ds \in DeferStacks /\ n \in Nat \ {0} /\ sc = ds[n]
  BY TopFacts
<1>3. /\ e \in ScopeList /\ AllCallable(e) /\ Len(e) = Len(sc) + 1
      /\ \A k \in 1..Len(sc) : e[k] = sc[k]
      /\ Flat(e)[Len(sc) + 1] = Flat(sc)[Len(sc)]
  BY <1>1, ScopeNew
<1> HIDE DEF e, sc
<1>4. /\ es \in DeferStacks /\ AllDefers(es) /\ Len(es) = Len(ds) /\ es[n] = e
      /\ \A k \in 1..n - 1 : es[k] = ds[k]
  BY <1>2, <1>3, TopEntry
<1> HIDE DEF es
<1>5. ASSUME top.kind # "function" PROVE SameAround(top, ds, es)
  <2>1. /\ top.depth \in 1..n /\ top.scopes \in Nat
        /\ top.scopes <= Len(ds[top.depth])
    BY <1>5, TopScopes
  <2>2. \A d \in 1..top.depth - 1 : es[d] = ds[d]
    BY <1>2, <1>4, <2>1
  <2>3. CASE top.depth = n
    <3>1. top.scopes <= Len(es[n]) /\ \A s \in 1..top.scopes : es[n][s] = ds[n][s]
      BY <1>1, <1>2, <1>3, <1>4, <2>1, <2>3
    <3> QED
      BY <1>4, <2>1, <2>2, <2>3, <3>1 DEF SameAround
  <2>4. CASE top.depth # n
    <3>1. es[top.depth] = ds[top.depth]
      BY <1>2, <1>4, <2>1, <2>4
    <3> QED
      BY <1>4, <2>1, <2>2, <3>1 DEF SameAround
  <2> QED
    BY <2>3, <2>4
<1> QED
  BY <1>1, <1>3, <1>4, <1>5 DEF es, e, sc

LEMMA EnterBlockFlow ==
  ASSUME FlowInv, EnterBlock
  PROVE  FlowKept
<1> DEFINE ds == defer_calls_stack
           f  == Frame("block")
           es == WithTop(ds, Append(Peek(ds), <<>>))
<1>0. ClosedInv
  BY DEF FlowInv
<1>1. /\ frames # <<>> /\ top.open /\ ~top.returning /\ frames' = Append(Visiting, f)
      /\ defer_calls_stack' = es
      /\ blocks' = blocks /\ insert' = insert
  BY DEF EnterBlock, WithTop, Peek
<1>2. PICK E : Flows(E, frames, blocks, insert, ds)
  BY DEF FlowInv
<1>3. /\ AfterAll(E[insert], blocks[insert].insts) = Inside(top, ds)
      /\ FlowOK(E, blocks) /\ AllDefers(ds) /\ E \in [Nat -> Stacks]
  BY <1>0, <1>1, <1>2, OpenFlow
<1>4. /\ f \in FrameType /\ f.kind = "block" /\ f.depth = Len(ds)
      /\ f.scopes = Len(Peek(ds)) /\ f.should_execute_defers /\ ~f.returning
  <2>1. f.should_execute_defers
    BY DEF Frame
  <2> QED
    BY <1>0, <1>1, <2>1, MadeFrame
<1>5. /\ es \in DeferStacks /\ AllDefers(es)
      /\ top.kind # "function" => SameAround(top, ds, es)
      /\ Flat(es[Len(ds)])[Len(Peek(ds)) + 1] = Inside(top, ds)
  BY <1>0, <1>1, <1>3, ScopeAdded
<1>6. Willing(f) /\ Waits(f, top.returning, E, blocks, es)
  BY <1>4 DEF Willing, Waits, Constructs, Selects, Loops, Inner
<1>7. Inside(f, es) = Inside(top, ds)
  BY <1>4, <1>5 DEF Inside, DepthIn, ScopesIn, Callables
<1> HIDE DEF es, f
<1>8. Flows(E, Append(Visiting, f), blocks, insert, es)
  BY <1>0, <1>1, <1>2, <1>3, <1>4, <1>5, <1>6, <1>7, PushFlow DEF ds
<1> QED
  BY <1>1, <1>8 DEF FlowKept

\* The code of a construct, which is the list s and the blocks new, runs no deferred
\* call: x is pending wherever it is, if it is where the construct begins.
Paths(x, f, m, new, s, k) ==
  /\ k \in 1..Len(new) /\ AfterAll(x, s) = x /\ Goes(s) \subseteq m + 1..m + Len(new)
  /\ f.end \in m + 1..m + Len(new)
  /\ f.kind \in Selects /\ f.left > 0 => f.next \in m + 1..m + Len(new)
  /\ f.kind \in Loops => f.cond \in m + 1..m + Len(new)
  /\ \A i \in 1..Len(new) :
       /\ AfterAll(x, new[i].insts) = x /\ new[i].fn \in {0, f.fn}
       /\ Goes(new[i].insts) \subseteq m + 1..m + Len(new)

LEMMA ConstructFlow ==
  ASSUME FlowInv, frames # <<>>, top.open, ~top.returning,
         NEW f \in FrameType, f.kind \in Constructs, ~f.returning,
         f.depth = Len(defer_calls_stack), f.scopes = Len(Peek(defer_calls_stack)),
         f.fn = CurrentFunction,
         NEW new \in Seq(Block), NEW s \in Seq(Instruction), NEW k,
         Paths(Inside(top, defer_calls_stack), f, Len(blocks), new, s, k),
         frames' = Append(Visiting, f), blocks' = Emit(blocks, insert, s) \o new,
         insert' = Len(blocks) + k, defer_calls_stack' = defer_calls_stack
  PROVE  FlowKept
<1> DEFINE ds == defer_calls_stack
           m  == Len(blocks)
           x  == Inside(top, ds)
           bs == blocks \o new
           cs == Emit(bs, insert, s)
<1>0. ClosedInv
  BY DEF FlowInv
<1>1. PICK E : Flows(E, frames, blocks, insert, ds)
  BY DEF FlowInv
<1> DEFINE F == Grown(E, m, x)
<1>2. /\ AfterAll(E[insert], blocks[insert].insts) = x /\ x \in Stacks
      /\ FlowOK(E, blocks) /\ AllDefers(ds) /\ E \in [Nat -> Stacks]
      /\ ~HasJump(blocks[insert].insts)
  BY <1>0, <1>1, OpenFlow, OpenClear
<1>3. /\ blocks \in Seq(Block) /\ m \in Nat /\ insert \in 1..m
      /\ f.fn = blocks[insert].fn /\ ds \in DeferStacks
  BY <1>0, TopFacts
<1>4. f.fn \in 0..m /\ f.fn \in Nat
  <2>1. blocks[insert].fn \in 0..insert
    BY <1>2, <1>3 DEF FlowOK
  <2> QED
    BY <1>3, <2>1
<1>5. /\ Len(new) \in Nat /\ bs \in Seq(Block) /\ Len(bs) = m + Len(new)
      /\ \A b \in 1..m : bs[b] = blocks[b]
      /\ \A i \in 1..Len(new) : bs[m + i] = new[i]
  BY <1>3, ConcatFields
<1>6. blocks' = cs
  BY <1>3, EmitConcat
<1> HIDE DEF bs, x
<1>7. /\ k \in 1..Len(new) /\ AfterAll(x, s) = x
      /\ Goes(s) \subseteq m + 1..m + Len(new) /\ f.end \in m + 1..m + Len(new)
      /\ f.kind \in Selects /\ f.left > 0 => f.next \in m + 1..m + Len(new)
      /\ f.kind \in Loops => f.cond \in m + 1..m + Len(new)
      /\ \A i \in 1..Len(new) :
           /\ AfterAll(x, new[i].insts) = x /\ new[i].fn \in {0, f.fn}
           /\ Goes(new[i].insts) \subseteq m + 1..m + Len(new)
  BY DEF Paths, x
<1>8. /\ F \in [Nat -> Stacks] /\ \A b \in 1..m : F[b] = E[b]
      /\ \A b \in Nat : b > m => F[b] = x
  BY <1>2, <1>3, GrownFacts
<1>9. FlowOK(F, bs)
  <2>1. ASSUME NEW i \in 1..Len(new)
        PROVE  /\ AfterAll(x, new[i].insts) = x
               /\ new[i].fn \in 0..m + i
               /\ new[i].fn = m + i => x = <<>>
               /\ \A t \in Goes(new[i].insts) :
                    t \in 1..m + Len(new) /\ (t \in 1..m => E[t] = x)
    <3>1. i \in Nat /\ i >= 1
      BY <1>5
    <3>2. new[i].fn \in {0, f.fn}
      BY <1>7
    <3> DEFINE n == new[i].fn
    <3> HIDE DEF n
    <3>3. n \in 0..m
      BY <1>3, <1>4, <3>2 DEF n
    <3>4. n \in 0..m + i /\ n # m + i
      BY <1>3, <3>1, <3>3
    <3>5. \A t \in m + 1..m + Len(new) : t \in 1..m + Len(new) /\ t \notin 1..m
      BY <1>3, <1>5
    <3>6. \A t \in Goes(new[i].insts) : t \in 1..m + Len(new) /\ t \notin 1..m
      BY <1>7, <3>5
    <3> QED
      BY <1>7, <3>4, <3>6 DEF n
  <2> QED
    BY <1>2, <1>3, <2>1, FlowNew DEF bs
<1>10. F[insert] = E[insert] /\ bs[insert] = blocks[insert] /\ insert \in 1..Len(bs)
  BY <1>3, <1>5, <1>8
<1> HIDE DEF F
<1>11. ASSUME NEW t \in m + 1..m + Len(new) PROVE t \in 1..Len(bs) /\ F[t] = x
  <2>1. t \in Nat /\ t > m /\ t \in 1..Len(bs)
    BY <1>3, <1>5
  <2> QED
    BY <1>8, <2>1
<1>12. FlowOK(F, cs)
  <2>1. x = AfterAll(AfterAll(F[insert], bs[insert].insts), s)
    BY <1>2, <1>7, <1>10
  <2>2. ~HasJump(bs[insert].insts)
    BY <1>2, <1>10
  <2>3. \A t \in Goes(s) : t \in 1..Len(bs) /\ F[t] = x
    BY <1>7, <1>11
  <2> QED
    BY <1>2, <1>5, <1>9, <1>10, <2>1, <2>2, <2>3, FlowEmit
<1>13. \A b \in 1..Len(bs) : b # insert => cs[b] = bs[b]
  BY <1>5, <1>10, EmitFields
<1> HIDE DEF cs
<1>14. \A b \in 1..m : b # insert => cs[b] = blocks[b]
  <2>1. \A b \in 1..m : b \in 1..Len(bs)
    BY <1>3, <1>5
  <2> QED
    BY <1>5, <1>13, <2>1
<1>15. /\ Inside(f, ds) = x /\ Outside(f, ds) = x
  <2>1. /\ x = Flat(Peek(ds))[Len(Peek(ds))] /\ Peek(ds) = ds[Len(ds)]
    BY <1>0, <1>2, InsideTop, TopFacts DEF x
  <2>2. f.kind \notin Callables /\ f.kind # "block"
    BY DEF Constructs, Loops, Selects, Callables
  <2> QED
    BY <2>1, <2>2 DEF Inside, Outside, DepthIn, ScopesIn
<1>16. Willing(f) /\ Waits(f, top.returning, F, cs, ds)
  <2>1. f.kind # "block" /\ f.kind \notin Inner
    BY DEF Constructs, Loops, Selects, Inner
  <2>2. f.fn < f.end
    BY <1>3, <1>4, <1>7
  <2> QED
    BY <1>7, <1>11, <1>15, <2>1, <2>2 DEF Willing, Waits
<1> DEFINE ins == m + k
<1>17. AfterAll(F[ins], cs[ins].insts) = Inside(f, ds)
  <2>1. ins \in m + 1..m + Len(new) /\ ins # insert
    BY <1>3, <1>5, <1>7
  <2>2. F[ins] = x /\ cs[ins] = new[k]
    BY <1>5, <1>7, <1>11, <1>13, <2>1
  <2> QED
    BY <1>7, <1>15, <2>2
<1>18. top.kind # "function" => SameAround(top, ds, ds)
  BY <1>0, AroundSelf
<1> HIDE DEF ins
<1>19. Flows(F, Append(Visiting, f), cs, ins, ds)
  BY <1>0, <1>1, <1>2, <1>3, <1>8, <1>12, <1>14, <1>16, <1>17, <1>18, PushFlow
<1> QED
  BY <1>6, <1>19 DEF FlowKept, ins

\* The test before a branch or a round.
LEMMA TestRuns ==
  ASSUME NEW x, NEW t \in Nat, NEW f \in Nat
  PROVE  /\ AfterAll(x, <<Work, CondBr(t, f)>>) = x
         /\ Goes(<<Work, CondBr(t, f)>>) = {t, f}
         /\ <<Work, CondBr(t, f)>> \in Seq(Instruction)
<1> DEFINE a == <<Work>>
           b == <<CondBr(t, f)>>
<1>1. a \in Seq(Instruction) /\ b \in Seq(Instruction)
  BY InstructionTypes
<1>2. AfterAll(x, a) = x /\ AfterAll(x, b) = x
  BY AfterOne, AfterFacts
<1>3. Goes(a) = {} /\ Goes(b) = {t, f}
  BY GoesOne, InstructionFacts
<1>4. a \o b = <<Work, CondBr(t, f)>>
  <2> DEFINE c == CondBr(t, f)
             w == Work
  <2>0. c \in Instruction /\ w \in Instruction
    BY InstructionTypes
  <2> DEFINE S == Instruction
             u == <<w>> \o <<c>>
             v == <<w, c>>
  <2> HIDE DEF c, w, S
  <2>1. <<w>> \in Seq(S) /\ <<c>> \in Seq(S)
    BY <2>0 DEF S
  <2>2. u \in Seq(S) /\ Len(u) = 2 /\ u[1] = w /\ u[2] = c
    BY <2>1
  <2>3. v \in Seq(S) /\ Len(v) = 2 /\ v[1] = w /\ v[2] = c
    BY <2>0 DEF S
  <2>4. \A i \in 1..Len(u) : i \in {1, 2}
    BY <2>2
  <2> HIDE DEF u, v
  <2>5. \A i \in 1..Len(u) : u[i] = v[i]
    BY <2>2, <2>3, <2>4
  <2>6. u = v
    BY <2>2, <2>3, <2>5, SeqEqual
  <2> QED
    BY <2>6 DEF c, w, u, v
<1> HIDE DEF a, b
<1>5. AfterAll(x, a \o b) = x
  BY <1>1, <1>2, AfterConcat
<1>6. Goes(a \o b) = {t, f}
  BY <1>1, <1>3, GoesConcat
<1>7. a \o b \in Seq(Instruction)
  BY <1>1
<1> QED
  BY <1>4, <1>5, <1>6, <1>7

\* A jump to one block.
LEMMA BranchRuns ==
  ASSUME NEW x, NEW b \in Nat
  PROVE  /\ AfterAll(x, <<Br(b)>>) = x /\ Goes(<<Br(b)>>) = {b}
         /\ <<Br(b)>> \in Seq(Instruction) /\ HasJump(<<Br(b)>>)
<1>1. AfterAll(x, <<Br(b)>>) = x
  BY AfterOne, AfterFacts
<1>2. Goes(<<Br(b)>>) = {b}
  BY GoesOne, InstructionFacts
<1> QED
  BY <1>1, <1>2, InstructionTypes, InstructionFacts, OneClean

\* An empty block.
LEMMA EmptyRuns ==
  ASSUME NEW x, NEW f
  PROVE  /\ AfterAll(x, NewBlock(f).insts) = x /\ Goes(NewBlock(f).insts) = {}
         /\ NewBlock(f).fn = f
<1>1. NewBlock(f).insts = <<>> /\ NewBlock(f).fn = f
  BY DEF NewBlock
<1>2. Goes(<<>>) = {}
  BY NoneClean, GoesNowhere
<1> QED
  BY <1>1, <1>2, AfterNone

LEMMA EnterSelectFlow ==
  ASSUME FlowInv, NEW s \in Selects, NEW n \in Branches, EnterSelect(s, n)
  PROVE  FlowKept
<1> DEFINE m     == Len(blocks)
           fn    == CurrentFunction
           false == IF n > 1 THEN m + 4 ELSE m + 2
           test  == [NewBlock(fn) EXCEPT !.insts = <<Work, CondBr(m + 3, false)>>]
           first == <<test, NewBlock(0), NewBlock(fn)>>
           more  == IF n > 1 THEN <<NewBlock(fn)>> ELSE <<>>
           new   == first \o more
           br    == <<Br(m + 1)>>
           left  == n - 1
           f     == [Frame(s) EXCEPT !.fn = fn, !.end = m + 2, !.next = false,
                                     !.left = left]
           vs    == Visiting
           x     == Inside(top, defer_calls_stack)
<1>0. ClosedInv
  BY DEF FlowInv
<1>1. /\ frames # <<>> /\ top.open /\ ~top.returning
      /\ blocks' = Emit(blocks, insert, br) \o first \o more
      /\ insert' = m + 3 /\ frames' = Append(vs, f)
      /\ defer_calls_stack' = defer_calls_stack
  <2>1. s \notin Inner
    BY DEF Selects, Inner
  <2>2. /\ frames # <<>> /\ top.open /\ ~top.returning
    BY <2>1, StatementVisit DEF EnterSelect
  <2> QED
    BY <2>2 DEF EnterSelect, Others
<1>2. /\ blocks \in Seq(Block) /\ m \in Nat /\ insert \in 1..m
      /\ fn = blocks[insert].fn /\ fn \in Nat \ {0}
  BY <1>0, <1>1, TopFacts
<1>3. n \in Nat \ {0} /\ left \in Nat /\ (left > 0 <=> n > 1)
  <2>1. n \in Nat \ {0}
    BY BoundsAssumption
  <2> QED
    BY <2>1
<1> HIDE DEF fn, left
<1>4. /\ new \in Seq(Block) /\ Len(new) = (IF n > 1 THEN 4 ELSE 3)
      /\ new[1].fn = fn /\ new[1].insts = <<Work, CondBr(m + 3, false)>>
      /\ new[2] = NewBlock(0) /\ new[3] = NewBlock(fn)
      /\ (n > 1 => new[4] = NewBlock(fn))
  <2>1. new = SelectBlocks(n, fn, m)
    BY DEF SelectBlocks
  <2> DEFINE b == SelectBlocks(n, fn, m)
  <2>2. m \in Nat /\ fn \in Nat \ {0} /\ n \in Nat \ {0}
    BY <1>2, <1>3
  <2> HIDE DEF m
  <2>3. b \in Seq(Block) /\ b[2] = NewBlock(0) /\ b[3] = NewBlock(fn)
    BY ZenonT(40), <2>2, SelectBlocksMade
  <2>4. Len(b) = (IF n > 1 THEN 4 ELSE 3)
    BY ZenonT(40), <2>2, SelectBlocksMade
  <2>5. b[1].fn = fn /\ b[1].insts = <<Work, CondBr(m + 3, false)>>
    BY ZenonT(40), <2>2, SelectBlocksMade
  <2>6. n > 1 => b[4] = NewBlock(fn)
    BY <2>2, SelectBlocksMade
  <2> HIDE DEF new, b, false
  <2>7. new = b
    BY <2>1 DEF b
  <2> QED
    BY <2>3, <2>4, <2>5, <2>6, <2>7
<1>5. /\ Frame(s) \in FrameType /\ Frame(s).kind = s /\ ~Frame(s).returning
      /\ Frame(s).depth = Len(defer_calls_stack)
      /\ Frame(s).scopes = Len(Peek(defer_calls_stack))
  BY <1>0, <1>1, MadeFrame
<1>6. m + 1 \in Nat /\ m + 2 \in Nat /\ m + 3 \in Nat /\ false \in Nat
  BY <1>2
<1>7. /\ f \in FrameType /\ f.kind = s /\ ~f.returning
      /\ f.depth = Len(defer_calls_stack)
      /\ f.scopes = Len(Peek(defer_calls_stack))
      /\ f.fn = fn /\ f.end = m + 2 /\ f.next = false /\ f.left = left
  <2> DEFINE e == m + 2
  <2>1. e \in Nat
    BY <1>6
  <2> HIDE DEF e, false
  <2>2. [Frame(s) EXCEPT !.fn = fn, !.end = e, !.next = false, !.left = left]
          \in FrameType
    BY <1>2, <1>3, <1>5, <1>6, <2>1 DEF FrameType
  <2> QED
    BY <1>5, <2>2 DEF e, FrameType
<1>8. /\ br \in Seq(Instruction) /\ AfterAll(x, br) = x /\ Goes(br) = {m + 1}
  BY <1>6, BranchRuns
<1>9. /\ AfterAll(x, new[1].insts) = x /\ Goes(new[1].insts) = {m + 3, false}
  <2> DEFINE b == m + 3
  <2>1. b \in Nat
    BY <1>6
  <2> HIDE DEF b, new, false
  <2>2. /\ AfterAll(x, <<Work, CondBr(b, false)>>) = x
        /\ Goes(<<Work, CondBr(b, false)>>) = {b, false}
    BY <1>6, <2>1, TestRuns
  <2> QED
    BY <1>4, <2>2 DEF b
<1>10. /\ AfterAll(x, NewBlock(0).insts) = x /\ Goes(NewBlock(0).insts) = {}
       /\ AfterAll(x, NewBlock(fn).insts) = x /\ Goes(NewBlock(fn).insts) = {}
       /\ NewBlock(0).fn = 0 /\ NewBlock(fn).fn = fn
  BY EmptyRuns
<1>11. blocks' = Emit(blocks, insert, br) \o new
  <2>1. Emit(blocks, insert, br) \in Seq(Block)
    BY <1>2, <1>8, EmitFields
  <2>2. first \in Seq(Block) /\ more \in Seq(Block)
    <3>1. <<Work, CondBr(m + 3, false)>> \in Seq(Instruction)
      BY <1>6, TestRuns
    <3>2. test \in Block /\ NewBlock(0) \in Block /\ NewBlock(fn) \in Block
      BY <1>2, <3>1, NewBlockType
    <3> HIDE DEF test
    <3> QED
      BY <3>2
  <2> HIDE DEF first, more, br
  <2> QED
    BY SMTT(30), <1>1, <2>1, <2>2, ConcatAssociative
<1> HIDE DEF f, br, new, vs, x
<1>12. /\ \A i \in 1..Len(new) : i \in {1, 2, 3} \/ (i = 4 /\ n > 1)
       /\ 3 \in 1..Len(new) /\ false \in m + 1..m + Len(new)
       /\ m + 1 \in m + 1..m + Len(new) /\ m + 2 \in m + 1..m + Len(new)
       /\ m + 3 \in m + 1..m + Len(new)
  BY <1>2, <1>4
<1> HIDE DEF false
<1>13. Paths(x, f, m, new, br, 3)
  <2>1. ASSUME NEW i \in 1..Len(new)
        PROVE  /\ AfterAll(x, new[i].insts) = x /\ new[i].fn \in {0, f.fn}
               /\ Goes(new[i].insts) \subseteq m + 1..m + Len(new)
    <3>1. CASE i = 1
      BY <1>4, <1>7, <1>9, <1>12, <3>1
    <3>2. CASE i = 2
      BY <1>4, <1>10, <3>2
    <3>3. CASE i = 3
      BY <1>4, <1>7, <1>10, <3>3
    <3>4. CASE i = 4 /\ n > 1
      BY <1>4, <1>7, <1>10, <3>4
    <3> QED
      BY <1>12, <3>1, <3>2, <3>3, <3>4
  <2>2. f.kind \notin Loops
    BY <1>7 DEF Selects, Loops
  <2> QED
    BY <1>7, <1>8, <1>12, <2>1, <2>2 DEF Paths
<1>14. f.kind \in Constructs /\ f.fn = CurrentFunction
  BY <1>7 DEF Constructs, fn
<1> QED
  BY <1>1, <1>4, <1>7, <1>8, <1>11, <1>13, <1>14, ConstructFlow DEF vs, x

LEMMA EnterConditionLoopFlow ==
  ASSUME FlowInv, NEW s \in Loops \ {"forever"}, EnterConditionLoop(s)
  PROVE  FlowKept
<1> DEFINE m     == Len(blocks)
           fn    == CurrentFunction
           test  == [NewBlock(fn) EXCEPT !.insts = <<Work, CondBr(m + 2, m + 3)>>]
           first == IF s = "while" THEN <<>> ELSE <<Work>>
           body  == [NewBlock(fn) EXCEPT !.insts = first]
           new   == <<test, body, NewBlock(0)>>
           br    == first \o <<Br(m + 1)>>
           f     == [Frame(s) EXCEPT !.fn = fn, !.end = m + 3, !.cond = m + 1]
           vs    == Visiting
           x     == Inside(top, defer_calls_stack)
<1>0. ClosedInv
  BY DEF FlowInv
<1>1. /\ frames # <<>> /\ top.open /\ ~top.returning
      /\ blocks' = Emit(blocks, insert, br) \o new
      /\ insert' = m + 2 /\ frames' = Append(vs, f)
      /\ defer_calls_stack' = defer_calls_stack
  <2>1. s \notin Inner
    BY DEF Loops, Inner
  <2>2. /\ frames # <<>> /\ top.open /\ ~top.returning
    BY <2>1, StatementVisit DEF EnterConditionLoop
  <2> QED
    BY <2>2 DEF EnterConditionLoop, PushLoop
<1>2. /\ blocks \in Seq(Block) /\ m \in Nat /\ insert \in 1..m
      /\ fn = blocks[insert].fn /\ fn \in Nat \ {0}
  BY <1>0, <1>1, TopFacts
<1> HIDE DEF fn
<1>3. m + 1 \in Nat /\ m + 2 \in Nat /\ m + 3 \in Nat
  BY <1>2
<1>4. first \in Seq(Instruction) /\ AfterAll(x, first) = x /\ Goes(first) = {}
  BY InstructionTypes, InstructionFacts, NoneClean, AfterNone, AfterOne, AfterFacts,
     GoesOne, GoesNowhere
<1> HIDE DEF first
<1>5. /\ <<Br(m + 1)>> \in Seq(Instruction) /\ AfterAll(x, <<Br(m + 1)>>) = x
      /\ Goes(<<Br(m + 1)>>) = {m + 1}
  BY <1>3, BranchRuns
<1>6. br \in Seq(Instruction) /\ AfterAll(x, br) = x /\ Goes(br) = {m + 1}
  BY <1>4, <1>5, AfterConcat, GoesConcat
<1>7. /\ <<Work, CondBr(m + 2, m + 3)>> \in Seq(Instruction)
      /\ AfterAll(x, <<Work, CondBr(m + 2, m + 3)>>) = x
      /\ Goes(<<Work, CondBr(m + 2, m + 3)>>) = {m + 2, m + 3}
  BY <1>3, TestRuns
<1>8. /\ test \in Block /\ body \in Block /\ NewBlock(0) \in Block
      /\ test.fn = fn /\ test.insts = <<Work, CondBr(m + 2, m + 3)>>
      /\ body.fn = fn /\ body.insts = first
  BY <1>2, <1>4, <1>7, NewBlockType DEF NewBlock
<1>9. /\ AfterAll(x, NewBlock(0).insts) = x /\ Goes(NewBlock(0).insts) = {}
      /\ NewBlock(0).fn = 0
  BY EmptyRuns
<1> HIDE DEF test, body, br, x
<1>10. /\ new \in Seq(Block) /\ Len(new) = 3
       /\ new[1] = test /\ new[2] = body /\ new[3] = NewBlock(0)
  BY <1>8
<1> HIDE DEF new
<1>11. /\ Frame(s) \in FrameType /\ Frame(s).kind = s /\ ~Frame(s).returning
       /\ Frame(s).depth = Len(defer_calls_stack)
       /\ Frame(s).scopes = Len(Peek(defer_calls_stack))
  BY <1>0, <1>1, MadeFrame
<1>12. /\ f \in FrameType /\ f.kind = s /\ ~f.returning
       /\ f.depth = Len(defer_calls_stack)
       /\ f.scopes = Len(Peek(defer_calls_stack))
       /\ f.fn = fn /\ f.end = m + 3 /\ f.cond = m + 1
  <2> DEFINE e == m + 3
             c == m + 1
  <2>1. e \in Nat /\ c \in Nat
    BY <1>3
  <2> HIDE DEF e, c
  <2>2. [Frame(s) EXCEPT !.fn = fn, !.end = e, !.cond = c] \in FrameType
    BY <1>2, <1>11, <2>1 DEF FrameType
  <2> QED
    BY <1>11, <2>2 DEF e, c, FrameType
<1> HIDE DEF f, vs
<1>13. /\ \A i \in 1..Len(new) : i \in {1, 2, 3}
       /\ 2 \in 1..Len(new)
       /\ m + 1 \in m + 1..m + Len(new) /\ m + 2 \in m + 1..m + Len(new)
       /\ m + 3 \in m + 1..m + Len(new)
  BY <1>2, <1>10
<1>14. Paths(x, f, m, new, br, 2)
  <2>1. ASSUME NEW i \in 1..Len(new)
        PROVE  /\ AfterAll(x, new[i].insts) = x /\ new[i].fn \in {0, f.fn}
               /\ Goes(new[i].insts) \subseteq m + 1..m + Len(new)
    <3>1. CASE i = 1
      BY <1>7, <1>8, <1>10, <1>12, <1>13, <3>1
    <3>2. CASE i = 2
      BY <1>4, <1>8, <1>10, <1>12, <3>2 DEF x
    <3>3. CASE i = 3
      BY <1>9, <1>10, <3>3
    <3> QED
      BY <1>13, <3>1, <3>2, <3>3
  <2>2. f.kind \notin Selects
    BY <1>12 DEF Selects, Loops
  <2> QED
    BY <1>6, <1>12, <1>13, <2>1, <2>2 DEF Paths
<1>15. f.kind \in Constructs /\ f.fn = CurrentFunction
  BY <1>12 DEF Constructs, fn
<1> QED
  BY <1>1, <1>6, <1>10, <1>12, <1>14, <1>15, ConstructFlow DEF vs, x

LEMMA EnterForeverFlow ==
  ASSUME FlowInv, EnterForever
  PROVE  FlowKept
<1> DEFINE m   == Len(blocks)
           fn  == CurrentFunction
           s   == "forever"
           new == <<NewBlock(fn), NewBlock(0)>>
           br  == <<Br(m + 1)>>
           f   == [Frame(s) EXCEPT !.fn = fn, !.end = m + 2, !.cond = m + 1]
           vs  == Visiting
           x   == Inside(top, defer_calls_stack)
<1>0. ClosedInv
  BY DEF FlowInv
<1>1. /\ frames # <<>> /\ top.open /\ ~top.returning
      /\ blocks' = Emit(blocks, insert, br) \o new
      /\ insert' = m + 1 /\ frames' = Append(vs, f)
      /\ defer_calls_stack' = defer_calls_stack
  <2>1. s \notin Inner
    BY DEF Loops, Inner
  <2>2. /\ frames # <<>> /\ top.open /\ ~top.returning
    BY <2>1, StatementVisit DEF EnterForever
  <2> QED
    BY <2>2 DEF EnterForever, PushLoop
<1>2. /\ blocks \in Seq(Block) /\ m \in Nat /\ insert \in 1..m
      /\ fn = blocks[insert].fn /\ fn \in Nat \ {0}
  BY <1>0, <1>1, TopFacts
<1> HIDE DEF fn
<1>3. m + 1 \in Nat /\ m + 2 \in Nat
  BY <1>2
<1>4. br \in Seq(Instruction) /\ AfterAll(x, br) = x /\ Goes(br) = {m + 1}
  BY <1>3, BranchRuns
<1>5. /\ AfterAll(x, NewBlock(0).insts) = x /\ Goes(NewBlock(0).insts) = {}
      /\ AfterAll(x, NewBlock(fn).insts) = x /\ Goes(NewBlock(fn).insts) = {}
      /\ NewBlock(0).fn = 0 /\ NewBlock(fn).fn = fn
  BY EmptyRuns
<1>6. NewBlock(fn) \in Block /\ NewBlock(0) \in Block
  BY <1>2, NoneClean DEF NewBlock, Block
<1> HIDE DEF br, x
<1>7. /\ new \in Seq(Block) /\ Len(new) = 2
      /\ new[1] = NewBlock(fn) /\ new[2] = NewBlock(0)
  BY <1>6
<1> HIDE DEF new
<1>8. /\ Frame(s) \in FrameType /\ Frame(s).kind = s /\ ~Frame(s).returning
      /\ Frame(s).depth = Len(defer_calls_stack)
      /\ Frame(s).scopes = Len(Peek(defer_calls_stack))
  BY <1>0, <1>1, MadeFrame DEF Loops
<1>9. /\ f \in FrameType /\ f.kind = s /\ ~f.returning
      /\ f.depth = Len(defer_calls_stack)
      /\ f.scopes = Len(Peek(defer_calls_stack))
      /\ f.fn = fn /\ f.end = m + 2 /\ f.cond = m + 1
  <2> DEFINE e == m + 2
             c == m + 1
  <2>1. e \in Nat /\ c \in Nat
    BY <1>3
  <2> HIDE DEF e, c
  <2>2. [Frame(s) EXCEPT !.fn = fn, !.end = e, !.cond = c] \in FrameType
    BY <1>2, <1>8, <2>1 DEF FrameType
  <2> QED
    BY <1>8, <2>2 DEF e, c, FrameType
<1> HIDE DEF f, vs
<1>10. /\ \A i \in 1..Len(new) : i \in {1, 2}
       /\ 1 \in 1..Len(new)
       /\ m + 1 \in m + 1..m + Len(new) /\ m + 2 \in m + 1..m + Len(new)
  BY <1>2, <1>7
<1>11. Paths(x, f, m, new, br, 1)
  <2>1. ASSUME NEW i \in 1..Len(new)
        PROVE  /\ AfterAll(x, new[i].insts) = x /\ new[i].fn \in {0, f.fn}
               /\ Goes(new[i].insts) \subseteq m + 1..m + Len(new)
    <3>1. CASE i = 1
      BY <1>5, <1>7, <1>9, <3>1
    <3>2. CASE i = 2
      BY <1>5, <1>7, <3>2
    <3> QED
      BY <1>10, <3>1, <3>2
  <2>2. f.kind \notin Selects
    BY <1>9 DEF Selects
  <2> QED
    BY <1>4, <1>9, <1>10, <2>1, <2>2 DEF Paths
<1>12. f.kind \in Constructs /\ f.fn = CurrentFunction
  BY <1>9 DEF Constructs, Loops, fn
<1> QED
  BY <1>1, <1>4, <1>7, <1>9, <1>11, <1>12, ConstructFlow DEF vs, x

\* The first block of a function is created; nothing is pending in it.
LEMMA FlowEntry ==
  ASSUME NEW E \in [Nat -> Stacks], NEW bs \in Seq(Block), FlowOK(E, bs)
  PROVE  LET cs == Append(bs, [NewBlock(Len(bs) + 1) EXCEPT !.insts = <<Work>>])
             F  == Grown(E, Len(bs), <<>>)
         IN  /\ F \in [Nat -> Stacks] /\ FlowOK(F, cs)
             /\ \A b \in 1..Len(bs) : F[b] = E[b] /\ cs[b] = bs[b]
             /\ AfterAll(F[Len(bs) + 1], cs[Len(bs) + 1].insts) = <<>>
<1> DEFINE m  == Len(bs)
           n  == m + 1
           b  == [NewBlock(n) EXCEPT !.insts = <<Work>>]
           cs == Append(bs, b)
           x  == <<>>
           F  == Grown(E, m, x)
           new == <<b>>
<1>1. m \in Nat /\ n \in Nat /\ n > m
  OBVIOUS
<1>2. b \in Block /\ b.fn = n /\ b.insts = <<Work>>
  BY <1>1, EntryBlockType DEF NewBlock
<1>3. AfterAll(x, b.insts) = x /\ Goes(b.insts) = {}
  BY <1>2, AfterOne, AfterFacts, GoesOne, InstructionFacts
<1>4. x \in Stacks
  BY StackFacts
<1> HIDE DEF b, x
<1>5. cs = bs \o new /\ new \in Seq(Block) /\ Len(new) = 1 /\ new[1] = b
      /\ cs[n] = b /\ \A c \in 1..m : cs[c] = bs[c]
  BY <1>2
<1>6. /\ F \in [Nat -> Stacks] /\ \A c \in 1..m : F[c] = E[c]
      /\ \A c \in Nat : c > m => F[c] = x
  BY <1>1, <1>4, GrownFacts
<1> HIDE DEF F, cs, new
<1>7. FlowOK(F, bs \o new)
  <2>1. ASSUME NEW k \in 1..Len(new)
        PROVE  /\ AfterAll(x, new[k].insts) = x
               /\ new[k].fn \in 0..m + k
               /\ new[k].fn = m + k => x = <<>>
               /\ \A t \in Goes(new[k].insts) :
                    t \in 1..m + Len(new) /\ (t \in 1..m => E[t] = x)
    <3>1. k = 1
      BY <1>5
    <3>2. n \in 0..m + k
      BY <1>1, <3>1
    <3> QED
      BY <1>2, <1>3, <1>5, <3>1, <3>2 DEF x
  <2> QED
    BY <1>4, <1>5, <2>1, FlowNew DEF F
<1>8. AfterAll(F[n], cs[n].insts) = <<>>
  BY <1>1, <1>3, <1>5, <1>6 DEF x
<1> QED
  BY <1>5, <1>6, <1>7, <1>8 DEF F, cs, b, x

\* The scopes of a function that begins.
LEMMA FunctionScopes ==
  ASSUME NEW ds \in DeferStacks, AllDefers(ds)
  PROVE  LET es == Append(ds, <<>>)
         IN  /\ es \in DeferStacks /\ AllDefers(es) /\ Len(es) = Len(ds) + 1
             /\ \A d \in 1..Len(ds) : es[d] = ds[d]
             /\ Flat(es[Len(ds) + 1])[0] = <<>>
<1> DEFINE es == Append(ds, <<>>)
           n  == Len(ds)
<1>1. <<>> \in ScopeList /\ AllCallable(<<>>)
  BY DEF ScopeList, AllCallable
<1>2. /\ es \in DeferStacks /\ Len(es) = n + 1 /\ es[n + 1] = <<>> /\ n \in Nat
      /\ \A d \in 1..n : es[d] = ds[d]
  <2> DEFINE S == ScopeList
  <2>1. ds \in Seq(S) /\ <<>> \in S
    BY <1>1 DEF DeferStacks, ScopeList
  <2> HIDE DEF S
  <2>2. /\ es \in Seq(S) /\ Len(es) = n + 1 /\ es[n + 1] = <<>> /\ n \in Nat
        /\ \A d \in 1..n : es[d] = ds[d]
    BY <2>1
  <2> QED
    BY <2>2 DEF S, ScopeList, DeferStacks
<1> HIDE DEF es
<1>3. AllDefers(es)
  <2>1. ASSUME NEW d \in 1..Len(es) PROVE AllCallable(es[d])
    <3>1. CASE d = n + 1
      BY <1>1, <1>2, <3>1
    <3>2. CASE d \in 1..n
      BY <1>2, <3>2 DEF AllDefers
    <3> QED
      BY <1>2, <3>1, <3>2
  <2> QED
    BY <2>1 DEF AllDefers
<1>4. Flat(es[n + 1])[0] = <<>>
  BY <1>1, <1>2, FirstScope
<1> QED
  BY <1>2, <1>3, <1>4 DEF es

LEMMA EnterInnerFlow ==
  ASSUME FlowInv, frames # <<>>, top.open,
         NEW frame \in FrameType, frame.kind \in Inner, frame.insert = insert, ~frame.returning,
         frame.depth = Len(defer_calls_stack),
         frame.scopes = Len(Peek(defer_calls_stack)), EnterInner(frame)
  PROVE  FlowKept
<1> DEFINE m  == Len(blocks)
           n  == m + 1
           ds == defer_calls_stack
           f  == [frame EXCEPT !.fn = n]
           es == Append(ds, <<>>)
           cs == Append(blocks, [NewBlock(n) EXCEPT !.insts = <<Work>>])
<1>0. ClosedInv
  BY DEF FlowInv
<1>1. /\ blocks' = cs /\ insert' = n /\ defer_calls_stack' = es
      /\ frames' = Append(Visiting, f)
  BY DEF EnterInner
<1>2. PICK E : Flows(E, frames, blocks, insert, ds)
  BY DEF FlowInv
<1> DEFINE F == Grown(E, m, <<>>)
<1>3. /\ AfterAll(E[insert], blocks[insert].insts) = Remains(top, ds)
      /\ FlowOK(E, blocks) /\ AllDefers(ds) /\ E \in [Nat -> Stacks]
  BY <1>0, <1>2, OpenFlow
<1>4. /\ blocks \in Seq(Block) /\ m \in Nat /\ insert \in 1..m /\ ds \in DeferStacks
      /\ Len(ds) \in Nat \ {0} /\ Peek(ds) = ds[Len(ds)]
      /\ Len(Peek(ds)) \in Nat /\ Inside(top, ds) = Flat(Peek(ds))[Len(Peek(ds))]
  BY <1>0, <1>3, TopFacts, InsideTop
<1>5. /\ f \in FrameType /\ f.kind \in Inner /\ f.insert = insert /\ ~f.returning
      /\ f.depth = Len(ds) /\ f.scopes = Len(Peek(ds))
  <2>1. n \in Nat
    BY <1>4
  <2> HIDE DEF n
  <2> QED
    BY <2>1 DEF FrameType
<1>6. /\ F \in [Nat -> Stacks] /\ FlowOK(F, cs)
      /\ \A b \in 1..m : F[b] = E[b] /\ cs[b] = blocks[b]
      /\ AfterAll(F[n], cs[n].insts) = <<>>
  BY <1>3, <1>4, FlowEntry
<1>7. /\ es \in DeferStacks /\ AllDefers(es) /\ Len(es) = Len(ds) + 1
      /\ \A d \in 1..Len(ds) : es[d] = ds[d]
      /\ Flat(es[Len(ds) + 1])[0] = <<>>
  BY <1>3, <1>4, FunctionScopes
<1> HIDE DEF f, F, cs, es, n
<1>8. Inside(f, es) = <<>> /\ Outside(f, es) = Inside(top, ds)
  <2>1. f.kind \in Callables
    BY <1>5 DEF Inner, Callables
  <2>2. Len(ds) \in 1..Len(ds)
    BY <1>4
  <2> QED
    BY <1>4, <1>5, <1>7, <2>1, <2>2 DEF Inside, Outside, DepthIn, ScopesIn
<1>9. Willing(f) /\ Waits(f, top.returning, F, cs, es)
  <2>1. f.kind # "block" /\ f.kind \notin Constructs
    BY <1>5 DEF Inner, Constructs, Loops, Selects
  <2>2. f.kind \notin Loops /\ f.kind \notin Selects
    BY <2>1 DEF Constructs
  <2>3. AfterAll(F[f.insert], cs[f.insert].insts)
          = IF top.returning THEN <<>> ELSE Outside(f, es)
    BY <1>3, <1>4, <1>5, <1>6, <1>8 DEF Remains
  <2> QED
    BY <2>1, <2>2, <2>3 DEF Willing, Waits
<1>10. ASSUME top.kind # "function" PROVE SameAround(top, ds, es)
  <2>1. /\ top.depth \in 1..Len(ds) /\ top.scopes \in Nat
        /\ top.scopes <= Len(ds[top.depth])
    BY <1>0, <1>10, TopScopes
  <2>2. top.depth \in 1..Len(es) /\ es[top.depth] = ds[top.depth]
    BY <1>4, <1>7, <2>1
  <2>3. \A d \in 1..top.depth - 1 : d \in 1..Len(ds)
    BY <1>4, <2>1
  <2> QED
    BY <1>7, <2>1, <2>2, <2>3 DEF SameAround
<1>11. AfterAll(F[n], cs[n].insts) = Inside(f, es)
  BY <1>6, <1>8
<1>12. Flows(F, Append(Visiting, f), cs, n, es)
  BY <1>0, <1>2, <1>5, <1>6, <1>7, <1>9, <1>10, <1>11, PushFlow DEF ds
<1> QED
  BY <1>1, <1>12 DEF FlowKept

LEMMA EnterLambdaFlow ==
  ASSUME FlowInv, EnterLambda
  PROVE  FlowKept
<1>0. ClosedInv
  BY DEF FlowInv
<1>1. /\ frames # <<>> /\ top.open /\ EnterInner(Frame("lambda"))
      /\ "lambda" \in Callables /\ "lambda" \in Inner
  BY DEF EnterLambda, Visits, Callables, Inner
<1> QED
  BY <1>0, <1>1, MadeFrame, EnterInnerFlow

LEMMA EnterGenericFlow ==
  ASSUME FlowInv, NEW g \in Generics, EnterGeneric(g)
  PROVE  FlowKept
<1> DEFINE f == [Frame("generic") EXCEPT !.name = g]
<1>0. ClosedInv
  BY DEF FlowInv
<1>1. /\ frames # <<>> /\ top.open /\ EnterInner(f)
      /\ "generic" \in Callables /\ "generic" \in Inner
  BY DEF EnterGeneric, Visits, Callables, Inner
<1>2. /\ Frame("generic") \in FrameType /\ Frame("generic").kind = "generic"
      /\ Frame("generic").insert = insert /\ ~Frame("generic").returning
      /\ Frame("generic").depth = Len(defer_calls_stack)
      /\ Frame("generic").scopes = Len(Peek(defer_calls_stack))
  BY <1>0, <1>1, MadeFrame
<1>3. /\ f \in FrameType /\ f.kind = "generic" /\ f.insert = insert /\ ~f.returning
      /\ f.depth = Len(defer_calls_stack)
      /\ f.scopes = Len(Peek(defer_calls_stack))
  BY <1>2 DEF FrameType
<1> HIDE DEF f
<1> QED
  BY <1>1, <1>3, EnterInnerFlow

LEMMA EnterFunctionFlow ==
  ASSUME FlowInv, EnterFunction
  PROVE  FlowKept
<1> DEFINE m  == Len(blocks)
           n  == m + 1
           ds == defer_calls_stack
           f  == [Frame("function") EXCEPT !.fn = n]
           fs == <<f>>
           es == Append(ds, <<>>)
           cs == Append(blocks, [NewBlock(n) EXCEPT !.insts = <<Work>>])
<1>0. ClosedInv
  BY DEF FlowInv
<1>1. /\ frames = <<>> /\ blocks' = cs /\ insert' = n /\ defer_calls_stack' = es
      /\ frames' = fs
  BY DEF EnterFunction
<1>2. PICK E : Flows(E, frames, blocks, insert, ds)
  BY DEF FlowInv
<1> DEFINE F == Grown(E, m, <<>>)
<1>3. FlowOK(E, blocks) /\ AllDefers(ds) /\ E \in [Nat -> Stacks]
  BY <1>2 DEF Flows
<1>4. blocks \in Seq(Block) /\ ds \in DeferStacks /\ ds = <<>>
  BY <1>0, <1>1 DEF ClosedInv, LoopInv, TypeInv, TypeOK, DeferOK, DeferStacks
<1>5. f.kind = "function" /\ f.depth = 0 /\ ~f.returning
  BY <1>4 DEF Frame
<1>6. /\ F \in [Nat -> Stacks] /\ FlowOK(F, cs)
      /\ AfterAll(F[n], cs[n].insts) = <<>>
  BY <1>3, <1>4, FlowEntry
<1>7. /\ es \in DeferStacks /\ AllDefers(es) /\ Flat(es[1])[0] = <<>>
  <2>1. Len(ds) + 1 = 1
    BY <1>4
  <2>2. es \in DeferStacks /\ AllDefers(es) /\ Flat(es[Len(ds) + 1])[0] = <<>>
    BY <1>3, <1>4, FunctionScopes
  <2> QED
    BY <2>1, <2>2
<1>8. Remains(f, es) = <<>>
  BY <1>5, <1>7 DEF Remains, Inside, DepthIn, ScopesIn, Callables
<1> HIDE DEF f, F, cs, es, n
<1>9. Willing(f) /\ \A r : Waits(f, r, F, cs, es)
  BY <1>5 DEF Willing, Waits, Constructs, Loops, Selects, Inner
<1>10. Len(fs) = 1 /\ fs[1] = f /\ Peek(fs) = f
  BY DEF Peek
<1> HIDE DEF fs
<1>11. \A i \in 1..Len(fs) : fs[i] = f
  BY <1>10
<1>12. Flows(F, fs, cs, n, es)
  BY <1>6, <1>7, <1>8, <1>9, <1>10, <1>11 DEF Flows
<1> QED
  BY <1>1, <1>12 DEF FlowKept

-----------------------------------------------------------------------------
(* Visits end.                                                             *)

\* The visits around the innermost one still wait.
LEMMA LowerWaits ==
  ASSUME ClosedInv, frames # <<>>,
         NEW E, Flows(E, frames, blocks, insert, defer_calls_stack),
         NEW es \in DeferStacks, AllDefers(es),
         top.kind # "function" => SameAround(top, defer_calls_stack, es),
         NEW F, \A b \in 1..Len(blocks) : F[b] = E[b],
         NEW cs, \A i \in 1..Len(frames) - 1 :
                   \A b \in Holds(frames[i]) : cs[b] = blocks[b]
  PROVE  \A i \in 1..Len(frames) - 1 :
           Waits(frames[i], InReturn(frames, i), F, cs, es) /\ Willing(frames[i])
<1> SUFFICES ASSUME NEW i \in 1..Len(frames) - 1
             PROVE  Waits(frames[i], InReturn(frames, i), F, cs, es) /\ Willing(frames[i])
  OBVIOUS
<1>1. frames \in Seq(FrameType) /\ Len(frames) \in Nat \ {0}
  BY TopFacts
<1>2. i \in 1..Len(frames) /\ frames[i] \in FrameType
  BY <1>1
<1>3. /\ Waits(frames[i], InReturn(frames, i), E, blocks, defer_calls_stack) /\ Willing(frames[i])
      /\ AllDefers(defer_calls_stack)
  BY <1>2 DEF Flows
<1> DEFINE f == frames[i]
<1>4. SameBlocks(frames[i], f) /\ f.depth = frames[i].depth /\ f.scopes = frames[i].scopes
      /\ f \in FrameType
  BY <1>2 DEF SameBlocks
<1> HIDE DEF f
<1>5. Waits(f, InReturn(frames, i), F, cs, es)
  BY <1>2, <1>3, <1>4, WaitsStay
<1>6. f = frames[i]
  BY DEF f
<1> QED
  BY <1>3, <1>5, <1>6

\* Their blocks are not that of the innermost one.
LEMMA HeldApart ==
  ASSUME ClosedInv, frames # <<>>, NEW i \in 1..Len(frames) - 1, NEW b \in Holds(frames[i])
  PROVE  b \in 1..Len(blocks) /\ b # insert /\ b \notin Holds(top)
<1>1. /\ frames \in Seq(FrameType) /\ Len(frames) \in Nat \ {0}
      /\ top = frames[Len(frames)] /\ Built(frames, blocks, insert)
  BY TopFacts DEF ClosedInv
<1>2. i \in 1..Len(frames) /\ Len(frames) \in 1..Len(frames) /\ i # Len(frames)
  BY <1>1
<1>3. FrameFits(frames[i], blocks) /\ Holds(frames[i]) \cap Holds(frames[Len(frames)]) = {}
  BY <1>1, <1>2 DEF Built, Fits
<1>4. insert \notin Held(frames) /\ Holds(frames[i]) \subseteq Held(frames)
  BY <1>1, <1>2, HeldFacts DEF Built, Current
<1> QED
  BY <1>1, <1>3, <1>4 DEF FrameFits

\* What is pending inside the visit around is what is outside the innermost one.
LEMMA ParentInside ==
  ASSUME ClosedInv, frames # <<>>, top.kind # "function", AllDefers(defer_calls_stack),
         NEW es \in DeferStacks, AllDefers(es), SameAround(top, defer_calls_stack, es)
  PROVE  Inside(Parent, es) = Outside(top, defer_calls_stack)
<1>1. /\ DepthIn(Parent) = top.depth /\ ScopesIn(Parent) = top.scopes
      /\ top.depth \in 1..Len(defer_calls_stack)
  BY TopScopes
<1>2. top \in FrameType /\ defer_calls_stack \in DeferStacks /\ Len(defer_calls_stack) \in Nat
  BY TopFacts
<1>3. top.depth >= 1 /\ LowerScope(top, top)
  <2>1. top.depth \in Nat /\ top.scopes \in Nat
    BY <1>2 DEF FrameType
  <2> QED
    BY <1>1, <1>2, <2>1 DEF LowerScope
<1>4. Outside(top, es) = Outside(top, defer_calls_stack)
  <2> DEFINE f == top
  <2>1. f \in FrameType /\ SameAround(f, defer_calls_stack, es) /\ f.depth >= 1 /\ LowerScope(f, f)
    BY <1>2, <1>3
  <2> HIDE DEF f
  <2>2. Outside(f, es) = Outside(f, defer_calls_stack)
    BY <1>2, <2>1, OutsideSame
  <2> QED
    BY <2>2 DEF f
<1> QED
  BY <1>1, <1>4 DEF Inside, Outside

LEMMA PopFlow ==
  ASSUME ClosedInv, frames # <<>>, top.kind # "function",
         NEW E, Flows(E, frames, blocks, insert, defer_calls_stack),
         NEW es \in DeferStacks, AllDefers(es),
         SameAround(top, defer_calls_stack, es),
         NEW cs, FlowOK(E, cs),
         \A i \in 1..Len(frames) - 1 : \A b \in Holds(frames[i]) : cs[b] = blocks[b],
         NEW ins,
         \/ HasJump(cs[ins].insts)
         \/ AfterAll(E[ins], cs[ins].insts)
              = IF Parent.returning THEN <<>> ELSE Outside(top, defer_calls_stack)
  PROVE  Flows(E, Pop(frames), cs, ins, es)
<1> DEFINE gs == Pop(frames)
<1>1. frames \in Seq(FrameType) /\ Len(frames) \in Nat \ {0}
  BY TopFacts
<1>2. /\ Len(gs) = Len(frames) - 1
      /\ \A i \in 1..Len(gs) : gs[i] = frames[i]
  <2> DEFINE l == Len(frames) - 1
  <2>1. l \in Nat /\ l <= Len(frames) /\ gs = SubSeq(frames, 1, l)
    BY <1>1 DEF Pop
  <2> HIDE DEF l, gs
  <2>2. /\ Len(SubSeq(frames, 1, l)) = l
        /\ \A i \in 1..l : SubSeq(frames, 1, l)[i] = frames[i]
    BY <1>1, <2>1, FirstOf
  <2> QED
    BY <2>1, <2>2 DEF l
<1>3. Peek(gs) = Parent
  BY Around
<1> HIDE DEF gs
<1>4. E \in [Nat -> Stacks] /\ AllDefers(defer_calls_stack)
      /\ \A b \in 1..Len(blocks) : E[b] = E[b]
  BY DEF Flows
<1>5. \A i \in 1..Len(frames) - 1 :
        Waits(frames[i], InReturn(frames, i), E, cs, es) /\ Willing(frames[i])
  BY <1>4, LowerWaits
<1>6. ASSUME NEW i \in 1..Len(gs)
      PROVE  Waits(gs[i], InReturn(gs, i), E, cs, es) /\ Willing(gs[i])
  <2>1. i > 1 => i - 1 \in 1..Len(gs)
    BY <1>1, <1>2
  <2>2. InReturn(gs, i) = InReturn(frames, i)
    BY <1>2, <2>1 DEF InReturn
  <2> QED
    BY <1>2, <1>5, <2>2
<1>7. Inside(Peek(gs), es) = Outside(top, defer_calls_stack)
  BY <1>3, <1>4, ParentInside
<1>8. Remains(Peek(gs), es)
        = IF Parent.returning THEN <<>> ELSE Outside(top, defer_calls_stack)
  BY <1>3, <1>7 DEF Remains
<1> QED
  BY <1>4, <1>6, <1>8 DEF Flows, gs

\* Only a function is made by the value of a return.
LEMMA NotInReturn ==
  ASSUME ClosedInv, frames # <<>>, top.kind \in Constructs \cup {"block"}
  PROVE  ~Parent.returning /\ top.kind # "function"
<1>1. top.kind \notin Inner /\ top.kind # "function"
  BY DEF Constructs, Loops, Selects, Inner
<1> QED
  BY <1>1, BlockParent DEF Owns

\* The scope of a block that ends.
LEMMA ScopeDropped ==
  ASSUME ClosedInv, frames # <<>>, top.kind = "block", AllDefers(defer_calls_stack)
  PROVE  LET ds    == defer_calls_stack
             es    == WithTop(ds, Pop(Peek(ds)))
             scope == Peek(Peek(ds))
         IN  /\ es \in DeferStacks /\ AllDefers(es) /\ SameAround(top, ds, es)
             /\ scope \in Seq(DeferCall) /\ Callable(scope)
             /\ Outside(top, ds) \in Stacks
             /\ Inside(top, ds) = Outside(top, ds) \o Ids(scope)
<1> DEFINE ds == defer_calls_stack
           n  == Len(ds)
           sc == Peek(ds)
           m  == Len(sc)
           l  == top.scopes
           e  == Pop(sc)
           es == WithTop(ds, e)
<1>1. /\ sc \in ScopeList /\ AllCallable(sc)
      /\ Inside(top, ds) = Flat(sc)[m] /\ m = ScopesIn(top)
  BY InsideTop
<1>2. /\ ds \in DeferStacks /\ n \in Nat \ {0} /\ sc = ds[n] /\ n = DepthIn(top)
      /\ top \in FrameType
      /\ AllDefers(ds)
  BY TopFacts
<1>3. l \in Nat /\ m = l + 1 /\ n = top.depth /\ l = m - 1 /\ l <= m /\ m \in 1..m
  <2>1. l \in Nat
    BY <1>2 DEF FrameType
  <2>2. m = l + 1 /\ n = top.depth
    BY <1>1, <1>2 DEF ScopesIn, DepthIn, Callables
  <2> HIDE DEF m, l
  <2> QED
    BY <2>1, <2>2
<1> HIDE DEF ds, sc, l
<1>4. /\ e \in ScopeList /\ Len(e) = l /\ \A k \in 1..l : e[k] = sc[k]
  <2> DEFINE S == Seq(DeferCall)
  <2>1. sc \in Seq(S) /\ l <= Len(sc) /\ e = SubSeq(sc, 1, l)
    BY <1>1, <1>3 DEF ScopeList, Pop
  <2> HIDE DEF S, e
  <2>2. SubSeq(sc, 1, l) \in Seq(S) /\ Len(SubSeq(sc, 1, l)) = l
        /\ \A k \in 1..l : SubSeq(sc, 1, l)[k] = sc[k]
    BY <1>3, <2>1, FirstOf
  <2> QED
    BY <2>1, <2>2 DEF S, ScopeList
<1>5. AllCallable(e)
  <2>1. \A k \in 1..l : k \in 1..m
    BY <1>3
  <2> HIDE DEF e
  <2> QED
    BY <1>1, <1>4, <2>1 DEF AllCallable
<1> HIDE DEF e
<1>6. /\ es \in DeferStacks /\ AllDefers(es) /\ Len(es) = n /\ es[n] = e
      /\ \A k \in 1..n - 1 : es[k] = ds[k]
  BY <1>2, <1>4, <1>5, TopEntry
<1> HIDE DEF es
<1>7. SameAround(top, ds, es)
  <2>1. n \in 1..Len(ds) /\ n \in 1..Len(es) /\ l <= Len(ds[n]) /\ l <= Len(es[n])
    BY <1>2, <1>3, <1>4, <1>6
  <2>2. \A s \in 1..l : es[n][s] = ds[n][s]
    BY <1>2, <1>4, <1>6
  <2> QED
    BY <1>3, <1>6, <2>1, <2>2 DEF SameAround, l
<1>8. sc[m] \in Seq(DeferCall) /\ Callable(sc[m]) /\ Peek(sc) = sc[m]
  BY <1>1, <1>3 DEF ScopeList, AllCallable, Peek
<1>9. Outside(top, ds) = Flat(sc)[l]
  BY <1>2, <1>3 DEF Outside, l
<1>10. Flat(sc) \in [0..m -> Stacks] /\ Flat(sc)[m] = Flat(sc)[m - 1] \o Ids(sc[m])
  BY <1>1, <1>3, FlatIs DEF Stacked
<1>11. Flat(sc)[l] \in Stacks
  <2>1. l \in 0..m
    BY <1>3
  <2> QED
    BY <1>10, <2>1
<1> QED
  BY <1>1, <1>3, <1>6, <1>7, <1>8, <1>9, <1>10, <1>11 DEF ds, sc, es, e

LEMMA LeaveBlockFlow ==
  ASSUME FlowInv, LeaveBlock
  PROVE  FlowKept
<1> DEFINE ds    == defer_calls_stack
           es    == WithTop(ds, Pop(Peek(ds)))
           scope == Peek(Peek(ds))
           c     == execute_scope_defer_calls(scope)
           s     == <<c>>
           out   == Outside(top, ds)
<1>0. ClosedInv
  BY DEF FlowInv
<1>1. /\ frames # <<>> /\ top.kind = "block" /\ ~top.returning /\ insert' = insert
      /\ blocks' = IF top.should_execute_defers THEN Emit(blocks, insert, s)
                   ELSE blocks
      /\ frames' = Pop(frames) /\ defer_calls_stack' = es
  BY DEF LeaveBlock, WithTop, Peek
<1>2. PICK E : Flows(E, frames, blocks, insert, ds)
  BY DEF FlowInv
<1> DEFINE a == AfterAll(E[insert], blocks[insert].insts)
<1>3. /\ FlowOK(E, blocks) /\ AllDefers(ds) /\ Willing(top)
      /\ ~HasJump(blocks[insert].insts) => a = Inside(top, ds)
  <2>1. Len(frames) \in 1..Len(frames) /\ top = frames[Len(frames)] /\ top = Peek(frames)
    BY <1>0, <1>1, TopFacts
  <2> QED
    BY <1>1, <1>2, <2>1 DEF Flows, Remains
<1>4. /\ insert \in 1..Len(blocks) /\ (Jumped <=> HasJump(blocks[insert].insts))
      /\ blocks \in Seq(Block)
  BY <1>0, <1>1, TopFacts
<1>5. a \in Stacks
  BY <1>3, <1>4 DEF FlowOK
<1>6. /\ es \in DeferStacks /\ AllDefers(es) /\ SameAround(top, ds, es)
      /\ scope \in Seq(DeferCall) /\ Callable(scope) /\ out \in Stacks
      /\ Inside(top, ds) = out \o Ids(scope)
  BY <1>0, <1>1, <1>3, ScopeDropped
<1>7. ~Jumped => top.should_execute_defers
  <2> SUFFICES ASSUME ~Jumped PROVE top.should_execute_defers
    OBVIOUS
  <2>1. top.open
    BY <1>0, <1>1 DEF ClosedInv, Status, top
  <2> QED
    BY <1>1, <1>3, <2>1 DEF Willing
<1>8. Jumped /\ top.should_execute_defers => scope = <<>>
  <2> SUFFICES ASSUME Jumped, top.should_execute_defers PROVE scope = <<>>
    OBVIOUS
  <2>1. ~top.open
    BY <1>0, <1>1, OpenClear
  <2>2. top.declared = <<>>
    BY <1>0, <1>1, <2>1 DEF ClosedInv, Status, top
  <2>3. /\ Len(frames) \in 1..Len(frames) /\ top = frames[Len(frames)]
        /\ Len(ds) = DepthIn(top) /\ Len(Peek(ds)) = ScopesIn(top)
        /\ Peek(ds) = ds[Len(ds)]
    BY <1>0, <1>1, TopFacts
  <2>4. Undeclared(top, ds)
    BY <1>0, <2>3 DEF ClosedInv, DeclaredOK
  <2>5. scope = ds[DepthIn(top)][ScopesIn(top)]
    BY <2>3 DEF Peek
  <2> QED
    BY <1>1, <2>2, <2>4, <2>5 DEF Undeclared
<1>9. HasJump(blocks'[insert].insts) <=> Jumped
  BY <1>0, BlockEnd
<1>10. c \in Instruction /\ ~IsJump(c)
  BY <1>6, ScopeCallsClean
<1> DEFINE r == IF Jumped THEN a ELSE out
<1>11. top.should_execute_defers => Leads(E, s, r)
  <2> SUFFICES ASSUME top.should_execute_defers PROVE Leads(E, s, r)
    OBVIOUS
  <2>1. s \in Seq(Instruction) /\ Goes(s) = {} /\ AfterAll(a, s) = After(a, c)
    BY <1>10, OneClean, GoesOne, AfterOne
  <2>2. After(a, c) = r
    <3>1. CASE Jumped
      BY <1>8, <3>1, EmptyScopeRuns
    <3>2. CASE ~Jumped
      <4>1. a = out \o Ids(scope)
        BY <1>3, <1>4, <1>6, <3>2
      <4> HIDE DEF a, out, scope
      <4>2. After(out \o Ids(scope), c) = out
        BY <1>6, ScopeRuns
      <4> QED
        BY <3>2, <4>1, <4>2
    <3> QED
      BY <3>1, <3>2
  <2>3. r \in Stacks
    BY <1>5, <1>6
  <2> HIDE DEF s, c
  <2> QED
    BY <2>1, <2>2, <2>3 DEF Leads
<1> HIDE DEF s, r
<1>12. FlowOK(E, blocks') /\ AfterAll(E[insert], blocks'[insert].insts) = r
       /\ \A b \in 1..Len(blocks) : b # insert => blocks'[b] = blocks[b]
  <2>1. CASE top.should_execute_defers
    BY <1>0, <1>1, <1>3, <1>11, <2>1, LeadsOK
  <2>2. CASE ~top.should_execute_defers
    BY <1>1, <1>3, <1>7, <2>2 DEF r
  <2> QED
    BY <2>1, <2>2
<1>13. \A i \in 1..Len(frames) - 1 : \A b \in Holds(frames[i]) : blocks'[b] = blocks[b]
  BY <1>0, <1>1, <1>12, HeldApart
<1>14. HasJump(blocks'[insert].insts) \/ AfterAll(E[insert], blocks'[insert].insts) = out
  BY <1>9, <1>12 DEF r
<1> DEFINE cs == blocks'
<1> HIDE DEF cs, es, out
<1>15. Flows(E, Pop(frames), cs, insert, es)
  <2>1. FlowOK(E, cs) /\ top.kind # "function"
    BY <1>1, <1>12 DEF cs
  <2>2. \A i \in 1..Len(frames) - 1 : \A b \in Holds(frames[i]) : cs[b] = blocks[b]
    BY <1>13 DEF cs
  <2>3. ~Parent.returning
    BY <1>0, <1>1, NotInReturn
  <2>4. \/ HasJump(cs[insert].insts)
        \/ AfterAll(E[insert], cs[insert].insts)
             = IF Parent.returning THEN <<>> ELSE Outside(top, ds)
    BY <1>14, <2>3 DEF cs, out
  <2> QED
    BY <1>0, <1>1, <1>2, <1>6, <2>1, <2>2, <2>4, PopFlow DEF ds
<1> QED
  BY <1>1, <1>15 DEF FlowKept, cs, es

\* A function that ends leaves the scopes of those around it.
LEMMA FunctionLeft ==
  ASSUME NEW ds \in DeferStacks, AllDefers(ds), Len(ds) \in Nat \ {0}
  PROVE  /\ Pop(ds) \in DeferStacks /\ AllDefers(Pop(ds)) /\ Len(Pop(ds)) = Len(ds) - 1
         /\ \A d \in 1..Len(ds) - 1 : Pop(ds)[d] = ds[d]
<1> DEFINE l  == Len(ds) - 1
           es == Pop(ds)
           S  == ScopeList
<1>1. l \in Nat /\ l <= Len(ds) /\ es = SubSeq(ds, 1, l) /\ ds \in Seq(S)
      /\ \A d \in 1..l : d \in 1..Len(ds)
  BY DEF Pop, DeferStacks, ScopeList
<1> HIDE DEF l, es, S
<1>2. /\ SubSeq(ds, 1, l) \in Seq(S) /\ Len(SubSeq(ds, 1, l)) = l
      /\ \A d \in 1..l : SubSeq(ds, 1, l)[d] = ds[d]
  BY <1>1, FirstOf
<1>3. es \in Seq(S) /\ Len(es) = l /\ \A d \in 1..l : es[d] = ds[d]
  BY <1>1, <1>2
<1>4. AllDefers(es)
  BY <1>1, <1>3 DEF AllDefers
<1> QED
  BY <1>3, <1>4 DEF l, es, S, ScopeList, DeferStacks

LEMMA LeaveFunctionFlow ==
  ASSUME FlowInv, LeaveFunction
  PROVE  FlowKept
<1> DEFINE ds == defer_calls_stack
<1>0. ClosedInv
  BY DEF FlowInv
<1>1. /\ frames # <<>> /\ top.kind = "function" /\ defer_calls_stack' = Pop(ds)
      /\ frames' = Pop(frames) /\ blocks' = blocks /\ insert' = insert
  BY DEF LeaveFunction
<1>2. PICK E : Flows(E, frames, blocks, insert, ds)
  BY DEF FlowInv
<1>3. ds \in DeferStacks /\ Len(ds) \in Nat \ {0} /\ Pop(frames) = <<>>
  BY <1>0, <1>1, TopFacts
<1>4. E \in [Nat -> Stacks] /\ FlowOK(E, blocks) /\ AllDefers(ds)
  BY <1>2 DEF Flows
<1>5. AllDefers(Pop(ds))
  BY <1>3, <1>4, FunctionLeft
<1> DEFINE fs == Pop(frames)
<1>6. fs = <<>> /\ Len(fs) = 0
  BY <1>3
<1> HIDE DEF fs
<1>7. \A i \in 1..Len(fs) :
        Waits(fs[i], InReturn(fs, i), E, blocks, Pop(ds)) /\ Willing(fs[i])
  BY <1>6
<1>8. Flows(E, fs, blocks, insert, Pop(ds))
  BY <1>4, <1>5, <1>6, <1>7 DEF Flows
<1> QED
  BY <1>1, <1>8 DEF FlowKept, fs

LEMMA LeaveInnerFlow ==
  ASSUME FlowInv, frames # <<>>, top.kind \in Inner, LeaveInner
  PROVE  FlowKept
<1> DEFINE ds  == defer_calls_stack
           es  == Pop(ds)
           ins == top.insert
           s   == <<Work>>
           cs  == Emit(blocks, ins, s)
           r   == IF Parent.returning THEN <<>> ELSE Outside(top, ds)
<1>0. ClosedInv
  BY DEF FlowInv
<1>1. /\ blocks' = cs /\ insert' = ins /\ frames' = Pop(frames)
      /\ defer_calls_stack' = es
  BY DEF LeaveInner
<1>2. top.kind \in Callables /\ top.kind # "function" /\ Holds(top) = {ins}
  BY DEF Callables, Inner, Holds, Constructs, Loops, Selects
<1>3. PICK E : Flows(E, frames, blocks, insert, ds)
  BY DEF FlowInv
<1>4. /\ blocks \in Seq(Block) /\ ds \in DeferStacks /\ Len(ds) \in Nat \ {0}
      /\ Len(ds) = DepthIn(top) /\ Built(frames, blocks, insert)
      /\ Len(frames) \in 1..Len(frames) /\ top = frames[Len(frames)]
      /\ top \in FrameType
  BY <1>0, TopFacts DEF ClosedInv
<1>5. /\ FlowOK(E, blocks) /\ AllDefers(ds)
      /\ AfterAll(E[ins], blocks[ins].insts) = r
  <2>1. Waits(top, Parent.returning, E, blocks, ds)
    <3>1. /\ Len(frames) > 1 /\ Parent = frames[Len(frames) - 1]
          /\ Parent.returning \in BOOLEAN
      BY <1>0, <1>2, BlockParent DEF FrameType
    <3>2. InReturn(frames, Len(frames)) = Parent.returning
      BY <3>1 DEF InReturn
    <3> QED
      BY <1>3, <1>4, <3>2 DEF Flows
  <2> QED
    BY <1>3, <2>1 DEF Flows, Waits
<1>6. ins \in 1..Len(blocks) /\ ~HasJump(blocks[ins].insts)
  <2>1. FrameFits(top, blocks)
    BY <1>4 DEF Built, Fits
  <2> QED
    BY <1>2, <2>1 DEF FrameFits
<1>7. /\ s \in Seq(Instruction) /\ Goes(s) = {} /\ AfterAll(r, s) = r
  BY InstructionTypes, GoesOne, InstructionFacts, AfterOne, AfterFacts
<1>8. r \in Stacks
  BY <1>5, <1>6 DEF FlowOK
<1> HIDE DEF s, r, ins
<1>9. FlowOK(E, cs) /\ AfterAll(E[ins], cs[ins].insts) = r
  BY <1>4, <1>5, <1>6, <1>7, <1>8, FlowEmit
<1>10. \A b \in 1..Len(blocks) : b # ins => cs[b] = blocks[b]
  BY <1>4, <1>6, <1>7, EmitFields
<1> HIDE DEF cs
<1>11. \A i \in 1..Len(frames) - 1 : \A b \in Holds(frames[i]) : cs[b] = blocks[b]
  BY <1>0, <1>2, <1>10, HeldApart
<1>12. /\ es \in DeferStacks /\ AllDefers(es) /\ Len(es) = Len(ds) - 1
       /\ \A d \in 1..Len(ds) - 1 : es[d] = ds[d]
  BY <1>4, <1>5, FunctionLeft
<1> HIDE DEF es
<1>13. SameAround(top, ds, es)
  <2>1. /\ top.depth \in 1..Len(ds) /\ top.scopes \in Nat
        /\ top.scopes <= Len(ds[top.depth])
    BY <1>0, <1>2, TopScopes
  <2>2. top.depth = Len(ds) - 1
    <3>1. top.depth \in Nat /\ Len(ds) = top.depth + 1
      BY <1>2, <1>4 DEF DepthIn, FrameType
    <3> QED
      BY <1>4, <3>1
  <2>3. top.depth \in 1..Len(es) /\ es[top.depth] = ds[top.depth]
    BY <1>4, <1>12, <2>1, <2>2
  <2>4. \A d \in 1..top.depth - 1 : es[d] = ds[d]
    BY <1>4, <1>12, <2>1, <2>2
  <2> QED
    BY <2>1, <2>3, <2>4 DEF SameAround
<1>14. Flows(E, Pop(frames), cs, ins, es)
  BY <1>0, <1>2, <1>3, <1>9, <1>11, <1>12, <1>13, PopFlow DEF ds, r
<1> QED
  BY <1>1, <1>14 DEF FlowKept

LEMMA LeaveConstructFlow ==
  ASSUME FlowInv, frames # <<>>, top.kind \in Constructs,
         NEW E, Flows(E, frames, blocks, insert, defer_calls_stack),
         NEW s, NEW r, Leads(E, s, r),
         blocks' = Place(Emit(blocks, insert, s), top.end, top.fn),
         insert' = top.end, frames' = Pop(frames),
         defer_calls_stack' = defer_calls_stack
  PROVE  FlowKept
<1> DEFINE ds == defer_calls_stack
           bs == Emit(blocks, insert, s)
           e  == top.end
           cs == Place(bs, e, top.fn)
<1>0. ClosedInv
  BY DEF FlowInv
<1>1. /\ top.kind # "function" /\ e \in Holds(top)
  BY DEF Constructs, Loops, Selects, Holds
<1>2. /\ blocks \in Seq(Block) /\ ds \in DeferStacks /\ top \in FrameType
      /\ Built(frames, blocks, insert)
      /\ Len(frames) \in 1..Len(frames) /\ top = frames[Len(frames)]
      /\ frames \in Seq(FrameType)
  BY <1>0, TopFacts DEF ClosedInv
<1>3. /\ FlowOK(E, blocks) /\ AllDefers(ds) /\ top.fn < e /\ E[e] = Outside(top, ds)
  <2>1. Waits(top, InReturn(frames, Len(frames)), E, blocks, ds)
    BY <1>2 DEF Flows
  <2> QED
    BY <2>1 DEF Flows, Waits
<1>4. e \in 1..Len(blocks) /\ blocks[e] = NewBlock(0) /\ e # insert
  <2>1. FrameFits(top, blocks)
    BY <1>2 DEF Built, Fits
  <2>2. insert \notin Held(frames) /\ Holds(top) \subseteq Held(frames)
    BY <1>2, HeldFacts DEF Built, Current
  <2> QED
    BY <1>1, <2>1, <2>2 DEF FrameFits
<1>5. /\ FlowOK(E, bs) /\ bs \in Seq(Block) /\ Len(bs) = Len(blocks)
      /\ \A b \in 1..Len(blocks) : b # insert => bs[b] = blocks[b]
  BY <1>0, <1>3, LeadsOK
<1>6. top.fn \in Nat
  BY <1>2 DEF FrameType
<1> HIDE DEF bs, e
<1>7. FlowOK(E, cs)
  BY <1>3, <1>4, <1>5, <1>6, FlowPlace
<1>8. cs[e].insts = bs[e].insts /\ \A c \in 1..Len(bs) : c # e => cs[c] = bs[c]
  BY <1>4, <1>5, <1>6, PlaceFields
<1> HIDE DEF cs
<1>9. AfterAll(E[e], cs[e].insts) = Outside(top, ds)
  <2>1. cs[e].insts = <<>>
    BY <1>4, <1>5, <1>8 DEF NewBlock
  <2> QED
    BY <1>3, <2>1, AfterNone
<1>10. \A i \in 1..Len(frames) - 1 : \A b \in Holds(frames[i]) : cs[b] = blocks[b]
  <2> SUFFICES ASSUME NEW i \in 1..Len(frames) - 1, NEW b \in Holds(frames[i])
               PROVE  cs[b] = blocks[b]
    OBVIOUS
  <2>1. b \in 1..Len(blocks) /\ b # insert /\ b # e
    BY <1>0, <1>1, HeldApart
  <2> QED
    BY <1>5, <1>8, <2>1
<1>11. SameAround(top, ds, ds)
  BY <1>0, <1>1, AroundSelf
<1>12. ~Parent.returning
  BY <1>0, NotInReturn
<1>13. Flows(E, Pop(frames), cs, e, ds)
  BY <1>0, <1>1, <1>2, <1>3, <1>7, <1>9, <1>10, <1>11, <1>12, PopFlow DEF ds
<1> QED
  BY <1>13 DEF FlowKept, cs, bs, e, ds

\* The end of a body that has jumped adds nothing, and that of another one goes to a
\* block of its construct, whose defers are those of the body.
LEMMA EndLeads ==
  ASSUME ClosedInv, frames # <<>>, top.kind \in Constructs, ~top.open,
         NEW E, Flows(E, frames, blocks, insert, defer_calls_stack),
         NEW b \in 1..Len(blocks), E[b] = Outside(top, defer_calls_stack),
         NEW s, s = IF Jumped THEN <<>> ELSE <<Br(b)>>
  PROVE  \E r : Leads(E, s, r)
<1> DEFINE ds == defer_calls_stack
           a  == AfterAll(E[insert], blocks[insert].insts)
<1>1. /\ insert \in 1..Len(blocks) /\ (Jumped <=> HasJump(blocks[insert].insts))
      /\ top = Peek(frames)
  BY TopFacts
<1>2. FlowOK(E, blocks) /\ (~Jumped => a = Inside(top, ds))
  <2>1. ~top.returning
    BY WaitingReturns DEF ReturnsIn
  <2> QED
    BY <1>1, <2>1 DEF Flows, Remains
<1>3. a \in Stacks
  BY <1>1, <1>2 DEF FlowOK
<1>4. Inside(top, ds) = Outside(top, ds)
  BY DEF Inside, Outside, DepthIn, ScopesIn, Constructs, Loops, Selects, Callables
<1>5. b \in Nat
  OBVIOUS
<1> HIDE DEF ds
<1>6. CASE Jumped
  <2>1. s \in Seq(Instruction) /\ Goes(s) = {} /\ AfterAll(a, s) = a
    BY <1>6, NoneClean, GoesNowhere, AfterNone
  <2>2. Leads(E, s, a)
    BY <1>3, <2>1 DEF Leads
  <2> QED
    BY <2>2
<1>7. CASE ~Jumped
  <2>1. s \in Seq(Instruction) /\ Goes(s) = {b} /\ AfterAll(a, s) = a
    BY <1>5, <1>7, BranchRuns
  <2>2. E[b] = a
    BY <1>2, <1>4, <1>7 DEF ds
  <2>3. Leads(E, s, a)
    BY <1>3, <2>1, <2>2 DEF Leads
  <2> QED
    BY <2>3
<1> QED
  BY <1>6, <1>7

LEMMA TopWaits ==
  ASSUME ClosedInv, frames # <<>>, top.kind \in Constructs,
         NEW E, Flows(E, frames, blocks, insert, defer_calls_stack)
  PROVE  /\ top.end \in 1..Len(blocks) /\ E[top.end] = Outside(top, defer_calls_stack)
         /\ top.fn < top.end
         /\ top.kind \in Loops =>
              top.cond \in 1..Len(blocks) /\ E[top.cond] = Outside(top, defer_calls_stack)
         /\ top.kind \in Selects /\ top.left > 0 =>
              /\ top.next \in 1..Len(blocks) /\ top.next # insert
              /\ blocks[top.next] = NewBlock(top.fn)
              /\ E[top.next] = Outside(top, defer_calls_stack)
<1>1. /\ frames \in Seq(FrameType) /\ Built(frames, blocks, insert)
      /\ Len(frames) \in 1..Len(frames) /\ top = frames[Len(frames)]
  BY TopFacts DEF ClosedInv
<1>2. /\ FrameFits(top, blocks)
      /\ Waits(top, InReturn(frames, Len(frames)), E, blocks, defer_calls_stack)
  BY <1>1 DEF Built, Fits, Flows
<1>3. insert \notin Holds(top)
  <2>1. insert \notin Held(frames) /\ Holds(top) \subseteq Held(frames)
    BY <1>1, HeldFacts DEF Built, Current
  <2> QED
    BY <2>1
<1>4. /\ top.end \in Holds(top)
      /\ top.kind \in Selects /\ top.left > 0 => top.next \in Holds(top)
  BY DEF Holds
<1> QED
  BY <1>2, <1>3, <1>4 DEF FrameFits, Waits

LEMMA BranchLeads ==
  ASSUME ClosedInv, frames # <<>>, top.kind \in Selects, ~top.open,
         NEW E, Flows(E, frames, blocks, insert, defer_calls_stack)
  PROVE  \E r : Leads(E, BranchEnd, r)
<1>1. top.kind # "block" /\ top.kind \in Constructs
  BY DEF Constructs, Selects
<1>2. Jumped <=> has_return_statement \/ has_break_or_continue_statement
  BY <1>1, Ended DEF Over
<1>3. BranchEnd = IF Jumped THEN <<>> ELSE <<Br(top.end)>>
  BY <1>2 DEF BranchEnd
<1>4. top.end \in 1..Len(blocks) /\ E[top.end] = Outside(top, defer_calls_stack)
  BY <1>1, TopWaits
<1> DEFINE b == top.end
           s == BranchEnd
<1> HIDE DEF b, s
<1>5. \E r : Leads(E, s, r)
  BY <1>1, <1>3, <1>4, EndLeads DEF b, s
<1> QED
  BY <1>5 DEF s

LEMMA LeaveSelectFlow ==
  ASSUME FlowInv, LeaveSelect
  PROVE  FlowKept
<1>0. ClosedInv
  BY DEF FlowInv
<1>1. /\ frames # <<>> /\ top.kind \in Selects /\ ~top.open
      /\ blocks' = Place(Emit(blocks, insert, BranchEnd), top.end, top.fn)
      /\ insert' = top.end /\ frames' = Pop(frames)
      /\ defer_calls_stack' = defer_calls_stack
  BY DEF LeaveSelect
<1>2. top.kind \in Constructs
  BY <1>1 DEF Constructs
<1>3. PICK E : Flows(E, frames, blocks, insert, defer_calls_stack)
  BY DEF FlowInv
<1>4. PICK r : Leads(E, BranchEnd, r)
  BY <1>0, <1>1, <1>3, BranchLeads
<1> QED
  BY <1>1, <1>2, <1>3, <1>4, LeaveConstructFlow

LEMMA LeaveLoopFlow ==
  ASSUME FlowInv, LeaveLoop
  PROVE  FlowKept
<1> DEFINE s == IF has_break_or_continue_statement THEN <<>> ELSE <<Br(top.cond)>>
           b == top.cond
<1>0. ClosedInv
  BY DEF FlowInv
<1>1. /\ frames # <<>> /\ top.kind \in Loops /\ ~top.open
      /\ blocks' = Place(Emit(blocks, insert, s), top.end, top.fn)
      /\ insert' = top.end /\ frames' = Pop(frames)
      /\ defer_calls_stack' = defer_calls_stack
  BY DEF LeaveLoop
<1>2. top.kind \in Constructs /\ top.kind # "block"
  BY <1>1 DEF Constructs, Loops
<1>3. Jumped <=> has_break_or_continue_statement
  BY <1>0, <1>1, <1>2, Ended DEF Over
<1>4. PICK E : Flows(E, frames, blocks, insert, defer_calls_stack)
  BY DEF FlowInv
<1>5. b \in 1..Len(blocks) /\ E[b] = Outside(top, defer_calls_stack)
  BY <1>0, <1>1, <1>2, <1>4, TopWaits
<1>6. s = IF Jumped THEN <<>> ELSE <<Br(b)>>
  BY <1>3
<1> HIDE DEF s, b
<1>7. PICK r : Leads(E, s, r)
  BY <1>0, <1>1, <1>2, <1>4, <1>5, <1>6, EndLeads
<1> QED
  BY <1>1, <1>2, <1>4, <1>7, LeaveConstructFlow

LEMMA NextBranchFlow ==
  ASSUME FlowInv, NextBranch
  PROVE  FlowKept
<1> DEFINE ds    == defer_calls_stack
           m     == Len(blocks)
           left  == top.left - 1
           false == IF top.left > 1 THEN m + 2 ELSE top.end
           first == <<NewBlock(top.fn)>>
           more  == IF top.left > 1 THEN <<NewBlock(top.fn)>> ELSE <<>>
           new   == first \o more
           s     == BranchEnd
           next  == top.next
           test  == <<Work, CondBr(m + 1, false)>>
           bs    == Emit(blocks, insert, s)
           g     == [top EXCEPT !.open = TRUE, !.next = false, !.left = left]
           x     == Outside(top, ds)
<1>0. ClosedInv
  BY DEF FlowInv
<1>1. /\ frames # <<>> /\ top.kind \in Selects /\ ~top.open /\ top.left > 0
      /\ blocks' = Emit(bs, next, test) \o first \o more /\ insert' = m + 1
      /\ frames' = Retop(frames, g) /\ ds' = ds
  BY DEF NextBranch, Retop
<1>2. /\ frames \in Seq(FrameType) /\ blocks \in Seq(Block) /\ top \in FrameType
      /\ Built(frames, blocks, insert) /\ ds \in DeferStacks
      /\ Len(frames) \in 1..Len(frames) /\ top = frames[Len(frames)]
      /\ m \in Nat /\ insert \in 1..m
  BY <1>0, <1>1, TopFacts DEF ClosedInv
<1>3. /\ top.left \in Nat \ {0} /\ left \in Nat /\ top.end \in Nat /\ top.fn \in Nat
      /\ left > 0 => top.left > 1
  <2>1. top.left \in Nat /\ top.end \in Nat /\ top.fn \in Nat
    BY <1>2 DEF FrameType
  <2> QED
    BY <1>1, <2>1
<1>4. top.kind \in Constructs /\ top.kind # "function"
  BY <1>1 DEF Constructs, Selects
<1>5. PICK E : Flows(E, frames, blocks, insert, ds)
  BY DEF FlowInv
<1>6. PICK r : Leads(E, s, r)
  BY <1>0, <1>1, <1>5, BranchLeads
<1>7. /\ top.end \in 1..m /\ E[top.end] = x /\ next \in 1..m /\ next # insert
      /\ blocks[next] = NewBlock(top.fn) /\ E[next] = x
  BY <1>0, <1>1, <1>4, <1>5, TopWaits
<1>8. FlowOK(E, blocks) /\ AllDefers(ds) /\ E \in [Nat -> Stacks]
  BY <1>5 DEF Flows
<1>9. x \in Stacks
  BY <1>7, <1>8
<1>10. top.fn \in 0..m
  <2>1. FrameFits(top, blocks) /\ blocks[insert].fn = FnOf(top, blocks)
    BY <1>1, <1>2 DEF Built, Fits, Current, top
  <2>2. top.fn = blocks[insert].fn
    BY <1>1, <2>1 DEF FrameFits, Selects
  <2>3. blocks[insert].fn \in 0..insert
    BY <1>2, <1>8 DEF FlowOK
  <2> QED
    BY <1>2, <2>2, <2>3
<1>11. /\ new \in Seq(Block) /\ Len(new) = (IF top.left > 1 THEN 2 ELSE 1)
       /\ \A i \in 1..Len(new) : new[i] = NewBlock(top.fn)
  BY <1>3, BranchBlocks
<1>12. m + 1 \in Nat /\ m + 2 \in Nat /\ false \in Nat
  BY <1>2, <1>3
<1>13. /\ test \in Seq(Instruction) /\ AfterAll(x, test) = x
       /\ Goes(test) = {m + 1, false}
  <2> DEFINE n == m + 1
  <2>1. n \in Nat
    BY <1>12
  <2> HIDE DEF n, false
  <2>2. /\ <<Work, CondBr(n, false)>> \in Seq(Instruction)
        /\ AfterAll(x, <<Work, CondBr(n, false)>>) = x
        /\ Goes(<<Work, CondBr(n, false)>>) = {n, false}
    BY <1>12, <2>1, TestRuns
  <2> QED
    BY <2>2 DEF n
<1>14. /\ AfterAll(x, NewBlock(top.fn).insts) = x /\ Goes(NewBlock(top.fn).insts) = {}
       /\ NewBlock(top.fn).fn = top.fn /\ ~HasJump(NewBlock(top.fn).insts)
  <2>1. NewBlock(top.fn).insts = <<>>
    BY DEF NewBlock
  <2> QED
    BY <2>1, EmptyRuns, NoneClean
<1>15. /\ FlowOK(E, bs) /\ bs \in Seq(Block) /\ Len(bs) = m
       /\ \A b \in 1..m : b # insert => bs[b] = blocks[b]
  BY <1>0, <1>1, <1>6, <1>8, LeadsOK
<1>16. blocks' = Emit(bs, next, test) \o new
  <2>1. first \in Seq(Block) /\ more \in Seq(Block)
    <3>1. NewBlock(top.fn) \in Block
      BY <1>3, NewBlockType, NoneClean, Zenon
    <3> DEFINE y == NewBlock(top.fn)
    <3> HIDE DEF y
    <3>2. <<y>> \in Seq(Block) /\ (IF top.left > 1 THEN <<y>> ELSE <<>>) \in Seq(Block)
      BY <3>1 DEF y
    <3> QED
      BY <3>2 DEF y
  <2> DEFINE es == Emit(bs, next, test)
  <2>2. es \in Seq(Block)
    <3> HIDE DEF test, bs
    <3> QED
      BY <1>7, <1>13, <1>15, EmitFields
  <2> HIDE DEF es, first, more
  <2>3. (es \o first) \o more = es \o (first \o more)
    BY <2>1, <2>2, ConcatAssociative
  <2> QED
    BY <1>1, <2>3 DEF es
<1> HIDE DEF new, test, bs, x, ds, next
<1> DEFINE F  == Grown(E, m, x)
           gs == bs \o new
           cs == Emit(gs, next, test)
<1>17. /\ F \in [Nat -> Stacks] /\ \A b \in 1..m : F[b] = E[b]
       /\ \A b \in Nat : b > m => F[b] = x
  BY <1>2, <1>8, <1>9, GrownFacts
<1>18. /\ Len(new) \in Nat /\ gs \in Seq(Block) /\ Len(gs) = m + Len(new)
       /\ \A b \in 1..m : gs[b] = bs[b]
       /\ \A i \in 1..Len(new) : gs[m + i] = new[i]
  <2>1. bs \in Seq(Block) /\ new \in Seq(Block) /\ Len(bs) = m
    BY <1>11, <1>15
  <2> HIDE DEF m
  <2> QED
    BY <2>1, ConcatFields
<1>19. blocks' = cs
  BY <1>7, <1>11, <1>13, <1>15, <1>16, EmitConcat
<1>20. FlowOK(F, gs)
  <2>1. ASSUME NEW i \in 1..Len(new)
        PROVE  /\ AfterAll(x, new[i].insts) = x
               /\ new[i].fn \in 0..m + i
               /\ new[i].fn = m + i => x = <<>>
               /\ \A t \in Goes(new[i].insts) :
                    t \in 1..m + Len(new) /\ (t \in 1..m => E[t] = x)
    <3>1. i \in Nat /\ i >= 1
      BY <1>18
    <3> DEFINE n == top.fn
    <3>2. new[i].fn = n
      BY <1>11, <1>14
    <3> HIDE DEF n
    <3>3. n \in 0..m
      BY <1>10 DEF n
    <3>4. n \in 0..m + i /\ n # m + i
      BY <1>2, <3>1, <3>3
    <3> QED
      BY <1>11, <1>14, <3>2, <3>4
  <2>2. FlowOK(Grown(E, Len(bs), x), bs \o new)
    BY <1>8, <1>9, <1>11, <1>15, <2>1, FlowNew
  <2> QED
    BY <1>15, <2>2
<1> HIDE DEF F
<1>21. m + 1 \in 1..Len(gs) /\ F[m + 1] = x /\ false \in 1..Len(gs) /\ F[false] = x
  <2>1. m + 1 \in 1..Len(gs) /\ F[m + 1] = x
    <3> HIDE DEF false, gs
    <3>1. m + 1 \in Nat /\ m + 1 > m /\ Len(new) >= 1
      BY <1>2, <1>11
    <3>2. F[m + 1] = x
      BY <1>17, <3>1
    <3>3. m + 1 \in 1..Len(gs)
      BY <1>2, <1>18, <3>1
    <3> QED
      BY <3>2, <3>3
  <2>2. false \in 1..Len(gs) /\ F[false] = x
    <3>1. CASE top.left > 1
      <4>1. false = m + 2 /\ Len(new) = 2
        BY <1>11, <3>1
      <4>2. m + 2 \in Nat /\ m + 2 > m /\ m + 2 \in 1..m + Len(new)
        BY <1>2, <4>1
      <4>3. F[m + 2] = x
        BY <1>17, <4>2
      <4> HIDE DEF false
      <4> QED
        BY <1>18, <4>1, <4>2, <4>3
    <3>2. CASE ~(top.left > 1)
      <4>1. false = top.end
        BY <3>2
      <4> HIDE DEF false
      <4> QED
        BY <1>2, <1>7, <1>17, <1>18, <4>1
    <3> QED
      BY <3>1, <3>2
  <2> HIDE DEF false, gs
  <2> QED
    BY <2>1, <2>2
<1>22. /\ gs[next] = NewBlock(top.fn) /\ F[next] = x /\ next \in 1..Len(gs)
  BY <1>2, <1>7, <1>15, <1>17, <1>18
<1> HIDE DEF gs
<1>23. FlowOK(F, cs)
  <2>1. x = AfterAll(AfterAll(F[next], gs[next].insts), test)
    BY <1>13, <1>14, <1>22
  <2>2. ~HasJump(gs[next].insts)
    BY <1>14, <1>22
  <2>3. \A t \in Goes(test) : t \in 1..Len(gs) /\ F[t] = x
    BY <1>13, <1>21
  <2> QED
    BY <1>9, <1>13, <1>18, <1>20, <1>22, <2>1, <2>2, <2>3, FlowEmit
<1>24. \A b \in 1..Len(gs) : b # next => cs[b] = gs[b]
  BY <1>13, <1>18, <1>22, EmitFields
<1> HIDE DEF cs
<1>25. /\ g \in FrameType /\ g.kind = top.kind /\ g.fn = top.fn /\ g.end = top.end
       /\ g.left = left /\ g.next = false /\ g.depth = top.depth
       /\ g.scopes = top.scopes /\ g.returning = top.returning
  <2> HIDE DEF false
  <2> QED
    BY <1>2, <1>3, <1>12 DEF FrameType
<1> HIDE DEF g, left
<1>26. Outside(g, ds) = x /\ Remains(g, ds) = x
  <2>1. ~top.returning
    BY <1>0, <1>1, WaitingReturns DEF ReturnsIn
  <2> QED
    BY <1>1, <1>25, <2>1 DEF Remains, Outside, Inside, DepthIn, ScopesIn, Selects, Callables, x
<1>27. Willing(g) /\ \A b : Waits(g, b, F, cs, ds)
  <2>1. g.kind # "block" /\ g.kind \notin Inner /\ g.kind \notin Loops
    BY <1>1, <1>25 DEF Selects, Inner, Loops
  <2>2. F[g.end] = x /\ g.fn < g.end
    <3>1. top.fn < top.end
      BY <1>0, <1>1, <1>4, <1>5, TopWaits DEF ds
    <3> QED
      BY <1>7, <1>17, <1>25, <3>1
  <2>3. F[g.next] = x
    BY <1>21, <1>25
  <2> QED
    BY <1>26, <2>1, <2>2, <2>3 DEF Willing, Waits
<1>28. \A i \in 1..Len(frames) - 1 : \A b \in Holds(frames[i]) : cs[b] = blocks[b]
  <2> SUFFICES ASSUME NEW i \in 1..Len(frames) - 1, NEW b \in Holds(frames[i])
               PROVE  cs[b] = blocks[b]
    OBVIOUS
  <2>1. b \in 1..m /\ b # insert /\ b \notin Holds(top)
    BY <1>0, <1>1, HeldApart
  <2>2. next \in Holds(top)
    BY <1>1 DEF Holds, next
  <2>3. b # next /\ b \in 1..Len(gs)
    BY <1>2, <1>18, <2>1, <2>2
  <2> QED
    BY <1>15, <1>18, <1>24, <2>1, <2>3 DEF gs
<1>29. \A i \in 1..Len(frames) - 1 :
         Waits(frames[i], InReturn(frames, i), F, cs, ds) /\ Willing(frames[i])
  <2>1. top.kind # "function" => SameAround(top, ds, ds)
    BY <1>0, <1>1, AroundSelf DEF ds
  <2> QED
    BY <1>0, <1>1, <1>2, <1>5, <1>8, <1>17, <1>28, <2>1, LowerWaits DEF ds
<1> DEFINE fs == Retop(frames, g)
<1>30. /\ Len(fs) = Len(frames) /\ Peek(fs) = g /\ fs[Len(frames)] = g
       /\ \A i \in 1..Len(frames) - 1 : fs[i] = frames[i]
       /\ \A i \in 1..Len(frames) : i = Len(frames) \/ i \in 1..Len(frames) - 1
  BY <1>1, <1>2, <1>25, RetopFacts
<1> HIDE DEF fs
<1>31. ASSUME NEW i \in 1..Len(fs)
       PROVE  Waits(fs[i], InReturn(fs, i), F, cs, ds) /\ Willing(fs[i])
  <2>1. CASE i = Len(frames)
    BY <1>27, <1>30, <2>1
  <2>2. CASE i \in 1..Len(frames) - 1
    <3>1. i > 1 => i - 1 \in 1..Len(frames) - 1
      BY <1>2, <2>2
    <3>2. InReturn(fs, i) = InReturn(frames, i)
      BY <1>30, <3>1 DEF InReturn
    <3> QED
      BY <1>29, <1>30, <2>2, <3>2
  <2> QED
    BY <1>30, <2>1, <2>2
<1> DEFINE n == m + 1
<1>32. AfterAll(F[n], cs[n].insts) = x
  <2>1. n # next /\ 1 \in 1..Len(new)
    BY <1>2, <1>7, <1>11
  <2>2. cs[n] = NewBlock(top.fn)
    BY <1>11, <1>18, <1>21, <1>24, <2>1 DEF gs
  <2> QED
    BY <1>14, <1>21, <2>2
<1> HIDE DEF n
<1>33. Flows(F, fs, cs, n, ds)
  BY <1>8, <1>17, <1>23, <1>26, <1>30, <1>31, <1>32 DEF Flows
<1> QED
  BY <1>1, <1>19, <1>33 DEF FlowKept, fs, n, ds

-----------------------------------------------------------------------------
(* Every step, and every path.                                             *)

\* What the statements of the program are taken to be here: those that BlocksClosed
\* needs, and only calls by name are deferred, inside a block.
Deferrable ==
  Tame /\ DeferCallees \subseteq {"function"} /\ Unbraced \cap {"return", "defer"} = {}

LEMMA InitFlow == Init => FlowInv
<1> SUFFICES ASSUME Init PROVE FlowInv
  OBVIOUS
<1>1. frames = <<>> /\ blocks = <<>> /\ defer_calls_stack = <<>>
  BY DEF Init
<1> DEFINE E == [b \in Nat |-> <<>>]
<1>2. E \in [Nat -> Stacks]
  BY StackFacts
<1> HIDE DEF E
<1>3. FlowOK(E, <<>>) /\ AllDefers(<<>>)
  BY DEF FlowOK, AllDefers
<1>4. Flows(E, <<>>, <<>>, insert, <<>>)
  BY <1>2, <1>3 DEF Flows
<1> QED
  BY <1>1, <1>4, InitClosed DEF FlowInv

LEMMA StepFlow ==
  ASSUME Deferrable, FlowInv, [Next]_vars
  PROVE  FlowInv'
<1>0. SUFFICES FlowKept
  <2>1. ClosedInv'
    BY StepClosed DEF FlowInv, Deferrable
  <2> QED
    BY <1>0, <2>1 DEF FlowInv, FlowKept
<1>1. CASE EnterFunction \/ LeaveFunction
  BY <1>1, EnterFunctionFlow, LeaveFunctionFlow
<1>2. CASE EnterLambda
  BY <1>2, EnterLambdaFlow
<1>3. CASE LeaveLambda \/ LeaveGeneric
  BY <1>3, LeaveInnerFlow DEF LeaveLambda, LeaveGeneric, Inner
<1>4. ASSUME NEW g \in Generics, EnterGeneric(g)
      PROVE  FlowKept
  BY <1>4, EnterGenericFlow
<1>5. CASE Plain \/ \E g \in Generics : CallInstance(g)
  BY <1>5, PlainFlow
<1>6. CASE EnterBlock \/ LeaveBlock
  BY <1>6, EnterBlockFlow, LeaveBlockFlow
<1>7. ASSUME NEW kind \in DeferCallees, Defer(kind)
      PROVE  FlowKept
  BY <1>7, DeferFlow DEF Deferrable
<1>8. ASSUME NEW s \in Selects, NEW n \in Branches, EnterSelect(s, n)
      PROVE  FlowKept
  BY <1>8, EnterSelectFlow
<1>9. CASE NextBranch \/ LeaveSelect
  BY <1>9, NextBranchFlow, LeaveSelectFlow
<1>10. ASSUME NEW s \in Loops \ {"forever"}, EnterConditionLoop(s)
       PROVE  FlowKept
  BY <1>10, EnterConditionLoopFlow
<1>11. CASE EnterForever \/ LeaveLoop
  BY <1>11, EnterForeverFlow, LeaveLoopFlow
<1>12. CASE EnterReturn \/ LeaveReturn
  BY <1>12, EnterReturnFlow, LeaveReturnFlow DEF Deferrable
<1>13. ASSUME NEW n \in Times, Break(n) \/ Continue(n)
       PROVE  FlowKept
  <2>1. n = 1
    BY DEF Tame, Deferrable
  <2> QED
    BY <1>13, <2>1, BreakFlow DEF Deferrable
<1>14. CASE DeclareGeneric \/ Finished \/ UNCHANGED vars
  <2>1. UNCHANGED <<frames, blocks, insert, defer_calls_stack>>
    BY <1>14 DEF DeclareGeneric, Finished, vars, tables, flags
  <2> QED
    BY <2>1 DEF FlowInv, FlowKept
<1> QED
  BY <1>1, <1>2, <1>3, <1>4, <1>5, <1>6, <1>7, <1>8, <1>9, <1>10, <1>11, <1>12,
     <1>13, <1>14
  DEF Next

\* A function on 0..n that starts with a value and takes steps from there.
LEMMA Unfolds ==
  ASSUME NEW n \in Nat
  PROVE  \E f : /\ f = [k \in 0..n |-> IF k = 0 THEN {<<b, <<>>>> : b \in Entries}
                                       ELSE Onward(f[k - 1])]
                /\ (n = Len(blocks) => Reached = f[n])
<1> DEFINE base == {<<b, <<>>>> : b \in Entries}
           G(f, m) == f = [k \in 0..m |-> IF k = 0 THEN base ELSE Onward(f[k - 1])]
           T == {m \in 0..n : \E f : G(f, m)}
<1>1. 0 \in T
  <2> DEFINE f == [k \in 0..0 |-> base]
  <2>1. f = [k \in 0..0 |-> IF k = 0 THEN base ELSE Onward(f[k - 1])]
    <3> \A k \in 0..0 : k = 0
      OBVIOUS
    <3> QED
      OBVIOUS
  <2> HIDE DEF f
  <2>2. \E g : G(g, 0)
    BY <2>1
  <2> QED
    BY <2>2
<1>2. ASSUME NEW m \in 0..n - 1, m \in T PROVE m + 1 \in T
  <2>1. PICK f : G(f, m)
    BY <1>2
  <2> DEFINE g == [k \in 0..m + 1 |-> IF k \in 0..m THEN f[k] ELSE Onward(f[m])]
  <2>2. ASSUME NEW k \in 0..m + 1
        PROVE  g[k] = IF k = 0 THEN base ELSE Onward(g[k - 1])
    <3> HIDE DEF base
    <3>1. CASE k = 0
      <4>1. 0 \in 0..m /\ 0 \in 0..m + 1
        OBVIOUS
      <4>2. g[0] = f[0] /\ f[0] = base
        BY <2>1, <4>1
      <4> QED
        BY <3>1, <4>2
    <3>2. CASE k \in 1..m
      <4>1. k \in 0..m /\ k - 1 \in 0..m /\ k - 1 \in 0..m + 1 /\ k # 0
        BY <3>2
      <4>2. g[k] = f[k] /\ g[k - 1] = f[k - 1]
        BY <4>1
      <4>3. f[k] = Onward(f[k - 1])
        BY <2>1, <4>1
      <4> HIDE DEF g
      <4> QED
        BY <4>1, <4>2, <4>3
    <3>3. CASE k = m + 1
      <4>1. k \notin 0..m /\ k # 0 /\ k - 1 = m /\ m \in 0..m /\ m \in 0..m + 1
        BY <3>3
      <4>2. g[k] = Onward(f[m]) /\ g[m] = f[m]
        BY <3>3, <4>1
      <4> HIDE DEF g
      <4> QED
        BY <3>3, <4>1, <4>2
    <3> QED
      BY <3>1, <3>2, <3>3
  <2>3. g = [k \in 0..m + 1 |-> g[k]]
    OBVIOUS
  <2> HIDE DEF g, base
  <2>4. G(g, m + 1)
    BY <2>2, <2>3
  <2> QED
    BY <2>4
<1>3. n \in T
  <2> HIDE DEF T
  <2>1. 0..n \subseteq T
    BY <1>1, <1>2, CountUp
  <2> QED
    BY <2>1
<1>4. \E f : G(f, n)
  BY <1>3
<1> DEFINE r == CHOOSE f : G(f, n)
<1>5. G(r, n)
  BY <1>4
<1>6. n = Len(blocks) => Reached = r[n]
  BY DEF Reached
<1> QED
  BY <1>5, <1>6

\* Whatever is reached, what is pending there is what the block expects.
LEMMA ReachedFlows ==
  ASSUME blocks \in Seq(Block), NEW E, E \in [Nat -> Stacks], FlowOK(E, blocks)
  PROVE  \A s \in Reached : s[1] \in 1..Len(blocks) /\ s[2] = E[s[1]]
<1> DEFINE n == Len(blocks)
           X == {<<b, E[b]>> : b \in 1..n}
<1>0. n \in Nat
  OBVIOUS
<1>1. PICK f : /\ f = [k \in 0..n |-> IF k = 0 THEN {<<b, <<>>>> : b \in Entries}
                                      ELSE Onward(f[k - 1])]
               /\ n = Len(blocks) => Reached = f[n]
  BY <1>0, Unfolds
<1> DEFINE T == {k \in 0..n : f[k] \subseteq X}
<1>2. 0 \in T
  <2>1. 0 \in 0..n
    BY <1>0
  <2>2. f[0] = {<<b, <<>>>> : b \in Entries}
    BY <1>1, <2>1
  <2>3. ASSUME NEW b \in Entries PROVE <<b, <<>>>> \in X
    <3>1. b \in 1..n /\ blocks[b].fn = b
      BY DEF Entries
    <3>2. E[b] = <<>>
      BY <3>1 DEF FlowOK
    <3> QED
      BY <3>1, <3>2
  <2> QED
    BY <2>1, <2>2, <2>3
<1>3. ASSUME NEW m \in 0..n - 1, m \in T PROVE m + 1 \in T
  <2>1. m + 1 \in 0..n /\ (m + 1) - 1 = m /\ m + 1 # 0
    BY <1>0
  <2>2. f[m + 1] = Onward(f[m])
    BY <1>1, <2>1
  <2>3. f[m] \subseteq X
    BY <1>3
  <2>4. ASSUME NEW s \in f[m], NEW t \in Successors(s[1])
        PROVE  <<t, AfterBlock(s[1], s[2])>> \in X
    <3>1. PICK b \in 1..n : s = <<b, E[b]>>
      BY <2>3
    <3>2. s[1] = b /\ s[2] = E[b]
      BY <3>1
    <3>3. t \in Goes(blocks[b].insts)
      BY <2>4, <3>2 DEF Successors, Jumps, Goes
    <3>4. t \in 1..n /\ E[t] = AfterAll(E[b], blocks[b].insts)
      BY <3>3 DEF FlowOK
    <3> QED
      BY <3>2, <3>4 DEF AfterBlock
  <2>5. Onward(f[m]) \subseteq X
    <3> HIDE DEF X
    <3> QED
      BY <2>3, <2>4 DEF Onward
  <2> QED
    BY <2>1, <2>2, <2>5
<1>4. n \in T
  <2> HIDE DEF T
  <2>1. 0..n \subseteq T
    BY <1>0, <1>2, <1>3, CountUp
  <2> QED
    BY <1>0, <2>1
<1>5. Reached \subseteq X
  BY <1>1, <1>4
<1> QED
  BY <1>5

LEMMA FlowSound == FlowInv => DefersBalanced
<1> SUFFICES ASSUME FlowInv, NEW s \in Reached PROVE AfterBlock(s[1], s[2]) # Bad
  BY DEF DefersBalanced
<1>1. blocks \in Seq(Block)
  BY DEF FlowInv, ClosedInv, LoopInv, TypeInv, TypeOK
<1>2. PICK E : Flows(E, frames, blocks, insert, defer_calls_stack)
  BY DEF FlowInv
<1>3. E \in [Nat -> Stacks] /\ FlowOK(E, blocks)
  BY <1>2 DEF Flows
<1>4. s[1] \in 1..Len(blocks) /\ s[2] = E[s[1]]
  BY <1>1, <1>3, ReachedFlows
<1>5. AfterAll(E[s[1]], blocks[s[1]].insts) \in Stacks
  BY <1>3, <1>4 DEF FlowOK
<1> QED
  BY <1>4, <1>5, StackFacts DEF AfterBlock

THEOREM DefersAreBalanced ==
  ASSUME Deferrable
  PROVE  Spec => []DefersBalanced
<1>1. Init => FlowInv
  BY InitFlow
<1>2. FlowInv /\ [Next]_vars => FlowInv'
  BY StepFlow
<1>3. FlowInv => DefersBalanced
  BY FlowSound
<1> QED
  BY <1>1, <1>2, <1>3, PTL DEF Spec
=============================================================================
