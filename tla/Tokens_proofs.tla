--------------------------- MODULE Tokens_proofs ---------------------------
(***************************************************************************)
(* What holds of the scanner for every text: it never gets behind the end  *)
(* of the text, and the line and the columns of a token are those it       *)
(* stands in, outside of what the newlines it does not count disturb.      *)
(***************************************************************************)
EXTENDS Tokens, SequenceTheorems, FiniteSetTheorems, WellFoundedInduction, TLAPS

-----------------------------------------------------------------------------
(* Numbers.                                                                *)

\* A set of numbers that is not empty has a least one.
LEMMA LeastOf ==
  ASSUME NEW T \in SUBSET Nat, T # {}
  PROVE  \E i \in T : \A j \in T : i <= j
<1>1. PICK x \in T : \A y \in T : ~(<<y, x>> \in OpToRel(<, Nat))
  BY WFMin, NatLessThanWellFounded
<1>2. ASSUME NEW y \in T
      PROVE  x <= y
  <2>1. ~(y < x)
    BY <1>1 DEF OpToRel
  <2> QED
    BY <2>1
<1> QED
  BY <1>2

\* A set of numbers with an upper bound that is not empty has a last one, its Max.
LEMMA MaxOf ==
  ASSUME NEW n \in Int, NEW T \in SUBSET Int, T # {}, \A i \in T : i <= n
  PROVE  Max(T) \in T /\ \A i \in T : i <= Max(T)
<1> DEFINE U == {n - i : i \in T}
<1>1. U \in SUBSET Nat /\ U # {}
  <2>1. \A i \in T : n - i \in Nat
    OBVIOUS
  <2> QED
    BY <2>1
<1>2. PICK x \in U : \A y \in U : x <= y
  BY <1>1, LeastOf
<1>3. PICK i \in T : x = n - i
  OBVIOUS
<1>4. \A j \in T : i >= j
  <2> SUFFICES ASSUME NEW j \in T
               PROVE  i >= j
    OBVIOUS
  <2>1. n - i <= n - j
    BY <1>2, <1>3
  <2> QED
    BY <2>1
<1> HIDE DEF U
<1>5. \E m \in T : \A j \in T : m >= j
  BY <1>4
<1>6. Max(T) \in T /\ \A j \in T : Max(T) >= j
  BY <1>5 DEF Max
<1> QED
  BY <1>6

-----------------------------------------------------------------------------
(* Reading.                                                                *)

\* Characters other than NUL stand in the text, not behind it.
LEMMA InText ==
  ASSUME NEW p \in Nat, source_code \in Seq(STRING), At(p) # NUL
  PROVE  p + 1 <= source_code_length /\ source_code_length \in Nat
BY DEF At, source_code_length

\* After stays in the text.
LEMMA AfterBounds ==
  ASSUME source_code \in Seq(STRING), NEW p \in Nat, p <= source_code_length,
         NEW chars, NUL \notin chars
  PROVE  After(p, chars) \in p .. source_code_length
<1>1. source_code_length \in Nat
  BY DEF source_code_length
<1> DEFINE T == {q \in p .. source_code_length : At(q) \notin chars}
<1>2. At(source_code_length) = NUL
  BY <1>1 DEF At
<1>3. T \in SUBSET Nat /\ source_code_length \in T
  BY <1>1, <1>2
<1>4. PICK q \in T : \A r \in T : q <= r
  BY <1>3, LeastOf
<1>5. \A r \in p .. q - 1 : At(r) \in chars
  <2> SUFFICES ASSUME NEW r \in p .. q - 1, At(r) \notin chars
               PROVE  FALSE
    OBVIOUS
  <2>1. r \in T
    BY <1>1
  <2> QED
    BY <1>1, <1>4, <2>1
<1>6. q \in p .. source_code_length /\ At(q) \notin chars
  OBVIOUS
<1> HIDE DEF T
<1> QED
  BY <1>5, <1>6 DEF After

\* advance() n times.
LEMMA AdvancedBounds ==
  ASSUME NEW p \in Nat, NEW n \in Nat, source_code \in Seq(STRING), p <= source_code_length
  PROVE  /\ Advanced(p, n) \in Nat /\ p <= Advanced(p, n)
         /\ Advanced(p, n) <= source_code_length /\ Advanced(p, n) <= p + n
<1>1. source_code_length \in Nat
  BY DEF source_code_length
<1>2. \E m \in {p + n, source_code_length} : \A j \in {p + n, source_code_length} : m =< j
  BY <1>1
<1>3. /\ Advanced(p, n) \in {p + n, source_code_length}
      /\ \A j \in {p + n, source_code_length} : Advanced(p, n) <= j
  BY <1>2 DEF Advanced, Min
<1> QED
  BY <1>1, <1>3

LEMMA AdvancedFull ==
  ASSUME NEW p \in Nat, NEW n \in Nat, source_code_length \in Nat, p + n <= source_code_length
  PROVE  Advanced(p, n) = p + n
<1>1. \E m \in {p + n, source_code_length} : \A j \in {p + n, source_code_length} : m =< j
  OBVIOUS
<1>2. /\ Advanced(p, n) \in {p + n, source_code_length}
      /\ \A j \in {p + n, source_code_length} : Advanced(p, n) <= j
  BY <1>1 DEF Advanced, Min
<1> QED
  BY <1>2

-----------------------------------------------------------------------------
(* Lines and columns.                                                      *)

\* Max(Newlines(p) \cup {-1}) is the position of the last newline before p, or -1.
LEMMA LineTypes ==
  ASSUME NEW p \in Int
  PROVE  /\ IsFiniteSet(Newlines(p)) /\ Newlines(p) \subseteq 0 .. p - 1
         /\ Line(p) \in Nat \ {0}
         /\ Max(Newlines(p) \cup {-1}) \in Newlines(p) \cup {-1}
         /\ Column(p) \in Int
<1>1. Newlines(p) \subseteq 0 .. p - 1
  BY DEF Newlines
<1>2. IsFiniteSet(0 .. p - 1)
  BY FS_Interval
<1>3. IsFiniteSet(Newlines(p))
  BY <1>1, <1>2, FS_Subset
<1>4. Cardinality(Newlines(p)) \in Nat
  BY <1>3, FS_CardinalityType
<1>5. \E n \in Int : \A i \in Newlines(p) \cup {-1} : i <= n
  <2>1. CASE p > 0
    BY <1>1, <2>1
  <2>2. CASE ~(p > 0)
    BY <1>1, <2>2
  <2> QED
    BY <2>1, <2>2
<1>6. Newlines(p) \cup {-1} \in SUBSET Int /\ Newlines(p) \cup {-1} # {}
  BY <1>1
<1>7. Max(Newlines(p) \cup {-1}) \in Newlines(p) \cup {-1}
  BY <1>5, <1>6, MaxOf
<1> QED
  BY <1>1, <1>3, <1>4, <1>6, <1>7 DEF Line, Column

\* A position that no newline separates from p is in the same line.
LEMMA SameLine ==
  ASSUME NEW p \in Nat, NEW q \in Nat, p <= q, \A r \in p .. q - 1 : At(r) # "\n"
  PROVE  Line(q) = Line(p) /\ Column(q) = Column(p) + (q - p)
<1>1. Newlines(q) = Newlines(p)
  BY DEF Newlines
<1>2. Line(q) = Line(p)
  BY <1>1 DEF Line
<1> DEFINE m == Max(Newlines(p) \cup {-1})
<1>3. m \in Int
  BY LineTypes
<1>4. Column(q) = q - m /\ Column(p) = p - m
  BY <1>1 DEF Column
<1> HIDE DEF m
<1> QED
  BY <1>2, <1>3, <1>4

\* A newline starts the next line.
LEMMA NextLine ==
  ASSUME NEW p \in Nat, At(p) = "\n"
  PROVE  Line(p + 1) = Line(p) + 1 /\ Column(p + 1) = 1
<1>1. Newlines(p + 1) = Newlines(p) \cup {p} /\ p \notin Newlines(p)
  BY DEF Newlines
<1>p. p \in Int
  OBVIOUS
<1>2. IsFiniteSet(Newlines(p)) /\ Newlines(p) \subseteq 0 .. p - 1
  BY <1>p, LineTypes
<1>3. Cardinality(Newlines(p + 1)) = Cardinality(Newlines(p)) + 1 /\ Cardinality(Newlines(p)) \in Nat
  BY <1>1, <1>2, FS_AddElement, FS_CardinalityType
<1>4. Line(p + 1) = Line(p) + 1
  BY <1>3 DEF Line
<1> DEFINE T == Newlines(p + 1) \cup {-1}
<1>5. T \in SUBSET Int /\ p \in T /\ \A i \in T : i <= p
  BY <1>1, <1>2
<1> HIDE DEF T
<1>6. Max(T) \in T /\ \A i \in T : i <= Max(T)
  BY <1>5, MaxOf
<1>7. Max(T) = p
  <2>1. Max(T) \in Int /\ p <= Max(T) /\ Max(T) <= p
    BY <1>5, <1>6
  <2> QED
    BY <2>1
<1>8. Column(p + 1) = p + 1 - p
  BY <1>7 DEF Column, T
<1> QED
  BY <1>4, <1>8
-----------------------------------------------------------------------------
(* The inductive invariant.                                                *)

Modes == {"skip", "line_comment", "block_comment", "token", "string", "stopped"}

\* The types, and the bounds of the position in each mode.
Typed ==
  /\ source_code \in Seq(STRING)
  /\ start_position \in Nat /\ current_position \in Nat
  /\ line_number \in Nat \ {0} /\ column_start \in Nat /\ column_current \in Nat
  /\ mode \in Modes
  /\ \E S : tokens \in Seq(S)
  /\ \A k \in DOMAIN tokens : tokens[k].kind \in TokenKind
Bounds ==
  /\ mode \in {"skip", "stopped"} => current_position <= source_code_length + Ends
  /\ mode \in {"line_comment", "block_comment", "string"} =>
       current_position <= source_code_length
  /\ mode \in {"token", "string"} => 1 <= start_position /\ start_position <= current_position
  /\ mode = "token" => /\ current_position = start_position
                       /\ current_position <= source_code_length + Ends + 1
\* Between tokens column_current is that of the next character, and line_number is its line,
\* or in a block comment the line behind it.
Skipping ==
  mode \in {"skip", "line_comment", "block_comment"} =>
    /\ LinesCounted(current_position + 1) =>
         line_number = Line(IF mode = "block_comment" THEN current_position + 1
                                                      ELSE current_position)
    /\ At(current_position) # "\n" /\ LineStarted(current_position) =>
         column_current = Column(current_position) - 1
\* In a token line_number and column_start are those of its first character, and
\* column_current is as far behind column_start as the scanner is.
Scanned ==
  mode \in {"token", "string"} =>
    /\ At(start_position - 1) # "\n"
    /\ column_current = column_start + (current_position - start_position)
    /\ LinesCounted(start_position - 1) => line_number = Line(start_position - 1)
    /\ LineStarted(start_position - 1) => column_start = Column(start_position - 1)
Exact(t) ==
  /\ LinesCounted(t.first) => t.line = Line(t.first)
  /\ LineStarted(t.first)  => t.column_start = Column(t.first)
  /\ LineStarted(t.next)   => t.column_end = Column(t.next - 1)
AllExact == \A k \in DOMAIN tokens : Exact(tokens[k])

TInv == Typed /\ Bounds /\ Skipping /\ Scanned /\ AllExact

LEMMA Lengths ==
  ASSUME TInv
  PROVE  source_code_length \in Nat /\ Ends \in Nat
<1>1. PICK S : tokens \in Seq(S)
  BY DEF TInv, Typed
<1>2. DOMAIN tokens = 1 .. Len(tokens) /\ Len(tokens) \in Nat
  BY <1>1
<1>3. IsFiniteSet(DOMAIN tokens)
  BY <1>2, FS_Interval
<1>4. IsFiniteSet({k \in DOMAIN tokens : tokens[k].kind = END_OF_FILE})
  BY <1>3, FS_Subset
<1>5. source_code_length \in Nat
  BY DEF TInv, Typed, source_code_length
<1> QED
  BY <1>4, <1>5, FS_CardinalityType DEF Ends

\* The scan of the end is the only one behind the end.
LEMMA InvImplies ==
  ASSUME TInv
  PROVE  PositionsExact
<1>1. source_code_length \in Nat /\ Ends \in Nat
  BY Lengths
<1>2. InBounds
  <2>1. CASE mode = "token" /\ first # NUL
    <3>1. start_position - 1 \in Nat /\ current_position = start_position /\ start_position \in Nat
      BY <2>1 DEF TInv, Typed, Bounds
    <3>2. current_position <= source_code_length
      BY <2>1, <3>1, InText DEF first, TInv, Typed
    <3> QED
      BY <1>1, <2>1, <3>1, <3>2 DEF InBounds
  <2>2. CASE mode = "token" /\ first = NUL
    BY <2>2 DEF TInv, Bounds, InBounds
  <2>3. CASE mode # "token"
    <3>1. current_position \in Nat
      BY DEF TInv, Typed
    <3>3. mode \in {"skip", "stopped", "line_comment", "block_comment", "string"}
      BY <2>3 DEF TInv, Typed, Modes
    <3>4. \/ current_position <= source_code_length + Ends
          \/ current_position <= source_code_length
      BY <3>3 DEF TInv, Bounds
    <3>2. current_position <= source_code_length + Ends
      BY <1>1, <3>1, <3>4
    <3> QED
      BY <1>1, <2>3, <3>1, <3>2 DEF InBounds
  <2> QED
    BY <2>1, <2>2, <2>3
<1>3. TypeOK
  BY <1>2 DEF TypeOK, TInv, Typed, Modes
<1> QED
  BY <1>3 DEF PositionsExact, TInv, AllExact, Exact

-----------------------------------------------------------------------------
(* What a step keeps.                                                      *)

\* The text stays, and with it the lines and columns of its positions.
LEMMA TextKept ==
  ASSUME source_code' = source_code
  PROVE  /\ \A p : Line(p)' = Line(p)
         /\ \A p : Column(p)' = Column(p)
         /\ \A p : Newlines(p)' = Newlines(p)
         /\ \A p : At(p)' = At(p)
         /\ source_code_length' = source_code_length
BY DEF Newlines, Line, Column, At, source_code_length

Grows ==
  /\ source_code' = source_code /\ commented \subseteq commented' /\ edges \subseteq edges'
  /\ \A k \in DOMAIN tokens : k \in DOMAIN tokens' /\ tokens'[k] = tokens[k]

\* What is not promised of a position is not promised later.
LEMMA FewerCounted ==
  ASSUME Grows
  PROVE  /\ \A p : LinesCounted(p)' => LinesCounted(p)
         /\ \A p : LineStarted(p)' => LineStarted(p)
<1>1. \A p : Newlines(p)' = Newlines(p)
  BY TextKept DEF Grows
<1>2. \A q : InToken(q) => InToken(q)'
  BY DEF InToken, Within, Grows
<1> QED
  BY <1>1, <1>2 DEF LinesCounted, LineStarted, Grows

LEMMA ExactKept ==
  ASSUME Grows, NEW t, Exact(t)
  PROVE  Exact(t)'
<1>1. \A p : (LinesCounted(p)' => LinesCounted(p)) /\ (LineStarted(p)' => LineStarted(p))
  BY FewerCounted
<1>2. \A p : Line(p)' = Line(p) /\ Column(p)' = Column(p)
  BY TextKept DEF Grows
<1> QED
  BY <1>1, <1>2 DEF Exact

\* All newlines before q are counted only if those before p are.
LEMMA CountedBefore ==
  ASSUME NEW p \in Int, NEW q \in Int, p <= q
  PROVE  LinesCounted(q) => LinesCounted(p)
<1>1. Newlines(p) \subseteq Newlines(q)
  BY DEF Newlines
<1> QED
  BY <1>1 DEF LinesCounted

\* In one line, all positions are promised their column or none is.
LEMMA StartedBefore ==
  ASSUME NEW p \in Nat, NEW q \in Nat, p <= q, \A r \in p .. q - 1 : At(r) # "\n"
  PROVE  LineStarted(q) <=> LineStarted(p)
<1>1. Newlines(q) = Newlines(p)
  BY DEF Newlines
<1> QED
  BY <1>1 DEF LineStarted

\* A newline behind the start or the end of a block comment is not counted.
LEMMA EdgeNewline ==
  ASSUME Grows, NEW q \in Nat, q \in edges', LinesCounted(q + 1)'
  PROVE  At(q) # "\n"
<1>1. Newlines(q + 1)' = Newlines(q + 1)
  BY TextKept DEF Grows
<1>2. At(q) = "\n" => q \in Newlines(q + 1)
  BY DEF Newlines
<1> QED
  BY <1>1, <1>2 DEF LinesCounted

LEMMA LineOver ==
  ASSUME NEW q \in Nat, At(q) # "\n"
  PROVE  Line(q + 1) = Line(q)
<1>1. Newlines(q + 1) = Newlines(q)
  BY DEF Newlines
<1> QED
  BY <1>1 DEF Line

\* A step that returns no token.
LEMMA NoTokenStep ==
  ASSUME TInv, Grows, tokens' = tokens
  PROVE  /\ Ends' = Ends /\ AllExact' /\ source_code_length' = source_code_length
         /\ source_code' \in Seq(STRING) /\ (\E S : tokens' \in Seq(S))
         /\ \A k \in DOMAIN tokens' : tokens'[k].kind \in TokenKind
<1>1. Ends' = Ends
  BY DEF Ends
<1>2. AllExact'
  <2> SUFFICES ASSUME NEW k \in DOMAIN tokens
               PROVE  Exact(tokens[k])'
    BY DEF AllExact
  <2>1. PICK t : t = tokens[k]
    OBVIOUS
  <2>2. Exact(t)
    BY <2>1 DEF TInv, AllExact
  <2>3. Exact(t)'
    BY <2>2, ExactKept
  <2>4. tokens'[k] = t
    BY <2>1
  <2> QED
    BY <2>3, <2>4
<1>3. source_code_length' = source_code_length
  BY TextKept DEF Grows
<1> QED
  BY <1>1, <1>2, <1>3 DEF TInv, Typed, Grows

-----------------------------------------------------------------------------
(* Blanks and comments.                                                    *)

SkipModes == {"skip", "line_comment", "block_comment"}

\* What a step to q over blanks and comments must find there.
LEMMA SkipTo ==
  ASSUME TInv, Grows, Still, mode \in SkipModes, mode' \in SkipModes,
         NEW q \in Nat, current_position' = q, q <= source_code_length,
         line_number' \in Nat \ {0}, column_current' \in Nat,
         LinesCounted(q + 1)' =>
           line_number' = Line(IF mode' = "block_comment" THEN q + 1 ELSE q),
         At(q) # "\n" /\ LineStarted(q)' => column_current' = Column(q) - 1
  PROVE  TInv'
<1>1. /\ Ends' = Ends /\ AllExact' /\ source_code_length' = source_code_length
      /\ source_code' \in Seq(STRING) /\ (\E S : tokens' \in Seq(S))
      /\ \A k \in DOMAIN tokens' : tokens'[k].kind \in TokenKind
  BY NoTokenStep DEF Still
<1>2. Typed'
  <2>1. mode' \in Modes
    BY DEF SkipModes, Modes
  <2>2. start_position' \in Nat /\ column_start' \in Nat
    BY DEF Still, TInv, Typed
  <2> QED
    BY <1>1, <2>1, <2>2 DEF Typed
<1>3. Bounds'
  <2>1. source_code_length \in Nat /\ Ends \in Nat
    BY Lengths
  <2>2. current_position' <= source_code_length + Ends
    BY <2>1
  <2>3. mode' \notin {"token", "string", "stopped"}
    BY DEF SkipModes
  <2> QED
    BY <1>1, <2>2, <2>3 DEF Bounds
<1>4. Skipping'
  <2>1. /\ \A p : Line(p)' = Line(p) /\ Column(p)' = Column(p) /\ At(p)' = At(p)
    BY TextKept DEF Grows
  <2>2. LinesCounted(current_position + 1)' =>
          line_number' = Line(IF mode = "block_comment" THEN current_position + 1
                                                        ELSE current_position)'
    BY <2>1
  <2>3. At(current_position)' # "\n" /\ LineStarted(current_position)' =>
          column_current' = Column(current_position)' - 1
    BY <2>1
  <2> QED
    BY <2>2, <2>3 DEF Skipping
<1>5. Scanned'
  BY DEF Scanned, SkipModes
<1> QED
  BY <1>1, <1>2, <1>3, <1>4, <1>5 DEF TInv

\* What is known before such a step; the columns are those of a line the step does not leave.
LEMMA SkipFrom ==
  ASSUME TInv, Grows, mode \in SkipModes,
         NEW q \in Nat, current_position <= q, q <= source_code_length
  PROVE  /\ current_position \in Nat /\ column_current \in Nat /\ line_number \in Nat \ {0}
         /\ source_code \in Seq(STRING)
         /\ LinesCounted(q + 1)' =>
              line_number = Line(IF mode = "block_comment" THEN current_position + 1
                                                           ELSE current_position)
         /\ (\A r \in current_position .. q - 1 : At(r) # "\n") =>
              /\ Line(q) = Line(current_position)
              /\ At(current_position) # "\n" /\ LineStarted(q)' =>
                   column_current + (q - current_position) = Column(q) - 1
<1>1. /\ current_position \in Nat /\ column_current \in Nat /\ line_number \in Nat \ {0}
      /\ source_code \in Seq(STRING)
  BY DEF TInv, Typed
<1>2. PICK p \in Nat : p = current_position
  BY <1>1
<1>3. ASSUME LinesCounted(q + 1)'
      PROVE  line_number = Line(IF mode = "block_comment" THEN p + 1 ELSE p)
  <2>1. LinesCounted(q + 1)
    BY <1>3, FewerCounted
  <2>2. p + 1 \in Int /\ q + 1 \in Int /\ p + 1 <= q + 1
    BY <1>2
  <2>3. LinesCounted(p + 1)
    BY <2>1, <2>2, CountedBefore
  <2> QED
    BY <1>2, <2>3 DEF TInv, Skipping, SkipModes
<1>4. ASSUME \A r \in p .. q - 1 : At(r) # "\n"
      PROVE  /\ Line(q) = Line(p)
             /\ At(p) # "\n" /\ LineStarted(q)' => column_current + (q - p) = Column(q) - 1
  <2>1. Line(q) = Line(p) /\ Column(q) = Column(p) + (q - p)
    BY <1>2, <1>4, SameLine
  <2>2. LineStarted(q)' => LineStarted(p)
    BY <1>2, <1>4, FewerCounted, StartedBefore
  <2>3. At(p) # "\n" /\ LineStarted(p) => column_current = Column(p) - 1
    BY <1>2 DEF TInv, Skipping, SkipModes
  <2>4. Column(p) \in Int
    <3>1. p \in Int
      OBVIOUS
    <3> QED
      BY <3>1, LineTypes
  <2> QED
    BY <1>1, <2>1, <2>2, <2>3, <2>4
<1> QED
  BY <1>1, <1>2, <1>3, <1>4

LEMMA SkipBlankStep ==
  ASSUME TInv, SkipBlank
  PROVE  TInv'
<1>1. /\ Grows /\ Still /\ mode = "skip" /\ mode' = "skip"
      /\ mode \in SkipModes /\ mode' \in SkipModes
  BY DEF SkipBlank, Still, Grows, SkipModes, history
<1>2. PICK p \in Nat : p = current_position
  BY DEF TInv, Typed
<1>3. At(p) # NUL /\ source_code \in Seq(STRING)
  BY <1>2 DEF SkipBlank, Blanks, NUL, peek, TInv, Typed
<1>4. PICK q \in Nat : q = p + 1 /\ q <= source_code_length
  BY <1>3, InText
<1>5. current_position' = q /\ p <= q
  BY <1>2, <1>4 DEF SkipBlank
<1>6. /\ column_current \in Nat /\ line_number \in Nat \ {0}
      /\ LinesCounted(q + 1)' => line_number = Line(p)
  BY <1>1, <1>2, <1>4, <1>5, SkipFrom
<1>7. CASE At(p) = "\n"
  <2>1. line_number' = line_number + 1 /\ column_current' = 0
    BY <1>2, <1>7 DEF SkipBlank, peek, NewlineColumn
  <2>2. Line(q) = Line(p) + 1 /\ Column(q) = 1
    BY <1>4, <1>7, NextLine
  <2>3. LinesCounted(q + 1)' => line_number' = Line(q)
    BY <1>6, <2>1, <2>2
  <2>4. column_current' = Column(q) - 1 /\ column_current' \in Nat /\ line_number' \in Nat \ {0}
    BY <1>6, <2>1, <2>2
  <2> QED
    BY <1>1, <1>4, <1>5, <2>3, <2>4, SkipTo
<1>8. CASE At(p) # "\n"
  <2>1. line_number' = line_number /\ column_current' = column_current + 1
    BY <1>2, <1>8 DEF SkipBlank, peek
  <2>2. \A r \in p .. q - 1 : At(r) # "\n"
    <3>1. \A r \in p .. q - 1 : r = p
      BY <1>4
    <3> QED
      BY <1>8, <3>1
  <2>3. /\ Line(q) = Line(p)
        /\ LineStarted(q)' => column_current + (q - p) = Column(q) - 1
    BY <1>1, <1>2, <1>4, <1>5, <1>8, <2>2, SkipFrom
  <2>4. LinesCounted(q + 1)' => line_number' = Line(q)
    BY <1>6, <2>1, <2>3
  <2>5. column_current' = column_current + (q - p) /\ column_current' \in Nat
    BY <1>4, <1>6, <2>1
  <2>6. line_number' \in Nat \ {0}
    BY <1>6, <2>1
  <2> QED
    BY <1>1, <1>4, <1>5, <2>3, <2>4, <2>5, <2>6, SkipTo
<1> QED
  BY <1>7, <1>8

LEMMA SkipToCommentStep ==
  ASSUME TInv, SkipToComment
  PROVE  TInv'
<1>1. /\ Grows /\ Still /\ mode = "skip" /\ mode \in SkipModes /\ mode' \in SkipModes
      /\ line_number' = line_number
  BY DEF SkipToComment, Still, Grows, SkipModes, Comment, history
<1>2. PICK p \in Nat : p = current_position
  BY DEF TInv, Typed
<1>3. PICK o \in Nat : o = p + 1
  OBVIOUS
<1>4. /\ At(p) = "/" /\ At(o) \in {"/", "*"} /\ At(o) # NUL /\ source_code \in Seq(STRING)
  BY <1>2, <1>3 DEF SkipToComment, AtComment, peek, peek_next, NUL, TInv, Typed
<1>5. o + 1 <= source_code_length
  BY <1>4, InText
<1>6. PICK q \in Nat : q = p + 2 /\ q <= source_code_length /\ p <= q
  BY <1>3, <1>5
<1>7. current_position' = q /\ column_current' = column_current + (q - p)
  BY <1>2, <1>6 DEF SkipToComment, MoveTo
<1>8. \A r \in p .. q - 1 : At(r) # "\n"
  <2>1. \A r \in p .. q - 1 : r = p \/ r = o
    BY <1>3, <1>6
  <2> QED
    BY <1>4, <2>1
<1>9. /\ column_current \in Nat /\ line_number \in Nat \ {0}
      /\ LinesCounted(q + 1)' => line_number = Line(p)
      /\ Line(q) = Line(p)
      /\ LineStarted(q)' => column_current + (q - p) = Column(q) - 1
  BY <1>1, <1>2, <1>4, <1>6, <1>8, SkipFrom
<1>10. column_current' \in Nat /\ line_number' \in Nat \ {0}
  BY <1>1, <1>6, <1>7, <1>9
<1>11. LinesCounted(q + 1)' =>
         line_number' = Line(IF mode' = "block_comment" THEN q + 1 ELSE q)
  <2>1. CASE mode' # "block_comment"
    BY <1>1, <1>9, <2>1
  <2>2. CASE mode' = "block_comment"
    <3>1. q \in edges'
      BY <1>2, <1>6, <2>2 DEF SkipToComment
    <3>2. LinesCounted(q + 1)' => At(q) # "\n"
      BY <1>1, <3>1, EdgeNewline
    <3>3. At(q) # "\n" => Line(q + 1) = Line(q)
      BY LineOver
    <3> QED
      BY <1>1, <1>9, <2>2, <3>2, <3>3
  <2> QED
    BY <2>1, <2>2
<1> QED
  BY <1>1, <1>6, <1>7, <1>9, <1>10, <1>11, SkipTo

LEMMA LineCommentStep ==
  ASSUME TInv, skip_single_line_comment
  PROVE  TInv'
<1>1. /\ Grows /\ Still /\ mode = "line_comment" /\ mode \in SkipModes /\ mode' \in SkipModes
      /\ mode' # "block_comment" /\ line_number' = line_number
  BY DEF skip_single_line_comment, Still, Grows, SkipModes, history
<1>2. PICK p \in Nat : p = current_position /\ p <= source_code_length
  BY <1>1 DEF TInv, Typed, Bounds
<1>3. PICK q \in Nat : /\ current_position' = q /\ column_current' = column_current + (q - p)
                       /\ p <= q /\ q <= source_code_length /\ q <= p + 1
                       /\ q = p \/ At(p) # "\n"
  <2>1. CASE InLineComment
    <3>1. MoveTo(Advanced(p, 1)) /\ At(p) # "\n"
      BY <1>2, <2>1 DEF skip_single_line_comment, InLineComment, peek
    <3>2. source_code \in Seq(STRING)
      BY DEF TInv, Typed
    <3>3. PICK q : q = Advanced(p, 1)
      OBVIOUS
    <3>4. q \in Nat /\ p <= q /\ q <= source_code_length /\ q <= p + 1
      BY <1>2, <3>2, <3>3, AdvancedBounds
    <3>5. current_position' = q /\ column_current' = column_current + (q - p)
      BY <1>2, <3>1, <3>3 DEF MoveTo
    <3> QED
      BY <3>1, <3>4, <3>5
  <2>2. CASE ~InLineComment
    <3>1. current_position' = p /\ column_current' = column_current
      BY <1>2, <2>2 DEF skip_single_line_comment
    <3>2. column_current' = column_current + (p - p) /\ p <= p /\ p <= p + 1
      BY <3>1 DEF TInv, Typed
    <3> QED
      BY <1>2, <3>1, <3>2
  <2> QED
    BY <2>1, <2>2
<1>4. \A r \in p .. q - 1 : At(r) # "\n"
  <2>1. \A r \in p .. q - 1 : r = p /\ q # p
    BY <1>3
  <2> QED
    BY <1>3, <2>1
<1>5. /\ column_current \in Nat /\ line_number \in Nat \ {0}
      /\ LinesCounted(q + 1)' => line_number = Line(p)
      /\ Line(q) = Line(p)
      /\ At(p) # "\n" /\ LineStarted(q)' => column_current + (q - p) = Column(q) - 1
  BY <1>1, <1>2, <1>3, <1>4, SkipFrom
<1>6. column_current' \in Nat /\ line_number' \in Nat \ {0}
  BY <1>1, <1>3, <1>5
<1>7. At(q) # "\n" /\ LineStarted(q)' => column_current' = Column(q) - 1
  BY <1>3, <1>5
<1>8. LinesCounted(q + 1)' => line_number' = Line(IF mode' = "block_comment" THEN q + 1 ELSE q)
  BY <1>1, <1>5
<1> QED
  BY <1>1, <1>3, <1>6, <1>7, <1>8, SkipTo

\* In a block comment the newline at q is counted when q is reached.
LEMMA ReachStep ==
  ASSUME TInv, mode = "block_comment", Still, mode' \in {"skip", "block_comment"},
         edges \subseteq edges',
         NEW p \in Nat, p = current_position, NEW q \in Nat, p <= q, q <= source_code_length,
         Reach(q), At(p) = "\n" => p < q,
         \A r \in p + 1 .. q - 1 : At(r) # "\n",
         mode' = "skip" => q \in edges'
  PROVE  TInv'
<1>1. Grows /\ mode \in SkipModes /\ mode' \in SkipModes
  BY DEF Reach, Comment, Still, Grows, SkipModes
<1>2. current_position' = q /\ commented' = commented \cup p .. q - 1
  BY DEF Reach, Comment
<1>3. /\ column_current \in Nat /\ line_number \in Nat \ {0}
      /\ LinesCounted(q + 1)' => line_number = Line(p + 1)
      /\ (\A r \in p .. q - 1 : At(r) # "\n") =>
           (At(p) # "\n" /\ LineStarted(q)' => column_current + (q - p) = Column(q) - 1)
  BY <1>1, SkipFrom
<1>4. line_number' \in Nat \ {0} /\ column_current' \in Nat
  <2>1. CASE At(q) = "\n"
    BY <1>3, <2>1 DEF Reach
  <2>2. CASE At(q) # "\n"
    <3>1. line_number' = line_number /\ column_current' = column_current + (q - p)
      BY <2>2 DEF Reach
    <3> QED
      BY <1>3, <3>1
  <2> QED
    BY <2>1, <2>2
<1>5. ASSUME At(q) # "\n", LineStarted(q)'
      PROVE  column_current' = Column(q) - 1
  <2>1. At(p) # "\n"
    <3> SUFFICES ASSUME At(p) = "\n"
                 PROVE  FALSE
      OBVIOUS
    <3>1. p \in Newlines(q) /\ \A r \in Newlines(q) : r <= p
      <4>1. p \in Newlines(q)
        BY DEF Newlines
      <4>2. ASSUME NEW r \in Newlines(q), ~(r <= p)
            PROVE  FALSE
        <5>1. r \in p + 1 .. q - 1 /\ At(r) = "\n"
          BY <4>2 DEF Newlines
        <5> QED
          BY <5>1
      <4> QED
        BY <4>1, <4>2
    <3>2. Newlines(q)' = Newlines(q)
      BY <1>1, TextKept DEF Grows
    <3>3. p \notin commented'
      BY <1>5, <3>1, <3>2 DEF LineStarted
    <3> QED
      BY <1>2, <3>3
  <2>2. \A r \in p .. q - 1 : r = p \/ r \in p + 1 .. q - 1
    OBVIOUS
  <2>3. column_current' = column_current + (q - p)
    BY <1>5 DEF Reach
  <2> QED
    BY <1>3, <1>5, <2>1, <2>2, <2>3
<1>6. ASSUME LinesCounted(q + 1)'
      PROVE  line_number' = Line(IF mode' = "block_comment" THEN q + 1 ELSE q)
  <2>1. line_number = Line(p + 1)
    BY <1>3, <1>6
  <2>2. p < q => Line(q) = Line(p + 1)
    <3> SUFFICES ASSUME p < q
                 PROVE  Line(q) = Line(p + 1)
      OBVIOUS
    <3>1. PICK o \in Nat : o = p + 1 /\ o <= q
      OBVIOUS
    <3> QED
      BY <3>1, SameLine
  <2>3. p = q => Line(q) = Line(p + 1)
    BY LineOver
  <2>4. line_number = Line(q)
    BY <2>1, <2>2, <2>3
  <2>5. CASE At(q) = "\n"
    <3>1. mode' = "block_comment"
      BY <1>1, <1>6, <2>5, EdgeNewline
    <3>2. Line(q + 1) = Line(q) + 1
      BY <2>5, NextLine
    <3>3. line_number' = line_number + 1
      BY <2>5 DEF Reach
    <3> QED
      BY <2>4, <3>1, <3>2, <3>3
  <2>6. CASE At(q) # "\n"
    <3>1. Line(q + 1) = Line(q)
      BY <2>6, LineOver
    <3>2. line_number' = line_number
      BY <2>6 DEF Reach
    <3> QED
      BY <2>4, <3>1, <3>2
  <2> QED
    BY <2>5, <2>6
<1> QED
  BY <1>1, <1>2, <1>4, <1>5, <1>6, SkipTo

LEMMA BlockCommentStep ==
  ASSUME TInv, skip_multi_lines_comment
  PROVE  TInv'
<1>1. /\ mode = "block_comment" /\ Still /\ source_code \in Seq(STRING)
  BY DEF skip_multi_lines_comment, TInv, Typed
<1>2. PICK p \in Nat : p = current_position /\ p <= source_code_length
  BY <1>1 DEF TInv, Typed, Bounds
<1>3. source_code_length \in Nat
  BY Lengths
<1>4. CASE is_source_available /\ (peek # "*" \/ peek_next # "/")
  <2>1. PICK q : q = Advanced(p, 1)
    OBVIOUS
  <2>2. p + 1 <= source_code_length
    BY <1>2, <1>3, <1>4 DEF is_source_available
  <2>3. Advanced(p, 1) = p + 1
    BY <1>3, <2>2, AdvancedFull
  <2>4. Reach(q) /\ mode' = "block_comment" /\ edges' = edges
    BY <1>1, <1>2, <1>4, <2>1 DEF skip_multi_lines_comment
  <2>5. q \in Nat /\ p <= q /\ q <= source_code_length /\ p < q
    BY <2>1, <2>2, <2>3
  <2>6. \A r \in p + 1 .. q - 1 : At(r) # "\n"
    BY <2>1, <2>3
  <2> QED
    BY <1>1, <1>2, <2>4, <2>5, <2>6, ReachStep
<1>5. CASE ~(is_source_available /\ (peek # "*" \/ peek_next # "/"))
  <2>1. PICK q : q = Advanced(p, 2)
    OBVIOUS
  <2>2. q \in Nat /\ p <= q /\ q <= source_code_length /\ q <= p + 2
    BY <1>1, <1>2, <2>1, AdvancedBounds
  <2>3. Reach(q) /\ mode' = "skip" /\ edges' = edges \cup {q}
    BY <1>1, <1>2, <1>5, <2>1 DEF skip_multi_lines_comment, CommentEnd
  <2>4. p < source_code_length => At(p) = "*" /\ At(p + 1) = "/"
    BY <1>2, <1>5 DEF is_source_available, peek, peek_next
  <2>5. ~(p < source_code_length) => At(p) = NUL /\ q = p
    BY <1>2, <1>3, <2>2 DEF At
  <2>6. At(p) # "\n"
    BY <2>4, <2>5 DEF NUL
  <2>7. \A r \in p + 1 .. q - 1 : At(r) # "\n"
    <3>1. \A r \in p + 1 .. q - 1 : r = p + 1 /\ q # p
      BY <2>2
    <3> QED
      BY <2>4, <2>5, <3>1
  <2> QED
    BY <1>1, <1>2, <2>2, <2>3, <2>6, <2>7, ReachStep
<1> QED
  BY <1>4, <1>5

-----------------------------------------------------------------------------
(* The start of a token.                                                   *)

LEMMA StartTokenStep ==
  ASSUME TInv, StartToken
  PROVE  TInv'
<1>1. Grows /\ tokens' = tokens
  BY DEF StartToken, Grows, history
<1>2. /\ current_position \in Nat /\ column_current \in Nat /\ line_number \in Nat \ {0}
      /\ mode = "skip" /\ current_position <= source_code_length + Ends
  BY DEF TInv, Typed, Bounds, StartToken
<1>3. /\ Ends' = Ends /\ AllExact' /\ source_code_length' = source_code_length
      /\ source_code' \in Seq(STRING) /\ (\E S : tokens' \in Seq(S))
      /\ \A k \in DOMAIN tokens' : tokens'[k].kind \in TokenKind
  BY <1>1, NoTokenStep
<1>4. /\ start_position' = current_position + 1 /\ current_position' = current_position + 1
      /\ column_start' = column_current + 1 /\ column_current' = column_current + 1
      /\ mode' = "token" /\ line_number' = line_number
  BY DEF StartToken
<1>5. Typed'
  BY <1>2, <1>3, <1>4 DEF Typed, Modes
<1>6. Bounds'
  <2>1. source_code_length \in Nat /\ Ends \in Nat
    BY Lengths
  <2>2. /\ current_position' = start_position' /\ 1 <= start_position'
        /\ start_position' <= current_position'
        /\ current_position' <= source_code_length + Ends + 1
    BY <1>2, <1>4, <2>1
  <2> QED
    BY <1>3, <1>4, <2>2 DEF Bounds
<1>7. Skipping'
  BY <1>4 DEF Skipping
<1>8. Scanned'
  <2>1. start_position' - 1 = current_position
    BY <1>2, <1>4
  <2>2. At(start_position - 1)' = At(current_position)
    BY <1>1, <2>1, TextKept DEF Grows
  <2>3. At(current_position) # "\n"
    BY DEF StartToken, peek
  <2>4. column_current' = column_start' + (current_position' - start_position')
    BY <1>2, <1>4
  <2>5. PICK p \in Nat : p = current_position
    BY <1>2
  <2>6. /\ Line(start_position - 1)' = Line(p) /\ Column(start_position - 1)' = Column(p)
        /\ LinesCounted(start_position - 1)' => LinesCounted(p)
        /\ LineStarted(start_position - 1)' => LineStarted(p)
    BY <1>1, <2>1, <2>5, TextKept, FewerCounted DEF Grows
  <2>7. LinesCounted(p) => line_number' = Line(p)
    <3>1. Newlines(p + 1) = Newlines(p)
      BY <2>3, <2>5 DEF Newlines
    <3> QED
      BY <1>2, <1>4, <2>5, <3>1 DEF TInv, Skipping, LinesCounted
  <2>8. LineStarted(p) => column_start' = Column(p)
    <3>1. Column(p) \in Int
      <4>1. p \in Int
        OBVIOUS
      <4> QED
        BY <4>1, LineTypes
    <3> QED
      BY <1>2, <1>4, <2>3, <2>5, <3>1 DEF TInv, Skipping
  <2> QED
    BY <2>2, <2>3, <2>4, <2>6, <2>7, <2>8 DEF Scanned
<1> QED
  BY <1>3, <1>5, <1>6, <1>7, <1>8 DEF TInv

-----------------------------------------------------------------------------
(* The end of a token.                                                     *)

LEMMA AppendToken ==
  ASSUME NEW S, NEW s \in Seq(S), NEW x
  PROVE  /\ Append(s, x) \in Seq(S \cup {x})
         /\ DOMAIN s = 1 .. Len(s) /\ Len(s) \in Nat
         /\ DOMAIN Append(s, x) = 1 .. Len(s) + 1
         /\ \A k \in DOMAIN s : Append(s, x)[k] = s[k]
         /\ Append(s, x)[Len(s) + 1] = x
<1>1. s \in Seq(S \cup {x}) /\ x \in S \cup {x}
  OBVIOUS
<1> QED
  BY <1>1

\* A token that is returned is counted among the ends where it is one.
LEMMA EndsGrow ==
  ASSUME NEW S, NEW s \in Seq(S), NEW x, tokens = s, tokens' = Append(s, x)
  PROVE  /\ Ends \in Nat
         /\ Ends' = IF x.kind = END_OF_FILE THEN Ends + 1 ELSE Ends
<1> DEFINE T == {k \in DOMAIN s : s[k].kind = END_OF_FILE}
           U == {k \in DOMAIN Append(s, x) : Append(s, x)[k].kind = END_OF_FILE}
           n == Len(s)
<1>1. /\ DOMAIN s = 1 .. n /\ n \in Nat /\ DOMAIN Append(s, x) = 1 .. n + 1
      /\ \A k \in DOMAIN s : Append(s, x)[k] = s[k]
      /\ Append(s, x)[n + 1] = x
  BY AppendToken
<1>2. IsFiniteSet(T)
  <2>1. IsFiniteSet(1 .. n)
    BY <1>1, FS_Interval
  <2> QED
    BY <1>1, <2>1, FS_Subset
<1>3. Ends = Cardinality(T) /\ Ends' = Cardinality(U)
  BY DEF Ends
<1>4. 1 .. n + 1 = (1 .. n) \cup {n + 1} /\ n + 1 \notin 1 .. n
  BY <1>1
<1>5. n + 1 \notin T
  BY <1>1, <1>4
<1>6. CASE x.kind = END_OF_FILE
  <2>1. U = T \cup {n + 1}
    BY <1>1, <1>4, <1>6
  <2> HIDE DEF T, U, n
  <2>2. Cardinality(U) = Cardinality(T) + 1 /\ Cardinality(T) \in Nat
    BY <1>2, <1>5, <2>1, FS_AddElement, FS_CardinalityType
  <2> QED
    BY <1>3, <1>6, <2>2
<1>7. CASE x.kind # END_OF_FILE
  <2>1. U = T
    BY <1>1, <1>4, <1>7
  <2> HIDE DEF T, U, n
  <2> QED
    BY <1>2, <1>3, <1>7, <2>1, FS_CardinalityType
<1> QED
  BY <1>6, <1>7

\* The token that is returned, and the state behind it, are exact: a newline in the token
\* is not counted from then on.
LEMMA ReturnStep ==
  ASSUME TInv, mode \in {"token", "string"}, mode' \in {"skip", "stopped"},
         NEW kind \in TokenKind, NEW literal, NEW q \in Nat, current_position <= q,
         \/ q <= source_code_length + Ends
         \/ kind = END_OF_FILE /\ q <= source_code_length + Ends + 1,
         Return(kind, literal, q)
  PROVE  TInv'
<1> DEFINE n == Len(tokens)
<1>t. PICK t : t = build_token(kind, literal, q)
  OBVIOUS
<1>s. PICK s : s = start_position - 1
  OBVIOUS
<1>1. PICK S : tokens \in Seq(S)
  BY DEF TInv, Typed
<1>2. tokens' = Append(tokens, t)
  BY <1>t DEF Return
<1>3. /\ tokens' \in Seq(S \cup {t})
      /\ DOMAIN tokens = 1 .. n /\ n \in Nat /\ DOMAIN tokens' = 1 .. n + 1
      /\ \A k \in DOMAIN tokens : tokens'[k] = tokens[k]
      /\ tokens'[n + 1] = t
  BY <1>1, <1>2, AppendToken
<1>4. /\ source_code \in Seq(STRING) /\ source_code' = source_code
      /\ start_position \in Nat /\ current_position \in Nat /\ 1 <= start_position
      /\ start_position <= current_position /\ start_position' = start_position
      /\ line_number \in Nat \ {0} /\ line_number' = line_number
      /\ column_start \in Nat /\ column_start' = column_start /\ column_current \in Nat
      /\ column_current = column_start + (current_position - start_position)
      /\ current_position' = q /\ commented' = commented /\ edges' = edges
  BY DEF TInv, Typed, Bounds, Scanned, Return, MoveTo, history
<1>5. column_current' = column_start + (q - start_position) /\ column_current' \in Nat
  <2>1. column_current' = column_current + (q - current_position)
    BY DEF Return, MoveTo
  <2> QED
    BY <1>4, <2>1
<1>6. /\ t.kind = kind /\ t.first = s /\ t.next = q /\ t.line = line_number
      /\ t.column_start = column_start
      /\ t.column_end = column_current + (q - current_position)
  BY <1>t, <1>s DEF build_token
<1>7. t.column_end = column_start + (q - start_position)
  BY <1>4, <1>6
<1>8. Ends \in Nat /\ Ends' = IF kind = END_OF_FILE THEN Ends + 1 ELSE Ends
  BY <1>1, <1>2, <1>6, EndsGrow
<1>9. source_code_length \in Nat /\ source_code_length' = source_code_length
  BY <1>4, Lengths, TextKept
<1> HIDE DEF n
<1>10. Grows
  <2>1. \A k \in 1 .. n : k \in 1 .. n + 1
    BY <1>3
  <2> QED
    BY <1>3, <1>4, <2>1 DEF Grows
<1>11. Typed'
  <2>1. mode' \in Modes
    BY DEF Modes
  <2>2. ASSUME NEW k \in 1 .. n + 1
        PROVE  tokens'[k].kind \in TokenKind
    <3>1. CASE k = n + 1
      BY <1>3, <1>6, <3>1
    <3>2. CASE k # n + 1
      <4>1. k \in 1 .. n
        BY <1>3, <3>2
      <4> QED
        BY <1>3, <4>1 DEF TInv, Typed
    <3> QED
      BY <3>1, <3>2
  <2>3. \E SS : tokens' \in Seq(SS)
    BY <1>3
  <2>4. /\ source_code' \in Seq(STRING) /\ start_position' \in Nat /\ current_position' \in Nat
        /\ line_number' \in Nat \ {0} /\ column_start' \in Nat
    BY <1>4
  <2>5. \A k \in DOMAIN tokens' : tokens'[k].kind \in TokenKind
    BY <1>3, <2>2
  <2> QED
    BY <1>5, <2>1, <2>3, <2>4, <2>5 DEF Typed
<1>12. Bounds'
  <2>1. q <= source_code_length + Ends'
    BY <1>8, <1>9
  <2> QED
    BY <1>4, <1>9, <2>1 DEF Bounds
<1>13. s \in Nat /\ q - 1 \in Nat /\ s <= q - 1 /\ s <= q /\ s \in Int /\ q \in Int
      /\ s = start_position - 1
  BY <1>4, <1>s
<1>14. Column(s) \in Int
  BY <1>13, LineTypes
<1>15. /\ LinesCounted(s) => line_number = Line(s)
       /\ LineStarted(s) => column_start = Column(s)
  BY <1>s DEF TInv, Scanned
<1>16. ASSUME NEW r \in s .. q - 1, At(r) = "\n", NEW u \in Nat, u = q \/ u = q + 1
       PROVE  ~LinesCounted(u)' /\ ~LineStarted(q)'
  <2>1. \A x : Newlines(x)' = Newlines(x)
    BY <1>4, TextKept
  <2>2. n + 1 \in DOMAIN tokens'
    BY <1>3
  <2>3. ASSUME NEW x \in s .. q - 1
        PROVE  InToken(x)'
    <3>1. Within(x, t)
      BY <1>6, <1>13 DEF Within
    <3>2. Within(x, tokens'[n + 1])
      BY <1>3, <3>1
    <3> QED
      BY <2>2, <3>2 DEF InToken
  <2>4. r \in Newlines(u) /\ r \in Newlines(q)
    BY <1>13, <1>16 DEF Newlines
  <2>5. ~LinesCounted(u)'
    BY <2>1, <2>3, <2>4 DEF LinesCounted
  <2>6. /\ Newlines(q) \in SUBSET Int /\ Newlines(q) # {} /\ q \in Int
        /\ \A x \in Newlines(q) : x <= q
    BY <1>13, <2>4 DEF Newlines
  <2>7. PICK m \in Newlines(q) : \A x \in Newlines(q) : x <= m
    BY <2>6, MaxOf
  <2>8. m \in s .. q - 1
    <3>1. r <= m /\ m \in 0 .. q - 1
      BY <2>4, <2>7 DEF Newlines
    <3> QED
      BY <1>13, <3>1
  <2>9. InToken(m)'
    BY <2>3, <2>8
  <2> QED
    BY <2>1, <2>5, <2>7, <2>9 DEF LineStarted
<1>17. AllExact'
  <2>1. ASSUME NEW u, NEW k \in 1 .. n, u = tokens[k]
        PROVE  Exact(u)'
    <3>1. Exact(u)
      BY <1>3, <2>1 DEF TInv, AllExact
    <3> QED
      BY <1>10, <3>1, ExactKept
  <2>2. /\ LinesCounted(s)' => t.line = Line(s)
        /\ LineStarted(s)' => t.column_start = Column(s)
    BY <1>6, <1>10, <1>15, FewerCounted
  <2>3. ASSUME LineStarted(q)'
        PROVE  t.column_end = Column(q - 1)
    <3>1. \A r \in s .. q - 1 : At(r) # "\n"
      BY <1>13, <1>16, <2>3
    <3>2. \A r \in s .. q - 1 - 1 : At(r) # "\n"
      BY <1>13, <3>1
    <3>3. Column(q - 1) = Column(s) + (q - 1 - s)
      BY <1>13, <3>2, SameLine
    <3>4. LineStarted(s)
      BY <1>10, <1>13, <2>3, <3>1, FewerCounted, StartedBefore
    <3>5. column_start = Column(s)
      BY <1>15, <3>4
    <3> QED
      BY <1>4, <1>7, <1>13, <1>14, <3>3, <3>5
  <2>4. Exact(t)'
    <3>1. \A p : Line(p)' = Line(p) /\ Column(p)' = Column(p)
      BY <1>4, TextKept
    <3>2. /\ LinesCounted(t.first)' => t.line = Line(t.first)'
          /\ LineStarted(t.first)' => t.column_start = Column(t.first)'
      BY <1>6, <2>2, <3>1
    <3>3. LineStarted(t.next)' => t.column_end = Column(t.next - 1)'
      BY <1>6, <2>3, <3>1
    <3> QED
      BY <3>2, <3>3 DEF Exact
  <2> SUFFICES ASSUME NEW k \in DOMAIN tokens'
               PROVE  Exact(tokens[k])'
    BY DEF AllExact
  <2>5. PICK u : u = tokens'[k]
    OBVIOUS
  <2>6. k \in 1 .. n \/ k = n + 1
    BY <1>3
  <2>7. Exact(u)'
    BY <1>3, <2>1, <2>4, <2>5, <2>6
  <2> QED
    BY <2>5, <2>7
<1>18. Skipping'
  <2>1. \A x : Line(x)' = Line(x) /\ Column(x)' = Column(x)
    BY <1>4, TextKept
  <2>2. ASSUME LinesCounted(q + 1)'
        PROVE  line_number = Line(q)
    <3>1. \A r \in s .. q - 1 : At(r) # "\n"
      BY <1>13, <1>16, <2>2
    <3>2. Line(q) = Line(s)
      BY <1>13, <3>1, SameLine
    <3>3. LinesCounted(q + 1)
      BY <1>10, <2>2, FewerCounted
    <3>4. q + 1 \in Int /\ s <= q + 1
      BY <1>13
    <3>5. LinesCounted(s)
      BY <1>13, <3>3, <3>4, CountedBefore
    <3> QED
      BY <1>15, <3>2, <3>5
  <2>3. ASSUME LineStarted(q)'
        PROVE  column_current' = Column(q) - 1
    <3>1. \A r \in s .. q - 1 : At(r) # "\n"
      BY <1>13, <1>16, <2>3
    <3>2. Column(q) = Column(s) + (q - s)
      BY <1>13, <3>1, SameLine
    <3>3. LineStarted(s)
      BY <1>10, <1>13, <2>3, <3>1, FewerCounted, StartedBefore
    <3>4. column_start = Column(s)
      BY <1>15, <3>3
    <3> QED
      BY <1>4, <1>5, <1>13, <1>14, <3>2, <3>4
  <2>4. LinesCounted(current_position + 1)' => line_number' = Line(current_position)'
    BY <1>4, <2>1, <2>2
  <2>5. LineStarted(current_position)' => column_current' = Column(current_position)' - 1
    BY <1>4, <2>1, <2>3
  <2>6. mode' \notin {"line_comment", "block_comment"}
    OBVIOUS
  <2> QED
    BY <2>4, <2>5, <2>6 DEF Skipping
<1>19. Scanned'
  BY DEF Scanned
<1> QED
  BY <1>11, <1>12, <1>17, <1>18, <1>19 DEF TInv

\* What a token that starts in the text may find before it ends.
LEMMA StartedInText ==
  ASSUME TInv, Scanning, first # NUL
  PROVE  /\ current_position \in Nat /\ current_position = start_position
         /\ start_position - 1 \in Nat /\ current_position <= source_code_length
         /\ source_code_length \in Nat /\ source_code \in Seq(STRING)
         /\ mode \in {"token", "string"}
<1>1. /\ current_position \in Nat /\ current_position = start_position /\ 1 <= start_position
      /\ source_code \in Seq(STRING) /\ mode = "token" /\ start_position \in Nat
  BY DEF TInv, Typed, Bounds, Scanning
<1>2. start_position - 1 \in Nat
  BY <1>1
<1>3. start_position - 1 + 1 <= source_code_length /\ source_code_length \in Nat
  BY <1>1, <1>2, InText DEF first
<1> QED
  BY <1>1, <1>2, <1>3

\* A token that ends in the text.
LEMMA TokenStep ==
  ASSUME TInv, Scanning, first # NUL, mode' \in {"skip", "stopped"},
         NEW kind \in TokenKind, NEW literal,
         NEW q \in current_position .. source_code_length, Return(kind, literal, q)
  PROVE  TInv'
<1>1. /\ current_position \in Nat /\ source_code_length \in Nat
      /\ mode \in {"token", "string"}
  BY StartedInText
<1>2. Ends \in Nat
  BY Lengths
<1>3. q \in Nat /\ current_position <= q /\ q <= source_code_length + Ends
  BY <1>1, <1>2
<1> QED
  BY <1>1, <1>3, ReturnStep

LEMMA InvalidStep ==
  ASSUME TInv, Scanning, first # NUL,
         NEW q \in current_position .. source_code_length, ReturnInvalid(q)
  PROVE  TInv'
<1>1. Return(INVALID, <<>>, q) /\ mode' \in {"skip", "stopped"}
  BY DEF ReturnInvalid
<1>2. INVALID \in TokenKind
  BY DEF TokenKind
<1> QED
  BY <1>1, <1>2, TokenStep

LEMMA ValidStep ==
  ASSUME TInv, Scanning, first # NUL, NEW kind \in TokenKind, NEW literal,
         NEW q \in current_position .. source_code_length, ReturnToken(kind, literal, q)
  PROVE  TInv'
<1>1. Return(kind, literal, q) /\ mode' \in {"skip", "stopped"}
  BY DEF ReturnToken
<1> QED
  BY <1>1, TokenStep

-----------------------------------------------------------------------------
(* Operators.                                                              *)

\* Short pieces of the text, character by character.
LEMMA CharacterIs ==
  ASSUME source_code \in Seq(STRING), NEW p \in Nat, NEW n \in Nat,
         p + n <= source_code_length
  PROVE  /\ Text(p, p + n) \in Seq(STRING) /\ Len(Text(p, p + n)) = n
         /\ \A i \in 1 .. n : \A r \in Nat : r + 1 = p + i => Text(p, p + n)[i] = At(r)
<1>1. source_code_length \in Nat /\ source_code_length = Len(source_code)
  BY DEF source_code_length
<1>2. PICK a \in Int, b \in Int : a = p + 1 /\ b = p + n
  OBVIOUS
<1>3. 1 <= a /\ b <= Len(source_code) /\ (a <= b => b - a + 1 = n) /\ (~(a <= b) => n = 0)
  BY <1>1, <1>2
<1>4. \A i \in a .. b : source_code[i] \in STRING
  BY <1>1, <1>3
<1>5. /\ SubSeq(source_code, a, b) \in Seq(STRING)
      /\ Len(SubSeq(source_code, a, b)) = IF a <= b THEN b - a + 1 ELSE 0
      /\ \A i \in 1 .. b - a + 1 : SubSeq(source_code, a, b)[i] = source_code[a + i - 1]
  BY <1>4, SubSeqProperties
<1>6. Text(p, p + n) = SubSeq(source_code, a, b)
  BY <1>2 DEF Text
<1>7. Len(Text(p, p + n)) = n
  BY <1>3, <1>5, <1>6
<1>8. ASSUME NEW i \in 1 .. n, NEW r \in Nat, r + 1 = p + i
      PROVE  Text(p, p + n)[i] = At(r)
  <2>1. i \in 1 .. b - a + 1 /\ a + i - 1 = r + 1 /\ r < source_code_length
    BY <1>1, <1>2, <1>8
  <2>2. Text(p, p + n)[i] = source_code[r + 1]
    BY <1>5, <1>6, <2>1
  <2> QED
    BY <2>1, <2>2 DEF At
<1> QED
  BY <1>5, <1>6, <1>7, <1>8

LEMMA OneCharacter ==
  ASSUME source_code \in Seq(STRING), NEW p \in Nat, p + 1 <= source_code_length
  PROVE  Text(p, p + 1) = <<At(p)>>
<1>1. /\ Text(p, p + 1) \in Seq(STRING) /\ Len(Text(p, p + 1)) = 1
      /\ \A i \in 1 .. 1 : \A r \in Nat : r + 1 = p + i => Text(p, p + 1)[i] = At(r)
  BY CharacterIs
<1>2. Text(p, p + 1)[1] = At(p)
  BY <1>1
<1> QED
  BY <1>1, <1>2

LEMMA TwoCharacters ==
  ASSUME source_code \in Seq(STRING), NEW p \in Nat, p + 2 <= source_code_length
  PROVE  Text(p, p + 2) = <<At(p), At(p + 1)>>
<1>1. /\ Text(p, p + 2) \in Seq(STRING) /\ Len(Text(p, p + 2)) = 2
      /\ \A i \in 1 .. 2 : \A r \in Nat : r + 1 = p + i => Text(p, p + 2)[i] = At(r)
  BY CharacterIs
<1>2. p + 1 \in Nat /\ p + 1 + 1 = p + 2 /\ 1 \in 1 .. 2 /\ 2 \in 1 .. 2
  OBVIOUS
<1>3. Text(p, p + 2)[1] = At(p) /\ Text(p, p + 2)[2] = At(p + 1)
  BY <1>1, <1>2
<1> QED
  BY <1>1, <1>3

LEMMA ThreeCharacters ==
  ASSUME source_code \in Seq(STRING), NEW p \in Nat, p + 3 <= source_code_length
  PROVE  Text(p, p + 3) = <<At(p), At(p + 1), At(p + 2)>>
<1>1. /\ Text(p, p + 3) \in Seq(STRING) /\ Len(Text(p, p + 3)) = 3
      /\ \A i \in 1 .. 3 : \A r \in Nat : r + 1 = p + i => Text(p, p + 3)[i] = At(r)
  BY CharacterIs
<1>2. /\ p + 1 \in Nat /\ p + 1 + 1 = p + 2 /\ p + 2 \in Nat /\ p + 2 + 1 = p + 3
      /\ 1 \in 1 .. 3 /\ 2 \in 1 .. 3 /\ 3 \in 1 .. 3
  OBVIOUS
<1>3. /\ Text(p, p + 3)[1] = At(p) /\ Text(p, p + 3)[2] = At(p + 1)
      /\ Text(p, p + 3)[3] = At(p + 2)
  BY <1>1, <1>2
<1> QED
  BY <1>1, <1>3

\* A character that may be followed by one of a set.
LEMMA OneMore ==
  ASSUME source_code \in Seq(STRING), NEW s \in Nat, NEW p \in Nat, p = s + 1,
         p <= source_code_length, At(s) \in OperatorCharacters,
         NEW S, NUL \notin S, \A c \in S : <<At(s), c>> \in Operators,
         NEW q, q = IF At(p) \in S THEN p + 1 ELSE p
  PROVE  q \in p .. source_code_length /\ Text(s, q) \in Operators
<1>1. source_code_length \in Nat
  BY DEF source_code_length
<1>2. CASE At(p) \in S
  <2>1. q = p + 1 /\ p + 1 = s + 2 /\ p + 1 <= source_code_length
    BY <1>2, InText
  <2>2. Text(s, s + 2) = <<At(s), At(s + 1)>>
    BY <2>1, TwoCharacters
  <2>3. q \in p .. source_code_length
    BY <1>1, <2>1
  <2> QED
    BY <1>2, <2>1, <2>2, <2>3
<1>3. CASE At(p) \notin S
  <2>1. q = p
    BY <1>3
  <2>2. Text(s, s + 1) = <<At(s)>>
    BY OneCharacter
  <2>3. <<At(s)>> \in Operators
    BY DEF Operators
  <2>4. q \in p .. source_code_length
    BY <1>1, <2>1
  <2> QED
    BY <2>1, <2>2, <2>3, <2>4
<1> QED
  BY <1>2, <1>3

LEMMA TwoMore ==
  ASSUME source_code \in Seq(STRING), NEW s \in Nat, NEW p \in Nat, p = s + 1,
         NEW c, NEW d, Matches(p, <<c, d>>), d # NUL, <<At(s), c, d>> \in Operators
  PROVE  p + 2 \in p .. source_code_length /\ Text(s, p + 2) \in Operators
<1>1. source_code_length \in Nat
  BY DEF source_code_length
<1>2. /\ At(p + 1 - 1) = <<c, d>>[1] /\ At(p + 2 - 1) = <<c, d>>[2]
  BY DEF Matches
<1>3. p + 1 - 1 = p /\ p + 2 - 1 = p + 1 /\ p + 1 \in Nat /\ p + 1 + 1 = p + 2 /\ p + 2 = s + 3
      /\ p + 1 = s + 2
  OBVIOUS
<1>4. At(p) = c /\ At(p + 1) = d
  BY <1>2, <1>3
<1>5. p + 2 <= source_code_length
  BY <1>3, <1>4, InText
<1>6. Text(s, s + 3) = <<At(s), At(s + 1), At(s + 2)>>
  BY <1>3, <1>5, ThreeCharacters
<1>7. Text(s, p + 2) = <<At(s), c, d>>
  BY <1>3, <1>4, <1>6
<1>8. p + 2 \in p .. source_code_length
  BY <1>1, <1>5
<1> QED
  BY <1>7, <1>8

LEMMA PairsAreOperators ==
  /\ \A c \in {"=", "!", "*", "/", "%", "^", "+", "-", ">", "<", "|", "&"} : <<c, "=">> \in Operators
  /\ \A c \in {".", ":", "+", "-", "<", "|", "&"} : <<c, c>> \in Operators
  /\ <<"-", ">">> \in Operators /\ <<"-", "-", "-">> \in Operators
  /\ <<"<", "<", "=">> \in Operators /\ <<">", ">", "=">> \in Operators
BY DEF Operators

\* An operator ends behind the characters it has.
LEMMA OperatorFound ==
  ASSUME TInv, Scanning, first \in OperatorCharacters
  PROVE  /\ OperatorEnd(current_position) \in current_position .. source_code_length
         /\ Text(start_position - 1, OperatorEnd(current_position)) \in Operators
<1> DEFINE q == OperatorEnd(current_position)
<1>0. first # NUL
  BY DEF OperatorCharacters, SingleCharacters, NUL
<1>1. PICK s \in Nat, p \in Nat :
        /\ s = start_position - 1 /\ p = current_position /\ p = s + 1
        /\ p <= source_code_length /\ source_code \in Seq(STRING) /\ first = At(s)
  BY <1>0, StartedInText DEF first
<1>2. At(s) \in OperatorCharacters
  BY <1>1
<1>3. ASSUME NEW S, NUL \notin S, \A c \in S : <<At(s), c>> \in Operators,
             q = IF At(p) \in S THEN p + 1 ELSE p
      PROVE  q \in p .. source_code_length /\ Text(s, q) \in Operators
  <2> HIDE DEF q
  <2> QED
    BY <1>1, <1>2, <1>3, OneMore
<1>4. CASE first \in {".", ":"}
  <2>1. q = IF At(p) \in {first} THEN p + 1 ELSE p
    BY <1>1, <1>4 DEF OperatorEnd
  <2>2. \A c \in {first} : <<At(s), c>> \in Operators
    BY <1>1, <1>4, PairsAreOperators
  <2> QED
    BY <1>0, <1>1, <1>3, <2>1, <2>2
<1>5. CASE first \in {"=", "!", "*", "/", "%", "^"}
  <2>1. q = IF At(p) \in {"="} THEN p + 1 ELSE p
    BY <1>1, <1>5 DEF OperatorEnd
  <2>2. \A c \in {"="} : <<At(s), c>> \in Operators
    BY <1>1, <1>5, PairsAreOperators
  <2> QED
    BY <1>1, <1>3, <2>1, <2>2 DEF NUL
<1>6. CASE first \in {"+", "|", "&"}
  <2>1. q = IF At(p) \in {"=", first} THEN p + 1 ELSE p
    BY <1>1, <1>6 DEF OperatorEnd
  <2>2. \A c \in {"=", first} : <<At(s), c>> \in Operators
    BY <1>1, <1>6, PairsAreOperators
  <2>3. NUL \notin {"=", first}
    BY <1>0 DEF NUL
  <2> QED
    BY <1>1, <1>3, <2>1, <2>2, <2>3
<1>7. CASE first = "-"
  <2>1. CASE Matches(p, <<"-", "-">>)
    <3>1. q = p + 2
      BY <1>1, <1>7, <2>1 DEF OperatorEnd
    <3>2. <<At(s), "-", "-">> \in Operators
      BY <1>1, <1>7, PairsAreOperators
    <3> QED
      BY <1>1, <2>1, <3>1, <3>2, TwoMore DEF NUL
  <2>2. CASE ~Matches(p, <<"-", "-">>)
    <3>1. q = IF At(p) \in {"=", "-", ">"} THEN p + 1 ELSE p
      BY <1>1, <1>7, <2>2 DEF OperatorEnd
    <3>2. \A c \in {"=", "-", ">"} : <<At(s), c>> \in Operators
      BY <1>1, <1>7, PairsAreOperators
    <3> QED
      BY <1>1, <1>3, <3>1, <3>2 DEF NUL
  <2> QED
    BY <2>1, <2>2
<1>8. CASE first = ">"
  <2>1. CASE Matches(p, <<">", "=">>)
    <3>1. q = p + 2
      BY <1>1, <1>8, <2>1 DEF OperatorEnd
    <3>2. <<At(s), ">", "=">> \in Operators
      BY <1>1, <1>8, PairsAreOperators
    <3> QED
      BY <1>1, <2>1, <3>1, <3>2, TwoMore DEF NUL
  <2>2. CASE ~Matches(p, <<">", "=">>)
    <3>1. q = IF At(p) \in {"="} THEN p + 1 ELSE p
      BY <1>1, <1>8, <2>2 DEF OperatorEnd
    <3>2. \A c \in {"="} : <<At(s), c>> \in Operators
      BY <1>1, <1>8, PairsAreOperators
    <3> QED
      BY <1>1, <1>3, <3>1, <3>2 DEF NUL
  <2> QED
    BY <2>1, <2>2
<1>9. CASE first = "<"
  <2>1. CASE Matches(p, <<"<", "=">>)
    <3>1. q = p + 2
      BY <1>1, <1>9, <2>1 DEF OperatorEnd
    <3>2. <<At(s), "<", "=">> \in Operators
      BY <1>1, <1>9, PairsAreOperators
    <3> QED
      BY <1>1, <2>1, <3>1, <3>2, TwoMore DEF NUL
  <2>2. CASE ~Matches(p, <<"<", "=">>)
    <3>1. q = IF At(p) \in {"=", "<"} THEN p + 1 ELSE p
      BY <1>1, <1>9, <2>2 DEF OperatorEnd
    <3>2. \A c \in {"=", "<"} : <<At(s), c>> \in Operators
      BY <1>1, <1>9, PairsAreOperators
    <3> QED
      BY <1>1, <1>3, <3>1, <3>2 DEF NUL
  <2> QED
    BY <2>1, <2>2
<1>10. CASE first \in SingleCharacters
  <2>1. q = p
    BY <1>1, <1>10 DEF OperatorEnd, SingleCharacters
  <2> HIDE DEF q
  <2>2. Text(s, p) = <<At(s)>>
    BY <1>1, OneCharacter
  <2>3. <<At(s)>> \in Operators
    BY <1>2 DEF Operators
  <2>4. source_code_length \in Nat
    BY <1>1 DEF source_code_length
  <2>5. p \in p .. source_code_length
    BY <1>1, <2>4
  <2>6. q \in p .. source_code_length /\ Text(s, q) \in Operators
    BY <2>1, <2>2, <2>3, <2>5
  <2> QED
    BY <1>1, <2>6 DEF q
<1>11. \/ first \in {".", ":"} \/ first \in {"=", "!", "*", "/", "%", "^"}
       \/ first \in {"+", "|", "&"} \/ first = "-" \/ first = ">" \/ first = "<"
       \/ first \in SingleCharacters
  BY DEF OperatorCharacters
<1> QED
  BY <1>4, <1>5, <1>6, <1>7, <1>8, <1>9, <1>10, <1>11

LEMMA ScanOperatorStep ==
  ASSUME TInv, ScanOperator
  PROVE  TInv'
<1>1. Scanning /\ first \in OperatorCharacters
  BY DEF ScanOperator
<1>2. first # NUL
  BY <1>1 DEF OperatorCharacters, SingleCharacters, NUL
<1>3. PICK q : q = OperatorEnd(current_position)
  OBVIOUS
<1>4. q \in current_position .. source_code_length /\ Text(start_position - 1, q) \in TokenKind
  BY <1>1, <1>3, OperatorFound DEF TokenKind
<1>5. ReturnToken(Text(start_position - 1, q), <<>>, q)
  BY <1>3 DEF ScanOperator
<1> QED
  BY <1>1, <1>2, <1>4, <1>5, ValidStep

-----------------------------------------------------------------------------
(* Names and numbers.                                                      *)

LEMMA NoNul ==
  /\ NUL \notin Letters \cup {"_"} /\ NUL \notin Letters \cup Digits \cup {"_"}
  /\ NUL \notin Part /\ NUL \notin Digits
BY DEF NUL, Letters, Digits, Part

LEMMA SymbolStep ==
  ASSUME TInv, consume_symbol
  PROVE  TInv'
<1>1. Scanning /\ first # NUL
  BY NoNul DEF consume_symbol
<1>2. /\ current_position \in Nat /\ source_code \in Seq(STRING)
      /\ current_position <= source_code_length
  BY <1>1, StartedInText
<1>3. PICK q : q = After(current_position, Letters \cup Digits \cup {"_"})
  OBVIOUS
<1>4. q \in current_position .. source_code_length
  BY <1>2, <1>3, NoNul, AfterBounds
<1>5. PICK word : word = Text(start_position - 1, q)
  OBVIOUS
<1>6. ReturnToken(resolve_keyword_token_kind(word), word, q)
  BY <1>3, <1>5 DEF consume_symbol
<1>7. resolve_keyword_token_kind(word) \in TokenKind
  BY DEF resolve_keyword_token_kind, TokenKind
<1> QED
  BY <1>1, <1>4, <1>6, <1>7, ValidStep

\* The widths of two digits, and what is skipped where they do not stand.
LEMMA WidthFound ==
  ASSUME source_code \in Seq(STRING), NEW p \in Nat, p <= source_code_length,
         NEW w \in {W16, W32, W64}
  PROVE  /\ source_code_length \in Nat
         /\ Skip(w, p) \in Nat /\ p <= Skip(w, p) /\ Skip(w, p) <= source_code_length
         /\ Matches(p, w) => /\ Found(w, p).end \in Nat /\ p <= Found(w, p).end
                            /\ Found(w, p).end <= source_code_length
<1>1. source_code_length \in Nat
  BY DEF source_code_length
<1>2. PICK c, d : w = <<c, d>> /\ c # NUL /\ d # NUL
  BY DEF W16, W32, W64, NUL
<1>3. Len(w) = 2 /\ w[1] = c /\ w[2] = d /\ 1 \in DOMAIN w /\ 2 \in DOMAIN w
  BY <1>2
<1>4. At(p) = c => p + 1 <= source_code_length
  BY <1>2, InText
<1>5. Skip(w, p) \in Nat /\ p <= Skip(w, p) /\ Skip(w, p) <= source_code_length
  BY <1>1, <1>3, <1>4 DEF Skip
<1>6. ASSUME Matches(p, w)
      PROVE  /\ Found(w, p).end \in Nat /\ p <= Found(w, p).end
             /\ Found(w, p).end <= source_code_length
  <2>1. At(p + 2 - 1) = d
    BY <1>3, <1>6 DEF Matches
  <2>2. p + 2 - 1 \in Nat /\ p + 2 - 1 + 1 = p + 2
    OBVIOUS
  <2>3. p + 2 <= source_code_length
    BY <1>2, <2>1, <2>2, InText
  <2>4. Found(w, p).end = p + 2
    BY <1>3 DEF Found
  <2> QED
    BY <2>3, <2>4
<1> QED
  BY <1>1, <1>5, <1>6

IsWidth(found, p, widths) ==
  /\ found.end \in Nat /\ p <= found.end /\ found.end <= source_code_length
  /\ found.width \in widths \cup {<<>>}

LEMMA FloatWidthFound ==
  ASSUME source_code \in Seq(STRING), NEW p \in Nat, p <= source_code_length
  PROVE  IsWidth(FloatWidth(p), p, {W32, W64})
<1>1. PICK q : q = Skip(W32, p)
  OBVIOUS
<1>2. q \in Nat /\ p <= q /\ q <= source_code_length /\ source_code_length \in Nat
  BY <1>1, WidthFound
<1>3. CASE Matches(p, W32)
  <2>1. FloatWidth(p) = Found(W32, p) /\ Found(W32, p).width = W32
    BY <1>3 DEF FloatWidth, Found
  <2>2. Found(W32, p).end \in Nat /\ p <= Found(W32, p).end /\ Found(W32, p).end <= source_code_length
    BY <1>3, WidthFound
  <2> QED
    BY <2>1, <2>2 DEF IsWidth
<1>4. CASE ~Matches(p, W32) /\ Matches(q, W64)
  <2>1. FloatWidth(p) = Found(W64, q) /\ Found(W64, q).width = W64
    BY <1>1, <1>4 DEF FloatWidth, Found
  <2>2. Found(W64, q).end \in Nat /\ q <= Found(W64, q).end /\ Found(W64, q).end <= source_code_length
    BY <1>2, <1>4, WidthFound
  <2>3. p <= Found(W64, q).end
    BY <1>2, <2>2
  <2> QED
    BY <2>1, <2>2, <2>3 DEF IsWidth
<1>5. CASE ~Matches(p, W32) /\ ~Matches(q, W64)
  <2>1. PICK r : r = Skip(W64, q)
    OBVIOUS
  <2>2. r \in Nat /\ q <= r /\ r <= source_code_length
    BY <1>2, <2>1, WidthFound
  <2>3. FloatWidth(p) = Found(<<>>, r)
    BY <1>1, <1>5, <2>1 DEF FloatWidth
  <2>4. Found(<<>>, r).width = <<>> /\ Found(<<>>, r).end = r
    BY <2>2 DEF Found
  <2>5. p <= r
    BY <1>2, <2>2
  <2> QED
    BY <2>2, <2>3, <2>4, <2>5 DEF IsWidth
<1> QED
  BY <1>3, <1>4, <1>5

LEMMA UnsignedWidthFound ==
  ASSUME source_code \in Seq(STRING), NEW p \in Nat, p <= source_code_length
  PROVE  IsWidth(UnsignedWidth(p), p, {W8, W16, W32, W64})
<1>1. PICK q : q = Skip(W16, p)
  OBVIOUS
<1>2. q \in Nat /\ p <= q /\ q <= source_code_length /\ source_code_length \in Nat
  BY <1>1, WidthFound
<1>3. CASE Matches(p, W16)
  <2>1. UnsignedWidth(p) = Found(W16, p) /\ Found(W16, p).width = W16
    BY <1>3 DEF UnsignedWidth, Found
  <2>2. Found(W16, p).end \in Nat /\ p <= Found(W16, p).end /\ Found(W16, p).end <= source_code_length
    BY <1>3, WidthFound
  <2> QED
    BY <2>1, <2>2 DEF IsWidth
<1>4. CASE ~Matches(p, W16) /\ Matches(q, W8)
  <2>1. UnsignedWidth(p) = Found(W8, q) /\ Found(W8, q).width = W8 /\ Found(W8, q).end = q + Len(W8)
    BY <1>1, <1>4 DEF UnsignedWidth, Found
  <2>2. Len(W8) = 1 /\ W8[1] = "8" /\ 1 \in DOMAIN W8
    BY DEF W8
  <2>3. At(q + 1 - 1) = "8"
    BY <1>4, <2>2 DEF Matches
  <2>4. q + 1 - 1 = q
    BY <1>2
  <2>5. q + 1 <= source_code_length
    BY <1>2, <2>3, <2>4, InText DEF NUL
  <2>6. q + 1 \in Nat /\ p <= q + 1
    BY <1>2
  <2> QED
    BY <2>1, <2>2, <2>5, <2>6 DEF IsWidth
<1>5. CASE ~Matches(p, W16) /\ ~Matches(q, W8)
  <2>1. UnsignedWidth(p) = FloatWidth(q)
    BY <1>1, <1>5 DEF UnsignedWidth
  <2>2. IsWidth(FloatWidth(q), q, {W32, W64})
    BY <1>2, FloatWidthFound
  <2>3. \A e \in Nat : q <= e => p <= e
    BY <1>2
  <2> QED
    BY <2>1, <2>2, <2>3 DEF IsWidth
<1> QED
  BY <1>3, <1>4, <1>5

LEMMA SignedWidthFound ==
  ASSUME source_code \in Seq(STRING), NEW p \in Nat, p <= source_code_length
  PROVE  IsWidth(SignedWidth(p), p, {<<"1">>, W8, W16, W32, W64})
<1>1. CASE At(p) # "1" \/ Matches(p, W16)
  <2>1. SignedWidth(p) = UnsignedWidth(p)
    BY <1>1 DEF SignedWidth
  <2> QED
    BY <2>1, UnsignedWidthFound DEF IsWidth
<1>2. CASE At(p) = "1" /\ ~Matches(p, W16)
  <2>1. SignedWidth(p).width = <<"1">> /\ SignedWidth(p).end = p + 1
    BY <1>2 DEF SignedWidth
  <2>2. p + 1 <= source_code_length
    BY <1>2, InText DEF NUL
  <2> QED
    BY <2>1, <2>2 DEF IsWidth
<1> QED
  BY <1>1, <1>2

\* A letter and a width make a number suffix, unless there is no width.
LEMMA SuffixFound ==
  ASSUME NEW p, NEW w,
         \/ At(p) = "i" /\ w.width \in {<<"1">>, W8, W16, W32, W64} \cup {<<>>}
         \/ At(p) = "u" /\ w.width \in {W8, W16, W32, W64} \cup {<<>>}
         \/ At(p) = "f" /\ w.width \in {W32, W64} \cup {<<>>}
  PROVE  Suffix(p, w).end = w.end /\ (Suffix(p, w).ok => Suffix(p, w).kind \in TokenKind)
<1>1. Suffix(p, w).end = w.end
  BY DEF Suffix
<1>2. ASSUME Suffix(p, w).ok
      PROVE  Suffix(p, w).kind \in NumberSuffixes
  <2>1. w.width # <<>> /\ Suffix(p, w).kind = <<At(p)>> \o w.width
    BY <1>2 DEF Suffix
  <2>2. CASE At(p) = "i" /\ w.width \in {<<"1">>, W8, W16, W32, W64} \cup {<<>>}
    <3>1. w.width \in {<<"1">>, W8, W16, W32, W64} /\ Suffix(p, w).kind = <<"i">> \o w.width
      BY <2>1, <2>2
    <3> QED
      BY <3>1, Zenon DEF NumberSuffixes
  <2>3. CASE At(p) = "u" /\ w.width \in {W8, W16, W32, W64} \cup {<<>>}
    <3>1. w.width \in {W8, W16, W32, W64} /\ Suffix(p, w).kind = <<"u">> \o w.width
      BY <2>1, <2>3
    <3> QED
      BY <3>1, Zenon DEF NumberSuffixes
  <2>4. CASE At(p) = "f" /\ w.width \in {W32, W64} \cup {<<>>}
    <3>1. w.width \in {W32, W64} /\ Suffix(p, w).kind = <<"f">> \o w.width
      BY <2>1, <2>4
    <3> QED
      BY <3>1, Zenon DEF NumberSuffixes
  <2> QED
    BY <2>2, <2>3, <2>4
<1> QED
  BY <1>1, <1>2 DEF TokenKind

\* A part of a number: where it ends, and its kind if it is one.
IsPart(x, p) ==
  /\ x.end \in Nat /\ p <= x.end /\ x.end <= source_code_length
  /\ x.ok => x.kind \in TokenKind

LEMMA SuffixPart ==
  ASSUME source_code \in Seq(STRING), NEW p \in Nat, NEW q \in Nat, p <= q,
         q <= source_code_length
  PROVE  /\ At(q) = "i" => IsPart(Suffix(q, SignedWidth(q + 1)), p)
         /\ At(q) = "u" => IsPart(Suffix(q, UnsignedWidth(q + 1)), p)
         /\ At(q) = "f" => IsPart(Suffix(q, FloatWidth(q + 1)), p)
<1>1. q + 1 \in Nat /\ \A e \in Nat : q + 1 <= e => p <= e
  OBVIOUS
<1>2. At(q) \in {"i", "u", "f"} => q + 1 <= source_code_length
  BY InText DEF NUL
<1>3. ASSUME At(q) = "i"
      PROVE  IsPart(Suffix(q, SignedWidth(q + 1)), p)
  <2>1. PICK w : w = SignedWidth(q + 1)
    OBVIOUS
  <2>2. IsWidth(w, q + 1, {<<"1">>, W8, W16, W32, W64})
    BY <1>1, <1>2, <1>3, <2>1, SignedWidthFound
  <2>3. Suffix(q, w).end = w.end /\ (Suffix(q, w).ok => Suffix(q, w).kind \in TokenKind)
    BY <1>3, <2>2, SuffixFound DEF IsWidth
  <2> QED
    BY <1>1, <2>1, <2>2, <2>3 DEF IsPart, IsWidth
<1>4. ASSUME At(q) = "u"
      PROVE  IsPart(Suffix(q, UnsignedWidth(q + 1)), p)
  <2>1. PICK w : w = UnsignedWidth(q + 1)
    OBVIOUS
  <2>2. IsWidth(w, q + 1, {W8, W16, W32, W64})
    BY <1>1, <1>2, <1>4, <2>1, UnsignedWidthFound
  <2>3. Suffix(q, w).end = w.end /\ (Suffix(q, w).ok => Suffix(q, w).kind \in TokenKind)
    BY <1>4, <2>2, SuffixFound DEF IsWidth
  <2> QED
    BY <1>1, <2>1, <2>2, <2>3 DEF IsPart, IsWidth
<1>5. ASSUME At(q) = "f"
      PROVE  IsPart(Suffix(q, FloatWidth(q + 1)), p)
  <2>1. PICK w : w = FloatWidth(q + 1)
    OBVIOUS
  <2>2. IsWidth(w, q + 1, {W32, W64})
    BY <1>1, <1>2, <1>5, <2>1, FloatWidthFound
  <2>3. Suffix(q, w).end = w.end /\ (Suffix(q, w).ok => Suffix(q, w).kind \in TokenKind)
    BY <1>5, <2>2, SuffixFound DEF IsWidth
  <2> QED
    BY <1>1, <2>1, <2>2, <2>3 DEF IsPart, IsWidth
<1> QED
  BY <1>3, <1>4, <1>5

LEMMA NumberStep ==
  ASSUME TInv, consume_number
  PROVE  TInv'
<1>1. Scanning /\ first # NUL
  BY NoNul DEF consume_number
<1>2. PICK p \in Nat : p = current_position /\ p <= source_code_length
  BY <1>1, StartedInText
<1>3. source_code \in Seq(STRING) /\ source_code_length \in Nat
  BY <1>1, StartedInText
<1>4. PICK whole \in {After(current_position, Part)} :
      \E end \in {IF Fraction(whole) THEN After(whole + 1, Part) ELSE whole} :
      \E signed \in {IF At(end) = "i" THEN Suffix(end, SignedWidth(end + 1))
                     ELSE [kind |-> IF Fraction(whole) THEN FLOAT ELSE INT, end |-> end, ok |-> TRUE]} :
      \E last \in {CASE At(signed.end) = "u" -> Suffix(signed.end, UnsignedWidth(signed.end + 1))
                     [] At(signed.end) = "f" -> Suffix(signed.end, FloatWidth(signed.end + 1))
                     [] OTHER -> [signed EXCEPT !.ok = NoLetter(signed.end)]} :
        IF signed.ok /\ last.ok
        THEN ReturnToken(last.kind, WithoutUnderscores(Text(start_position - 1, end)), last.end)
        ELSE ReturnInvalid(IF signed.ok THEN last.end ELSE signed.end)
  BY DEF consume_number
<1>5. PICK end \in {IF Fraction(whole) THEN After(whole + 1, Part) ELSE whole} :
      \E signed \in {IF At(end) = "i" THEN Suffix(end, SignedWidth(end + 1))
                     ELSE [kind |-> IF Fraction(whole) THEN FLOAT ELSE INT, end |-> end, ok |-> TRUE]} :
      \E last \in {CASE At(signed.end) = "u" -> Suffix(signed.end, UnsignedWidth(signed.end + 1))
                     [] At(signed.end) = "f" -> Suffix(signed.end, FloatWidth(signed.end + 1))
                     [] OTHER -> [signed EXCEPT !.ok = NoLetter(signed.end)]} :
        IF signed.ok /\ last.ok
        THEN ReturnToken(last.kind, WithoutUnderscores(Text(start_position - 1, end)), last.end)
        ELSE ReturnInvalid(IF signed.ok THEN last.end ELSE signed.end)
  BY <1>4
<1>6. PICK signed \in {IF At(end) = "i" THEN Suffix(end, SignedWidth(end + 1))
                      ELSE [kind |-> IF Fraction(whole) THEN FLOAT ELSE INT, end |-> end, ok |-> TRUE]} :
      \E last \in {CASE At(signed.end) = "u" -> Suffix(signed.end, UnsignedWidth(signed.end + 1))
                     [] At(signed.end) = "f" -> Suffix(signed.end, FloatWidth(signed.end + 1))
                     [] OTHER -> [signed EXCEPT !.ok = NoLetter(signed.end)]} :
        IF signed.ok /\ last.ok
        THEN ReturnToken(last.kind, WithoutUnderscores(Text(start_position - 1, end)), last.end)
        ELSE ReturnInvalid(IF signed.ok THEN last.end ELSE signed.end)
  BY <1>5
<1>7. PICK last \in {CASE At(signed.end) = "u" -> Suffix(signed.end, UnsignedWidth(signed.end + 1))
                      [] At(signed.end) = "f" -> Suffix(signed.end, FloatWidth(signed.end + 1))
                      [] OTHER -> [signed EXCEPT !.ok = NoLetter(signed.end)]} :
        IF signed.ok /\ last.ok
        THEN ReturnToken(last.kind, WithoutUnderscores(Text(start_position - 1, end)), last.end)
        ELSE ReturnInvalid(IF signed.ok THEN last.end ELSE signed.end)
  BY <1>6
<1>8. whole \in Nat /\ p <= whole /\ whole <= source_code_length
  <2>1. whole = After(p, Part)
    BY <1>2, <1>4
  <2>2. NUL \notin Part
    BY NoNul
  <2>3. whole \in p .. source_code_length
    BY <1>2, <1>3, <2>1, <2>2, AfterBounds
  <2> QED
    BY <1>2, <1>3, <2>3
<1>9. end \in Nat /\ p <= end /\ end <= source_code_length
  <2>1. CASE Fraction(whole)
    <3>1. whole + 1 <= source_code_length /\ whole + 1 \in Nat
      BY <1>3, <1>8, <2>1, InText DEF Fraction, NUL
    <3>2. PICK next \in Nat : next = whole + 1 /\ next <= source_code_length
      BY <3>1
    <3>3. end = After(next, Part)
      BY <1>5, <2>1, <3>2
    <3>4. NUL \notin Part
      BY NoNul
    <3>5. end \in next .. source_code_length
      BY <1>3, <3>2, <3>3, <3>4, AfterBounds
    <3> QED
      BY <1>2, <1>3, <1>8, <3>2, <3>5
  <2>2. CASE ~Fraction(whole)
    BY <1>5, <1>8, <2>2
  <2> QED
    BY <2>1, <2>2
<1>10. IsPart(signed, p)
  <2>1. CASE At(end) = "i"
    BY <1>2, <1>3, <1>6, <1>9, <2>1, SuffixPart
  <2>2. CASE At(end) # "i"
    <3>1. signed.end = end /\ signed.kind \in {INT, FLOAT}
      BY <1>6, <2>2
    <3> QED
      BY <1>9, <3>1 DEF IsPart, TokenKind
  <2> QED
    BY <2>1, <2>2
<1>11. signed.end \in Nat /\ p <= signed.end /\ signed.end <= source_code_length
  BY <1>10 DEF IsPart
<1>12. /\ last.end \in Nat /\ p <= last.end /\ last.end <= source_code_length
       /\ signed.ok /\ last.ok => last.kind \in TokenKind
  <2>1. CASE At(signed.end) = "u"
    <3>1. last = Suffix(signed.end, UnsignedWidth(signed.end + 1))
      BY <1>7, <2>1
    <3> QED
      BY <1>2, <1>3, <1>11, <2>1, <3>1, SuffixPart DEF IsPart
  <2>2. CASE At(signed.end) = "f"
    <3>1. last = Suffix(signed.end, FloatWidth(signed.end + 1))
      BY <1>7, <2>2
    <3> QED
      BY <1>2, <1>3, <1>11, <2>2, <3>1, SuffixPart DEF IsPart
  <2>3. CASE At(signed.end) \notin {"u", "f"}
    <3>1. last = [signed EXCEPT !.ok = NoLetter(signed.end)]
      BY <1>7, <2>3
    <3>2. last.end = signed.end /\ last.kind = signed.kind
      BY <3>1
    <3> QED
      BY <1>10, <3>2 DEF IsPart
  <2> QED
    BY <2>1, <2>2, <2>3
<1>13. CASE signed.ok /\ last.ok
  <2>1. ReturnToken(last.kind, WithoutUnderscores(Text(start_position - 1, end)), last.end)
    BY <1>7, <1>13
  <2>2. last.end \in current_position .. source_code_length
    BY <1>2, <1>3, <1>12
  <2> QED
    BY <1>1, <1>12, <1>13, <2>1, <2>2, ValidStep
<1>14. CASE ~(signed.ok /\ last.ok)
  <2>1. PICK q \in {last.end, signed.end} : ReturnInvalid(q)
    BY <1>7, <1>14
  <2>2. q \in current_position .. source_code_length
    BY <1>2, <1>3, <1>11, <1>12
  <2> QED
    BY <1>1, <2>1, <2>2, InvalidStep
<1> QED
  BY <1>13, <1>14

LEMMA DigitsAreNotNul ==
  ASSUME NEW base \in {2, 8, 16}
  PROVE  NUL \notin DigitsOf(base) \cup {"_"}
<1>1. \A k \in 1 .. 16 : NUL \notin HexDigits[k]
  BY DEF HexDigits, NUL
<1>2. \A k \in 1 .. base : k \in 1 .. 16
  OBVIOUS
<1>3. NUL \notin DigitsOf(base)
  BY <1>1, <1>2, Zenon DEF DigitsOf
<1>4. NUL # "_"
  BY DEF NUL
<1> QED
  BY <1>3, <1>4

LEMMA BasedNumberStep ==
  ASSUME TInv, consume_based_number
  PROVE  TInv'
<1>1. Scanning /\ first # NUL /\ peek \in {"x", "b", "o"}
  BY DEF consume_based_number, NUL
<1>2. PICK p \in Nat : p = current_position /\ p <= source_code_length
  BY <1>1, StartedInText
<1>3. source_code \in Seq(STRING) /\ source_code_length \in Nat
  BY <1>1, StartedInText
<1>4. PICK base \in {2, 8, 16} : base = Base[peek]
  BY <1>1 DEF Base
<1>5. PICK next \in Nat : next = p + 1 /\ next <= source_code_length
  <2>1. At(p) # NUL
    BY <1>1, <1>2 DEF peek, NUL
  <2> QED
    BY <1>3, <2>1, InText
<1>6. PICK q : q = After(next, DigitsOf(base) \cup {"_"})
  OBVIOUS
<1>7. NUL \notin DigitsOf(base) \cup {"_"}
  BY DigitsAreNotNul
<1>8. q \in next .. source_code_length
  BY <1>3, <1>5, <1>6, <1>7, AfterBounds
<1>9. q \in current_position .. source_code_length
  BY <1>2, <1>3, <1>5, <1>8
<1>10. \/ ReturnInvalid(q)
       \/ \E literal : ReturnToken(INT, literal, q)
  BY <1>2, <1>4, <1>5, <1>6 DEF consume_based_number
<1>11. INT \in TokenKind
  BY DEF TokenKind
<1> QED
  BY <1>1, <1>9, <1>10, <1>11, InvalidStep, ValidStep

-----------------------------------------------------------------------------
(* Strings and characters.                                                 *)

\* The escapes do not reach over the end of the text.
LEMMA OneCharacterBounds ==
  ASSUME source_code \in Seq(STRING), NEW p \in Nat, p <= source_code_length
  PROVE  consume_one_character(p).next \in p .. source_code_length
<1>1. source_code_length \in Nat
  BY DEF source_code_length
<1>2. PICK a \in Nat : a = Advanced(p, 1) /\ p <= a /\ a <= source_code_length
  BY AdvancedBounds
<1>3. PICK b \in Nat : b = Advanced(p, 4) /\ p <= b /\ b <= source_code_length
  BY AdvancedBounds
<1>4. At(p) # NUL => p + 1 <= source_code_length
  BY InText
<1>5. At(p + 1) # NUL => p + 2 <= source_code_length
  <2>1. PICK r \in Nat : r = p + 1
    OBVIOUS
  <2>2. At(r) # NUL => r + 1 <= source_code_length
    BY InText
  <2> QED
    BY <1>1, <2>1, <2>2
<1>6. PICK escape : escape = At(p + 1)
  OBVIOUS
<1>7. PICK one : one = consume_one_character(p)
  OBVIOUS
<1>8. \/ one.next = a
      \/ escape \in NamedEscapes \cup Escapable /\ one.next = p + 2
      \/ one.next = b
      \/ At(p) = "\\" /\ one.next = p + 1
  BY <1>2, <1>3, <1>6, <1>7 DEF consume_one_character
<1>9. NUL \notin NamedEscapes \cup Escapable /\ NUL # "\\"
  BY DEF NamedEscapes, Escapable, NUL
<1>10. CASE escape \in NamedEscapes \cup Escapable /\ one.next = p + 2
  <2>1. p + 2 <= source_code_length
    BY <1>5, <1>6, <1>9, <1>10
  <2> QED
    BY <1>1, <1>7, <1>10, <2>1
<1>11. CASE At(p) = "\\" /\ one.next = p + 1
  <2>1. p + 1 <= source_code_length
    BY <1>4, <1>9, <1>11
  <2> QED
    BY <1>1, <1>7, <1>11, <2>1
<1>12. CASE one.next \in {a, b}
  BY <1>1, <1>2, <1>3, <1>7, <1>12
<1> QED
  BY <1>8, <1>10, <1>11, <1>12

LEMMA StartStringStep ==
  ASSUME TInv, StartString
  PROVE  TInv'
<1>1. Grows /\ tokens' = tokens
  BY DEF StartString, Grows, history
<1>2. Scanning /\ first # NUL
  BY DEF StartString, NUL
<1>3. /\ current_position \in Nat /\ current_position = start_position
      /\ current_position <= source_code_length
  BY <1>2, StartedInText
<1>4. /\ Ends' = Ends /\ AllExact' /\ source_code_length' = source_code_length
      /\ source_code' \in Seq(STRING) /\ (\E S : tokens' \in Seq(S))
      /\ \A k \in DOMAIN tokens' : tokens'[k].kind \in TokenKind
  BY <1>1, NoTokenStep
<1>5. /\ start_position' = start_position /\ current_position' = current_position
      /\ line_number' = line_number /\ column_start' = column_start
      /\ column_current' = column_current /\ mode' = "string"
  BY DEF StartString, position
<1>6. Typed'
  BY <1>4, <1>5 DEF TInv, Typed, Modes
<1>7. Bounds'
  BY <1>2, <1>3, <1>4, <1>5 DEF TInv, Bounds, Scanning
<1>8. Skipping'
  BY <1>5 DEF Skipping
<1>9. Scanned'
  <2>1. At(start_position - 1)' = At(start_position - 1)
    BY <1>1, <1>5, TextKept DEF Grows
  <2>2. /\ Line(start_position - 1)' = Line(start_position - 1)
        /\ Column(start_position - 1)' = Column(start_position - 1)
    BY <1>1, <1>5, TextKept DEF Grows
  <2>3. /\ LinesCounted(start_position - 1)' => LinesCounted(start_position - 1)
        /\ LineStarted(start_position - 1)' => LineStarted(start_position - 1)
    BY <1>1, <1>5, FewerCounted
  <2> QED
    BY <1>2, <1>5, <2>1, <2>2, <2>3 DEF TInv, Scanned, Scanning
<1> QED
  BY <1>4, <1>6, <1>7, <1>8, <1>9 DEF TInv

\* A string that goes on.
LEMMA InString ==
  ASSUME TInv, mode = "string", mode' = "string", Grows, tokens' = tokens,
         NEW q \in current_position .. source_code_length, MoveTo(q),
         start_position' = start_position, line_number' = line_number,
         column_start' = column_start
  PROVE  TInv'
<1>1. /\ current_position \in Nat /\ start_position \in Nat /\ 1 <= start_position
      /\ start_position <= current_position /\ column_current \in Nat /\ column_start \in Nat
      /\ column_current = column_start + (current_position - start_position)
      /\ line_number \in Nat \ {0}
  BY DEF TInv, Typed, Bounds, Scanned
<1>2. source_code_length \in Nat
  BY Lengths
<1>3. /\ Ends' = Ends /\ AllExact' /\ source_code_length' = source_code_length
      /\ source_code' \in Seq(STRING) /\ (\E S : tokens' \in Seq(S))
      /\ \A k \in DOMAIN tokens' : tokens'[k].kind \in TokenKind
  BY NoTokenStep
<1>4. /\ q \in Nat /\ start_position <= q /\ q <= source_code_length
      /\ current_position' = q /\ column_current' = column_current + (q - current_position)
  BY <1>1, <1>2 DEF MoveTo
<1>5. column_current' \in Nat /\ column_current' = column_start + (q - start_position)
  BY <1>1, <1>4
<1>6. Typed'
  BY <1>1, <1>3, <1>4, <1>5 DEF Typed, Modes
<1>7. Bounds'
  BY <1>1, <1>3, <1>4 DEF Bounds
<1>8. Skipping'
  BY DEF Skipping
<1>9. Scanned'
  <2>1. At(start_position - 1)' = At(start_position - 1)
    BY TextKept DEF Grows
  <2>2. /\ Line(start_position - 1)' = Line(start_position - 1)
        /\ Column(start_position - 1)' = Column(start_position - 1)
    BY TextKept DEF Grows
  <2>3. /\ LinesCounted(start_position - 1)' => LinesCounted(start_position - 1)
        /\ LineStarted(start_position - 1)' => LineStarted(start_position - 1)
    BY FewerCounted
  <2>4. column_current' = column_start' + (current_position' - start_position')
    BY <1>4, <1>5
  <2> QED
    BY <2>1, <2>2, <2>3, <2>4 DEF TInv, Scanned
<1> QED
  BY <1>3, <1>6, <1>7, <1>8, <1>9 DEF TInv

\* A string that ends, at its quote, at a wrong escape or at the end of the text.
LEMMA EndString ==
  ASSUME TInv, mode = "string", NEW kind \in TokenKind, NEW literal,
         NEW q \in current_position .. source_code_length, Return(kind, literal, q),
         mode' \in {"skip", "stopped"}
  PROVE  TInv'
<1>1. current_position \in Nat /\ source_code_length \in Nat /\ Ends \in Nat
  BY Lengths DEF TInv, Typed
<1>2. q \in Nat /\ current_position <= q /\ q <= source_code_length + Ends
  BY <1>1
<1> QED
  BY <1>1, <1>2, ReturnStep

LEMMA StringStep ==
  ASSUME TInv, consume_string
  PROVE  TInv'
<1>1. /\ mode = "string" /\ current_position \in Nat /\ source_code \in Seq(STRING)
      /\ current_position <= source_code_length /\ source_code_length \in Nat
  BY Lengths DEF TInv, Typed, Bounds, consume_string
<1>2. INVALID \in TokenKind /\ <<"STRING">> \in TokenKind
  BY DEF TokenKind
<1>3. PICK one : one = consume_one_character(current_position)
  OBVIOUS
<1>4. PICK next : next = one.next
  OBVIOUS
<1>5. next \in current_position .. source_code_length
  BY <1>1, <1>3, <1>4, OneCharacterBounds
<1>6. PICK a : a = Advanced(current_position, 1)
  OBVIOUS
<1>7. a \in current_position .. source_code_length
  BY <1>1, <1>6, AdvancedBounds
<1>8. current_position \in current_position .. source_code_length
  BY <1>1
<1>9. CASE is_source_available /\ peek # "\"" /\ one.c = NoCharacter
  <2>1. Return(INVALID, <<>>, next) /\ mode' = "stopped"
    BY <1>3, <1>4, <1>9 DEF consume_string, ReturnInvalid
  <2> QED
    BY <1>1, <1>2, <1>5, <2>1, EndString
<1>10. CASE is_source_available /\ peek # "\"" /\ one.c # NoCharacter
  <2>1. /\ MoveTo(next) /\ source_code' = source_code /\ start_position' = start_position
        /\ line_number' = line_number /\ column_start' = column_start
        /\ mode' = mode /\ tokens' = tokens /\ commented' = commented /\ edges' = edges
    BY <1>3, <1>4, <1>10 DEF consume_string, history
  <2>2. Grows
    BY <2>1 DEF Grows
  <2> QED
    BY <1>1, <1>5, <2>1, <2>2, InString
<1>11. CASE is_source_available /\ peek = "\""
  <2>1. Return(<<"STRING">>, stream, a) /\ mode' = "skip"
    BY <1>6, <1>11 DEF consume_string, ReturnToken
  <2> QED
    BY <1>1, <1>2, <1>7, <2>1, EndString
<1>12. CASE ~is_source_available
  <2>1. Return(INVALID, <<>>, current_position) /\ mode' = "stopped"
    BY <1>12 DEF consume_string, ReturnInvalid
  <2> QED
    BY <1>1, <1>2, <1>8, <2>1, EndString
<1> QED
  BY <1>9, <1>10, <1>11, <1>12

LEMMA CharacterStep ==
  ASSUME TInv, consume_character
  PROVE  TInv'
<1>1. Scanning /\ first # NUL
  BY DEF consume_character, NUL
<1>2. /\ current_position \in Nat /\ source_code \in Seq(STRING)
      /\ current_position <= source_code_length /\ source_code_length \in Nat
  BY <1>1, StartedInText
<1>3. PICK one : one = consume_one_character(current_position)
  OBVIOUS
<1>4. PICK next : next = one.next
  OBVIOUS
<1>5. next \in current_position .. source_code_length
  BY <1>2, <1>3, <1>4, OneCharacterBounds
<1>6. next \in Nat
  BY <1>2, <1>5
<1>7. \/ ReturnInvalid(next)
      \/ At(next) = "'" /\ \E literal : ReturnToken(<<"CHARACTER">>, literal, next + 1)
  BY <1>3, <1>4 DEF consume_character
<1>8. CASE ReturnInvalid(next)
  BY <1>1, <1>5, <1>8, InvalidStep
<1>9. CASE At(next) = "'" /\ \E literal : ReturnToken(<<"CHARACTER">>, literal, next + 1)
  <2>1. At(next) # NUL
    BY <1>9 DEF NUL
  <2>2. next + 1 <= source_code_length
    BY <1>2, <1>6, <2>1, InText
  <2>3. PICK q : q = next + 1 /\ \E literal : ReturnToken(<<"CHARACTER">>, literal, q)
    BY <1>9
  <2>4. q \in current_position .. source_code_length
    BY <1>2, <1>5, <2>2, <2>3
  <2>5. <<"CHARACTER">> \in TokenKind
    BY DEF TokenKind
  <2> QED
    BY <1>1, <2>3, <2>4, <2>5, ValidStep
<1> QED
  BY <1>7, <1>8, <1>9

-----------------------------------------------------------------------------
(* The end, and what no token starts with.                                 *)

LEMMA ScanEndStep ==
  ASSUME TInv, ScanEnd
  PROVE  TInv'
<1>1. /\ mode = "token" /\ mode' \in {"skip", "stopped"} /\ current_position \in Nat
      /\ current_position <= source_code_length + Ends + 1
      /\ Return(END_OF_FILE, <<>>, current_position)
  BY DEF ScanEnd, Scanning, TInv, Typed, Bounds
<1>2. END_OF_FILE \in TokenKind
  BY DEF TokenKind
<1>3. PICK q \in Nat : q = current_position
  BY <1>1
<1>4. current_position <= q /\ q <= source_code_length + Ends + 1
  BY <1>1, <1>3
<1> QED
  BY <1>1, <1>2, <1>3, <1>4, ReturnStep

LEMMA ScanInvalidStep ==
  ASSUME TInv, ScanInvalid
  PROVE  TInv'
<1>1. Scanning /\ first # NUL /\ ReturnInvalid(current_position)
  BY DEF ScanInvalid
<1>2. current_position \in current_position .. source_code_length
  BY <1>1, StartedInText
<1> QED
  BY <1>1, <1>2, InvalidStep

-----------------------------------------------------------------------------
(* The invariant.                                                          *)

LEMMA InitStep ==
  ASSUME Init
  PROVE  TInv
<1>1. source_code \in Seq(STRING)
  BY SourcesAssumption DEF Init
<1>2. tokens \in Seq({}) /\ DOMAIN tokens = {}
  BY DEF Init
<1>3. Typed
  BY <1>1, <1>2 DEF Init, Typed, Modes
<1>4. source_code_length \in Nat
  BY <1>1 DEF source_code_length
<1>5. {k \in DOMAIN tokens : tokens[k].kind = END_OF_FILE} = {}
  BY <1>2
<1>6. Ends = 0
  BY <1>5, FS_EmptySet DEF Ends
<1>7. Bounds
  BY <1>4, <1>6 DEF Init, Bounds
<1>8. Skipping
  <2>1. Newlines(0) = {}
    BY DEF Newlines
  <2>2. Line(0) = 1
    BY <2>1, FS_EmptySet DEF Line
  <2>3. Newlines(0) \cup {-1} = {-1}
    BY <2>1
  <2>4. Column(0) = 1
    <3>1. \E m \in {-1} : \A j \in {-1} : m >= j
      OBVIOUS
    <3>2. Max({-1}) \in {-1}
      BY <3>1 DEF Max
    <3> QED
      BY <2>3, <3>2 DEF Column
  <2> QED
    BY <2>2, <2>4 DEF Init, Skipping
<1>9. Scanned /\ AllExact
  BY <1>2 DEF Init, Scanned, AllExact
<1> QED
  BY <1>3, <1>7, <1>8, <1>9 DEF TInv

LEMMA StutterStep ==
  ASSUME TInv, UNCHANGED vars
  PROVE  TInv'
<1>1. Grows
  BY DEF Grows, vars, history
<1>2. /\ source_code' = source_code /\ start_position' = start_position
      /\ current_position' = current_position /\ line_number' = line_number
      /\ column_start' = column_start /\ column_current' = column_current
      /\ mode' = mode /\ tokens' = tokens /\ commented' = commented /\ edges' = edges
  BY DEF vars, position, history
<1>3. Typed'
  BY <1>2 DEF TInv, Typed
<1>4. Bounds'
  BY <1>2 DEF TInv, Bounds, Ends, source_code_length
<1>5. Skipping'
  BY <1>2 DEF TInv, Skipping, LinesCounted, LineStarted, InToken, Newlines, Line, Column, At,
              source_code_length, Within
<1>6. Scanned'
  BY <1>2 DEF TInv, Scanned, LinesCounted, LineStarted, InToken, Newlines, Line, Column, At,
              source_code_length, Within
<1>7. AllExact'
  BY <1>1, <1>2, NoTokenStep
<1> QED
  BY <1>3, <1>4, <1>5, <1>6, <1>7 DEF TInv

LEMMA NextStep ==
  ASSUME TInv, [Next]_vars
  PROVE  TInv'
<1>1. CASE SkipBlank
  BY <1>1, SkipBlankStep
<1>2. CASE SkipToComment
  BY <1>2, SkipToCommentStep
<1>3. CASE skip_single_line_comment
  BY <1>3, LineCommentStep
<1>4. CASE skip_multi_lines_comment
  BY <1>4, BlockCommentStep
<1>5. CASE StartToken
  BY <1>5, StartTokenStep
<1>6. CASE ScanOperator
  BY <1>6, ScanOperatorStep
<1>7. CASE consume_symbol
  BY <1>7, SymbolStep
<1>8. CASE consume_number
  BY <1>8, NumberStep
<1>9. CASE consume_based_number
  BY <1>9, BasedNumberStep
<1>10. CASE StartString
  BY <1>10, StartStringStep
<1>11. CASE consume_string
  BY <1>11, StringStep
<1>12. CASE consume_character
  BY <1>12, CharacterStep
<1>13. CASE ScanEnd
  BY <1>13, ScanEndStep
<1>14. CASE ScanInvalid
  BY <1>14, ScanInvalidStep
<1>15. CASE Finished
  BY <1>15, StutterStep DEF Finished
<1>16. CASE UNCHANGED vars
  BY <1>16, StutterStep
<1> QED
  BY <1>1, <1>2, <1>3, <1>4, <1>5, <1>6, <1>7, <1>8, <1>9, <1>10, <1>11, <1>12, <1>13, <1>14,
     <1>15, <1>16 DEF Next

(* For every set of texts, keywords, largest number and feature: the       *)
(* scanner never reads past the character that ends the text, except for   *)
(* the end itself, and in every state each token scan_next_token returned  *)
(* has the line it stands in, unless a newline before it is in a token,    *)
(* right behind a "/*" or right behind the end of such a comment; and it   *)
(* has the columns of its first and its last character, unless the last    *)
(* newline before them is in a token or in a block comment.                *)
THEOREM PositionsAreExact == Spec => []PositionsExact
<1>1. Init => TInv
  BY InitStep
<1>2. TInv /\ [Next]_vars => TInv'
  BY NextStep
<1>3. TInv => PositionsExact
  BY InvImplies
<1> QED
  BY <1>1, <1>2, <1>3, PTL DEF Spec
=============================================================================
