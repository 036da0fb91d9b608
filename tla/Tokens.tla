------------------------------- MODULE Tokens -------------------------------
(***************************************************************************)
(* What the tokens of a text are, without a scanner: lexemes as sets of    *)
(* character sequences, of which the longest counts.  Tokenizer must find  *)
(* these, and say where they stand.                                        *)
(***************************************************************************)
EXTENDS Tokenizer

WhiteSpace == Blanks \cup {"\n"}
Operators ==
  {<<c>> : c \in OperatorCharacters} \cup {<<c, "=">> : c \in {"=", "!", "*", "/", "%", "^", "+",
                                                              "-", ">", "<", "|", "&"}}
  \cup {<<c, c>> : c \in {".", ":", "+", "-", "<", "|", "&"}}
  \cup {<<"-", ">">>, <<"-", "-", "-">>, <<"<", "<", "=">>, <<">", ">", "=">>}

Starts(s, t) == IsPrefix(t, s)
From(s, k)   == SubSeq(s, k, Len(s))
Between(s)   == SubSeq(s, 2, Len(s) - 1)

IsLineComment(s) == Starts(s, <<"/", "/">>) /\ "\n" \notin ToSet(s)
\* A block comment whose end is not in s.
IsOpenComment(s) ==
  Starts(s, <<"/", "*">>) /\ \A k \in 3 .. Len(s) - 1 : <<s[k], s[k + 1]>> # <<"*", "/">>
IsBlockComment(s) ==
  Len(s) >= 4 /\ IsOpenComment(Front(s)) /\ IsSuffix(<<"*", "/">>, s)

IsSymbol(s) == s[1] \notin Digits /\ ToSet(s) \subseteq Letters \cup Digits \cup {"_"}

IsNumeral(s) == s # <<>> /\ s[1] \in Digits /\ ToSet(s) \subseteq Digits \cup {"_"}
IsDecimal(s) == \E k \in DOMAIN s : /\ s[k] = "."
                                    /\ IsNumeral(SubSeq(s, 1, k - 1)) /\ IsNumeral(From(s, k + 1))
NumberSuffixes ==
  {<<"i">> \o w : w \in {<<"1">>, W8, W16, W32, W64}} \cup
  {<<"u">> \o w : w \in {W8, W16, W32, W64}} \cup {<<"f">> \o w : w \in {W32, W64}}
HasSuffix(s, x) ==
  LET number == SubSeq(s, 1, Len(s) - Len(x))
  IN IsSuffix(x, s) /\ (IsNumeral(number) \/ (x[1] = "f" /\ IsDecimal(number)))
SuffixOf(s) == IF \E x \in NumberSuffixes : HasSuffix(s, x) THEN CHOOSE x \in NumberSuffixes : HasSuffix(s, x)
                                                      ELSE <<>>
IsBased(s) == /\ Len(s) > 2 /\ s[1] = "0" /\ s[2] \in DOMAIN Base
              /\ ToSet(From(s, 3)) \subseteq DigitsOf(Base[s[2]]) \cup {"_"}
              /\ From(s, 3) # <<>> /\ ToSet(From(s, 3)) # {"_"}
BasedValue(s) == Value(WithoutUnderscores(From(s, 3)), Base[s[2]])
IsNumber(s) ==
  s[1] \in Digits /\ (IsNumeral(s) \/ IsDecimal(s) \/ SuffixOf(s) # <<>> \/ IsBased(s))

\* The characters s spells, one after the other; NoCharacter where it does not.
EscapeLength(s) ==
  CASE s[1] # "\\" -> 1
    [] Len(s) > 1 /\ s[2] \in NamedEscapes \cup Escapable -> 2
    [] Len(s) > 3 /\ s[2] = "x" /\ {s[3], s[4]} \subseteq DigitsOf(16) -> 4
    [] OTHER -> 0
Spelt(s) == CASE Len(s) = 1 -> s[1]
              [] s[2] \in Escapable -> s[2]
              [] s[2] = "x" -> Character(Value(From(s, 3), 16))
              [] OTHER -> Character(EscapeCode[s[2]])
Spells(s, quote) ==
  LET from[k \in 1 .. Len(s) + 1] ==
        IF k = Len(s) + 1 THEN <<>>
        ELSE LET n == EscapeLength(From(s, k))
             IN IF n = 0 \/ s[k] = quote THEN <<NoCharacter>>
                ELSE <<Spelt(SubSeq(s, k, k + n - 1))>> \o from[k + n]
  IN from[1]
IsQuoted(s, quote) ==
  /\ Len(s) >= 2 /\ s[1] = quote /\ s[Len(s)] = quote
  /\ NoCharacter \notin ToSet(Spells(Between(s), quote))
IsCharacter(s) == IsQuoted(s, "'") /\ Len(Spells(Between(s), "'")) = 1

Skipped(s) == (Len(s) = 1 /\ s[1] \in WhiteSpace) \/ IsLineComment(s) \/ IsBlockComment(s)
IsLexeme(s) ==
  \/ Skipped(s) \/ s \in Operators \/ IsSymbol(s) \/ IsNumber(s)
  \/ IsQuoted(s, "\"") \/ IsCharacter(s)

Kind(s) ==
  CASE s \in Operators \cup Keywords -> s
    [] IsSymbol(s) -> IDENTIFIER
    [] s[1] = "\"" -> <<"STRING">>
    [] s[1] = "'" -> <<"CHARACTER">>
    [] SuffixOf(s) # <<>> -> SuffixOf(s)
    [] OTHER -> IF IsDecimal(s) THEN FLOAT ELSE INT
Literal(s) ==
  CASE s \in Operators -> <<>>
    [] IsSymbol(s) -> s
    [] s[1] \in {"\"", "'"} -> Spells(Between(s), s[1])
    [] IsBased(s) -> <<ToString(BasedValue(s))>>
    [] OTHER -> WithoutUnderscores(SubSeq(s, 1, Len(s) - Len(SuffixOf(s))))

\* The lexemes of the text from p on, blanks and comments among them; the last one is
\* END_OF_FILE or INVALID.  A comment may end with the text.
Lexeme(kind, literal, p, q) == [kind |-> kind, literal |-> literal, first |-> p, next |-> q]
LexemeAt(p) ==
  LET ends == {q \in p + 1 .. source_code_length :
                 \/ IsLexeme(Text(p, q))
                 \/ (q = source_code_length /\ IsOpenComment(Text(p, q)))}
      q == Max(ends)
      s == Text(p, q)
  IN CASE p = source_code_length -> Lexeme(END_OF_FILE, <<>>, p, p)
       [] ends = {} -> Lexeme(INVALID, <<>>, p, p)
       [] Skipped(s) \/ IsOpenComment(s) -> Lexeme(<<"SKIPPED">>, <<>>, p, q)
       [] IsNumber(s) /\ (At(q) \in Letters \/ (IsBased(s) /\ BasedValue(s) > MaxInt)) ->
            Lexeme(INVALID, <<>>, p, p)
       [] OTHER -> Lexeme(Kind(s), Literal(s), p, q)
Lexemes ==
  LET from[p \in 0 .. source_code_length] ==
        LET x == LexemeAt(p)
        IN IF x.kind \in {END_OF_FILE, INVALID} THEN <<x>> ELSE <<x>> \o from[x.next]
  IN from[0]
Meant == SelectSeq(Lexemes, LAMBDA x : x.kind # <<"SKIPPED">>)

-----------------------------------------------------------------------------
(* Features of a text: where the scanner is known to take what it should   *)
(* not, or to refuse what it should take.                                  *)

NumberBefore(letter, s) ==
  \/ letter \in Letters /\ (SuffixOf(s) # <<>> \/ IsBased(s))
  \/ letter \in {"i", "u"} /\ IsDecimal(s)
Present(feature) ==
  CASE feature = "letter_after_number" ->
         \E q \in 1 .. source_code_length :
            At(q) \in Letters /\ \E p \in 0 .. q - 1 : NumberBefore(At(q), Text(p, q))
    [] feature = "two_widths" -> \E p \in 0 .. source_code_length :
         \/ \E c \in {"i", "u", "f"} : Matches(p, <<c, "3">> \o W64)
         \/ \E x \in {W8, W32, <<"3">> \o W64} : Matches(p, <<"u", "1">> \o x)
    [] feature = "escaped_quote" ->
         \E p \in 0 .. source_code_length, x \in {<<"'">>, <<"x", "2", "7">>} :
            Matches(p, <<"'", "\\">> \o x \o <<"'">>)
    [] feature = "hex_letter" -> \E p \in 0 .. source_code_length :
         /\ Matches(p, <<"\\", "x">>)
         /\ {At(p + 2), At(p + 3)} \subseteq DigitsOf(16) /\ ~ {At(p + 2), At(p + 3)} \subseteq Digits

Clean == \A w \in Excluded : ~Present(w)

-----------------------------------------------------------------------------
Init ==
  /\ source_code \in Sources
  /\ start_position = 0 /\ current_position = 0 /\ line_number = 1
  /\ column_start = 0 /\ column_current = 0
  /\ stream = <<>> /\ mode = "skip" /\ tokens = <<>> /\ commented = {} /\ edges = {}

Next ==
  \/ SkipBlank \/ SkipToComment \/ skip_single_line_comment \/ skip_multi_lines_comment
  \/ StartToken \/ ScanOperator \/ consume_symbol \/ consume_number \/ consume_based_number
  \/ StartString \/ consume_string \/ consume_character \/ ScanEnd \/ ScanInvalid
  \/ Finished

Spec == Init /\ [][Next]_vars /\ WF_vars(Next)

-----------------------------------------------------------------------------
TokenKind ==
  Operators \cup Keywords \cup NumberSuffixes
  \cup {IDENTIFIER, INT, FLOAT, <<"STRING">>, <<"CHARACTER">>, END_OF_FILE, INVALID}

(* The next character is one of the text, or the one that ends it: only    *)
(* the scan of the end itself moves past it.                               *)
InBounds == current_position <= source_code_length + Ends
              + (IF mode = "token" /\ first = NUL THEN 1 ELSE 0)

(* The positions are numbers of the text, and every token has one of the   *)
(* kinds the parser knows.                                                 *)
TypeOK ==
  /\ InBounds
  /\ \A k \in DOMAIN tokens : tokens[k].kind \in TokenKind
  /\ mode \in {"skip", "line_comment", "block_comment", "token", "string", "stopped"}
  /\ start_position \in Nat /\ current_position \in Nat
  /\ line_number \in Nat \ {0} /\ column_start \in Nat /\ column_current \in Nat

(* The tokens returned so far are the first of those the text has; in the  *)
(* end they are all of them, or the scanner stopped at the first error.    *)
SameToken(token, lexeme) ==
  /\ token.kind = lexeme.kind /\ token.first = lexeme.first
  /\ token.kind \notin {INVALID, END_OF_FILE} => token.next = lexeme.next /\ token.literal = lexeme.literal
TokensMeant ==
  mode = "stopped" /\ Clean =>
    LET meant == Meant
        found == IF tokens[Len(tokens)].kind = END_OF_FILE THEN Front(tokens) ELSE tokens
    IN Len(found) = Len(meant) /\ \A k \in DOMAIN found : SameToken(found[k], meant[k])

(* A token has the line it stands in, and the columns of its first and its *)
(* last character.  A newline that is part of a token is not counted, nor  *)
(* is one right behind a "/*"; one right behind the end of such a comment  *)
(* is counted twice.  Behind these the line is not promised.  The column   *)
(* is, unless the last newline is in a token or in such a comment.         *)
Newlines(p) == {q \in 0 .. p - 1 : At(q) = "\n"}
Line(p)     == 1 + Cardinality(Newlines(p))
Column(p)   == p - Max(Newlines(p) \cup {-1})
Within(q, t) == t.first <= q /\ q < t.next
InToken(q)   == \E k \in DOMAIN tokens : Within(q, tokens[k])
LinesCounted(p) == \A q \in Newlines(p) : q \notin edges /\ ~InToken(q)
LineStarted(p)  == \A q \in Newlines(p) :
                     (\A r \in Newlines(p) : r <= q) => q \notin commented /\ ~InToken(q)
PositionsExact ==
  /\ TypeOK
  /\ \A k \in DOMAIN tokens :
       LET t == tokens[k]
       IN /\ LinesCounted(t.first) => t.line = Line(t.first)
          /\ LineStarted(t.first)  => t.column_start = Column(t.first)
          /\ LineStarted(t.next)   => t.column_end = Column(t.next - 1)

(* The scanner reaches the end of every text, or an error.                 *)
Terminates == <>(mode = "stopped")
=============================================================================
