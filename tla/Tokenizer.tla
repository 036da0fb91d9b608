----------------------------- MODULE Tokenizer -----------------------------
(***************************************************************************)
(* The scanner (amun_tokenizer.cpp): from the characters of a file to its  *)
(* tokens, with the line and the columns every later message points to.    *)
(*                                                                         *)
(* Positions count from 0, as in the code; a character is a string.  The   *)
(* kind of an operator, of a keyword and of a number with a suffix is the  *)
(* text that selects it, so TOKEN_INT8 is <<"i", "8">>.                    *)
(***************************************************************************)
EXTENDS Integers, Sequences, SequencesExt, FiniteSetsExt, TLC

CONSTANTS
  Sources,     \* the texts to scan
  Keywords,    \* the words resolve_keyword_token_kind knows
  MaxInt,      \* the largest number std::stol returns
  Excluded     \* features of texts for which no tokens are promised

ASSUME MaxIntAssumption == MaxInt \in Nat
ASSUME SourcesAssumption == Sources \subseteq Seq(STRING)

VARIABLES
  source_code,
  start_position, current_position, line_number, column_start, column_current,
  stream,      \* of consume_string: the characters so far
  mode,        \* where the scanner is; "stopped" when nobody asks for a token any more
  tokens,      \* returned by scan_next_token
  commented,   \* history: the positions passed in block comments
  edges        \* history: the position behind each "/*" and behind each "*/" that ends it

position == <<start_position, current_position, line_number, column_start, column_current>>
history  == <<commented, edges>>
vars     == <<source_code, position, stream, mode, tokens, history>>

source_code_length == Len(source_code)
NUL == "NUL"

Digits  == {"0", "1", "2", "3", "4", "5", "6", "7", "8", "9"}
HexDigits == <<{"0"}, {"1"}, {"2"}, {"3"}, {"4"}, {"5"}, {"6"}, {"7"}, {"8"}, {"9"},
               {"a", "A"}, {"b", "B"}, {"c", "C"}, {"d", "D"}, {"e", "E"}, {"f", "F"}>>
Letters ==
  {"a", "b", "c", "d", "e", "f", "g", "h", "i", "j", "k", "l", "m", "n", "o", "p", "q", "r", "s",
   "t", "u", "v", "w", "x", "y", "z", "A", "B", "C", "D", "E", "F", "G", "H", "I", "J", "K", "L",
   "M", "N", "O", "P", "Q", "R", "S", "T", "U", "V", "W", "X", "Y", "Z"}

-----------------------------------------------------------------------------
(* Reading.                                                                *)

At(p) == IF p < source_code_length THEN source_code[p + 1] ELSE NUL
peek      == At(current_position)
peek_next == At(current_position + 1)
is_source_available == current_position < source_code_length
Text(p, q) == SubSeq(source_code, p + 1, q)

\* advance() n times: it does not move at the end of the text.
Advanced(p, n) == Min({p + n, source_code_length})
MoveTo(q) == /\ current_position' = q
             /\ column_current' = column_current + (q - current_position)
\* The first position from p on that has none of these characters.
After(p, chars) == CHOOSE q \in p .. source_code_length :
                     At(q) \notin chars /\ \A r \in p .. q - 1 : At(r) \in chars
Matches(p, s) == \A k \in DOMAIN s : At(p + k - 1) = s[k]
WithoutUnderscores(s) == SelectSeq(s, LAMBDA c : c # "_")

-----------------------------------------------------------------------------
(* skip_whitespaces, one character at a time.                              *)

Blanks == {" ", "\r", "\t"}
AtComment == peek = "/" /\ peek_next \in {"/", "*"}
Still == UNCHANGED <<source_code, start_position, column_start, stream, tokens>>
Comment(q) == commented' = commented \cup current_position .. q - 1

KeepsColumn(q) == column_current + 1                      \* mutant: the column goes on
NewlineColumn(q) == 0
SkipBlank ==
  /\ mode = "skip" /\ peek \in Blanks \cup {"\n"}
  /\ current_position' = current_position + 1
  /\ IF peek = "\n" THEN /\ line_number' = line_number + 1
                         /\ column_current' = NewlineColumn(current_position)
                    ELSE column_current' = column_current + 1 /\ UNCHANGED line_number
  /\ UNCHANGED <<mode, history>> /\ Still

SkipToComment ==
  /\ mode = "skip" /\ AtComment
  /\ MoveTo(current_position + 2)
  /\ IF peek_next = "/" THEN mode' = "line_comment" /\ UNCHANGED history
     ELSE /\ mode' = "block_comment"
          /\ Comment(current_position + 2) /\ edges' = edges \cup {current_position + 2}
  /\ UNCHANGED line_number /\ Still

UpToNewline == peek # "\n"                               \* mutant: also behind the end
InLineComment == is_source_available /\ peek # "\n"
skip_single_line_comment ==
  /\ mode = "line_comment"
  /\ IF InLineComment
     THEN MoveTo(Advanced(current_position, 1)) /\ UNCHANGED mode
     ELSE mode' = "skip" /\ UNCHANGED <<current_position, column_current>>
  /\ UNCHANGED <<line_number, history>> /\ Still

ReachUncounted(q) == /\ MoveTo(q) /\ Comment(q)           \* mutant: lines in comments do not count
                     /\ UNCHANGED line_number
\* A newline is counted when it becomes the next character, also behind the comment.
Reach(q) ==
  /\ current_position' = q /\ Comment(q)
  /\ IF At(q) = "\n" THEN line_number' = line_number + 1 /\ column_current' = 0
     ELSE column_current' = column_current + (q - current_position) /\ UNCHANGED line_number
BeyondEnd  == current_position + 2                        \* mutant: moves past the text
CommentEnd == Advanced(current_position, 2)
skip_multi_lines_comment ==
  /\ mode = "block_comment"
  /\ IF is_source_available /\ (peek # "*" \/ peek_next # "/")
     THEN Reach(Advanced(current_position, 1)) /\ UNCHANGED <<mode, edges>>
     ELSE Reach(CommentEnd) /\ mode' = "skip" /\ edges' = edges \cup {CommentEnd}
  /\ Still

-----------------------------------------------------------------------------
(* scan_next_token.                                                        *)

\* The position moves by one also where advance() did not, at the end.
StartToken ==
  /\ mode = "skip" /\ ~AtComment /\ peek \notin Blanks \cup {"\n"}
  /\ start_position' = current_position + 1
  /\ current_position' = current_position + 1
  /\ column_start' = column_current + 1
  /\ column_current' = column_current + 1
  /\ mode' = "token"
  /\ UNCHANGED <<source_code, line_number, stream, tokens, history>>

first == At(start_position - 1)
Scanning == mode = "token"

END_OF_FILE == <<"END_OF_FILE">>
INVALID     == <<"INVALID">>
\* The token that ends before q.
build_token(kind, literal, q) ==
  [kind |-> kind, literal |-> literal, first |-> start_position - 1, next |-> q,
   line |-> line_number, column_start |-> column_start,
   column_end |-> column_current + (q - current_position)]
Return(kind, literal, q) ==
  /\ tokens' = Append(tokens, build_token(kind, literal, q))
  /\ MoveTo(q)
  /\ UNCHANGED <<source_code, start_position, line_number, column_start, stream, history>>
ReturnInvalid(q) == Return(INVALID, <<>>, q) /\ mode' = "stopped"
ReturnToken(kind, literal, q) == Return(kind, literal, q) /\ mode' = "skip"

SingleCharacters == {"(", ")", "[", "]", "{", "}", ",", ";", "~", "@"}
OperatorCharacters ==
  SingleCharacters \cup {".", ":", "=", "!", "*", "/", "%", "^", "+", "-", ">", "<", "|", "&"}
OperatorEnd(q) ==
  LET one(S) == IF At(q) \in S THEN q + 1 ELSE q
      two(s) == Matches(q, s)
  IN CASE first \in {".", ":"} -> one({first})
       [] first \in {"=", "!", "*", "/", "%", "^"} -> one({"="})
       [] first \in {"+", "|", "&"} -> one({"=", first})
       [] first = "-" -> IF two(<<"-", "-">>) THEN q + 2 ELSE one({"=", "-", ">"})
       [] first = ">" -> IF two(<<">", "=">>) THEN q + 2 ELSE one({"="})
       [] first = "<" -> IF two(<<"<", "=">>) THEN q + 2 ELSE one({"=", "<"})
       [] OTHER -> q
ScanOperator ==
  /\ Scanning /\ first \in OperatorCharacters
  /\ LET q == OperatorEnd(current_position)
     IN ReturnToken(Text(start_position - 1, q), <<>>, q)

IDENTIFIER == <<"IDENTIFIER">>
resolve_keyword_token_kind(word) == IF word \in Keywords THEN word ELSE IDENTIFIER
consume_symbol ==
  /\ Scanning /\ first \in Letters \cup {"_"}
  /\ LET q == After(current_position, Letters \cup Digits \cup {"_"})
         word == Text(start_position - 1, q)
     IN ReturnToken(resolve_keyword_token_kind(word), word, q)

W8 == <<"8">>
W16 == <<"1", "6">>
W32 == <<"3", "2">>
W64 == <<"6", "4">>
\* The widths are tried one after the other.  The first character of one that does not
\* stand there is skipped where it matches, before the next one is tried.
Found(w, p) == [width |-> w, end |-> p + Len(w)]
Skip(w, p)  == IF At(p) = w[1] THEN p + 1 ELSE p
FloatWidth(p) ==
  LET q == Skip(W32, p)
  IN IF Matches(p, W32) THEN Found(W32, p)
     ELSE IF Matches(q, W64) THEN Found(W64, q) ELSE Found(<<>>, Skip(W64, q))
UnsignedWidth(p) ==
  LET q == Skip(W16, p)
  IN IF Matches(p, W16) THEN Found(W16, p)
     ELSE IF Matches(q, W8) THEN Found(W8, q) ELSE FloatWidth(q)
SignedWidth(p) == IF At(p) # "1" \/ Matches(p, W16) THEN UnsignedWidth(p)
                  ELSE [width |-> <<"1">>, end |-> p + 1]
INT   == <<"INT">>
FLOAT == <<"FLOAT">>
\* mutant: any width will do
AnyWidth(p, w) == [kind |-> <<At(p)>> \o w.width, ok |-> TRUE, end |-> w.end]
\* What the letter at p and the width behind it make of a number.
Suffix(p, w) == [kind |-> <<At(p)>> \o w.width, ok |-> w.width # <<>>, end |-> w.end]
NotAnyLetter(p) == TRUE                                   \* mutant: a letter may follow
NoLetter(p) == At(p) \notin Letters
Part == Digits \cup {"_"}
Fraction(p) == At(p) = "." /\ At(p + 1) \in Digits
consume_number ==
  /\ Scanning /\ first \in Digits /\ (first = "0" => peek \notin {"x", "b", "o"})
  /\ \E whole \in {After(current_position, Part)} :
     \E end \in {IF Fraction(whole) THEN After(whole + 1, Part) ELSE whole} :
     \E signed \in {IF At(end) = "i" THEN Suffix(end, SignedWidth(end + 1))
                    ELSE [kind |-> IF Fraction(whole) THEN FLOAT ELSE INT, end |-> end, ok |-> TRUE]} :
     \E last \in {CASE At(signed.end) = "u" -> Suffix(signed.end, UnsignedWidth(signed.end + 1))
                    [] At(signed.end) = "f" -> Suffix(signed.end, FloatWidth(signed.end + 1))
                    [] OTHER -> [signed EXCEPT !.ok = NoLetter(signed.end)]} :
       IF signed.ok /\ last.ok
       THEN ReturnToken(last.kind, WithoutUnderscores(Text(start_position - 1, end)), last.end)
       ELSE ReturnInvalid(IF signed.ok THEN last.end ELSE signed.end)

Base == [x |-> 16, b |-> 2, o |-> 8]
DigitsOf(base) == UNION {HexDigits[k] : k \in 1 .. base}
DigitValue(c)  == CHOOSE v \in 0 .. 15 : c \in HexDigits[v + 1]
Value(digits, base) == FoldLeft(LAMBDA sum, c : sum * base + DigitValue(c), 0, digits)
\* consume_hex_number, consume_binary_number and consume_octal_number.
consume_based_number ==
  /\ Scanning /\ first = "0" /\ peek \in {"x", "b", "o"}
  /\ LET base == Base[peek]
         q == After(current_position + 1, DigitsOf(base) \cup {"_"})
         digits == WithoutUnderscores(Text(current_position + 1, q))
     IN IF digits = <<>> \/ Value(digits, base) > MaxInt
        THEN ReturnInvalid(q)
        ELSE ReturnToken(INT, <<ToString(Value(digits, base))>>, q)

\* The characters with the codes 32 to 126; the grave accent has to be written by its name.
Printable ==
  <<" ", "!", "\"", "#", "$", "%", "&", "'", "(", ")", "*", "+", ",", "-", ".", "/", "0", "1", "2",
    "3", "4", "5", "6", "7", "8", "9", ":", ";", "<", "=", ">", "?", "@", "A", "B", "C", "D", "E",
    "F", "G", "H", "I", "J", "K", "L", "M", "N", "O", "P", "Q", "R", "S", "T", "U", "V", "W", "X",
    "Y", "Z", "[", "\\", "]", "^", "_", "GRAVE", "a", "b", "c", "d", "e", "f", "g", "h", "i", "j", "k",
    "l", "m", "n", "o", "p", "q", "r", "s", "t", "u", "v", "w", "x", "y", "z", "{", "|", "}", "~">>
\* The character with this code; one that cannot be written is named by the code.
Character(code) ==
  CASE code \in 32 .. 126 -> Printable[code - 31]
    [] code = 0  -> NUL
    [] code = 9  -> "\t"
    [] code = 10 -> "\n"
    [] code = 12 -> "\f"
    [] code = 13 -> "\r"
    [] OTHER -> "\\x" \o ToString(code)

NamedEscapes == {"a", "b", "f", "n", "r", "t", "v", "0"}
EscapeCode   == [a |-> 7, b |-> 8, f |-> 12, n |-> 10, r |-> 13, t |-> 9, v |-> 11] @@ ("0" :> 0)
Escapable    == {"'", "\\", "\""}
NoCharacter  == "-1"
DecimalCode(d1, d2) == 10 * DigitValue(d1) + DigitValue(d2) \* mutant: the digits are not hexadecimal
HexCode(d1, d2)     == 16 * DigitValue(d1) + DigitValue(d2)
\* The character that starts at p, and where the next one does.
consume_one_character(p) ==
  LET escape == At(p + 1)
      d1 == At(p + 2)
      d2 == At(p + 3)
  IN CASE At(p) # "\\" -> [c |-> At(p), next |-> Advanced(p, 1)]
       [] escape \in NamedEscapes -> [c |-> Character(EscapeCode[escape]), next |-> p + 2]
       [] escape \in Escapable -> [c |-> escape, next |-> p + 2]
       [] escape = "x" -> [c |-> IF {d1, d2} \subseteq Digits THEN Character(HexCode(d1, d2))
                                                             ELSE NoCharacter,
                           next |-> Advanced(p, 4)]
       [] OTHER -> [c |-> NoCharacter, next |-> p + 1]

StartString ==
  /\ Scanning /\ first = "\""
  /\ mode' = "string" /\ stream' = <<>>
  /\ UNCHANGED <<source_code, position, tokens, history>>
consume_string ==
  /\ mode = "string"
  /\ IF is_source_available /\ peek # "\""
     THEN LET one == consume_one_character(current_position)
          IN IF one.c = NoCharacter THEN ReturnInvalid(one.next)
             ELSE /\ MoveTo(one.next)
                  /\ stream' = Append(stream, one.c)
                  /\ UNCHANGED <<source_code, start_position, line_number, column_start,
                                 mode, tokens, history>>
     ELSE IF is_source_available THEN ReturnToken(<<"STRING">>, stream, Advanced(current_position, 1))
     ELSE ReturnInvalid(current_position)

consume_character ==
  /\ Scanning /\ first = "'"
  /\ LET one == consume_one_character(current_position)
     IN IF one.c \in {NoCharacter, "'"} \/ At(one.next) # "'" THEN ReturnInvalid(one.next)
        ELSE ReturnToken(<<"CHARACTER">>, <<one.c>>, one.next + 1)

\* The parser looks two tokens ahead, so it may ask for the end twice.
Ends == Cardinality({k \in DOMAIN tokens : tokens[k].kind = END_OF_FILE})
ScanEnd ==
  /\ Scanning /\ first = NUL
  /\ Return(END_OF_FILE, <<>>, current_position)
  /\ mode' = IF Ends = 1 THEN "stopped" ELSE "skip"

ScanInvalid ==
  /\ Scanning
  /\ first \notin OperatorCharacters \cup Letters \cup Digits \cup {"_", "\"", "'", NUL}
  /\ ReturnInvalid(current_position)

Finished == mode = "stopped" /\ UNCHANGED vars
=============================================================================
