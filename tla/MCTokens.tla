------------------------------ MODULE MCTokens ------------------------------
(* Texts over small alphabets, one for each part of the scanner, for TLC. *)
EXTENDS Tokens

UpTo(alphabet, n) == UNION {[1 .. k -> alphabet] : k \in 0 .. n}
Comments  == UpTo({"/", "*", "\n", "a"}, 6)
Literals  == UpTo({"\"", "'", "\\", "n", "\n"}, 5)
Hex       == {<<quote, "\\", "x">> \o s : quote \in {"\"", "'"}, s \in UpTo({"1", "2", "7", "a", "\"", "'"}, 4)}
Numbers   == UpTo({"1", "6", "8", "i", "u"}, 5)
             \cup {<<"1", c>> \o s : c \in {"i", "u", "f"}, s \in UpTo({"1", "3", "2", "6", "4"}, 4)}
Fractions == {s \o x : s \in UpTo({"1", ".", "_"}, 4), x \in UpTo({"f", "3", "2", "i"}, 3)}
Based     == {<<"0">> \o s : s \in UpTo({"x", "b", "o", "1", "9", "_", "f"}, 4)}
Signs     == UpTo({"+", "-", "=", ">", "<", "."}, 4)
             \cup UpTo({"|", "&", "!", ":", "*", "%", "^", "(", "#", "="}, 3)
Symbols   == UpTo({"i", "f", "_", "1", "\t", "\r"}, 3)
MCSources ==
  Comments \cup Literals \cup Hex \cup Numbers \cup Fractions \cup Based \cup Signs \cup Symbols
MCKeywords == {<<"i", "f">>}
MCExcluded == {"letter_after_number", "two_widths", "escaped_quote", "hex_letter"}
=============================================================================
