----------------------------- MODULE SourceTexts -----------------------------
(***************************************************************************)
(* What the parsers of a compilation read: a file system, the text of its  *)
(* files, and how the text of one file names another.                      *)
(*                                                                         *)
(* A text is a sequence of tokens; a whole declaration of the language is  *)
(* one token.  A path is the sequence of its components, as written: the   *)
(* compiler compares paths as strings and never normalises them.           *)
(***************************************************************************)
EXTENDS Integers, Sequences

CONSTANTS
  Names,      \* the components of paths
  Files,      \* the files of the disk
  FileAt(_),  \* the file a path leads to; not in Files when there is none
  Contents,   \* functions from Files to the texts they may have
  MainPaths,  \* the paths that may be given on the command line
  PathMax     \* longest path the operating system looks up, in components

Keywords == {"import", "load"}
Kinds    == Keywords \cup {"open_brace", "close_brace", "string", "semicolon", "type", "declaration", "invalid"}
Token    == [kind : Kinds, name : Seq(Names)]
Path     == Seq(Names)
EndOfFile == [kind |-> "end", name |-> <<>>]

ASSUME ContentsAssumption ==
  \A disk \in Contents : DOMAIN disk = Files /\ \A f \in Files : disk[f] \in Seq(Token)
ASSUME MainAssumption == MainPaths \subseteq Path /\ \A path \in MainPaths : FileAt(path) \in Files
ASSUME NamesAssumption == {"..", "lib"} \subseteq Names
ASSUME PathMaxAssumption == PathMax \in Nat

\* The i-th token of a text; scan_next_token gives END_OF_FILE for ever at the end.
Nth(text, i) == IF i \in DOMAIN text THEN text[i] ELSE EndOfFile

\* Mutant: a file of the working directory has the parent "./".
DotParent(path) == IF Len(path) = 1 THEN <<".">> ELSE SubSeq(path, 1, Len(path) - 1)

\* find_parent_path and the separator the constructor of Parser appends.
file_parent_path(path) == SubSeq(path, 1, Len(path) - 1)
AMUN_LIBRARIES_PREFIX  == <<"..", "lib">>

\* The library_path of an import or load declaration in the file with that path.
library_path(path, keyword, name) ==
  (IF keyword = "import" THEN AMUN_LIBRARIES_PREFIX ELSE file_parent_path(path)) \o name

\* The keyword a name in a text belongs to: the last one before it.
KeywordsUpTo(text, i) == {k \in 1 .. i : Nth(text, k).kind \in Keywords}
Latest(places) == CHOOSE k \in places : \A j \in places : j <= k
KeywordOf(text, i) ==
  IF KeywordsUpTo(text, i) = {} THEN "load" ELSE Nth(text, Latest(KeywordsUpTo(text, i))).kind

\* The paths that a text names up to its n-th token.
NamedBefore(path, text, n) ==
  {library_path(path, KeywordOf(text, i), text[i].name) :
     i \in {k \in DOMAIN text : k < n /\ text[k].kind = "string"}}
Named(path, text) == NamedBefore(path, text, Len(text) + 1)
=============================================================================
