------------------------ MODULE SourceLoading_proofs ------------------------
(***************************************************************************)
(* What holds of SourceLoading for every disk, every text and every path.  *)
(***************************************************************************)
EXTENDS SourceLoading, SequenceTheorems, TLAPS

-----------------------------------------------------------------------------
(* Texts.                                                                  *)

LEMMA NthType ==
  ASSUME NEW text \in Seq(Token), NEW i \in Nat
  PROVE  Nth(text, i).name \in Path /\ Nth(text, i).kind \in Kinds \cup {"end"}
<1>1. CASE i \in DOMAIN text
  <2>1. text[i] \in Token
    BY <1>1
  <2> QED
    BY <1>1, <2>1 DEF Nth, Token, Path
<1>2. CASE i \notin DOMAIN text
  BY <1>2 DEF Nth, EndOfFile, Path
<1> QED
  BY <1>1, <1>2

\* The keyword of a place is the one found there, or the one of the place before.
LEMMA KeywordStep ==
  ASSUME NEW text \in Seq(Token), NEW i \in Nat \ {0}
  PROVE  /\ Nth(text, i).kind \in Keywords => KeywordOf(text, i) = Nth(text, i).kind
         /\ Nth(text, i).kind \notin Keywords => KeywordOf(text, i) = KeywordOf(text, i - 1)
<1>1. CASE Nth(text, i).kind \in Keywords
  <2>1. i \in KeywordsUpTo(text, i) /\ \A j \in KeywordsUpTo(text, i) : j <= i /\ j \in Nat
    BY <1>1 DEF KeywordsUpTo
  <2>2. \A k \in KeywordsUpTo(text, i) : (\A j \in KeywordsUpTo(text, i) : j <= k) => k = i
    BY <2>1
  <2>3. Latest(KeywordsUpTo(text, i)) = i
    BY <2>1, <2>2 DEF Latest
  <2> QED
    BY <1>1, <2>1, <2>3 DEF KeywordOf
<1>2. CASE Nth(text, i).kind \notin Keywords
  <2>1. KeywordsUpTo(text, i) = KeywordsUpTo(text, i - 1)
    BY <1>2 DEF KeywordsUpTo
  <2> QED
    BY <1>2, <2>1 DEF KeywordOf
<1> QED
  BY <1>1, <1>2

\* One token further, a text names one path more if the token is a name.
LEMMA NamedStep ==
  ASSUME NEW path, NEW text \in Seq(Token), NEW n \in Nat \ {0}
  PROVE  /\ Nth(text, n).kind # "string" => NamedBefore(path, text, n + 1) = NamedBefore(path, text, n)
         /\ NamedBefore(path, text, n + 1) \subseteq
              NamedBefore(path, text, n) \cup {library_path(path, KeywordOf(text, n), Nth(text, n).name)}
         /\ Nth(text, n).kind = "string" =>
              library_path(path, KeywordOf(text, n), Nth(text, n).name) \in Named(path, text)
<1> DEFINE names(k) == {j \in DOMAIN text : j < k /\ text[j].kind = "string"}
<1>1. CASE Nth(text, n).kind # "string"
  <2>1. names(n + 1) = names(n)
    BY <1>1 DEF Nth
  <2> QED
    BY <1>1, <2>1 DEF NamedBefore
<1>2. CASE Nth(text, n).kind = "string"
  <2>1. n \in DOMAIN text /\ Nth(text, n) = text[n]
    BY <1>2 DEF Nth, EndOfFile
  <2>2. names(n + 1) = names(n) \cup {n} /\ n \in names(Len(text) + 1)
    BY <1>2, <2>1
  <2> QED
    BY <1>2, <2>1, <2>2 DEF NamedBefore, Named
<1> QED
  BY <1>1, <1>2

\* At the end of a text all its names have been met.
LEMMA NamedEnd ==
  ASSUME NEW path, NEW text \in Seq(Token), NEW n \in Nat \ {0}, Nth(text, n).kind = "end"
  PROVE  Named(path, text) \subseteq NamedBefore(path, text, n)
<1>1. n \notin DOMAIN text
  <2> SUFFICES ASSUME n \in DOMAIN text PROVE FALSE
    OBVIOUS
  <2>1. text[n] \in Token
    OBVIOUS
  <2>2. text[n].kind \in Kinds /\ text[n].kind = "end"
    BY <2>1 DEF Nth, Token
  <2> QED
    BY <2>2 DEF Kinds, Keywords
<1>2. \A k \in DOMAIN text : k < Len(text) + 1 /\ k < n
  BY <1>1
<1> QED
  BY <1>2 DEF Named, NamedBefore

\* The first token is preceded by no name.
LEMMA NamedStart ==
  ASSUME NEW path, NEW text \in Seq(Token)
  PROVE  NamedBefore(path, text, 1) = {}
BY DEF NamedBefore

LEMMA PairType ==
  ASSUME NEW S, NEW x \in S, NEW y \in S
  PROVE  <<x, y>> \in Seq(S)
OBVIOUS

\* A path that a text names is a path.
LEMMA LibraryPathType ==
  ASSUME NEW path \in Path, NEW keyword, NEW name \in Path
  PROVE  library_path(path, keyword, name) \in Path
<1>0. ".." \in Names /\ "lib" \in Names
  BY NamesAssumption
<1>1. AMUN_LIBRARIES_PREFIX \in Path
  BY <1>0, PairType DEF AMUN_LIBRARIES_PREFIX, Path
<1>2. file_parent_path(path) \in Path
  BY DEF file_parent_path, Path
<1> QED
  BY <1>1, <1>2, ConcatProperties DEF library_path, Path

-----------------------------------------------------------------------------
(* The invariant.                                                          *)

\* A parser at work: the paths its text named so far are registered, unless
\* there was an error, and it knows which keyword the braces belong to.
Good(p, disk, registered, count) ==
  LET text == disk[FileAt(p.path)]
  IN /\ p \in Parser /\ p.pos # 0
     /\ p.path \in registered /\ FileAt(p.path) \in Files
     /\ p.at \in Keywords => KeywordOf(text, p.pos - 1) = p.at
     /\ count = 0 => p.at # "stopped" /\ NamedBefore(p.path, text, p.pos) \subseteq registered

AllGood == \A i \in DOMAIN parsers : Good(parsers[i], content, files_set, errors)

\* The files that are read, and what the ones that have been read named.
Served ==
  /\ \A path \in files_set : path \in Path /\ FileAt(path) \in Files
  /\ errors = 0 =>
       \A path \in files_set :
         \/ \E i \in DOMAIN parsers : parsers[i].path = path
         \/ Named(path, content[FileAt(path)]) \subseteq files_set

Started ==
  /\ files_map = <<>> => parsers = <<>> /\ errors = 0 /\ status = "running"
  /\ files_map # <<>> /\ parsers = <<>> => status # "running"

IInv == TypeOK /\ NeverTwice /\ OneError /\ AllGood /\ Served /\ Started

-----------------------------------------------------------------------------
(* The stack of parsers.                                                   *)

LEMMA TextType ==
  ASSUME TypeOK, NEW p, FileAt(p.path) \in Files
  PROVE  Text(p) \in Seq(Token)
BY ContentsAssumption DEF TypeOK, Text

LEMMA BelowType ==
  ASSUME NEW S, NEW s \in Seq(S)
  PROVE  /\ SubSeq(s, 1, Len(s) - 1) \in Seq(S)
         /\ s # <<>> => /\ Len(SubSeq(s, 1, Len(s) - 1)) = Len(s) - 1
                        /\ \A i \in 1 .. Len(s) - 1 : SubSeq(s, 1, Len(s) - 1)[i] = s[i]
<1>1. Len(s) \in Nat /\ Len(s) - 1 \in Int /\ \A i \in 1 .. Len(s) - 1 : s[i] \in S
  OBVIOUS
<1>2. s # <<>> => Len(s) >= 1
  OBVIOUS
<1> DEFINE n == Len(s) - 1
           t == SubSeq(s, 1, n)
<1>3. /\ t \in Seq(S)
      /\ Len(t) = IF 1 <= n THEN n - 1 + 1 ELSE 0
      /\ \A i \in 1 .. n - 1 + 1 : t[i] = s[1 + i - 1]
  <2>1. n \in Int /\ 1 \in Int
    BY <1>1
  <2> HIDE DEF n
  <2> QED
    BY <1>1, <2>1, SubSeqProperties DEF n
<1>4. \A i \in 1 .. n : i \in 1 .. n - 1 + 1 /\ 1 + i - 1 = i
  BY <1>1
<1>5. s # <<>> => (Len(t) = n /\ \A i \in 1 .. n : t[i] = s[i])
  <2> HIDE DEF t
  <2>1. n \in Int /\ (s # <<>> => n >= 0)
    BY <1>1, <1>2
  <2>2. s # <<>> => Len(t) = n
    <3> HIDE DEF n
    <3> QED
      BY <1>3, <2>1
  <2>3. ASSUME NEW i \in 1 .. n
        PROVE  t[i] = s[i]
    <3>1. i \in 1 .. n - 1 + 1 /\ 1 + i - 1 = i
      BY <1>4
    <3> HIDE DEF n
    <3>2. t[i] = s[1 + i - 1]
      BY <1>3, <3>1
    <3> QED
      BY <3>1, <3>2
  <2> HIDE DEF n
  <2> QED
    BY <2>2, <2>3
<1> QED
  BY <1>3, <1>5

LEMMA TopType ==
  ASSUME IInv, parsers # <<>>
  PROVE  /\ Len(parsers) \in Nat \ {0} /\ Len(parsers) \in DOMAIN parsers
         /\ Top \in Parser /\ Good(Top, content, files_set, errors) /\ Text(Top) \in Seq(Token)
         /\ Below \in Seq(Parser) /\ Len(Below) = Len(parsers) - 1
         /\ \A i \in 1 .. Len(parsers) - 1 : Below[i] = parsers[i]
<1>1. parsers \in Seq(Parser)
  BY DEF IInv, TypeOK
<1>2. Len(parsers) \in Nat \ {0} /\ Len(parsers) \in DOMAIN parsers
  BY <1>1
<1>3. Good(Top, content, files_set, errors) /\ Top \in Parser
  BY <1>2 DEF IInv, AllGood, Top, Good
<1>4. Text(Top) \in Seq(Token)
  BY <1>3, TextType DEF IInv, Good
<1>5. /\ Below \in Seq(Parser) /\ Len(Below) = Len(parsers) - 1
      /\ \A i \in 1 .. Len(parsers) - 1 : Below[i] = parsers[i]
  BY <1>1, <1>2, BelowType DEF Below
<1> QED
  BY <1>2, <1>3, <1>4, <1>5

\* A step of the topmost parser alone, with or without an error.
LEMMA TopStep ==
  ASSUME IInv, Running, NEW p, Replace(p), Good(p, content, files_set, errors'), p.path = Top.path,
         UNCHANGED <<content, files_map, files_set, unit, status>>,
         \/ errors' = errors /\ (p.at = "stopped" <=> errors = 1)
         \/ errors' = 1 /\ p.at = "stopped",
         aliases' \subseteq Path, warnings' \in Nat
  PROVE  IInv'
<1>0. parsers # <<>> /\ status = "running"
  BY DEF Running
<1>1. /\ parsers' \in Seq(Parser) /\ Len(parsers') = Len(parsers) /\ parsers' # <<>>
      /\ parsers'[Len(parsers)] = p
      /\ \A i \in 1 .. Len(parsers) - 1 : parsers'[i] = parsers[i]
  BY <1>0, TopType DEF Replace, Good
<1>2. DOMAIN parsers' = 1 .. Len(parsers) /\ DOMAIN parsers = 1 .. Len(parsers)
      /\ \A i \in DOMAIN parsers : parsers'[i].path = parsers[i].path
  <2>1. parsers \in Seq(Parser) /\ parsers' \in Seq(Parser)
    BY <1>1 DEF IInv, TypeOK
  <2>2. DOMAIN parsers' = 1 .. Len(parsers) /\ DOMAIN parsers = 1 .. Len(parsers)
    BY <1>1, <2>1
  <2> QED
    BY <1>1, <2>2 DEF Top
<1>3. errors \in {0, 1} /\ errors' \in {0, 1} /\ (errors = 1 => errors' = 1)
  BY DEF IInv, OneError
<1>4. TypeOK'
  <2>1. \A i \in DOMAIN parsers' : FileAt(parsers'[i].path) \in Files
    BY <1>2 DEF IInv, TypeOK
  <2> QED
    BY <1>1, <1>3, <2>1 DEF IInv, TypeOK
<1>5. NeverTwice'
  BY <1>2 DEF IInv, NeverTwice
<1>6. OneError'
  <2>1. Top' = p
    BY <1>1 DEF Top
  <2> QED
    BY <1>0, <1>1, <1>3, <2>1 DEF IInv, OneError
<1>7. AllGood'
  <2> SUFFICES ASSUME NEW i \in 1 .. Len(parsers)
               PROVE  Good(parsers'[i], content, files_set, errors')
    BY <1>2 DEF AllGood
  <2>1. CASE i = Len(parsers)
    BY <1>1, <2>1
  <2>2. CASE i # Len(parsers)
    <3>0. Len(parsers) \in Nat
      BY <1>0, TopType
    <3>1. i \in 1 .. Len(parsers) - 1
      BY <2>2, <3>0
    <3>3. i \in DOMAIN parsers
      BY <1>2
    <3>2. parsers'[i] = parsers[i] /\ Good(parsers[i], content, files_set, errors)
      BY <1>1, <3>1, <3>3 DEF IInv, AllGood
    <3> QED
      BY <3>2, <1>3 DEF Good
  <2> QED
    BY <2>1, <2>2
<1>8. Served'
  BY <1>2, <1>3 DEF IInv, Served
<1>9. Started'
  BY <1>0, <1>1, TopType DEF IInv, Started
<1> QED
  BY <1>4, <1>5, <1>6, <1>7, <1>8, <1>9 DEF IInv

\* An error of the topmost parser.
LEMMA ThrowStep ==
  ASSUME IInv, Running, Top.at # "stopped", Throw, UNCHANGED warnings
  PROVE  IInv'
<1> DEFINE p == [Top EXCEPT !.at = "stopped"]
<1>0. parsers # <<>> /\ Top \in Parser /\ Good(Top, content, files_set, errors)
  BY TopType DEF Running
<1>1. p \in Parser /\ p.path = Top.path /\ p.pos = Top.pos /\ p.at = "stopped"
  BY <1>0 DEF Parser
<1>2. errors' = 1
  <2>1. errors \in {0, 1} /\ errors' = errors + 1
    BY DEF IInv, OneError, Throw
  <2>2. errors = 0
    BY <1>0, <2>1 DEF IInv, OneError
  <2> QED
    BY <2>1, <2>2
<1>3. Good(p, content, files_set, errors')
  BY <1>0, <1>1, <1>2 DEF Good, Keywords
<1>4. aliases' \subseteq Path /\ warnings' \in Nat /\ Replace(p)
  BY DEF Throw, IInv, TypeOK
<1> QED
  BY <1>1, <1>2, <1>3, <1>4, TopStep DEF Throw

-----------------------------------------------------------------------------
(* A parser that goes on.                                                  *)

\* Reading n tokens keeps the rest of a parser.
LEMMA AdvancedType ==
  ASSUME NEW q \in Parser, NEW n \in Nat
  PROVE  /\ Advanced(q, n) \in Parser /\ Advanced(q, n).pos = q.pos + n
         /\ Advanced(q, n).path = q.path /\ Advanced(q, n).at = q.at
         /\ Advanced(q, n).nodes = q.nodes
<1>1. q.pos + n \in Nat
  BY DEF Parser
<1>2. Advanced(q, n) = [q EXCEPT !.pos = q.pos + n]
  BY DEF Advanced
<1> QED
  BY <1>1, <1>2 DEF Parser

\* The topmost parser reads tokens that name nothing that is not registered.
LEMMA ReadStep ==
  ASSUME IInv, Running, Top.at # "stopped", NEW p \in Parser, Replace(p),
         p.path = Top.path, p.pos # 0, p.at # "stopped",
         p.at \in Keywords => KeywordOf(Text(Top), p.pos - 1) = p.at,
         NamedBefore(Top.path, Text(Top), p.pos) \subseteq NamedBefore(Top.path, Text(Top), Top.pos) \cup files_set,
         UNCHANGED <<content, files_map, files_set, errors, unit, status>>,
         aliases' \subseteq Path, warnings' \in Nat
  PROVE  IInv'
<1>0. parsers # <<>> /\ Good(Top, content, files_set, errors)
  BY TopType DEF Running
<1>1. errors = 0
  BY <1>0 DEF IInv, OneError
<1>2. Good(p, content, files_set, errors')
  BY <1>0, <1>1 DEF Good, Text
<1> QED
  BY <1>1, <1>2, TopStep

\* The topmost parser opens a file.
LEMMA PushStep ==
  ASSUME IInv, Running, Top.at # "stopped", NEW p \in Parser, NEW path \in Path,
         p.path = Top.path, p.pos # 0, p.at # "stopped",
         p.at \in Keywords => KeywordOf(Text(Top), p.pos - 1) = p.at,
         NamedBefore(Top.path, Text(Top), p.pos) \subseteq
           NamedBefore(Top.path, Text(Top), Top.pos) \cup {path},
         path \notin files_set, FileAt(path) \in Files,
         parse_single_source_file(p, path),
         UNCHANGED <<content, aliases, unit>>, warnings' \in Nat
  PROVE  IInv'
<1> DEFINE new == NewParser(path)
           n   == Len(parsers)
<1>0. parsers # <<>> /\ Good(Top, content, files_set, errors) /\ n \in Nat \ {0} /\ status = "running"
  BY TopType DEF Running
<1>1. errors = 0 /\ errors' = 0 /\ status' = "running"
  BY <1>0 DEF IInv, OneError, parse_single_source_file
<1>2. new \in Parser /\ new.path = path /\ new.pos = 1 /\ new.at = "start"
  <2>1. <<>> \in Seq(Path \X Nat)
    OBVIOUS
  <2> QED
    BY <2>1 DEF NewParser, Parser
<1>3. /\ parsers' \in Seq(Parser) /\ Len(parsers') = n + 1
      /\ parsers'[n] = p /\ parsers'[n + 1] = new
      /\ \A i \in 1 .. n - 1 : parsers'[i] = parsers[i]
  <2>1. Append(Below, p) \in Seq(Parser) /\ Len(Append(Below, p)) = n /\ Append(Below, p)[n] = p
        /\ \A i \in 1 .. n - 1 : Append(Below, p)[i] = parsers[i]
    BY <1>0, TopType
  <2>2. <<new>> \in Seq(Parser) /\ Len(<<new>>) = 1 /\ <<new>>[1] = new
    BY <1>2
  <2>3. parsers' = Append(Below, p) \o <<new>>
    BY DEF parse_single_source_file
  <2> HIDE DEF new, n
  <2> QED
    BY SMTT(60), <1>0, <2>1, <2>2, <2>3, ConcatProperties
<1>4. /\ DOMAIN parsers' = 1 .. n + 1 /\ DOMAIN parsers = 1 .. n
      /\ \A i \in 1 .. n : parsers'[i].path = parsers[i].path
      /\ \A i \in 1 .. n : parsers[i].path \in files_set
      /\ parsers'[n + 1].path = path
  <2>1. parsers \in Seq(Parser)
    BY DEF IInv, TypeOK
  <2>2. DOMAIN parsers' = 1 .. n + 1 /\ DOMAIN parsers = 1 .. n
    BY <1>0, <1>3, <2>1
  <2>3. \A i \in 1 .. n : parsers'[i].path = parsers[i].path
    BY <1>0, <1>3 DEF Top
  <2>4. \A i \in 1 .. n : parsers[i].path \in files_set
    BY <2>2 DEF IInv, AllGood, Good
  <2> QED
    BY <1>2, <1>3, <2>2, <2>3, <2>4
<1>5. files_map' = Append(files_map, path) /\ files_set' = files_set \cup {path}
  BY DEF parse_single_source_file, register_source_path
<1>6. TypeOK'
  <2>1. files_map' \in Seq(Path)
    BY <1>5 DEF IInv, TypeOK
  <2>2. \A i \in DOMAIN parsers' : FileAt(parsers'[i].path) \in Files
    <3>1. \A i \in 1 .. n : FileAt(parsers[i].path) \in Files
      BY <1>4 DEF IInv, TypeOK
    <3> QED
      BY <1>0, <1>4, <3>1
  <2> QED
    BY <1>1, <1>3, <2>1, <2>2 DEF IInv, TypeOK
<1>7. NeverTwice'
  <2>1. files_map \in Seq(Path) /\ files_set = {files_map[i] : i \in DOMAIN files_map}
    BY DEF IInv, TypeOK, NeverTwice
  <2>2. /\ DOMAIN files_map' = 1 .. Len(files_map) + 1 /\ DOMAIN files_map = 1 .. Len(files_map)
        /\ \A i \in 1 .. Len(files_map) : files_map'[i] = files_map[i]
        /\ files_map'[Len(files_map) + 1] = path /\ Len(files_map) \in Nat
    BY <1>5, <2>1
  <2>3. files_set' = {files_map'[i] : i \in DOMAIN files_map'}
    BY <1>5, <2>1, <2>2
  <2>4. \A i \in 1 .. Len(files_map) : files_map[i] # path
    BY <2>1, <2>2
  <2>5. \A i, j \in DOMAIN files_map' : files_map'[i] = files_map'[j] => i = j
    BY <2>2, <2>4 DEF IInv, NeverTwice
  <2>6. \A i \in 1 .. n : parsers'[i].path # path
    BY <1>4
  <2>7. \A i, j \in 1 .. n : parsers'[i].path = parsers'[j].path => i = j
    BY <1>4 DEF IInv, NeverTwice
  <2>8. \A i, j \in DOMAIN parsers' : parsers'[i].path = parsers'[j].path => i = j
    BY <1>0, <1>4, <2>6, <2>7
  <2> QED
    BY <2>3, <2>5, <2>8 DEF NeverTwice
<1>8. OneError'
  <2>1. Top' = new /\ parsers' # <<>>
    BY <1>0, <1>3 DEF Top
  <2> QED
    BY <1>1, <1>2, <2>1 DEF OneError
<1>9. AllGood'
  <2> SUFFICES ASSUME NEW i \in 1 .. n + 1
               PROVE  Good(parsers'[i], content, files_set', 0)
    BY <1>1, <1>4 DEF AllGood
  <2>1. CASE i = n + 1
    <3>1. NamedBefore(path, content[FileAt(path)], 1) = {}
      <4>1. content[FileAt(path)] \in Seq(Token)
        BY ContentsAssumption DEF IInv, TypeOK
      <4> QED
        BY <4>1, NamedStart
    <3>2. "start" \notin Keywords
      BY DEF Keywords
    <3> HIDE DEF new
    <3>3. new.path \in files_set' /\ FileAt(new.path) \in Files
      BY <1>2, <1>5
    <3>4. NamedBefore(new.path, content[FileAt(new.path)], new.pos) = {}
      BY <1>2, <3>1
    <3>5. new.pos # 0 /\ new.at \notin Keywords /\ new.at # "stopped"
      BY <1>2, <3>2
    <3>6. Good(new, content, files_set', 0)
      BY <1>2, <3>3, <3>4, <3>5 DEF Good
    <3> QED
      BY <1>3, <2>1, <3>6
  <2>2. CASE i = n
    <3>1. NamedBefore(p.path, content[FileAt(p.path)], p.pos) \subseteq files_set'
      BY <1>0, <1>1, <1>5 DEF Good, Text
    <3>2. p.at \in Keywords => KeywordOf(content[FileAt(p.path)], p.pos - 1) = p.at
      BY DEF Text
    <3>3. p.path \in files_set' /\ FileAt(p.path) \in Files
      BY <1>0, <1>5 DEF Good
    <3>4. parsers'[i] = p
      BY <1>3, <2>2
    <3> QED
      BY <3>1, <3>2, <3>3, <3>4 DEF Good
  <2>3. CASE i \notin {n, n + 1}
    <3>1. i \in 1 .. n - 1 /\ i \in 1 .. n
      BY <1>0, <2>3
    <3>2. parsers'[i] = parsers[i] /\ Good(parsers[i], content, files_set, 0)
      BY <1>1, <1>3, <1>4, <3>1 DEF IInv, AllGood
    <3> QED
      BY <1>5, <3>2 DEF Good
  <2> QED
    BY <2>1, <2>2, <2>3
<1>10. Served'
  <2>1. \A q \in files_set' : q \in Path /\ FileAt(q) \in Files
    BY <1>5 DEF IInv, Served
  <2>2. ASSUME NEW q \in files_set'
        PROVE  \/ \E i \in 1 .. n + 1 : parsers'[i].path = q
               \/ Named(q, content[FileAt(q)]) \subseteq files_set'
    <3>1. CASE q = path
      BY <1>0, <1>4, <3>1
    <3>2. CASE q # path
      <4>1. \/ \E i \in 1 .. n : parsers[i].path = q
            \/ Named(q, content[FileAt(q)]) \subseteq files_set
        BY <1>1, <1>4, <1>5, <3>2 DEF IInv, Served
      <4> QED
        BY <1>0, <1>4, <1>5, <4>1
    <3> QED
      BY <3>1, <3>2
  <2> QED
    BY <1>4, <2>1, <2>2 DEF Served
<1>11. Started'
  BY SMTT(60), <1>0, <1>1, <1>3, <1>5 DEF IInv, TypeOK, Started
<1> QED
  BY <1>6, <1>7, <1>8, <1>9, <1>10, <1>11 DEF IInv

\* A parser is done: nothing its text names is left, unless there was an error.
LEMMA DoneServed ==
  ASSUME IInv, Running, Done(Top), errors = 0
  PROVE  Named(Top.path, Text(Top)) \subseteq files_set
<1>1. Good(Top, content, files_set, errors) /\ Top \in Parser /\ Text(Top) \in Seq(Token)
  BY TopType DEF Running
<1>2. Top.pos \in Nat \ {0} /\ Nth(Text(Top), Top.pos + 0).kind = "end"
  BY <1>1 DEF Good, Parser, Done, Kind
<1>3. Nth(Text(Top), Top.pos).kind = "end"
  BY <1>2
<1>4. Named(Top.path, Text(Top)) \subseteq NamedBefore(Top.path, Text(Top), Top.pos)
  BY <1>1, <1>2, <1>3, NamedEnd
<1> QED
  BY <1>1, <1>4 DEF Good, Text

\* The topmost parser returns to the one above.
LEMMA PopStep ==
  ASSUME IInv, ReturnToParser
  PROVE  IInv'
<1> DEFINE n == Len(parsers)
           p == IF errors > 0 THEN [Above EXCEPT !.at = "stopped"] ELSE [Above EXCEPT !.nodes = @ \o Top.nodes]
<1>0. parsers # <<>> /\ n \in Nat \ {0, 1} /\ errors \in {0, 1} /\ Running /\ Done(Top) /\ status = "running"
  BY TopType DEF ReturnToParser, IInv, OneError, Running
<1>1. /\ Below \in Seq(Parser) /\ Len(Below) = n - 1 /\ Below # <<>>
      /\ \A i \in 1 .. n - 1 : Below[i] = parsers[i]
  BY <1>0, TopType
<1>2. Above = parsers[n - 1] /\ Above \in Parser /\ Good(Above, content, files_set, errors)
  <2>1. Above = parsers[n - 1] /\ Above \in Parser
    BY <1>0, <1>1 DEF Above
  <2>2. n - 1 \in DOMAIN parsers
    <3>1. parsers \in Seq(Parser)
      BY DEF IInv, TypeOK
    <3>2. DOMAIN parsers = 1 .. n
      BY <3>1
    <3> QED
      BY <1>0, <3>2
  <2> QED
    BY <2>1, <2>2 DEF IInv, AllGood
<1>3. Top \in Parser /\ Top.nodes \in Seq(Path \X Nat) /\ Above.nodes \in Seq(Path \X Nat)
  BY <1>0, <1>2, TopType DEF Parser
<1>4. /\ p \in Parser /\ p.path = Above.path /\ p.pos = Above.pos
      /\ p.at = IF errors > 0 THEN "stopped" ELSE Above.at
  <2>1. Above.nodes \o Top.nodes \in Seq(Path \X Nat)
    BY <1>3, ConcatProperties
  <2> QED
    BY <1>2, <2>1 DEF Parser
<1>5. Good(p, content, files_set, errors) /\ (p.at = "stopped" <=> errors = 1)
  BY <1>0, <1>2, <1>4 DEF Good, Keywords
<1> HIDE DEF p
<1>6. /\ parsers' \in Seq(Parser) /\ Len(parsers') = n - 1 /\ parsers' # <<>>
      /\ parsers'[n - 1] = p
      /\ \A i \in 1 .. n - 2 : parsers'[i] = parsers[i]
  <2>1. parsers' = Append(SubSeq(Below, 1, Len(Below) - 1), p)
    BY DEF ReturnToParser, ReturnTo, p
  <2>2. /\ SubSeq(Below, 1, Len(Below) - 1) \in Seq(Parser)
        /\ Len(SubSeq(Below, 1, Len(Below) - 1)) = n - 2
        /\ \A i \in 1 .. n - 2 : SubSeq(Below, 1, Len(Below) - 1)[i] = parsers[i]
    BY <1>0, <1>1, BelowType
  <2> QED
    BY SMTT(60), <1>0, <1>4, <2>1, <2>2
<1>7. /\ DOMAIN parsers' = 1 .. n - 1 /\ DOMAIN parsers = 1 .. n
      /\ \A i \in 1 .. n - 1 : parsers'[i].path = parsers[i].path
  <2>1. parsers \in Seq(Parser)
    BY DEF IInv, TypeOK
  <2>2. DOMAIN parsers = 1 .. n
    BY <2>1
  <2> HIDE DEF n
  <2>3. DOMAIN parsers' = 1 .. n - 1
    BY <1>0, <1>6
  <2>4. \A i \in 1 .. n - 1 : i = n - 1 \/ i \in 1 .. n - 2
    BY <1>0
  <2> QED
    BY <1>2, <1>4, <1>6, <2>2, <2>3, <2>4
<1>8. UNCHANGED <<content, files_map, files_set, aliases, errors, warnings, unit, status>>
  BY DEF ReturnToParser
<1>9. TypeOK'
  <2>0. \A i \in 1 .. n : FileAt(parsers[i].path) \in Files
    BY <1>7 DEF IInv, TypeOK
  <2>1. \A i \in DOMAIN parsers' : FileAt(parsers'[i].path) \in Files
    BY <1>0, <1>7, <2>0
  <2> QED
    BY <1>6, <1>8, <2>1 DEF IInv, TypeOK
<1>10. NeverTwice'
  BY <1>0, <1>7, <1>8 DEF IInv, NeverTwice
<1>11. OneError'
  <2>1. Top' = p
    BY <1>6 DEF Top
  <2> QED
    BY <1>0, <1>5, <1>6, <1>8, <2>1 DEF IInv, OneError
<1>12. AllGood'
  <2> SUFFICES ASSUME NEW i \in 1 .. n - 1 PROVE Good(parsers'[i], content, files_set, errors)
    BY <1>7, <1>8 DEF AllGood
  <2>1. CASE i = n - 1
    BY <1>5, <1>6, <2>1
  <2>2. CASE i # n - 1
    <3>1. i \in 1 .. n - 2
      BY <1>0, <2>2
    <3>2. i \in DOMAIN parsers
      BY <1>0, <1>7
    <3> QED
      BY <1>6, <3>1, <3>2 DEF IInv, AllGood
  <2> QED
    BY <2>1, <2>2
<1>13. Served'
  <2>1. ASSUME errors = 0, NEW q \in files_set
        PROVE  \/ \E i \in 1 .. n - 1 : parsers'[i].path = q
               \/ Named(q, content[FileAt(q)]) \subseteq files_set
    <3>1. CASE Named(q, content[FileAt(q)]) \subseteq files_set
      BY <3>1
    <3>2. CASE \E i \in DOMAIN parsers : parsers[i].path = q
      <4>1. PICK i \in 1 .. n : parsers[i].path = q
        BY <1>7, <3>2
      <4>2. CASE i = n
        <5>1. Named(Top.path, Text(Top)) \subseteq files_set
          BY <1>0, <2>1, DoneServed
        <5>2. Top.path = q
          BY <4>1, <4>2 DEF Top
        <5> QED
          BY <5>1, <5>2 DEF Text
      <4>3. CASE i # n
        <5>1. i \in 1 .. n - 1
          BY <1>0, <4>1, <4>3
        <5> QED
          BY <1>7, <4>1, <5>1
      <4> QED
        BY <4>2, <4>3
    <3> QED
      BY <2>1, <3>1, <3>2 DEF IInv, Served
  <2> QED
    BY <1>7, <1>8, <2>1 DEF IInv, Served
<1>14. Started'
  BY <1>0, <1>6, <1>8 DEF IInv, Started
<1> QED
  BY <1>9, <1>10, <1>11, <1>12, <1>13, <1>14 DEF IInv

\* A name has been read: the parser goes on, throws, or waits for a new one.
LEMMA RequireStep ==
  ASSUME IInv, Running, Top.at # "stopped", NEW p \in Parser, NEW path \in Path,
         p.path = Top.path, p.pos # 0, p.at # "stopped",
         p.at \in Keywords => KeywordOf(Text(Top), p.pos - 1) = p.at,
         NamedBefore(Top.path, Text(Top), p.pos) \subseteq
           NamedBefore(Top.path, Text(Top), Top.pos) \cup {path},
         Require(p, path),
         UNCHANGED <<content, aliases, unit>>, warnings' \in Nat
  PROVE  IInv'
<1>0. parsers # <<>> /\ Good(Top, content, files_set, errors) /\ errors = 0 /\ status = "running"
  BY TopType DEF Running, IInv, OneError
<1>1. CASE path \in files_set /\ Skip(p)
  <2>1. NamedBefore(Top.path, Text(Top), p.pos) \subseteq
          NamedBefore(Top.path, Text(Top), Top.pos) \cup files_set
    BY <1>1
  <2> QED
    BY <1>1, <2>1, ReadStep DEF Skip, IInv, TypeOK
<1>2. CASE path \notin files_set /\ TooLong
  <2>1. /\ UNCHANGED <<content, parsers, files_map, files_set, aliases, errors, unit>>
        /\ status' = "crashed"
    BY <1>2 DEF TooLong
  <2>2. TypeOK' /\ NeverTwice'
    BY <2>1 DEF IInv, TypeOK, NeverTwice
  <2>3. OneError' /\ Started'
    BY <1>0, <2>1 DEF IInv, OneError, Started, Top
  <2>4. AllGood' /\ Served'
    BY <2>1 DEF IInv, AllGood, Served
  <2> QED
    BY <2>2, <2>3, <2>4 DEF IInv
<1>3. CASE path \notin files_set /\ Missing(p)
  <2> DEFINE q == [p EXCEPT !.at = "stopped"]
  <2>1. q \in Parser /\ q.path = Top.path /\ q.pos = p.pos /\ q.at = "stopped"
    BY DEF Parser
  <2>2. errors' = 1 /\ Replace(q)
    BY <1>0, <1>3 DEF Missing
  <2>3. Good(q, content, files_set, errors')
    BY <1>0, <2>1, <2>2 DEF Good, Keywords
  <2>4. UNCHANGED <<content, files_map, files_set, unit, status>> /\ aliases' \subseteq Path
    BY <1>3 DEF Missing, IInv, TypeOK
  <2> HIDE DEF q
  <2> QED
    BY <2>1, <2>2, <2>3, <2>4, TopStep
<1>4. CASE path \notin files_set /\ FileAt(path) \in Files /\ parse_single_source_file(p, path)
  BY <1>4, PushStep
<1> QED
  BY <1>1, <1>2, <1>3, <1>4 DEF Require

-----------------------------------------------------------------------------
(* The actions.                                                            *)

\* What holds of a parser at work, for all actions.
LEMMA AtWork ==
  ASSUME IInv, Running
  PROVE  /\ parsers # <<>> /\ Top \in Parser /\ Text(Top) \in Seq(Token)
         /\ Top.pos \in Nat \ {0} /\ Top.path \in Path
         /\ \A k \in Nat : Kind(Top, k) = Nth(Text(Top), Top.pos + k).kind
         /\ warnings \in Nat /\ aliases \subseteq Path
         /\ Top.at \in Keywords => KeywordOf(Text(Top), Top.pos - 1) = Top.at
BY TopType DEF Running, Good, Parser, Kind, IInv, TypeOK, Text

\* Tokens that are not names name nothing.
LEMMA NoNames ==
  ASSUME IInv, Running, NEW n \in {1, 2},
         Kind(Top, 0) # "string", n = 2 => Kind(Top, 1) # "string"
  PROVE  NamedBefore(Top.path, Text(Top), Top.pos + n) = NamedBefore(Top.path, Text(Top), Top.pos)
<1>1. Top.pos \in Nat \ {0} /\ Text(Top) \in Seq(Token) /\ Top.pos + 0 = Top.pos
  BY AtWork
<1>2. NamedBefore(Top.path, Text(Top), Top.pos + 1) = NamedBefore(Top.path, Text(Top), Top.pos)
  <2>1. Nth(Text(Top), Top.pos).kind # "string"
    BY <1>1 DEF Kind
  <2> QED
    BY <1>1, <2>1, NamedStep
<1>3. CASE n = 2
  <2>0. Top.pos + 1 \in Nat \ {0} /\ Nth(Text(Top), Top.pos + 1).kind # "string"
    BY <1>1, <1>3 DEF Kind
  <2>1. NamedBefore(Top.path, Text(Top), Top.pos + 1 + 1) = NamedBefore(Top.path, Text(Top), Top.pos + 1)
    BY <1>1, <2>0, NamedStep
  <2> QED
    BY <1>1, <1>2, <1>3, <2>1
<1> QED
  BY <1>2, <1>3

LEMMA BeginStep ==
  ASSUME IInv, Begin
  PROVE  IInv'
<1>1. CASE Throw /\ UNCHANGED warnings
  BY <1>1, ThrowStep DEF Begin
<1>2. CASE /\ Replace([Top EXCEPT !.at = "unit"])
           /\ UNCHANGED <<content, files_map, files_set, aliases, errors, warnings, unit, status>>
  <2> DEFINE p == [Top EXCEPT !.at = "unit"]
  <2>1. p \in Parser /\ p.path = Top.path /\ p.pos = Top.pos /\ p.at = "unit"
    BY AtWork DEF Begin, Parser
  <2>2. p.pos # 0 /\ p.at \notin Keywords
    BY <2>1, AtWork DEF Begin, Keywords
  <2> HIDE DEF p
  <2>3. Replace(p)
    BY <1>2 DEF p
  <2> QED
    BY <1>2, <2>1, <2>2, <2>3, AtWork, ReadStep DEF Begin
<1> QED
  BY <1>1, <1>2 DEF Begin

LEMMA DeclarationStep ==
  ASSUME IInv, Declaration
  PROVE  IInv'
<1>1. CASE Throw /\ UNCHANGED warnings
  BY <1>1, ThrowStep DEF Declaration
<1>2. CASE /\ Replace([Advanced(Top, 1) EXCEPT !.nodes = Append(@, <<Top.path, Top.pos>>)])
           /\ UNCHANGED <<content, files_map, files_set, aliases, errors, warnings, unit, status>>
  <2> DEFINE q == Advanced(Top, 1)
             p == [q EXCEPT !.nodes = Append(@, <<Top.path, Top.pos>>)]
  <2>1. q \in Parser /\ q.path = Top.path /\ q.pos = Top.pos + 1 /\ q.at = "unit"
    BY AtWork, AdvancedType DEF Declaration
  <2> HIDE DEF q
  <2>2. p \in Parser /\ p.path = Top.path /\ p.pos = Top.pos + 1 /\ p.at = "unit"
    <3>1. Append(q.nodes, <<Top.path, Top.pos>>) \in Seq(Path \X Nat)
      BY <2>1, AtWork DEF Declaration, Parser
    <3> QED
      BY <2>1, <3>1 DEF Parser
  <2> HIDE DEF p
  <2>3. p.pos # 0 /\ p.at \notin Keywords /\ Replace(p)
    BY <1>2, <2>2, AtWork DEF Declaration, Keywords, p, q
  <2>4. NamedBefore(Top.path, Text(Top), p.pos) = NamedBefore(Top.path, Text(Top), Top.pos)
    BY <2>2, NoNames DEF Declaration
  <2> QED
    BY <1>2, <2>2, <2>3, <2>4, AtWork, ReadStep DEF Declaration
<1> QED
  BY <1>1, <1>2 DEF Declaration

LEMMA TypeAliasStep ==
  ASSUME IInv, TypeAlias
  PROVE  IInv'
<1> DEFINE name == Nth(Text(Top), Top.pos).name
           p    == Advanced(Top, 1)
<1>1. CASE Throw /\ UNCHANGED warnings
  BY <1>1, ThrowStep DEF TypeAlias
<1>2. CASE /\ Replace(p) /\ aliases' = aliases \cup {name}
           /\ UNCHANGED <<content, files_map, files_set, errors, warnings, unit, status>>
  <2>1. p \in Parser /\ p.path = Top.path /\ p.pos = Top.pos + 1 /\ p.at = "unit"
    BY AtWork, AdvancedType DEF TypeAlias
  <2>2. aliases' \subseteq Path
    BY <1>2, AtWork, NthType DEF TypeAlias
  <2> HIDE DEF p
  <2>3. p.pos # 0 /\ p.at \notin Keywords
    BY <2>1, AtWork DEF TypeAlias, Keywords
  <2>4. NamedBefore(Top.path, Text(Top), p.pos) = NamedBefore(Top.path, Text(Top), Top.pos)
    BY <2>1, NoNames DEF TypeAlias
  <2> QED
    BY <1>2, <2>1, <2>2, <2>3, <2>4, AtWork, ReadStep DEF TypeAlias
<1> QED
  BY <1>1, <1>2 DEF TypeAlias

\* check_unnecessary_semicolon_warning advances over a semicolon or nothing.
LEMMA SemicolonsType ==
  ASSUME NEW k \in Nat
  PROVE  /\ Semicolons(k) = 0 \/ Semicolons(k) = 1
         /\ Semicolons(k) = 1 => Kind(Top, k) = "semicolon"
BY DEF Semicolons

\* Warnings are counted.
LEMMA WarnType ==
  ASSUME NEW n \in Nat, warnings \in Nat, Warn(n)
  PROVE  warnings' \in Nat
<1>1. CASE should_report_warns
  BY <1>1 DEF Warn
<1>2. CASE ~should_report_warns
  BY <1>2 DEF Warn
<1> QED
  BY <1>1, <1>2

LEMMA NotADeclarationStep ==
  ASSUME IInv, NotADeclaration
  PROVE  IInv'
BY ThrowStep DEF NotADeclaration

LEMMA OpenBracesStep ==
  ASSUME IInv, OpenBraces
  PROVE  IInv'
<1>1. CASE Throw /\ UNCHANGED warnings
  BY <1>1, ThrowStep DEF OpenBraces
<1>2. CASE /\ Replace([Advanced(Top, 2) EXCEPT !.at = Kind(Top, 0)])
           /\ UNCHANGED <<content, files_map, files_set, aliases, errors, warnings, unit, status>>
  <2> DEFINE q == Advanced(Top, 2)
             p == [q EXCEPT !.at = Kind(Top, 0)]
  <2>0. /\ Kind(Top, 0) \in Keywords /\ Kind(Top, 1) = "open_brace" /\ Running
        /\ Top.pos \in Nat \ {0} /\ Text(Top) \in Seq(Token)
    BY AtWork DEF OpenBraces
  <2>1. q \in Parser /\ q.path = Top.path /\ q.pos = Top.pos + 2
    BY <2>0, AtWork, AdvancedType
  <2> HIDE DEF q
  <2>2. p \in Parser /\ p.path = Top.path /\ p.pos = Top.pos + 2 /\ p.at = Kind(Top, 0)
    BY <2>0, <2>1 DEF Parser
  <2> HIDE DEF p
  <2>3. p.pos # 0 /\ p.at # "stopped"
    <3>1. Kind(Top, 0) # "stopped"
      BY <2>0 DEF Keywords
    <3> QED
      BY <2>0, <2>2, <3>1
  <2>6. Replace(p)
    BY <1>2 DEF p, q
  <2>4. NamedBefore(Top.path, Text(Top), p.pos) = NamedBefore(Top.path, Text(Top), Top.pos)
    BY <2>0, <2>2, NoNames DEF Keywords
  <2>5. KeywordOf(Text(Top), p.pos - 1) = p.at
    <3>1. Top.pos \in Nat \ {0} /\ Text(Top) \in Seq(Token) /\ Top.pos + 0 = Top.pos
          /\ p.pos - 1 = Top.pos + 1
      BY <2>0, <2>2
    <3>2. KeywordOf(Text(Top), Top.pos) = Kind(Top, 0)
      BY <2>0, <3>1, KeywordStep DEF Kind
    <3>3. Top.pos + 1 \in Nat \ {0} /\ Nth(Text(Top), Top.pos + 1).kind \notin Keywords
          /\ Top.pos + 1 - 1 = Top.pos
      <4>1. Kind(Top, 1) = Nth(Text(Top), Top.pos + 1).kind
        BY DEF Kind
      <4>2. Kind(Top, 1) \notin Keywords
        BY <2>0 DEF Keywords
      <4> QED
        BY <3>1, <4>1, <4>2
    <3>4. KeywordOf(Text(Top), Top.pos + 1) = KeywordOf(Text(Top), Top.pos)
      BY <3>1, <3>3, KeywordStep
    <3> QED
      BY <2>2, <3>1, <3>2, <3>4
  <2> QED
    BY <1>2, <2>0, <2>2, <2>3, <2>4, <2>5, <2>6, AtWork, ReadStep DEF OpenBraces
<1> QED
  BY <1>1, <1>2 DEF OpenBraces

\* The name that comes next, with the keyword it belongs to.
LEMMA NextName ==
  ASSUME IInv, Running, NEW k \in {0, 1}, Kind(Top, k) = "string", k = 1 => Kind(Top, 0) \in Keywords,
         k = 0 => Top.at \in Keywords
  PROVE  LET keyword == IF k = 1 THEN Kind(Top, 0) ELSE Top.at
             path    == library_path(Top.path, keyword, Nth(Text(Top), Top.pos + k).name)
         IN /\ path \in Path /\ path \in Named(Top.path, Text(Top))
            /\ NamedBefore(Top.path, Text(Top), Top.pos + k + 1) \subseteq
                 NamedBefore(Top.path, Text(Top), Top.pos) \cup {path}
            /\ KeywordOf(Text(Top), Top.pos + k) = keyword
<1> DEFINE text    == Text(Top)
           keyword == IF k = 1 THEN Kind(Top, 0) ELSE Top.at
           path    == library_path(Top.path, keyword, Nth(text, Top.pos + k).name)
<1>1. text \in Seq(Token) /\ Top.pos \in Nat \ {0} /\ Top.pos + 0 = Top.pos /\ Top.path \in Path
      /\ Top.pos + k \in Nat \ {0} /\ Top.pos + 1 - 1 = Top.pos
  BY AtWork
<1>2. Nth(text, Top.pos + k).kind = "string" /\ "string" \notin Keywords
  BY DEF Kind, Keywords
<1>3. KeywordOf(text, Top.pos + k) = keyword
  <2>1. KeywordOf(text, Top.pos + k) = KeywordOf(text, Top.pos + k - 1)
    BY <1>1, <1>2, KeywordStep
  <2>2. CASE k = 0
    BY <1>1, <2>1, <2>2, AtWork
  <2>3. CASE k = 1
    <3>1. KeywordOf(text, Top.pos) = Kind(Top, 0)
      BY <1>1, <2>3, KeywordStep DEF Kind
    <3> QED
      BY <1>1, <2>1, <2>3, <3>1
  <2> QED
    BY <2>2, <2>3
<1>4. path \in Named(Top.path, text)
      /\ NamedBefore(Top.path, text, Top.pos + k + 1) \subseteq NamedBefore(Top.path, text, Top.pos + k) \cup {path}
  BY <1>1, <1>2, <1>3, NamedStep
<1>5. NamedBefore(Top.path, text, Top.pos + k) = NamedBefore(Top.path, text, Top.pos)
  <2>1. CASE k = 0
    BY <1>1, <2>1
  <2>2. CASE k = 1
    BY <2>2, NoNames DEF Keywords
  <2> QED
    BY <2>1, <2>2
<1>6. path \in Path
  BY <1>1, NthType, LibraryPathType
<1> QED
  BY <1>3, <1>4, <1>5, <1>6

LEMMA ParseOneStep ==
  ASSUME IInv, parse_one
  PROVE  IInv'
<1> DEFINE n    == Semicolons(2)
           p    == Advanced(Top, 2 + n)
           path == library_path(Top.path, Kind(Top, 0), Nth(Text(Top), Top.pos + 1).name)
<1>1. CASE Throw /\ UNCHANGED warnings
  BY <1>1, ThrowStep DEF parse_one
<1>2. CASE /\ Kind(Top, 1) = "string"
           /\ Require(p, path) /\ Warn(n) /\ UNCHANGED <<content, aliases, unit>>
  <2>0. /\ Running /\ Top.at = "unit" /\ Kind(Top, 0) \in Keywords
        /\ Top.pos \in Nat \ {0} /\ Text(Top) \in Seq(Token) /\ Top \in Parser
        /\ warnings \in Nat
    BY AtWork DEF parse_one
  <2>6. n \in Nat /\ (n = 0 \/ n = 1) /\ (n = 1 => Kind(Top, 2) = "semicolon")
    BY SemicolonsType
  <2> HIDE DEF n
  <2>1. p \in Parser /\ p.path = Top.path /\ p.pos = Top.pos + 2 + n /\ p.at = "unit"
    <3>1. 2 + n \in Nat /\ Top.pos + (2 + n) = Top.pos + 2 + n
      BY <2>0, <2>6
    <3> QED
      BY <2>0, <3>1, AdvancedType
  <2> HIDE DEF p
  <2>2. p.pos # 0 /\ p.at \notin Keywords /\ p.at # "stopped"
    BY <2>0, <2>1, <2>6 DEF Keywords
  <2>3. /\ path \in Path
        /\ NamedBefore(Top.path, Text(Top), Top.pos + 2) \subseteq
             NamedBefore(Top.path, Text(Top), Top.pos) \cup {path}
    <3>1. Top.pos + 1 + 1 = Top.pos + 2
      BY <2>0
    <3> QED
      BY <1>2, <2>0, <3>1, NextName
  <2>4. NamedBefore(Top.path, Text(Top), p.pos) = NamedBefore(Top.path, Text(Top), Top.pos + 2)
    <3>1. CASE n = 0
      BY <2>0, <2>1, <3>1
    <3>2. CASE n = 1
      <4>0. Nth(Text(Top), Top.pos + 2).kind # "string"
        BY <2>6, <3>2 DEF Kind
      <4>1. Top.pos + 2 \in Nat \ {0} /\ Nth(Text(Top), Top.pos + 2).kind # "string"
            /\ p.pos = Top.pos + 2 + 1
        BY <2>0, <2>1, <3>2, <4>0
      <4> QED
        BY <2>0, <4>1, NamedStep
    <3> QED
      BY <2>6, <3>1, <3>2
  <2>5. warnings' \in Nat
    BY <1>2, <2>0, <2>6, WarnType
  <2>7. Require(p, path) /\ UNCHANGED <<content, aliases, unit>>
    BY <1>2 DEF p, n
  <2> HIDE DEF path
  <2> QED
    BY <2>0, <2>1, <2>2, <2>3, <2>4, <2>5, <2>7, RequireStep
<1> QED
  BY <1>1, <1>2 DEF parse_one

LEMMA NameInBracesStep ==
  ASSUME IInv, NameInBraces
  PROVE  IInv'
<1> DEFINE p    == Advanced(Top, 1)
           path == library_path(Top.path, Top.at, Nth(Text(Top), Top.pos).name)
<1>0. /\ Running /\ Top.at \in Keywords /\ Top.at # "stopped"
      /\ Top.pos \in Nat \ {0} /\ Text(Top) \in Seq(Token) /\ Top \in Parser
      /\ warnings \in Nat /\ Top.pos + 0 = Top.pos
  <2>1. Running /\ Top.at \in Keywords
    BY DEF NameInBraces
  <2>2. Top.at # "stopped"
    BY <2>1 DEF Keywords
  <2>3. Top.pos \in Nat \ {0} /\ Text(Top) \in Seq(Token) /\ Top \in Parser /\ warnings \in Nat
    BY <2>1, AtWork
  <2> QED
    BY <2>1, <2>2, <2>3
<1>1. CASE Throw /\ UNCHANGED warnings
  BY <1>0, <1>1, ThrowStep
<1>2. CASE /\ Kind(Top, 0) = "string"
           /\ Require(p, path) /\ UNCHANGED <<content, aliases, warnings, unit>>
  <2>1. p \in Parser /\ p.path = Top.path /\ p.pos = Top.pos + 1 /\ p.at = Top.at
    BY <1>0, AdvancedType
  <2>2. p.pos # 0 /\ p.at # "stopped" /\ p.pos - 1 = Top.pos
    BY <1>0, <2>1
  <2>3. /\ path \in Path
        /\ NamedBefore(Top.path, Text(Top), Top.pos + 0 + 1) \subseteq
             NamedBefore(Top.path, Text(Top), Top.pos) \cup {path}
        /\ KeywordOf(Text(Top), Top.pos) = Top.at
    BY <1>0, <1>2, NextName
  <2>4. /\ NamedBefore(Top.path, Text(Top), p.pos) \subseteq
             NamedBefore(Top.path, Text(Top), Top.pos) \cup {path}
        /\ KeywordOf(Text(Top), p.pos - 1) = p.at
    BY <1>0, <2>1, <2>2, <2>3
  <2> HIDE DEF p, path
  <2> QED
    BY <1>0, <1>2, <2>1, <2>2, <2>3, <2>4, RequireStep
<1> QED
  BY <1>1, <1>2 DEF NameInBraces

LEMMA CloseBracesStep ==
  ASSUME IInv, CloseBraces
  PROVE  IInv'
<1> DEFINE n == Semicolons(1)
           q == Advanced(Top, 1 + n)
           p == [q EXCEPT !.at = "unit"]
<1>0. /\ Running /\ Top.at # "stopped"
      /\ Top.pos \in Nat \ {0} /\ Text(Top) \in Seq(Token) /\ Top \in Parser
      /\ warnings \in Nat /\ aliases \subseteq Path /\ n \in Nat /\ (n = 0 \/ n = 1) /\ (n = 1 => Kind(Top, 1) = "semicolon")
  <2>1. Running /\ Top.at # "stopped"
    BY DEF CloseBraces, Keywords
  <2>2. /\ Top.pos \in Nat \ {0} /\ Text(Top) \in Seq(Token) /\ Top \in Parser
        /\ warnings \in Nat /\ aliases \subseteq Path
    BY <2>1, AtWork
  <2>3. n \in Nat /\ (n = 0 \/ n = 1) /\ (n = 1 => Kind(Top, 1) = "semicolon")
    BY SemicolonsType
  <2> QED
    BY <2>1, <2>2, <2>3
<1> HIDE DEF n
<1>1. CASE Throw /\ UNCHANGED warnings
  BY <1>0, <1>1, ThrowStep
<1>2. CASE /\ Kind(Top, 0) = "close_brace" /\ Replace(p) /\ Warn(n)
           /\ UNCHANGED <<content, files_map, files_set, aliases, errors, unit, status>>
  <2>1. q \in Parser /\ q.path = Top.path /\ q.pos = Top.pos + 1 + n
    <3>1. 1 + n \in Nat /\ Top.pos + (1 + n) = Top.pos + 1 + n
      BY <1>0
    <3> QED
      BY <1>0, <3>1, AdvancedType
  <2> HIDE DEF q
  <2>2. p \in Parser /\ p.path = Top.path /\ p.pos = Top.pos + 1 + n /\ p.at = "unit"
    BY <2>1 DEF Parser
  <2> HIDE DEF p
  <2>3. p.pos # 0 /\ p.at # "stopped" /\ p.at \notin Keywords
    BY <1>0, <2>2 DEF Keywords
  <2>4. NamedBefore(Top.path, Text(Top), p.pos) = NamedBefore(Top.path, Text(Top), Top.pos)
    <3>1. 1 + n \in {1, 2} /\ p.pos = Top.pos + (1 + n)
      BY <1>0, <2>2
    <3>2. 1 + n = 2 => Kind(Top, 1) # "string"
      BY <1>0
    <3> QED
      BY <1>0, <1>2, <3>1, <3>2, NoNames
  <2>5. warnings' \in Nat
    BY <1>0, <1>2, WarnType
  <2> QED
    BY <1>0, <1>2, <2>2, <2>3, <2>4, <2>5, ReadStep
<1> QED
  BY <1>1, <1>2 DEF CloseBraces, n

LEMMA ReturnToDriverStep ==
  ASSUME IInv, ReturnToDriver
  PROVE  IInv'
<1>0. /\ Running /\ Done(Top) /\ Len(parsers) = 1 /\ Top \in Parser /\ Top = parsers[1]
      /\ parsers # <<>> /\ files_map # <<>> /\ DOMAIN parsers = {1} /\ errors \in {0, 1}
  <2>1. parsers \in Seq(Parser) /\ errors \in {0, 1}
    BY DEF IInv, TypeOK, OneError
  <2>2. DOMAIN parsers = {1} /\ parsers # <<>> /\ Top = parsers[1]
    BY <2>1 DEF ReturnToDriver, Top
  <2> QED
    BY <2>1, <2>2, TopType DEF ReturnToDriver, IInv, Started
<1>1. /\ UNCHANGED <<content, files_map, files_set, aliases, errors, warnings>> /\ parsers' = <<>>
      /\ status' \in {"failed", "parsed"} /\ (status' = "failed" <=> errors = 1)
      /\ unit' \in {unit, Top.nodes}
  BY <1>0 DEF ReturnToDriver
<1>2. TypeOK'
  BY <1>0, <1>1 DEF IInv, TypeOK, Parser
<1>3. NeverTwice' /\ OneError' /\ Started'
  BY <1>0, <1>1 DEF IInv, NeverTwice, OneError, Started
<1>4. AllGood'
  BY <1>1 DEF AllGood
<1>5. Served'
  <2>1. ASSUME errors = 0, NEW path \in files_set
        PROVE  Named(path, content[FileAt(path)]) \subseteq files_set
    <3>1. CASE \E i \in DOMAIN parsers : parsers[i].path = path
      BY <1>0, <2>1, <3>1, DoneServed DEF Text
    <3> QED
      BY <2>1, <3>1 DEF IInv, Served
  <2> QED
    BY <1>1, <2>1 DEF IInv, Served
<1> QED
  BY <1>2, <1>3, <1>4, <1>5 DEF IInv

LEMMA ParseSourceCodeStep ==
  ASSUME IInv, parse_source_code
  PROVE  IInv'
<1>1. PICK path \in MainPaths : register_source_path(path) /\ parsers' = <<NewParser(path)>>
  BY DEF parse_source_code
<1> DEFINE p == NewParser(path)
<1>2. path \in Path /\ FileAt(path) \in Files
  BY MainAssumption
<1>3. files_map = <<>> /\ files_set = {} /\ errors = 0 /\ status = "running"
  BY DEF parse_source_code, IInv, NeverTwice, Started
<1>4. /\ UNCHANGED <<content, aliases, errors, warnings, unit, status>>
      /\ files_map' = <<path>> /\ files_set' = {path}
  BY <1>1, <1>3 DEF parse_source_code, register_source_path
<1>5. p \in Parser /\ p.path = path /\ p.pos = 1 /\ p.at = "start"
  <2>1. <<>> \in Seq(Path \X Nat)
    OBVIOUS
  <2> QED
    BY <1>2, <2>1 DEF NewParser, Parser
<1> HIDE DEF p
<1>6. parsers' = <<p>> /\ parsers' \in Seq(Parser) /\ DOMAIN parsers' = {1} /\ parsers'[1] = p
      /\ parsers' # <<>> /\ Top' = p
  BY <1>1, <1>5 DEF p, Top
<1>7. TypeOK'
  BY <1>2, <1>4, <1>5, <1>6 DEF IInv, TypeOK
<1>8. NeverTwice' /\ OneError' /\ Started'
  BY <1>3, <1>4, <1>5, <1>6 DEF NeverTwice, OneError, Started
<1>9. AllGood'
  <2>1. content[FileAt(path)] \in Seq(Token)
    BY <1>2, ContentsAssumption DEF IInv, TypeOK
  <2>2. NamedBefore(path, content[FileAt(path)], 1) = {}
    BY <2>1, NamedStart
  <2>3. "start" \notin Keywords
    BY DEF Keywords
  <2>4. Good(p, content, {path}, 0)
    BY <1>2, <1>5, <2>2, <2>3 DEF Good
  <2> QED
    BY <1>3, <1>4, <1>6, <2>4 DEF AllGood
<1>10. Served'
  BY <1>2, <1>4, <1>5, <1>6 DEF Served
<1> QED
  BY <1>7, <1>8, <1>9, <1>10 DEF IInv

-----------------------------------------------------------------------------
(* The theorems.                                                           *)

LEMMA InitIInv ==
  ASSUME Init
  PROVE  IInv
<1>1. <<>> \in Seq(Parser) /\ <<>> \in Seq(Path) /\ <<>> \in Seq(Path \X Nat)
  OBVIOUS
<1>2. TypeOK /\ NeverTwice /\ OneError /\ Started
  BY <1>1, PrimitivesAssumption DEF Init, TypeOK, NeverTwice, OneError, Started
<1>3. AllGood /\ Served
  BY DEF Init, AllGood, Served
<1> QED
  BY <1>2, <1>3 DEF IInv

LEMMA StutterStep ==
  ASSUME IInv, UNCHANGED vars
  PROVE  IInv'
<1>1. TypeOK' /\ NeverTwice' /\ OneError' /\ Started'
  BY DEF IInv, vars, TypeOK, NeverTwice, OneError, Started, Top
<1>2. AllGood' /\ Served'
  BY DEF IInv, vars, AllGood, Served
<1> QED
  BY <1>1, <1>2 DEF IInv

\* The invariant, in which a parser has served the names it has read, is
\* inductive.
THEOREM Invariance == Spec => []IInv
<1>1. Init => IInv
  BY InitIInv
<1>2. IInv /\ [Next]_vars => IInv'
  <2> SUFFICES ASSUME IInv, [Next]_vars PROVE IInv'
    OBVIOUS
  <2>1. CASE parse_source_code
    BY <2>1, ParseSourceCodeStep
  <2>2. CASE Begin
    BY <2>2, BeginStep
  <2>3. CASE Declaration
    BY <2>3, DeclarationStep
  <2>4. CASE TypeAlias
    BY <2>4, TypeAliasStep
  <2>5. CASE NotADeclaration
    BY <2>5, NotADeclarationStep
  <2>6. CASE parse_one
    BY <2>6, ParseOneStep
  <2>7. CASE OpenBraces
    BY <2>7, OpenBracesStep
  <2>8. CASE NameInBraces
    BY <2>8, NameInBracesStep
  <2>9. CASE CloseBraces
    BY <2>9, CloseBracesStep
  <2>10. CASE ReturnToParser
    BY <2>10, PopStep
  <2>11. CASE ReturnToDriver
    BY <2>11, ReturnToDriverStep
  <2>12. CASE UNCHANGED vars
    BY <2>12, StutterStep
  <2> QED
    BY <2>1, <2>2, <2>3, <2>4, <2>5, <2>6, <2>7, <2>8, <2>9, <2>10, <2>11, <2>12 DEF Next, Finished
<1> QED
  BY <1>1, <1>2, PTL DEF Spec

\* The variables have their types: in particular every parser in progress reads a
\* file that exists (Compiler::parse_source_code, parse_single_source_file).
THEOREM TypeCorrect == Spec => []TypeOK
<1>1. IInv => TypeOK
  BY DEF IInv
<1> QED
  BY <1>1, Invariance, PTL

\* register_source_path gives each path one id, and no path is parsed inside
\* itself: on every disk, whatever cycles its files form.
THEOREM RegisteredOnce == Spec => []NeverTwice
<1>1. IInv => NeverTwice
  BY DEF IInv
<1> QED
  BY <1>1, Invariance, PTL

\* An error of any parser is the only one, stops them all and fails the program.
THEOREM FirstErrorOnly == Spec => []OneError
<1>1. IInv => OneError
  BY DEF IInv
<1> QED
  BY <1>1, Invariance, PTL

\* After an error the parsers do nothing but return.
THEOREM ParsersStop == Spec => ErrorStops
<1>1. IInv /\ [Next]_vars =>
        [errors = 1 => /\ UNCHANGED <<files_map, aliases, warnings, unit>>
                       /\ Len(parsers') = Len(parsers) - 1]_vars
  <2> SUFFICES ASSUME IInv, Next, errors = 1, ~UNCHANGED vars
               PROVE  /\ UNCHANGED <<files_map, aliases, warnings, unit>>
                      /\ Len(parsers') = Len(parsers) - 1
    OBVIOUS
  <2>1. files_map # <<>> /\ (parsers # <<>> => Top.at = "stopped")
    BY DEF IInv, Started, OneError
  <2>2. "stopped" \notin Keywords
    BY DEF Keywords
  <2>3. CASE ReturnToParser
    <3>1. Len(parsers) \in Nat /\ Len(parsers) > 1 /\ parsers # <<>>
      BY <2>3, TopType DEF ReturnToParser, Running
    <3>2. Below \in Seq(Parser) /\ Len(Below) = Len(parsers) - 1 /\ Below # <<>>
      BY <3>1, TopType
    <3>3. /\ SubSeq(Below, 1, Len(Below) - 1) \in Seq(Parser)
          /\ Len(SubSeq(Below, 1, Len(Below) - 1)) = Len(Below) - 1
      BY <3>2, BelowType
    <3>4. Len(parsers') = Len(Below) - 1 + 1
      BY <2>3, <3>2, <3>3 DEF ReturnToParser, ReturnTo
    <3> QED
      BY <2>3, <3>1, <3>2, <3>4 DEF ReturnToParser
  <2>4. CASE ReturnToDriver
    BY <2>4 DEF ReturnToDriver
  <2> QED
    BY <2>1, <2>2, <2>3, <2>4
       DEF Next, Finished, parse_source_code, Begin, Declaration, TypeAlias, NotADeclaration,
           parse_one, OpenBraces, NameInBraces, CloseBraces, Running
<1> QED
  BY <1>1, Invariance, PTL DEF Spec, ErrorStops

\* FileClosure reads the same texts.
LEMMA NeedsOfNamed == ASSUME NEW path PROVE Closure!NeedsOf(path) = Named(path, content[FileAt(path)])
<1> DEFINE text == content[FileAt(path)]
<1>1. \A i : Closure!KeywordOf(text, i) = KeywordOf(text, i)
  BY DEF Closure!KeywordOf, Closure!KeywordsUpTo, Closure!Latest, Closure!Nth, Closure!Keywords,
         Closure!EndOfFile, KeywordOf, KeywordsUpTo, Latest, Nth, Keywords, EndOfFile
<1>2. \A keyword, name : Closure!library_path(path, keyword, name) = library_path(path, keyword, name)
  BY DEF Closure!library_path, Closure!file_parent_path, Closure!AMUN_LIBRARIES_PREFIX,
         library_path, file_parent_path, AMUN_LIBRARIES_PREFIX
<1>3. Closure!Named(path, text) = Named(path, text)
  BY <1>1, <1>2 DEF Closure!Named, Closure!NamedBefore, Named, NamedBefore
<1> QED
  BY <1>3 DEF Closure!NeedsOf

\* What the parsers do together opens the closure of the main file: a program that
\* is parsed without an error has every file that one of its files names.
THEOREM ImplementsClosure == Spec => OpensClosure
<1>1. Init => Closure!Init
  BY DEF Init, Closure!Init
<1>2. IInv /\ [Next]_vars => [Closure!Next]_(Closure!vars)
  <2> SUFFICES ASSUME IInv, Next, ~UNCHANGED Closure!vars
               PROVE  Closure!Next
    BY DEF vars, Closure!vars
  <2>1. CASE parse_source_code
    <3>1. PICK path \in MainPaths : register_source_path(path)
      BY <2>1 DEF parse_source_code
    <3>2. FileAt(path) \in Files /\ files_set = {} /\ files_set' = {path}
      BY <2>1, <3>1, MainAssumption DEF parse_source_code, register_source_path, IInv, NeverTwice
    <3>3. Closure!OpenMain
      BY <2>1, <3>1, <3>2 DEF parse_source_code, Closure!OpenMain
    <3> QED
      BY <3>3 DEF Closure!Next
  <2>2. ASSUME Running, NEW p, NEW path, Require(p, path), path \in Named(Top.path, Text(Top)),
               UNCHANGED content
        PROVE  Closure!Next
    <3>1. Top.path \in files_set /\ status = "running"
      BY <2>2, TopType DEF Running, Good
    <3>2. CASE parse_single_source_file(p, path) /\ path \notin files_set /\ FileAt(path) \in Files
      <4>1. files_set' = files_set \cup {path} /\ UNCHANGED <<content, status>>
        BY <2>2, <3>2 DEF parse_single_source_file, register_source_path
      <4>2. path \in Closure!NeedsOf(Top.path)
        BY <2>2, NeedsOfNamed DEF Text
      <4> QED
        BY <3>1, <3>2, <4>1, <4>2 DEF Closure!Next, Closure!Open
    <3>3. CASE TooLong
      BY <2>2, <3>1, <3>3 DEF TooLong, Closure!Next, Closure!GiveUp
    <3>4. CASE Skip(p) \/ Missing(p)
      BY <2>2, <3>4 DEF Skip, Missing, Closure!vars
    <3> QED
      BY <2>2, <3>2, <3>3, <3>4 DEF Require
  <2>3. CASE parse_one
    <3>1. CASE Throw
      BY <3>1 DEF Throw, Closure!vars
    <3>2. CASE ~Throw
      <4> DEFINE path == library_path(Top.path, Kind(Top, 0), Nth(Text(Top), Top.pos + 1).name)
      <4>1. /\ Running /\ Kind(Top, 0) \in Keywords /\ Kind(Top, 1) = "string"
            /\ Require(Advanced(Top, 2 + Semicolons(2)), path) /\ UNCHANGED content
        BY <2>3, <3>2 DEF parse_one
      <4>2. path \in Named(Top.path, Text(Top))
        BY <4>1, NextName
      <4> HIDE DEF path
      <4> QED
        BY <2>2, <4>1, <4>2
    <3> QED
      BY <3>1, <3>2
  <2>4. CASE NameInBraces
    <3>1. CASE Throw
      BY <3>1 DEF Throw, Closure!vars
    <3>2. CASE ~Throw
      <4> DEFINE path == library_path(Top.path, Top.at, Nth(Text(Top), Top.pos).name)
      <4>1. /\ Running /\ Top.at \in Keywords /\ Kind(Top, 0) = "string"
            /\ Require(Advanced(Top, 1), path) /\ UNCHANGED content
        BY <2>4, <3>2 DEF NameInBraces
      <4>2. Top.pos + 0 = Top.pos
        BY <4>1, AtWork
      <4>3. path \in Named(Top.path, Text(Top))
        BY <4>1, <4>2, NextName
      <4> HIDE DEF path
      <4> QED
        BY <2>2, <4>1, <4>3
    <3> QED
      BY <3>1, <3>2
  <2>5. CASE ReturnToDriver
    <3>1. status = "running" /\ UNCHANGED <<content, files_set>>
      BY <2>5 DEF ReturnToDriver, Running
    <3>2. CASE errors > 0
      BY <2>5, <3>1, <3>2 DEF ReturnToDriver, Closure!Next, Closure!GiveUp
    <3>3. CASE ~(errors > 0)
      <4>1. errors = 0 /\ errors' = 0 /\ IInv' /\ parsers' = <<>> /\ files_map # <<>>
        <5>1. files_map # <<>> /\ errors = 0
          BY <2>5, <3>3 DEF ReturnToDriver, Running, IInv, Started, OneError
        <5> QED
          BY <2>5, <5>1, ReturnToDriverStep DEF ReturnToDriver
      <4>2. \A path \in files_set : Named(path, content[FileAt(path)]) \subseteq files_set
        BY <3>1, <4>1 DEF IInv, Served
      <4>3. files_set # {}
        <5>1. files_map \in Seq(Path) /\ files_map # <<>>
          BY <4>1 DEF IInv, TypeOK
        <5>2. 1 \in DOMAIN files_map
          BY <5>1
        <5> QED
          BY <5>2 DEF IInv, NeverTwice
      <4> QED
        BY <2>5, <3>1, <3>3, <4>2, <4>3, NeedsOfNamed
           DEF ReturnToDriver, Closure!Next, Closure!Succeed
    <3> QED
      BY <3>2, <3>3
  <2> QED
    BY <2>1, <2>3, <2>4, <2>5
       DEF Next, Finished, Begin, Declaration, TypeAlias, NotADeclaration, OpenBraces, CloseBraces,
           ReturnToParser, Throw, vars, Closure!vars
<1> QED
  BY <1>1, <1>2, Invariance, PTL DEF Spec, OpensClosure, Closure!Spec

-----------------------------------------------------------------------------
(* The nodes of the parsers at work.                                       *)
(*                                                                         *)
(* Read from the outermost parser inwards, the nodes of the parsers are    *)
(* the declarations in the order they were read: a declaration comes last, *)
(* a parser begins with none, and gives its own to the one above.          *)

\* A file leads to another one by names, whatever files have been opened.
Leads(disk, from, to) ==
  \A paths : from \in paths /\ (\A path \in paths : Named(path, disk[FileAt(path)]) \subseteq paths) => to \in paths

\* The node d may come before the node e.
InOrder(disk, d, e) ==
  /\ d[1] = e[1] => d[2] < e[2]
  /\ e[1] \in NamedBefore(d[1], disk[FileAt(d[1])], d[2]) => Leads(disk, e[1], d[1])

\* A token of a file has been passed, by the parser that is at work on it.
Passed(stack, path, k) == \A a \in DOMAIN stack : stack[a].path = path => k < stack[a].pos

\* A declaration that has been read: what its file named before it is open, and
\* who of that is still at work leads to it.
Taken(stack, disk, registered, path, k) ==
  LET named == NamedBefore(path, disk[FileAt(path)], k)
  IN /\ path \in registered /\ k \in Declared(disk[FileAt(path)]) /\ Passed(stack, path, k)
     /\ named \subseteq registered
     /\ \A a \in DOMAIN stack : stack[a].path \in named => Leads(disk, stack[a].path, path)

\* The nodes are declarations that were read, in an order of the unit.
AllTaken(stack, disk, registered) ==
  \A a \in DOMAIN stack : \A i \in DOMAIN stack[a].nodes :
    \E path \in registered : \E k \in Declared(disk[FileAt(path)]) :
      stack[a].nodes[i] = <<path, k>> /\ Taken(stack, disk, registered, path, k)

\* Every declaration that has been passed is one of them.
Has(stack, d) == \E a \in DOMAIN stack : \E i \in DOMAIN stack[a].nodes : stack[a].nodes[i] = d
Kept(stack, disk, registered) ==
  \A path \in registered : \A k \in Declared(disk[FileAt(path)]) :
    Passed(stack, path, k) => Has(stack, <<path, k>>)

Sorted(stack, disk) ==
  \A a, b \in DOMAIN stack : \A i \in DOMAIN stack[a].nodes, j \in DOMAIN stack[b].nodes :
    a < b \/ (a = b /\ i < j) => InOrder(disk, stack[a].nodes[i], stack[b].nodes[j])

\* Each parser was opened, directly or not, by the ones before it.
Chained(stack, disk) ==
  \A a, b \in DOMAIN stack : a <= b => Leads(disk, stack[a].path, stack[b].path)

Collected(stack, disk, registered) ==
  /\ AllTaken(stack, disk, registered)
  /\ Kept(stack, disk, registered)
  /\ Sorted(stack, disk)
  /\ Chained(stack, disk)

UnitInv ==
  /\ errors = 0 /\ status = "running" => Collected(parsers, content, files_set)
  /\ UnitComplete

LEMMA LeadsOn ==
  ASSUME NEW disk, NEW a, NEW b, NEW c, Leads(disk, a, b), c \in Named(b, disk[FileAt(b)])
  PROVE  Leads(disk, a, c)
BY DEF Leads

LEMMA LeadsToItself ==
  ASSUME NEW disk, NEW a
  PROVE  Leads(disk, a, a)
BY DEF Leads

\* A parser, if there is one with that index, has that node.
LEMMA HasNode ==
  ASSUME NEW stack, NEW a, NEW i, NEW d, a \in DOMAIN stack, i \in DOMAIN stack[a].nodes, stack[a].nodes[i] = d
  PROVE  Has(stack, d)
BY DEF Has

\* The last index of a sequence, and the ones before it.
LEMMA LastIndex ==
  ASSUME NEW n \in Nat
  PROVE  /\ \A a \in 1 .. n : a = n \/ a \in 1 .. n - 1
         /\ \A a \in 1 .. n - 1 : a \in 1 .. n /\ a < n
         /\ \A a \in 1 .. n + 1 : a = n + 1 \/ a \in 1 .. n
         /\ \A a \in 1 .. n : a \in 1 .. n + 1 /\ a < n + 1
         /\ n + 1 \in 1 .. n + 1
         /\ n # 0 => n \in 1 .. n
OBVIOUS

\* The innermost parser goes on, over tokens that are no declarations.
LEMMA PassCollected ==
  ASSUME NEW n \in Nat \ {0}, NEW s \in Seq(Parser), Len(s) = n, NEW t \in Seq(Parser), Len(t) = n,
         NEW disk, NEW registered, Collected(s, disk, registered),
         \A i \in 1 .. n - 1 : t[i] = s[i],
         t[n].path = s[n].path, t[n].nodes = s[n].nodes, s[n].pos <= t[n].pos,
         \A k \in Declared(disk[FileAt(s[n].path)]) : k < t[n].pos => k < s[n].pos,
         \A path \in registered : disk[FileAt(path)] \in Seq(Token)
  PROVE  Collected(t, disk, registered)
<1>1. /\ DOMAIN s = 1 .. n /\ DOMAIN t = 1 .. n
      /\ \A a \in 1 .. n : t[a].path = s[a].path /\ t[a].nodes = s[a].nodes
      /\ \A a \in 1 .. n : s[a].pos \in Nat /\ t[a].pos \in Nat
  <2>1. DOMAIN s = 1 .. n /\ DOMAIN t = 1 .. n
    OBVIOUS
  <2>2. \A a \in 1 .. n : a = n \/ a \in 1 .. n - 1
    BY LastIndex
  <2>3. \A a \in 1 .. n : s[a] \in Parser /\ t[a] \in Parser
    BY <2>1
  <2> QED
    BY <2>1, <2>2, <2>3 DEF Parser
<1>2. ASSUME NEW path \in registered, NEW k \in Declared(disk[FileAt(path)])
      PROVE  Passed(t, path, k) <=> Passed(s, path, k)
  <2>0. k \in Nat
    BY <1>2 DEF Declared
  <2>1. \A a \in 1 .. n - 1 : t[a].pos = s[a].pos
    OBVIOUS
  <2>2. s[n].path = path => (k < t[n].pos <=> k < s[n].pos)
    BY <1>1, <1>2, <2>0
  <2>3. \A a \in 1 .. n : s[a].path = path => (k < t[a].pos <=> k < s[a].pos)
    <3>1. \A a \in 1 .. n : a = n \/ a \in 1 .. n - 1
      BY LastIndex
    <3> QED
      BY <2>1, <2>2, <3>1
  <2> QED
    BY <1>1, <2>3 DEF Passed
<1>3. AllTaken(t, disk, registered)
  <2>1. ASSUME NEW path \in registered, NEW k \in Declared(disk[FileAt(path)]), Taken(s, disk, registered, path, k)
        PROVE  Taken(t, disk, registered, path, k)
    BY <1>1, <1>2, <2>1 DEF Taken
  <2> QED
    BY <1>1, <2>1 DEF Collected, AllTaken
<1>4. Kept(t, disk, registered)
  <2> SUFFICES ASSUME NEW path \in registered, NEW k \in Declared(disk[FileAt(path)]), Passed(t, path, k)
               PROVE  Has(t, <<path, k>>)
    BY DEF Kept
  <2>1. Has(s, <<path, k>>)
    BY <1>2 DEF Collected, Kept
  <2> QED
    BY <1>1, <2>1 DEF Has
<1>5. Sorted(t, disk) /\ Chained(t, disk)
  BY <1>1 DEF Collected, Sorted, Chained
<1> QED
  BY <1>3, <1>4, <1>5 DEF Collected

\* A parser for a file that was not open joins the stack.
LEMMA PushCollected ==
  ASSUME NEW n \in Nat, NEW s \in Seq(Parser), Len(s) = n, NEW t \in Seq(Parser), Len(t) = n + 1,
         NEW disk, NEW registered, NEW new, Collected(s, disk, registered), new \notin registered,
         \A i \in 1 .. n : t[i] = s[i], t[n + 1] = NewParser(new),
         n # 0 => new \in Named(s[n].path, disk[FileAt(s[n].path)]),
         \A i \in 1 .. n : s[i].path \in registered,
         disk[FileAt(new)] \in Seq(Token)
  PROVE  Collected(t, disk, registered \cup {new})
<1>1. /\ DOMAIN s = 1 .. n /\ DOMAIN t = 1 .. n + 1
      /\ \A a \in 1 .. n + 1 : a = n + 1 \/ a \in 1 .. n
      /\ \A a \in 1 .. n : a \in 1 .. n + 1
  BY LastIndex
<1>2. t[n + 1].path = new /\ t[n + 1].nodes = <<>> /\ t[n + 1].pos = 1
  BY DEF NewParser
<1>3. ASSUME NEW path \in registered, NEW k
      PROVE  Passed(t, path, k) <=> Passed(s, path, k)
  BY <1>1, <1>2 DEF Passed
<1>4. AllTaken(t, disk, registered \cup {new})
  <2>1. ASSUME NEW path \in registered, NEW k \in Declared(disk[FileAt(path)]), Taken(s, disk, registered, path, k)
        PROVE  Taken(t, disk, registered \cup {new}, path, k)
    BY <1>1, <1>2, <1>3, <2>1 DEF Taken
  <2>2. ASSUME NEW a \in 1 .. n + 1, NEW i \in DOMAIN t[a].nodes
        PROVE  a \in 1 .. n /\ t[a] = s[a]
    BY <1>1, <1>2
  <2> SUFFICES ASSUME NEW a \in 1 .. n + 1, NEW i \in DOMAIN t[a].nodes
               PROVE  \E path \in registered \cup {new} : \E k \in Declared(disk[FileAt(path)]) :
                        t[a].nodes[i] = <<path, k>> /\ Taken(t, disk, registered \cup {new}, path, k)
    BY <1>1 DEF AllTaken
  <2>3. PICK path \in registered : \E k \in Declared(disk[FileAt(path)]) :
          s[a].nodes[i] = <<path, k>> /\ Taken(s, disk, registered, path, k)
    BY <1>1, <2>2 DEF Collected, AllTaken
  <2> QED
    BY <2>1, <2>2, <2>3
<1>5. Kept(t, disk, registered \cup {new})
  <2> SUFFICES ASSUME NEW path \in registered \cup {new}, NEW k \in Declared(disk[FileAt(path)]), Passed(t, path, k)
               PROVE  Has(t, <<path, k>>)
    BY DEF Kept
  <2>1. path # new
    <3>1. CASE path = new
      <4>1. k < 1 /\ k \in DOMAIN disk[FileAt(path)]
        BY <1>1, <1>2, <3>1 DEF Passed, Declared
      <4> QED
        BY <4>1
    <3> QED
      BY <3>1
  <2>2. path \in registered /\ Passed(s, path, k)
    BY <1>3, <2>1
  <2>3. PICK a \in 1 .. n : \E i \in DOMAIN s[a].nodes : s[a].nodes[i] = <<path, k>>
    BY <1>1, <2>2 DEF Collected, Kept, Has
  <2> QED
    BY <1>1, <2>3 DEF Has
<1>6. Sorted(t, disk)
  <2>1. ASSUME NEW a \in 1 .. n + 1, NEW i \in DOMAIN t[a].nodes
        PROVE  a \in 1 .. n /\ t[a] = s[a]
    BY <1>1, <1>2
  <2> QED
    BY <1>1, <2>1 DEF Collected, Sorted
<1>7. Chained(t, disk)
  <2> SUFFICES ASSUME NEW a \in 1 .. n + 1, NEW b \in 1 .. n + 1, a <= b
               PROVE  Leads(disk, t[a].path, t[b].path)
    BY <1>1 DEF Chained
  <2>1. CASE b \in 1 .. n
    <3>1. a \in 1 .. n
      BY <2>1
    <3>2. Leads(disk, s[a].path, s[b].path)
      BY <1>1, <2>1, <3>1 DEF Collected, Chained
    <3> QED
      BY <2>1, <3>1, <3>2
  <2>2. CASE a = n + 1
    BY <1>1, <2>2, LeadsToItself
  <2>3. CASE b = n + 1 /\ a \in 1 .. n
    <3>1. n \in 1 .. n /\ a <= n /\ n # 0
      BY <2>3
    <3>2. Leads(disk, s[a].path, s[n].path)
      BY <1>1, <2>3, <3>1 DEF Collected, Chained
    <3> QED
      BY <1>2, <2>3, <3>1, <3>2, LeadsOn
  <2> QED
    BY <1>1, <2>1, <2>2, <2>3
<1> QED
  BY <1>4, <1>5, <1>6, <1>7 DEF Collected

\* The innermost parser reads a declaration, which becomes its last node.
LEMMA DeclareCollected ==
  ASSUME NEW n \in Nat \ {0}, NEW s \in Seq(Parser), Len(s) = n, NEW t \in Seq(Parser), Len(t) = n,
         NEW disk, NEW registered, Collected(s, disk, registered),
         \A i \in 1 .. n - 1 : t[i] = s[i],
         NEW p \in Parser, p = s[n], p.pos \in Declared(disk[FileAt(p.path)]),
         t[n].path = p.path, t[n].pos = p.pos + 1, t[n].nodes = Append(p.nodes, <<p.path, p.pos>>),
         p.path \in registered,
         \A i, j \in DOMAIN s : s[i].path = s[j].path => i = j,
         NamedBefore(p.path, disk[FileAt(p.path)], p.pos) \subseteq registered,
         \A path \in registered : disk[FileAt(path)] \in Seq(Token)
  PROVE  Collected(t, disk, registered)
<1> DEFINE m == Len(p.nodes)
           e == <<p.path, p.pos>>
<1>1. /\ DOMAIN s = 1 .. n /\ DOMAIN t = 1 .. n /\ n \in 1 .. n
      /\ \A a \in 1 .. n : a = n \/ a \in 1 .. n - 1
      /\ \A a \in 1 .. n - 1 : a \in 1 .. n /\ a < n
      /\ \A a \in 1 .. n : t[a].path = s[a].path
  <2>1. DOMAIN s = 1 .. n /\ DOMAIN t = 1 .. n
    OBVIOUS
  <2> QED
    BY <2>1, LastIndex
<1>2. p.pos \in Nat /\ p.nodes \in Seq(Path \X Nat) /\ e \in Path \X Nat
  BY DEF Parser
<1>3. /\ m \in Nat /\ DOMAIN p.nodes = 1 .. m /\ DOMAIN t[n].nodes = 1 .. m + 1
      /\ \A i \in 1 .. m : t[n].nodes[i] = p.nodes[i]
      /\ t[n].nodes[m + 1] = e
      /\ \A i \in 1 .. m + 1 : i = m + 1 \/ i \in 1 .. m
      /\ m + 1 \in 1 .. m + 1 /\ \A i \in 1 .. m : i \in 1 .. m + 1 /\ i < m + 1
  <2>1. PICK nodes \in Seq(Path \X Nat) : nodes = p.nodes
    BY <1>2
  <2>2. PICK d \in Path \X Nat : d = e
    BY <1>2
  <2>3. /\ Len(nodes) \in Nat /\ DOMAIN nodes = 1 .. Len(nodes)
        /\ DOMAIN Append(nodes, d) = 1 .. Len(nodes) + 1
        /\ \A i \in 1 .. Len(nodes) : Append(nodes, d)[i] = nodes[i]
        /\ Append(nodes, d)[Len(nodes) + 1] = d
    OBVIOUS
  <2>4. t[n].nodes = Append(nodes, d) /\ m = Len(nodes)
    BY <2>1, <2>2
  <2>5. m \in Nat
    BY <2>3, <2>4
  <2> HIDE DEF m, e
  <2>6. /\ DOMAIN p.nodes = 1 .. m /\ DOMAIN t[n].nodes = 1 .. m + 1
        /\ \A i \in 1 .. m : t[n].nodes[i] = p.nodes[i]
        /\ t[n].nodes[m + 1] = e
    BY <2>1, <2>2, <2>3, <2>4
  <2>7. /\ \A i \in 1 .. m + 1 : i = m + 1 \/ i \in 1 .. m
        /\ m + 1 \in 1 .. m + 1 /\ \A i \in 1 .. m : i \in 1 .. m + 1 /\ i < m + 1
    BY <2>5, LastIndex
  <2> QED
    BY <2>5, <2>6, <2>7
<1> HIDE DEF m, e
<1>4. ASSUME NEW path \in registered, NEW k \in Declared(disk[FileAt(path)])
      PROVE  /\ Passed(s, path, k) => Passed(t, path, k)
             /\ Passed(t, path, k) => Passed(s, path, k) \/ <<path, k>> = e
  <2>1. k \in Nat
    BY DEF Declared
  <2>2. s[n].path = p.path /\ s[n].pos = p.pos /\ t[n].pos = p.pos + 1
    OBVIOUS
  <2>3. \A a \in 1 .. n - 1 : t[a].pos = s[a].pos
    OBVIOUS
  <2>4. k < p.pos => k < p.pos + 1
    BY <1>2, <2>1
  <2>5. k < p.pos + 1 => k < p.pos \/ k = p.pos
    BY <1>2, <2>1
  <2>6. ASSUME Passed(s, path, k) PROVE Passed(t, path, k)
    BY <1>1, <2>2, <2>3, <2>4, <2>6 DEF Passed
  <2>7. ASSUME Passed(t, path, k), ~(path = p.path /\ k = p.pos) PROVE Passed(s, path, k)
    BY <1>1, <2>2, <2>3, <2>5, <2>7 DEF Passed
  <2> QED
    BY <2>6, <2>7 DEF e
<1>5. Taken(t, disk, registered, p.path, p.pos)
  <2>1. Passed(t, p.path, p.pos)
    <3>1. \A a \in 1 .. n : s[a].path = p.path => a = n
      BY <1>1
    <3>2. t[n].pos = p.pos + 1 /\ p.pos < p.pos + 1
      BY <1>2
    <3> QED
      BY <1>1, <3>1, <3>2 DEF Passed
  <2>2. \A a \in 1 .. n : Leads(disk, t[a].path, p.path)
    <3>1. \A a \in 1 .. n : a <= n
      BY <1>1
    <3> QED
      BY <1>1, <3>1 DEF Collected, Chained
  <2> QED
    BY <1>1, <2>1, <2>2 DEF Taken
<1>6. AllTaken(t, disk, registered)
  <2>1. ASSUME NEW path \in registered, NEW k \in Declared(disk[FileAt(path)]), Taken(s, disk, registered, path, k)
        PROVE  Taken(t, disk, registered, path, k)
    BY <1>1, <1>4, <2>1 DEF Taken
  <2> SUFFICES ASSUME NEW a \in 1 .. n, NEW i \in DOMAIN t[a].nodes
               PROVE  \E path \in registered : \E k \in Declared(disk[FileAt(path)]) :
                        t[a].nodes[i] = <<path, k>> /\ Taken(t, disk, registered, path, k)
    BY <1>1 DEF AllTaken
  <2>2. CASE a = n /\ i = m + 1
    BY <1>3, <1>5, <2>2 DEF e
  <2>3. CASE ~(a = n /\ i = m + 1)
    <3>1. i \in DOMAIN s[a].nodes /\ t[a].nodes[i] = s[a].nodes[i]
      BY <1>1, <1>3, <2>3
    <3> QED
      BY <1>1, <2>1, <3>1 DEF Collected, AllTaken
  <2> QED
    BY <2>2, <2>3
<1>7. Kept(t, disk, registered)
  <2> SUFFICES ASSUME NEW path \in registered, NEW k \in Declared(disk[FileAt(path)]), Passed(t, path, k)
               PROVE  Has(t, <<path, k>>)
    BY DEF Kept
  <2>1. CASE <<path, k>> = e
    <3>1. n \in DOMAIN t /\ m + 1 \in DOMAIN t[n].nodes /\ t[n].nodes[m + 1] = e
      BY <1>1, <1>3
    <3> QED
      BY <2>1, <3>1, HasNode
  <2>2. CASE Passed(s, path, k)
    <3>1. PICK a \in DOMAIN s : \E i \in DOMAIN s[a].nodes : s[a].nodes[i] = <<path, k>>
      BY <2>2 DEF Collected, Kept, Has
    <3>2. PICK i \in DOMAIN s[a].nodes : s[a].nodes[i] = <<path, k>>
      BY <3>1
    <3>3. a \in DOMAIN t /\ i \in DOMAIN t[a].nodes /\ t[a].nodes[i] = s[a].nodes[i]
      <4>1. CASE a = n
        BY <1>1, <1>3, <3>2, <4>1
      <4>2. CASE a # n
        BY <1>1, <3>2, <4>2
      <4> QED
        BY <4>1, <4>2
    <3> QED
      BY <3>2, <3>3, HasNode
  <2> QED
    BY <1>4, <2>1, <2>2
<1>8. Sorted(t, disk)
  <2> SUFFICES ASSUME NEW a \in 1 .. n, NEW b \in 1 .. n, NEW i \in DOMAIN t[a].nodes, NEW j \in DOMAIN t[b].nodes,
                      a < b \/ (a = b /\ i < j)
               PROVE  InOrder(disk, t[a].nodes[i], t[b].nodes[j])
    BY <1>1 DEF Sorted
  <2>1. ~(a = n /\ i = m + 1)
    BY <1>1, <1>3
  <2>2. i \in DOMAIN s[a].nodes /\ t[a].nodes[i] = s[a].nodes[i]
    BY <1>1, <1>3, <2>1
  <2>3. CASE b = n /\ j = m + 1
    <3>1a. PICK path \in registered : \E k \in Declared(disk[FileAt(path)]) :
            s[a].nodes[i] = <<path, k>> /\ Taken(s, disk, registered, path, k)
      BY <1>1, <2>2 DEF Collected, AllTaken
    <3>1. PICK k \in Declared(disk[FileAt(path)]) :
            s[a].nodes[i] = <<path, k>> /\ Taken(s, disk, registered, path, k)
      BY <3>1a
    <3>2. path = p.path => k < p.pos
      BY <1>1, <3>1 DEF Taken, Passed
    <3>3. p.path \in NamedBefore(path, disk[FileAt(path)], k) => Leads(disk, p.path, path)
      BY <1>1, <3>1 DEF Taken
    <3> QED
      BY <1>3, <2>2, <2>3, <3>1, <3>2, <3>3 DEF InOrder, e
  <2>4. CASE ~(b = n /\ j = m + 1)
    <3>1. j \in DOMAIN s[b].nodes /\ t[b].nodes[j] = s[b].nodes[j]
      BY <1>1, <1>3, <2>4
    <3> QED
      BY <1>1, <2>2, <3>1 DEF Collected, Sorted
  <2> QED
    BY <2>3, <2>4
<1>9. Chained(t, disk)
  BY <1>1 DEF Collected, Chained
<1> QED
  BY <1>6, <1>7, <1>8, <1>9 DEF Collected

\* The innermost parser, at the end of its text, gives its nodes to the one above.
LEMMA PopCollected ==
  ASSUME NEW s \in Seq(Parser), NEW t \in Seq(Parser), NEW n \in Nat \ {0}, Len(s) = n + 1, Len(t) = n,
         NEW disk, NEW registered, Collected(s, disk, registered),
         \A i \in 1 .. n - 1 : t[i] = s[i],
         t[n].path = s[n].path, t[n].pos = s[n].pos, t[n].nodes = s[n].nodes \o s[n + 1].nodes,
         \A k \in Declared(disk[FileAt(s[n + 1].path)]) : k < s[n + 1].pos
  PROVE  Collected(t, disk, registered)
<1> DEFINE m == Len(s[n].nodes)
           l == Len(s[n + 1].nodes)
<1>1. /\ DOMAIN s = 1 .. n + 1 /\ DOMAIN t = 1 .. n /\ n \in 1 .. n
      /\ \A a \in 1 .. n : a = n \/ a \in 1 .. n - 1
      /\ \A a \in 1 .. n + 1 : a = n + 1 \/ a \in 1 .. n
      /\ \A a \in 1 .. n : a \in 1 .. n + 1 /\ t[a].path = s[a].path /\ t[a].pos = s[a].pos
  <2>1. DOMAIN s = 1 .. n + 1 /\ DOMAIN t = 1 .. n
    OBVIOUS
  <2>2. \A a \in 1 .. n : a = n \/ a \in 1 .. n - 1
    OBVIOUS
  <2> QED
    BY <2>1, <2>2
<1>2. s[n].nodes \in Seq(Path \X Nat) /\ s[n + 1].nodes \in Seq(Path \X Nat)
  <2>1. s[n] \in Parser /\ s[n + 1] \in Parser
    BY <1>1
  <2> QED
    BY <2>1 DEF Parser
<1>3. /\ m \in Nat /\ l \in Nat /\ DOMAIN s[n].nodes = 1 .. m /\ DOMAIN s[n + 1].nodes = 1 .. l
      /\ DOMAIN t[n].nodes = 1 .. m + l
      /\ \A i \in 1 .. m : t[n].nodes[i] = s[n].nodes[i]
      /\ \A i \in 1 .. l : t[n].nodes[m + i] = s[n + 1].nodes[i]
  <2>1. PICK u \in Seq(Path \X Nat) : u = s[n].nodes
    BY <1>2
  <2>2. PICK v \in Seq(Path \X Nat) : v = s[n + 1].nodes
    BY <1>2
  <2>3. PICK w \in Seq(Path \X Nat) : w = u \o v
    BY ConcatProperties
  <2>4. /\ Len(u) \in Nat /\ Len(v) \in Nat /\ Len(w) = Len(u) + Len(v)
        /\ DOMAIN u = 1 .. Len(u) /\ DOMAIN v = 1 .. Len(v) /\ DOMAIN w = 1 .. Len(w)
    BY <2>3, ConcatProperties
  <2>5. /\ \A i \in 1 .. Len(u) : w[i] = u[i]
        /\ \A i \in 1 .. Len(v) : w[Len(u) + i] = v[i]
    BY <2>3, ConcatProperties
  <2>6. m = Len(u) /\ l = Len(v) /\ t[n].nodes = w
    BY <2>1, <2>2, <2>3
  <2> HIDE DEF m, l
  <2> QED
    BY <2>1, <2>2, <2>4, <2>5, <2>6
<1> HIDE DEF m, l
\* Where a node of the new stack stands in the old one.
<1> DEFINE Same(a, i, c, j) == a = c /\ i = j /\ (a = n => i <= m)
           Given(a, i, c, j) == a = n /\ c = n + 1 /\ i = m + j
<1>4. ASSUME NEW a \in 1 .. n, NEW i \in DOMAIN t[a].nodes
      PROVE  \E c \in DOMAIN s : \E j \in DOMAIN s[c].nodes :
               t[a].nodes[i] = s[c].nodes[j] /\ (Same(a, i, c, j) \/ Given(a, i, c, j))
  <2>1. ASSUME NEW c, NEW j, c \in DOMAIN s, j \in DOMAIN s[c].nodes, t[a].nodes[i] = s[c].nodes[j],
               Same(a, i, c, j) \/ Given(a, i, c, j)
        PROVE  \E c1 \in DOMAIN s : \E j1 \in DOMAIN s[c1].nodes :
                 t[a].nodes[i] = s[c1].nodes[j1] /\ (Same(a, i, c1, j1) \/ Given(a, i, c1, j1))
    BY <2>1
  <2>2. CASE a # n
    <3>1. t[a] = s[a] /\ a \in DOMAIN s /\ Same(a, i, a, i)
      BY <1>1, <2>2
    <3> QED
      BY <2>1, <3>1
  <2>3. CASE a = n /\ i \in 1 .. m
    <3>1. i \in DOMAIN s[a].nodes /\ t[a].nodes[i] = s[a].nodes[i] /\ a \in DOMAIN s /\ Same(a, i, a, i)
      BY <1>1, <1>3, <2>3
    <3> QED
      BY <2>1, <3>1
  <2>4. CASE a = n /\ i \notin 1 .. m
    <3>1. PICK j \in 1 .. l : i = m + j
      <4>1. i \in 1 .. m + l
        BY <1>3, <2>4
      <4>2. i - m \in 1 .. l /\ i = m + (i - m)
        BY <1>3, <2>4, <4>1
      <4> QED
        BY <4>2
    <3>2. t[n].nodes[i] = s[n + 1].nodes[j] /\ j \in DOMAIN s[n + 1].nodes
      BY <1>3, <3>1
    <3>3. n + 1 \in DOMAIN s
      BY <1>1, LastIndex
    <3>4. Given(a, i, n + 1, j)
      BY <2>4, <3>1
    <3> QED
      BY <2>1, <2>4, <3>2, <3>3, <3>4
  <2> QED
    BY <2>2, <2>3, <2>4
<1>5. ASSUME NEW path, NEW k \in Declared(disk[FileAt(path)])
      PROVE  Passed(t, path, k) <=> Passed(s, path, k)
  BY <1>1 DEF Passed
<1>6. AllTaken(t, disk, registered)
  <2>1. ASSUME NEW path \in registered, NEW k \in Declared(disk[FileAt(path)]), Taken(s, disk, registered, path, k)
        PROVE  Taken(t, disk, registered, path, k)
    BY <1>1, <1>5, <2>1 DEF Taken
  <2> SUFFICES ASSUME NEW a \in 1 .. n, NEW i \in DOMAIN t[a].nodes
               PROVE  \E path \in registered : \E k \in Declared(disk[FileAt(path)]) :
                        t[a].nodes[i] = <<path, k>> /\ Taken(t, disk, registered, path, k)
    BY <1>1 DEF AllTaken
  <2>2a. PICK c \in 1 .. n + 1 : \E j \in DOMAIN s[c].nodes : t[a].nodes[i] = s[c].nodes[j]
    BY <1>4
  <2>2. PICK j \in DOMAIN s[c].nodes : t[a].nodes[i] = s[c].nodes[j]
    BY <2>2a
  <2> QED
    BY <1>1, <2>1, <2>2 DEF Collected, AllTaken
<1>7. Kept(t, disk, registered)
  <2> SUFFICES ASSUME NEW path \in registered, NEW k \in Declared(disk[FileAt(path)]), Passed(t, path, k)
               PROVE  Has(t, <<path, k>>)
    BY DEF Kept
  <2>1. PICK c \in DOMAIN s : \E j \in DOMAIN s[c].nodes : s[c].nodes[j] = <<path, k>>
    BY <1>5 DEF Collected, Kept, Has
  <2>2. PICK j \in DOMAIN s[c].nodes : s[c].nodes[j] = <<path, k>>
    BY <2>1
  <2>3. CASE c = n + 1
    <3>1. j \in 1 .. l /\ n \in DOMAIN t
      BY <1>1, <1>3, <2>3
    <3>2. m + j \in 1 .. m + l
      BY <1>3, <3>1
    <3>3. m + j \in DOMAIN t[n].nodes /\ t[n].nodes[m + j] = s[n + 1].nodes[j]
      BY <1>3, <3>1, <3>2
    <3> QED
      BY <2>2, <2>3, <3>1, <3>3, HasNode
  <2>4. CASE c = n
    <3>1. j \in 1 .. m /\ n \in DOMAIN t
      BY <1>1, <1>3, <2>4
    <3>2. j \in 1 .. m + l
      BY <1>3, <3>1
    <3>3. j \in DOMAIN t[n].nodes /\ t[n].nodes[j] = s[n].nodes[j]
      BY <1>3, <3>1, <3>2
    <3> QED
      BY <2>2, <2>4, <3>1, <3>3, HasNode
  <2>5. CASE c \in 1 .. n - 1
    <3>1. c \in DOMAIN t /\ t[c] = s[c]
      BY <1>1, <2>5
    <3> QED
      BY <2>2, <3>1, HasNode
  <2> QED
    BY <1>1, <2>3, <2>4, <2>5
<1>8. Sorted(t, disk)
  <2> SUFFICES ASSUME NEW a \in 1 .. n, NEW b \in 1 .. n, NEW i \in DOMAIN t[a].nodes, NEW j \in DOMAIN t[b].nodes,
                      a < b \/ (a = b /\ i < j)
               PROVE  InOrder(disk, t[a].nodes[i], t[b].nodes[j])
    BY <1>1 DEF Sorted
  <2>1a. PICK c \in DOMAIN s : \E x \in DOMAIN s[c].nodes :
           t[a].nodes[i] = s[c].nodes[x] /\ (Same(a, i, c, x) \/ Given(a, i, c, x))
    BY <1>4
  <2>1. PICK x \in DOMAIN s[c].nodes :
          t[a].nodes[i] = s[c].nodes[x] /\ (Same(a, i, c, x) \/ Given(a, i, c, x))
    BY <2>1a
  <2>2a. PICK d \in DOMAIN s : \E y \in DOMAIN s[d].nodes :
           t[b].nodes[j] = s[d].nodes[y] /\ (Same(b, j, d, y) \/ Given(b, j, d, y))
    BY <1>4
  <2>2. PICK y \in DOMAIN s[d].nodes :
          t[b].nodes[j] = s[d].nodes[y] /\ (Same(b, j, d, y) \/ Given(b, j, d, y))
    BY <2>2a
  <2>3. x \in Nat /\ y \in Nat /\ x >= 1 /\ y >= 1
    <3>1. PICK u \in Seq(Path \X Nat), v \in Seq(Path \X Nat) : u = s[c].nodes /\ v = s[d].nodes
      <4>1. s[c] \in Parser /\ s[d] \in Parser
        BY <1>1
      <4> QED
        BY <4>1 DEF Parser
    <3>2. x \in DOMAIN u /\ y \in DOMAIN v
      BY <3>1
    <3>3. \A q \in Seq(Path \X Nat) : \A z \in DOMAIN q : z \in Nat /\ z >= 1
      OBVIOUS
    <3> QED
      BY <3>2, <3>3
  <2>4. c < d \/ (c = d /\ x < y)
    BY <1>3, <2>1, <2>2, <2>3
  <2> QED
    BY <1>1, <2>1, <2>2, <2>4 DEF Collected, Sorted
<1>9. Chained(t, disk)
  BY <1>1 DEF Collected, Chained
<1> QED
  BY <1>6, <1>7, <1>8, <1>9 DEF Collected

\* The topmost parser goes on to p.
LEMMA GoesOn ==
  ASSUME IInv, Running, Collected(parsers, content, files_set),
         NEW p \in Parser, p.path = Top.path, p.nodes = Top.nodes, Top.pos <= p.pos,
         \A k \in Nat : Top.pos <= k /\ k < p.pos => Nth(Text(Top), k).kind # "declaration"
  PROVE  /\ Append(Below, p) \in Seq(Parser) /\ Len(Append(Below, p)) = Len(parsers)
         /\ Append(Below, p)[Len(parsers)] = p
         /\ \A i \in 1 .. Len(parsers) : Append(Below, p)[i].path = parsers[i].path
         /\ Collected(Append(Below, p), content, files_set)
<1> DEFINE n == Len(parsers)
           t == Append(Below, p)
<1>1. /\ parsers \in Seq(Parser) /\ parsers # <<>> /\ n \in Nat \ {0}
      /\ Below \in Seq(Parser) /\ Len(Below) = n - 1 /\ \A i \in 1 .. n - 1 : Below[i] = parsers[i]
      /\ Top = parsers[n] /\ Top \in Parser /\ Text(Top) \in Seq(Token)
  BY TopType DEF Running, IInv, TypeOK, Top
<1> HIDE DEF n
<1>2. t \in Seq(Parser) /\ Len(t) = n /\ t[n] = p /\ \A i \in 1 .. n - 1 : t[i] = parsers[i]
  BY <1>1
<1> HIDE DEF t
<1>3. \A i \in 1 .. n : t[i].path = parsers[i].path
  <2>1. \A i \in 1 .. n : i = n \/ i \in 1 .. n - 1
    BY <1>1
  <2> QED
    BY <1>1, <1>2, <2>1
<1>4. \A k \in Declared(content[FileAt(parsers[n].path)]) : k < p.pos => k < parsers[n].pos
  <2> SUFFICES ASSUME NEW k \in Declared(Text(Top)), k < p.pos, ~(k < Top.pos) PROVE FALSE
    BY <1>1 DEF Text
  <2>1. k \in DOMAIN Text(Top) /\ Text(Top)[k].kind = "declaration"
    BY DEF Declared
  <2>2. k \in Nat /\ Top.pos \in Nat /\ Nth(Text(Top), k) = Text(Top)[k]
    <3>1. Nth(Text(Top), k) = Text(Top)[k]
      BY <2>1 DEF Nth
    <3>2. DOMAIN Text(Top) \subseteq Nat
      BY <1>1
    <3>3. Top.pos \in Nat
      BY <1>1 DEF Parser
    <3> QED
      BY <2>1, <3>1, <3>2, <3>3
  <2>3. Top.pos <= k
    BY <2>2
  <2> QED
    BY <2>1, <2>2, <2>3
<1>5. \A path \in files_set : content[FileAt(path)] \in Seq(Token)
  BY ContentsAssumption DEF IInv, TypeOK, Served
<1>6. Collected(t, content, files_set)
  BY <1>1, <1>2, <1>4, <1>5, PassCollected DEF n
<1> QED
  BY <1>2, <1>3, <1>6 DEF n, t

\* It reads no declaration and opens no file.
LEMMA GoesOnStep ==
  ASSUME IInv, UnitInv, Running,
         NEW p \in Parser, p.path = Top.path, p.nodes = Top.nodes, Top.pos <= p.pos,
         \A k \in Nat : Top.pos <= k /\ k < p.pos => Nth(Text(Top), k).kind # "declaration",
         Replace(p), UNCHANGED <<content, files_set, errors, status>>
  PROVE  UnitInv'
<1>1. status' # "parsed"
  BY DEF Running
<1>2. UnitComplete'
  BY <1>1 DEF UnitComplete
<1>3. CASE errors = 0
  BY <1>2, <1>3, GoesOn DEF UnitInv, Running, Replace
<1>4. CASE errors # 0
  BY <1>2, <1>4 DEF UnitInv
<1> QED
  BY <1>3, <1>4

\* After an error nothing is said of the nodes.
LEMMA ThrowUnit ==
  ASSUME IInv, Running, errors' = errors + 1, UNCHANGED status
  PROVE  UnitInv'
BY DEF UnitInv, UnitComplete, Running, IInv, TypeOK

LEMMA RequireUnit ==
  ASSUME IInv, UnitInv, Running, Top.at # "stopped",
         NEW p \in Parser, p.path = Top.path, p.nodes = Top.nodes, Top.pos <= p.pos,
         \A k \in Nat : Top.pos <= k /\ k < p.pos => Nth(Text(Top), k).kind # "declaration",
         NEW path \in Path, path \in Named(Top.path, Text(Top)),
         Require(p, path), UNCHANGED content
  PROVE  UnitInv'
<1>1. CASE path \in files_set /\ Skip(p)
  BY <1>1, GoesOnStep DEF Skip
<1>2. CASE TooLong
  BY <1>2 DEF TooLong, UnitInv, UnitComplete
<1>3. CASE Missing(p)
  BY <1>3, ThrowUnit DEF Missing
<1>4. CASE path \notin files_set /\ FileAt(path) \in Files /\ parse_single_source_file(p, path)
  <2> DEFINE s == Append(Below, p)
             n == Len(parsers)
  <2>1. /\ files_set' = files_set \cup {path} /\ errors' = errors /\ status' = "running"
        /\ parsers' = s \o <<NewParser(path)>> /\ n \in Nat \ {0}
        /\ parsers # <<>> /\ errors = 0 /\ Good(Top, content, files_set, errors)
    BY <1>4, TopType DEF parse_single_source_file, register_source_path, Running, IInv, OneError
  <2>2. Collected(parsers, content, files_set)
    BY <2>1 DEF UnitInv, Running
  <2>3. /\ s \in Seq(Parser) /\ Len(s) = n /\ s[n] = p
        /\ \A i \in 1 .. n : s[i].path = parsers[i].path
        /\ Collected(s, content, files_set)
    BY <2>2, GoesOn
  <2>4. NewParser(path) \in Parser
    <3>1. <<>> \in Seq(Path \X Nat)
      OBVIOUS
    <3> QED
      BY <3>1 DEF NewParser, Parser
  <2> HIDE DEF s, n
  <2>5. PICK t : t = s \o <<NewParser(path)>>
    OBVIOUS
  <2>6. /\ t \in Seq(Parser) /\ Len(t) = n + 1 /\ t[n + 1] = NewParser(path)
        /\ \A i \in 1 .. n : t[i] = s[i]
    <3>1. <<NewParser(path)>> \in Seq(Parser) /\ Len(<<NewParser(path)>>) = 1
          /\ <<NewParser(path)>>[1] = NewParser(path)
      BY <2>4
    <3> QED
      BY <2>1, <2>3, <2>5, <3>1, ConcatProperties
  <2>7. \A i \in 1 .. n : s[i].path \in files_set
    <3>1. DOMAIN parsers = 1 .. n
      BY DEF IInv, TypeOK, n
    <3> QED
      BY <2>3, <3>1 DEF IInv, AllGood, Good
  <2>8. path \in Named(s[n].path, content[FileAt(s[n].path)])
    BY <2>3 DEF Text
  <2>9. content[FileAt(path)] \in Seq(Token)
    BY <1>4, ContentsAssumption DEF IInv, TypeOK
  <2>10. Collected(t, content, files_set \cup {path})
    BY <1>4, <2>3, <2>6, <2>7, <2>8, <2>9, PushCollected
  <2>11. Collected(parsers', content', files_set')
    BY <2>1, <2>5, <2>10
  <2> QED
    BY <2>1, <2>11 DEF UnitInv, UnitComplete
<1> QED
  BY <1>1, <1>2, <1>3, <1>4 DEF Require

\* Tokens that are no declarations, from a position of a parser on.
LEMMA Undeclared ==
  ASSUME IInv, Running, NEW n \in {0, 1, 2, 3}, \A k \in {0, 1, 2} : k < n => Kind(Top, k) # "declaration"
  PROVE  /\ Top.pos <= Top.pos + n
         /\ \A k \in Nat : Top.pos <= k /\ k < Top.pos + n => Nth(Text(Top), k).kind # "declaration"
<1>1. Top.pos \in Nat /\ \A k \in Nat : Kind(Top, k) = Nth(Text(Top), Top.pos + k).kind
  BY AtWork
<1>2. ASSUME NEW k \in Nat, Top.pos <= k, k < Top.pos + n
      PROVE  Nth(Text(Top), k).kind # "declaration"
  <2>1. PICK i \in {0, 1, 2} : i < n /\ k = Top.pos + i
    <3>1. k = Top.pos \/ k = Top.pos + 1 \/ k = Top.pos + 2
      BY <1>1, <1>2
    <3>2. CASE k = Top.pos
      BY <1>1, <1>2, <3>2
    <3>3. CASE k = Top.pos + 1
      BY <1>1, <1>2, <3>3
    <3>4. CASE k = Top.pos + 2
      BY <1>1, <1>2, <3>4
    <3> QED
      BY <3>1, <3>2, <3>3, <3>4
  <2> QED
    BY <1>1, <2>1
<1> QED
  BY <1>1, <1>2

LEMMA BeginUnit ==
  ASSUME IInv, UnitInv, Begin
  PROVE  UnitInv'
<1>1. CASE Throw
  BY <1>1, ThrowUnit DEF Begin, Throw
<1>2. CASE /\ Replace([Top EXCEPT !.at = "unit"])
           /\ UNCHANGED <<content, files_map, files_set, aliases, errors, warnings, unit, status>>
  <2> DEFINE p == [Top EXCEPT !.at = "unit"]
  <2>1. p \in Parser /\ p.path = Top.path /\ p.pos = Top.pos /\ p.nodes = Top.nodes /\ Top.pos \in Nat
    BY AtWork DEF Begin, Parser
  <2> HIDE DEF p
  <2>2. Replace(p)
    BY <1>2 DEF p
  <2> QED
    BY <1>2, <2>1, <2>2, GoesOnStep DEF Begin
<1> QED
  BY <1>1, <1>2 DEF Begin

LEMMA TypeAliasUnit ==
  ASSUME IInv, UnitInv, TypeAlias
  PROVE  UnitInv'
<1>1. CASE Throw
  BY <1>1, ThrowUnit DEF TypeAlias, Throw
<1>2. CASE Replace(Advanced(Top, 1)) /\ UNCHANGED <<content, files_set, errors, status>>
  <2>1. \A k \in {0, 1, 2} : k < 1 => Kind(Top, k) # "declaration"
    BY DEF TypeAlias
  <2> DEFINE p == Advanced(Top, 1)
  <2>2. Running
    BY DEF TypeAlias
  <2>3. p \in Parser /\ p.path = Top.path /\ p.pos = Top.pos + 1 /\ p.nodes = Top.nodes /\ Replace(p)
    BY <1>2, <2>2, AtWork, AdvancedType
  <2> HIDE DEF p
  <2>4. /\ Top.pos <= p.pos
        /\ \A k \in Nat : Top.pos <= k /\ k < p.pos => Nth(Text(Top), k).kind # "declaration"
    BY <2>1, <2>2, <2>3, Undeclared
  <2> QED
    BY <1>2, <2>2, <2>3, <2>4, GoesOnStep
<1> QED
  BY <1>1, <1>2 DEF TypeAlias

LEMMA OpenBracesUnit ==
  ASSUME IInv, UnitInv, OpenBraces
  PROVE  UnitInv'
<1>1. CASE Throw
  BY <1>1, ThrowUnit DEF OpenBraces, Throw
<1>2. CASE /\ Replace([Advanced(Top, 2) EXCEPT !.at = Kind(Top, 0)])
           /\ UNCHANGED <<content, files_set, errors, status>>
  <2> DEFINE q == Advanced(Top, 2)
             p == [q EXCEPT !.at = Kind(Top, 0)]
  <2>1. \A k \in {0, 1, 2} : k < 2 => Kind(Top, k) # "declaration"
    BY DEF OpenBraces, Keywords
  <2>2. Running /\ Kind(Top, 0) \in Keywords
    BY DEF OpenBraces
  <2>3. q \in Parser /\ q.path = Top.path /\ q.pos = Top.pos + 2 /\ q.nodes = Top.nodes
    BY <2>2, AtWork, AdvancedType
  <2> HIDE DEF q
  <2>4. p \in Parser /\ p.path = Top.path /\ p.pos = Top.pos + 2 /\ p.nodes = Top.nodes
    BY <2>2, <2>3 DEF Parser
  <2>5. Replace(p)
    BY <1>2 DEF q
  <2> HIDE DEF p
  <2> QED
    BY <1>2, <2>1, <2>2, <2>4, <2>5, Undeclared, GoesOnStep
<1> QED
  BY <1>1, <1>2 DEF OpenBraces

LEMMA CloseBracesUnit ==
  ASSUME IInv, UnitInv, CloseBraces
  PROVE  UnitInv'
<1> DEFINE n == Semicolons(1)
<1>0. Running /\ n \in {0, 1} /\ (n = 1 => Kind(Top, 1) = "semicolon")
  BY SemicolonsType DEF CloseBraces
<1>1. CASE Throw
  BY <1>0, <1>1, ThrowUnit DEF Throw
<1>2. CASE /\ Kind(Top, 0) = "close_brace" /\ Replace([Advanced(Top, 1 + n) EXCEPT !.at = "unit"])
           /\ UNCHANGED <<content, files_set, errors, status>>
  <2> DEFINE q == Advanced(Top, 1 + n)
             p == [q EXCEPT !.at = "unit"]
  <2>1. \A k \in {0, 1, 2} : k < 1 + n => Kind(Top, k) # "declaration"
    BY <1>0, <1>2
  <2>2. 1 + n \in {1, 2} /\ 1 + n \in {0, 1, 2, 3} /\ 1 + n \in Nat
    BY <1>0
  <2>3. q \in Parser /\ q.path = Top.path /\ q.pos = Top.pos + (1 + n) /\ q.nodes = Top.nodes
    BY <1>0, <2>2, AtWork, AdvancedType
  <2> HIDE DEF q
  <2>4. p \in Parser /\ p.path = Top.path /\ p.pos = Top.pos + (1 + n) /\ p.nodes = Top.nodes
    BY <2>3 DEF Parser
  <2>5. Replace(p)
    BY <1>2 DEF q
  <2> HIDE DEF p, n
  <2>6. /\ Top.pos <= p.pos
        /\ \A k \in Nat : Top.pos <= k /\ k < p.pos => Nth(Text(Top), k).kind # "declaration"
    BY <1>0, <2>1, <2>2, <2>4, Undeclared
  <2> QED
    BY <1>0, <1>2, <2>4, <2>5, <2>6, GoesOnStep
<1> QED
  BY <1>1, <1>2 DEF CloseBraces

LEMMA ParseOneUnit ==
  ASSUME IInv, UnitInv, parse_one
  PROVE  UnitInv'
<1> DEFINE n    == Semicolons(2)
           p    == Advanced(Top, 2 + n)
           path == library_path(Top.path, Kind(Top, 0), Nth(Text(Top), Top.pos + 1).name)
<1>0. /\ Running /\ Top.at = "unit" /\ n \in {0, 1} /\ (n = 1 => Kind(Top, 2) = "semicolon")
      /\ Kind(Top, 0) \in Keywords
  BY SemicolonsType DEF parse_one
<1>1. CASE Throw
  BY <1>0, <1>1, ThrowUnit DEF Throw
<1>2. CASE Kind(Top, 1) = "string" /\ Require(p, path) /\ UNCHANGED content
  <2>1. \A k \in {0, 1, 2} : k < 2 + n => Kind(Top, k) # "declaration"
    BY <1>0, <1>2 DEF Keywords
  <2>2. 2 + n \in {2, 3} /\ 2 + n \in {0, 1, 2, 3} /\ 2 + n \in Nat
    BY <1>0
  <2>3. p \in Parser /\ p.path = Top.path /\ p.pos = Top.pos + (2 + n) /\ p.nodes = Top.nodes
    BY <1>0, <2>2, AtWork, AdvancedType
  <2>4. path \in Path /\ path \in Named(Top.path, Text(Top))
    BY <1>0, <1>2, NextName
  <2>5. Require(p, path)
    BY <1>2
  <2> HIDE DEF p, n, path
  <2>6. /\ Top.pos <= p.pos
        /\ \A k \in Nat : Top.pos <= k /\ k < p.pos => Nth(Text(Top), k).kind # "declaration"
    BY <1>0, <2>1, <2>2, <2>3, Undeclared
  <2> QED
    BY <1>0, <1>2, <2>3, <2>4, <2>5, <2>6, RequireUnit
<1> QED
  BY <1>1, <1>2 DEF parse_one

LEMMA NameInBracesUnit ==
  ASSUME IInv, UnitInv, NameInBraces
  PROVE  UnitInv'
<1> DEFINE p    == Advanced(Top, 1)
           path == library_path(Top.path, Top.at, Nth(Text(Top), Top.pos).name)
<1>0. Running /\ Top.at \in Keywords /\ Top.at # "stopped"
  BY DEF NameInBraces, Keywords
<1>1. CASE Throw
  BY <1>0, <1>1, ThrowUnit DEF Throw
<1>2. CASE Kind(Top, 0) = "string" /\ Require(p, path) /\ UNCHANGED content
  <2>1. \A k \in {0, 1, 2} : k < 1 => Kind(Top, k) # "declaration"
    BY <1>2
  <2>2. p \in Parser /\ p.path = Top.path /\ p.pos = Top.pos + 1 /\ p.nodes = Top.nodes
    BY <1>0, AtWork, AdvancedType
  <2>3. path \in Path /\ path \in Named(Top.path, Text(Top))
    <3>1. Top.pos + 0 = Top.pos
      BY <1>0, AtWork
    <3> QED
      BY <1>0, <1>2, <3>1, NextName
  <2>4. Require(p, path)
    BY <1>2
  <2> HIDE DEF p, path
  <2>5. /\ Top.pos <= p.pos
        /\ \A k \in Nat : Top.pos <= k /\ k < p.pos => Nth(Text(Top), k).kind # "declaration"
    BY <1>0, <2>1, <2>2, Undeclared
  <2> QED
    BY <1>0, <1>2, <2>2, <2>3, <2>4, <2>5, RequireUnit
<1> QED
  BY <1>1, <1>2 DEF NameInBraces

LEMMA DeclarationUnit ==
  ASSUME IInv, UnitInv, Declaration
  PROVE  UnitInv'
<1>1. CASE Throw
  BY <1>1, ThrowUnit DEF Declaration, Throw
<1>2. CASE errors # 0 /\ UNCHANGED <<errors, status>>
  BY <1>2 DEF UnitInv, UnitComplete, Declaration, Running
<1>3. CASE /\ Replace([Advanced(Top, 1) EXCEPT !.nodes = Append(@, <<Top.path, Top.pos>>)])
           /\ UNCHANGED <<content, files_set, errors, status>> /\ errors = 0
  <2> DEFINE n == Len(parsers)
             q == Advanced(Top, 1)
             e == <<Top.path, Top.pos>>
             p == [q EXCEPT !.nodes = Append(@, e)]
  <2>1. /\ parsers \in Seq(Parser) /\ parsers # <<>> /\ n \in Nat \ {0}
        /\ Below \in Seq(Parser) /\ Len(Below) = n - 1 /\ \A i \in 1 .. n - 1 : Below[i] = parsers[i]
        /\ Top = parsers[n] /\ Top \in Parser /\ Text(Top) \in Seq(Token)
        /\ Good(Top, content, files_set, errors)
    BY TopType DEF Declaration, Running, IInv, TypeOK, Top
  <2>2. q \in Parser /\ q.path = Top.path /\ q.pos = Top.pos + 1 /\ q.nodes = Top.nodes
    BY <2>1, AdvancedType
  <2> HIDE DEF n, q
  <2>3. p \in Parser /\ p.path = Top.path /\ p.pos = Top.pos + 1 /\ p.nodes = Append(Top.nodes, e)
    <3>1. Append(Top.nodes, e) \in Seq(Path \X Nat)
      BY <2>1 DEF Parser
    <3> QED
      BY <2>2, <3>1 DEF Parser
  <2>4. parsers' = Append(Below, p)
    BY <1>3 DEF Replace, q
  <2> HIDE DEF p
  <2>5. PICK t : t = Append(Below, p)
    OBVIOUS
  <2>6. t \in Seq(Parser) /\ Len(t) = n /\ t[n] = p /\ \A i \in 1 .. n - 1 : t[i] = parsers[i]
    BY <2>1, <2>3, <2>5
  <2>7. Top.pos \in Declared(content[FileAt(Top.path)])
    <3>1. Nth(Text(Top), Top.pos).kind = "declaration" /\ Top.pos \in Nat
      <4>1. Top.pos \in Nat /\ Kind(Top, 0) = Nth(Text(Top), Top.pos + 0).kind /\ Top.pos + 0 = Top.pos
        BY AtWork DEF Declaration
      <4> QED
        BY <4>1 DEF Declaration
    <3>2. Top.pos \in DOMAIN Text(Top) /\ Text(Top)[Top.pos].kind = "declaration"
      BY <3>1 DEF Nth, EndOfFile
    <3> QED
      BY <3>2 DEF Declared, Text
  <2>8. /\ Top.path \in files_set
        /\ NamedBefore(Top.path, content[FileAt(Top.path)], Top.pos) \subseteq files_set
    BY <1>3, <2>1 DEF Good
  <2>9. \A path \in files_set : content[FileAt(path)] \in Seq(Token)
    BY ContentsAssumption DEF IInv, TypeOK, Served
  <2>10. \A i, j \in DOMAIN parsers : parsers[i].path = parsers[j].path => i = j
    BY DEF IInv, NeverTwice
  <2>11. Collected(parsers, content, files_set)
    BY <1>3 DEF UnitInv, Declaration, Running
  <2>12. Collected(t, content, files_set)
    BY <2>1, <2>3, <2>6, <2>7, <2>8, <2>9, <2>10, <2>11, DeclareCollected DEF n, e
  <2> QED
    BY <1>3, <2>4, <2>5, <2>12 DEF UnitInv, UnitComplete, Declaration, Running
<1> QED
  BY <1>1, <1>2, <1>3 DEF Declaration

\* A parser that is done has passed every declaration, unless there was an error.
LEMMA DonePassed ==
  ASSUME IInv, Running, Done(Top), errors = 0
  PROVE  \A k \in Declared(content[FileAt(Top.path)]) : k < Top.pos
<1>1. Good(Top, content, files_set, errors) /\ Top \in Parser /\ Text(Top) \in Seq(Token)
  BY TopType DEF Running
<1>2. Top.pos \in Nat \ {0} /\ Nth(Text(Top), Top.pos + 0).kind = "end" /\ Top.pos + 0 = Top.pos
  BY <1>1 DEF Good, Parser, Done, Kind
<1>3. Top.pos \notin DOMAIN Text(Top)
  <2> SUFFICES ASSUME Top.pos \in DOMAIN Text(Top) PROVE FALSE
    OBVIOUS
  <2>1. Text(Top)[Top.pos] \in Token
    BY <1>1
  <2>2. Text(Top)[Top.pos].kind \in Kinds /\ Text(Top)[Top.pos].kind = "end"
    BY <1>2, <2>1 DEF Nth, Token
  <2> QED
    BY <2>2 DEF Kinds, Keywords
<1> QED
  BY <1>1, <1>2, <1>3 DEF Declared, Text

LEMMA ReturnToParserUnit ==
  ASSUME IInv, UnitInv, ReturnToParser
  PROVE  UnitInv'
<1>1. CASE errors # 0
  BY <1>1 DEF UnitInv, UnitComplete, ReturnToParser, Running
<1>2. CASE errors = 0
  <2> DEFINE n == Len(parsers) - 1
             p == [Above EXCEPT !.nodes = @ \o Top.nodes]
  <2>1. /\ parsers \in Seq(Parser) /\ parsers # <<>> /\ n \in Nat \ {0} /\ Len(parsers) = n + 1
        /\ Below \in Seq(Parser) /\ Len(Below) = n /\ \A i \in 1 .. n : Below[i] = parsers[i]
        /\ Below # <<>> /\ Top = parsers[n + 1] /\ Running /\ Done(Top)
    <3>1. Running /\ Done(Top) /\ Len(parsers) > 1 /\ parsers # <<>> /\ parsers \in Seq(Parser)
      BY DEF ReturnToParser, Running, IInv, TypeOK
    <3> QED
      BY <3>1, TopType DEF Top
  <2> HIDE DEF n
  <2>2. /\ SubSeq(Below, 1, Len(Below) - 1) \in Seq(Parser) /\ Len(SubSeq(Below, 1, Len(Below) - 1)) = n - 1
        /\ \A i \in 1 .. n - 1 : SubSeq(Below, 1, Len(Below) - 1)[i] = parsers[i]
    <3>1. \A i \in 1 .. n - 1 : i \in 1 .. n
      BY <2>1
    <3> QED
      BY <2>1, <3>1, BelowType
  <2>3. Above = parsers[n] /\ parsers[n] \in Parser /\ parsers[n + 1] \in Parser
    BY <2>1 DEF Above
  <2>4. p \in Parser /\ p.path = parsers[n].path /\ p.pos = parsers[n].pos
        /\ p.nodes = parsers[n].nodes \o parsers[n + 1].nodes
    <3>1. parsers[n].nodes \in Seq(Path \X Nat) /\ parsers[n + 1].nodes \in Seq(Path \X Nat)
      BY <2>3 DEF Parser
    <3>2. parsers[n].nodes \o parsers[n + 1].nodes \in Seq(Path \X Nat)
      BY <3>1, ConcatProperties
    <3> QED
      BY <2>1, <2>3, <3>2 DEF Parser
  <2>5. parsers' = Append(SubSeq(Below, 1, Len(Below) - 1), p)
    BY <1>2 DEF ReturnToParser, ReturnTo
  <2> HIDE DEF p
  <2>6. PICK t : t = Append(SubSeq(Below, 1, Len(Below) - 1), p)
    OBVIOUS
  <2>7. t \in Seq(Parser) /\ Len(t) = n /\ t[n] = p /\ \A i \in 1 .. n - 1 : t[i] = parsers[i]
    BY <2>1, <2>2, <2>4, <2>6
  <2>8. \A k \in Declared(content[FileAt(parsers[n + 1].path)]) : k < parsers[n + 1].pos
    BY <1>2, <2>1, DonePassed
  <2>9. Collected(parsers, content, files_set)
    BY <1>2 DEF UnitInv, ReturnToParser, Running
  <2>10. Collected(t, content, files_set)
    BY <2>1, <2>4, <2>7, <2>8, <2>9, PopCollected
  <2> QED
    BY <1>2, <2>5, <2>6, <2>10 DEF UnitInv, UnitComplete, ReturnToParser, Running
<1> QED
  BY <1>1, <1>2

\* The outermost parser is done: its nodes are all declarations of all files.
LEMMA ReturnToDriverUnit ==
  ASSUME IInv, UnitInv, ReturnToDriver
  PROVE  UnitInv'
<1>1. status' # "running"
  BY DEF ReturnToDriver
<1>2. CASE errors # 0
  BY <1>1, <1>2 DEF UnitInv, UnitComplete, ReturnToDriver, IInv, TypeOK
<1>3. CASE errors = 0
  <2>1. /\ parsers \in Seq(Parser) /\ DOMAIN parsers = {1} /\ Top = parsers[1]
        /\ Running /\ Done(Top) /\ status = "running"
        /\ unit' = Top.nodes /\ content' = content /\ files_set' = files_set
    <3>1. parsers \in Seq(Parser) /\ Len(parsers) = 1
      BY DEF IInv, TypeOK, ReturnToDriver
    <3> QED
      BY <1>3, <3>1 DEF ReturnToDriver, Running, Top
  <2>2. Collected(parsers, content, files_set)
    BY <1>3, <2>1 DEF UnitInv
  <2>3. \A path \in files_set : \A k \in Declared(content[FileAt(path)]) : Passed(parsers, path, k)
    BY <1>3, <2>1, DonePassed DEF Passed
  <2>4. PICK u : u = Top.nodes
    OBVIOUS
  <2>5. \A i \in DOMAIN u : \E path \in files_set : \E k \in Declared(content[FileAt(path)]) : u[i] = <<path, k>>
    BY <2>1, <2>2, <2>4 DEF Collected, AllTaken
  <2>6. \A path \in files_set : \A k \in Declared(content[FileAt(path)]) : \E i \in DOMAIN u : u[i] = <<path, k>>
    BY <2>1, <2>2, <2>3, <2>4 DEF Collected, Kept, Has
  <2>7. {u[i] : i \in DOMAIN u} = UNION {{path} \X Declared(content[FileAt(path)]) : path \in files_set}
    <3>1. ASSUME NEW x, x \in {u[i] : i \in DOMAIN u}
          PROVE  x \in UNION {{path} \X Declared(content[FileAt(path)]) : path \in files_set}
      <4>1. PICK path \in files_set : \E k \in Declared(content[FileAt(path)]) : x = <<path, k>>
        BY <2>5, <3>1
      <4>2. x \in {path} \X Declared(content[FileAt(path)])
        BY <4>1
      <4> QED
        BY <4>2
    <3>2. ASSUME NEW x, x \in UNION {{path} \X Declared(content[FileAt(path)]) : path \in files_set}
          PROVE  x \in {u[i] : i \in DOMAIN u}
      <4>1. PICK path \in files_set : x \in {path} \X Declared(content[FileAt(path)])
        BY <3>2
      <4>2. PICK k \in Declared(content[FileAt(path)]) : x = <<path, k>>
        BY <4>1
      <4> QED
        BY <2>6, <4>2
    <3> QED
      BY <3>1, <3>2
  <2>8. ASSUME NEW i \in DOMAIN u, NEW j \in DOMAIN u, i < j
        PROVE  InOrder(content, u[i], u[j])
    BY <2>1, <2>2, <2>4, <2>8 DEF Collected, Sorted
  <2>9. ASSUME NEW from, NEW to, Leads(content, from, to)
        PROVE  Reaches(from, to)
    BY <2>9 DEF Leads, Reaches
  <2>10. \A i, j \in DOMAIN u :
           i < j =>
             /\ u[i][1] = u[j][1] => u[i][2] < u[j][2]
             /\ u[j][1] \in NamedBefore(u[i][1], content[FileAt(u[i][1])], u[i][2]) => Reaches(u[j][1], u[i][1])
    BY <2>8, <2>9 DEF InOrder
  <2>11. unit' = u
    BY <2>1, <2>4
  <2>12. \A from, to : Reaches(from, to)' <=> Reaches(from, to)
    BY <2>1 DEF Reaches
  <2>13. UnitComplete'
    BY <2>1, <2>7, <2>10, <2>11, <2>12 DEF UnitComplete
  <2> QED
    BY <1>1, <2>13 DEF UnitInv
<1> QED
  BY <1>2, <1>3

LEMMA ParseSourceCodeUnit ==
  ASSUME IInv, parse_source_code
  PROVE  UnitInv'
<1>1. PICK path \in MainPaths : register_source_path(path) /\ parsers' = <<NewParser(path)>>
  BY DEF parse_source_code
<1>2. path \in Path /\ FileAt(path) \in Files /\ content[FileAt(path)] \in Seq(Token)
  BY MainAssumption, ContentsAssumption DEF IInv, TypeOK
<1>3. files_set = {} /\ files_set' = {path} /\ content' = content /\ status' = "running"
  BY <1>1 DEF parse_source_code, register_source_path, IInv, NeverTwice
<1>4. NewParser(path) \in Parser
  <2>1. <<>> \in Seq(Path \X Nat)
    OBVIOUS
  <2> QED
    BY <1>2, <2>1 DEF NewParser, Parser
<1>5. PICK s : s = <<>>
  OBVIOUS
<1>6. PICK t : t = <<NewParser(path)>>
  OBVIOUS
<1>7. s \in Seq(Parser) /\ Len(s) = 0 /\ DOMAIN s = {}
      /\ t \in Seq(Parser) /\ Len(t) = 1 /\ t[1] = NewParser(path)
  BY <1>4, <1>5, <1>6
<1>8. Collected(s, content, {})
  BY <1>7 DEF Collected, AllTaken, Kept, Sorted, Chained
<1>9. Collected(t, content, {} \cup {path})
  <2>1. 0 \in Nat /\ 0 + 1 = 1 /\ 1 .. 0 = {} /\ path \notin {}
    OBVIOUS
  <2>2. Len(t) = 0 + 1 /\ t[0 + 1] = NewParser(path)
    BY <1>7, <2>1
  <2>3. \A i \in 1 .. 0 : t[i] = s[i] /\ s[i].path \in {}
    BY <2>1
  <2> QED
    BY <1>2, <1>7, <1>8, <2>1, <2>2, <2>3, PushCollected
<1>10. {} \cup {path} = files_set'
  BY <1>3
<1> QED
  BY <1>1, <1>3, <1>6, <1>9, <1>10 DEF UnitInv, UnitComplete

\* A path is read once, whatever cycles the files form, and the unit that the
\* driver gets has every declaration of every file that was opened, in the order of
\* its file and behind those of the files named before it: parse_compilation_unit
\* loses, repeats and displaces none while it parses files within files.
THEOREM UnitIsComplete == Spec => []ReadOnce
<1>1. Init => UnitInv
  BY DEF Init, UnitInv, UnitComplete, Collected, AllTaken, Kept, Sorted, Chained
<1>2. IInv /\ UnitInv /\ [Next]_vars => UnitInv'
  <2> SUFFICES ASSUME IInv, UnitInv, [Next]_vars PROVE UnitInv'
    OBVIOUS
  <2>1. CASE parse_source_code
    BY <2>1, ParseSourceCodeUnit
  <2>2. CASE Begin
    BY <2>2, BeginUnit
  <2>3. CASE Declaration
    BY <2>3, DeclarationUnit
  <2>4. CASE TypeAlias
    BY <2>4, TypeAliasUnit
  <2>5. CASE NotADeclaration
    BY <2>5, ThrowUnit DEF NotADeclaration, Throw
  <2>6. CASE parse_one
    BY <2>6, ParseOneUnit
  <2>7. CASE OpenBraces
    BY <2>7, OpenBracesUnit
  <2>8. CASE NameInBraces
    BY <2>8, NameInBracesUnit
  <2>9. CASE CloseBraces
    BY <2>9, CloseBracesUnit
  <2>10. CASE ReturnToParser
    BY <2>10, ReturnToParserUnit
  <2>11. CASE ReturnToDriver
    BY <2>11, ReturnToDriverUnit
  <2>12. CASE UNCHANGED vars
    BY <2>12 DEF vars, UnitInv, UnitComplete, Reaches
  <2> QED
    BY <2>1, <2>2, <2>3, <2>4, <2>5, <2>6, <2>7, <2>8, <2>9, <2>10, <2>11, <2>12 DEF Next, Finished
<1>3. IInv /\ UnitInv => ReadOnce
  BY DEF IInv, UnitInv, ReadOnce
<1> QED
  BY <1>1, <1>2, <1>3, Invariance, PTL DEF Spec
=============================================================================
