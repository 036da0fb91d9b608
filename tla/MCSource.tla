------------------------------- MODULE MCSource -------------------------------
(***************************************************************************)
(* SourceLoading on a disk of four files, for many contents of them, with  *)
(* a reference definition of the program the files make together.          *)
(***************************************************************************)
EXTENDS SourceLoading, SequencesExt

-----------------------------------------------------------------------------
(* The disk.  The compiler runs in /w/src, main.amun and a.amun are there, *)
(* b.amun in a directory below and c.amun in the library.                  *)

AllNames == {"main", "a", "b", "c", "dir", "src", "lib", "alias", "int32", "nothing", ".", ".."}
AllFiles == {"main", "a", "b", "c"}
Nowhere  == "no file"

\* The directories a path goes through exist, so ".." is the one above.
RECURSIVE Resolve(_, _)
Resolve(place, path) ==
  IF path = <<>> THEN place
  ELSE Resolve(CASE path[1] = ".." -> Front(place)
                 [] path[1] = "."  -> place
                 [] OTHER          -> Append(place, path[1]), Tail(path))

LookUp(path) ==
  LET place == Resolve(<<"w", "src">>, path)
  IN CASE place = <<"w", "src", "main">>     -> "main"
       [] place = <<"w", "src", "a">>        -> "a"
       [] place = <<"w", "src", "dir", "b">> -> "b"
       [] place = <<"w", "lib", "c">>        -> "c"
       [] OTHER                              -> Nowhere

Main     == {<<"main">>}
DotMain  == {<<"main">>, <<".", "main">>}

-----------------------------------------------------------------------------
(* Texts, item by item.                                                    *)

T(kind)   == [kind |-> kind, name |-> <<>>]
Str(name) == [kind |-> "string", name |-> name]

Decl      == <<T("declaration")>>
TypeName(name) == <<[kind |-> "type", name |-> <<name>>]>>
Alias     == TypeName("alias")
One(keyword, name)    == <<T(keyword), Str(name)>>
Block(keyword, names) == <<T(keyword), T("open_brace")>> \o [i \in DOMAIN names |-> Str(names[i])] \o <<T("close_brace")>>
Semi      == <<T("semicolon")>>


\* Every text of at most n of the items.
TextsOf(items, n) == {FlattenSeq(is) : is \in BoundedSeq(items, n)}

\* What the parser refuses: a token that does not belong there, at every place
\* the look-ahead distinguishes.
Invalid  == <<T("invalid")>>
Faulty   == {Invalid, Decl \o Invalid, Semi, One("load", <<"a">>) \o Semi \o Semi,
             <<T("load")>> \o Decl, <<T("import"), T("open_brace"), T("declaration")>>,
             <<T("load"), T("open_brace"), Str(<<"a">>)>>, One("load", <<"a">>) \o Decl \o Invalid}

\* Names without "..": from main, from a, from dir/b, and in the library.
PlainItems(f) ==
  {Decl, Alias} \cup
  CASE f = "main" -> {One("load", <<"a">>), One("import", <<"c">>) \o Semi,
                      Block("load", <<<<"dir", "b">>, <<"a">>, <<"main">>>>) \o Semi}
    [] f = "a"    -> {One("load", <<"dir", "b">>), Block("import", <<<<"c">>, <<"c">>>>), One("load", <<"main">>) \o Decl}
    [] f = "b"    -> {One("load", <<"b">>), One("import", <<"c">>), One("load", <<"nothing">>)}
    [] f = "c"    -> {One("load", <<"c">>) \o Semi, TypeName("int32")}


Texts(items(_), f) == TextsOf(items(f), IF f = "main" THEN 2 ELSE 1)
Disk(items(_), faulty) ==
  [main : Texts(items, "main"), a : Texts(items, "a") \cup faulty,
   b : Texts(items, "b"), c : Texts(items, "c")]

PlainContents  == Disk(PlainItems, Faulty)

\* Names that go up again: files reach each other under many paths.
ParentItems(f) ==
  {Decl} \cup
  CASE f = "main" -> {One("load", <<"a">>), One("import", <<"c">>), One("load", <<"dir", "b">>)}
    [] f = "a"    -> {One("load", <<"dir", "b">>), One("load", <<"dir", "..", "main">>)}
    [] f = "b"    -> {Block("load", <<<<"..", "a">>, <<"..", "a">>>>), Block("load", <<<<"..", "main">>, <<"..", "dir", "b">>>>)}
    [] f = "c"    -> {One("load", <<"..", "src", "main">>), One("load", <<"nothing">>)}

ParentContents == Disk(ParentItems, {})

-----------------------------------------------------------------------------
(* The reference: the program is the text of the main file, with the text  *)
(* of a file in the place where its path is named for the first time.      *)

WellFormed == TextsOf(UNION {PlainItems(f) \cup ParentItems(f) : f \in AllFiles}, 2)

RECURSIVE Expand(_, _, _)
Expand(path, i, before) ==
  LET text == content[FileAt(path)]
      name == library_path(path, KeywordOf(text, i), text[i].name)
      after ==
        CASE text[i].kind = "declaration" -> [before EXCEPT !.nodes = Append(@, <<path, i>>)]
          [] text[i].kind = "semicolon"           -> [before EXCEPT !.semicolons = @ + 1]
          [] text[i].kind = "string" /\ name \notin before.opened /\ FileAt(name) \in Files ->
               Expand(name, 1, [before EXCEPT !.opened = @ \cup {name}])
          [] OTHER -> before
  IN IF i > Len(text) THEN before ELSE Expand(path, i + 1, after)

Program ==
  Expand(files_map[1], 1, [nodes |-> <<>>, opened |-> {files_map[1]}, semicolons |-> 0])

Int32 == {<<"int32">>}
AliasPlaces(path) == {<<path, i>> : i \in {k \in DOMAIN content[FileAt(path)] : content[FileAt(path)][k].kind = "type"}}

\* What is wrong with a program: a malformed file, a file that is not there, or
\* an alias defined twice, or with the name of a primitive.
Wrong(paths) ==
  \/ \E path \in paths : content[FileAt(path)] \notin WellFormed
  \/ \E path \in paths : \E name \in Named(path, content[FileAt(path)]) : FileAt(name) \notin Files
  \/ \E path \in paths, name \in Primitives : TypeName(name[1])[1] \in Range(content[FileAt(path)])
  \/ Cardinality(UNION {AliasPlaces(path) : path \in paths}) > 1

\* A program that is parsed is the expansion of its main file, with a warning
\* for each unnecessary semicolon in it.
ResultExpanded ==
  status = "parsed" =>
    /\ unit = Program.nodes
    /\ warnings = IF should_report_warns THEN Program.semicolons ELSE 0

\* An error anywhere in the program reaches the driver, and only an error does.
FailsForReason ==
  status \in {"parsed", "failed"} => (status = "failed" <=> Wrong(Program.opened))

\* Without ".." in the names, no file has two paths: each is parsed once.
FilesOnce ==
  \A p, q \in files_set : FileAt(p) = FileAt(q) => p = q

\* What the driver ends with: the expansion of the main file, each file of it parsed
\* once, or an error if there is a reason for one.
OutcomeMeant == ResultExpanded /\ FailsForReason /\ FilesOnce

\* With ".." a cycle of files is parsed again and again under longer paths until
\* the system refuses one, but only a cycle is (a file then stands above itself); any
\* other program is still the expansion of its main file, path by path.
CrashOnlyOnCycle ==
  /\ ResultExpanded
  /\ status = "crashed" => \E i, j \in DOMAIN parsers :
                             i # j /\ FileAt(parsers[i].path) = FileAt(parsers[j].path)
=============================================================================
