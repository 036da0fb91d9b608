---------------------------- MODULE SourceLoading ----------------------------
(***************************************************************************)
(* Parsing a program made of several files: the driver parses the main     *)
(* file (parse_source_code), and a parser that meets `import` or `load`    *)
(* runs a new parser on the file named there, in the middle of its own     *)
(* work (parse_single_source_file).  They share the source manager, the    *)
(* diagnostics and the table of type aliases through the context.          *)
(*                                                                         *)
(* The C++ call stack is the variable parsers.  Each parser sees its own   *)
(* text through two tokens of look-ahead.  An error is reported once,      *)
(* where it is met, and then thrown: parse_compilation_unit catches it and *)
(* returns, and parse_single_source_file throws again in the parser above  *)
(* because the count of errors is not zero.                                *)
(*                                                                         *)
(* Abstracted: declarations are one token and one node.                    *)
(***************************************************************************)
EXTENDS SourceTexts, FiniteSets

CONSTANTS
  should_report_warns,  \* the option -w
  Primitives            \* the names of primitive types

ASSUME WarnsAssumption == should_report_warns \in BOOLEAN
ASSUME PrimitivesAssumption == Primitives \subseteq Path

VARIABLES
  content,    \* the text of every file; never changes
  parsers,    \* parse_compilation_unit calls in progress, outermost first
  files_map,  \* source manager: the path of each source id, from 0
  files_set,  \* source manager: the registered paths
  aliases,    \* names in type_alias_table
  errors,     \* number of errors in the diagnostics
  warnings,   \* number of warnings in the diagnostics
  unit,       \* the nodes of the compilation unit returned to the driver
  status      \* "running", "parsed", "failed" (exit) or "crashed" (terminate)

vars == <<content, parsers, files_map, files_set, aliases, errors, warnings, unit, status>>

\* at is "start" before the first two tokens, "unit" between declarations, a
\* keyword inside the braces of an import or load, "stopped" after an error.
\* pos is the index of current_token in the text.
Parser == [path : Path, pos : Nat, at : {"start", "unit", "stopped"} \cup Keywords, nodes : Seq(Path \X Nat)]

Top       == parsers[Len(parsers)]
Below     == SubSeq(parsers, 1, Len(parsers) - 1)
Text(p)   == content[FileAt(p.path)]
Kind(p, k) == Nth(Text(p), p.pos + k).kind
Running   == status = "running" /\ parsers # <<>>

\* The n next calls of advanced_token: each scans the token after next_token.
Advanced(p, n) == [p EXCEPT !.pos = @ + n]
Advances(p, n) == \A k \in 1 .. n : Kind(p, k + 1) # "invalid"

Replace(p) == parsers' = Append(Below, p)

\* report_error and throw "Stop".
Throw ==
  /\ errors' = errors + 1
  /\ Replace([Top EXCEPT !.at = "stopped"])
  /\ UNCHANGED <<content, files_map, files_set, aliases, unit, status>>

-----------------------------------------------------------------------------
(* Opening a file: register_source_path and a new parser.                  *)

register_source_path(path) ==
  /\ files_map' = Append(files_map, path)
  /\ files_set' = files_set \cup {path}

NewParser(path) == [path |-> path, pos |-> 1, at |-> "start", nodes |-> <<>>]

\* parse_source_code; a main file that does not exist has already been refused.
parse_source_code ==
  /\ status = "running" /\ files_map = <<>>
  /\ \E path \in MainPaths :
       /\ register_source_path(path)
       /\ parsers' = <<NewParser(path)>>
  /\ UNCHANGED <<content, aliases, errors, warnings, unit, status>>

\* The four ways an import or load of one name ends for the parser p that has
\* read it.  std::filesystem::exists throws on a path that is too long, and what
\* it throws is not the `const char*` that the parsers catch.
Skip(p) ==
  Replace(p) /\ UNCHANGED <<files_map, files_set, errors, status>>

TooLong ==
  status' = "crashed" /\ UNCHANGED <<parsers, files_map, files_set, errors>>

Missing(p) ==
  /\ errors' = errors + 1
  /\ Replace([p EXCEPT !.at = "stopped"])
  /\ UNCHANGED <<files_map, files_set, status>>

parse_single_source_file(p, path) ==
  /\ register_source_path(path)
  /\ parsers' = Append(Below, p) \o <<NewParser(path)>>
  /\ UNCHANGED <<errors, status>>

\* Mutants: the path is not looked up among the registered ones; a file that is
\* missing is parsed, passed over, or ends the program.
ParsesAgain(p, path) ==
  IF FileAt(path) \in Files THEN parse_single_source_file(p, path) ELSE Missing(p)
ParsesMissing(p, path) ==
  IF path \in files_set THEN Skip(p) ELSE parse_single_source_file(p, path)
SkipsMissing(p, path) ==
  IF path \in files_set \/ FileAt(path) \notin Files THEN Skip(p) ELSE parse_single_source_file(p, path)
MissingThrows(p, path) ==
  CASE path \in files_set -> Skip(p)
    [] path \notin files_set /\ FileAt(path) \notin Files -> TooLong
    [] OTHER -> parse_single_source_file(p, path)

Require(p, path) ==
  \/ path \in files_set /\ Skip(p)
  \/ /\ path \notin files_set
     /\ \/ Len(path) > PathMax /\ TooLong
        \/ Len(path) <= PathMax /\ FileAt(path) \notin Files /\ Missing(p)
        \/ Len(path) <= PathMax /\ FileAt(path) \in Files /\ parse_single_source_file(p, path)

-----------------------------------------------------------------------------
(* A parser at work.                                                       *)

\* The first two tokens.
Begin ==
  /\ Running /\ Top.at = "start"
  /\ IF "invalid" \in {Kind(Top, 0), Kind(Top, 1)}
     THEN Throw /\ UNCHANGED warnings
     ELSE Replace([Top EXCEPT !.at = "unit"])
          /\ UNCHANGED <<content, files_map, files_set, aliases, errors, warnings, unit, status>>

\* A declaration, which is one node of the unit.
Declaration ==
  /\ Running /\ Top.at = "unit" /\ Kind(Top, 0) = "declaration"
  /\ IF Advances(Top, 1)
     THEN Replace([Advanced(Top, 1) EXCEPT !.nodes = Append(@, <<Top.path, Top.pos>>)])
          /\ UNCHANGED <<content, files_map, files_set, aliases, errors, warnings, unit, status>>
     ELSE Throw /\ UNCHANGED warnings

\* Mutant: a second alias of the same name is not refused.
Redefines ==
  /\ Running /\ Top.at = "unit" /\ Kind(Top, 0) = "type"
  /\ IF Advances(Top, 1)
     THEN /\ Replace(Advanced(Top, 1))
          /\ aliases' = aliases \cup {Nth(Text(Top), Top.pos).name}
          /\ UNCHANGED <<content, files_map, files_set, errors, warnings, unit, status>>
     ELSE Throw /\ UNCHANGED warnings

\* parse_type_alias_declaration.
TypeAlias ==
  /\ Running /\ Top.at = "unit" /\ Kind(Top, 0) = "type"
  /\ LET name == Nth(Text(Top), Top.pos).name
     IN IF name \notin aliases /\ Advances(Top, 1)
        THEN /\ Replace(Advanced(Top, 1))
             /\ aliases' = aliases \cup {name}
             /\ UNCHANGED <<content, files_map, files_set, errors, warnings, unit, status>>
        ELSE Throw /\ UNCHANGED warnings

\* parse_declaration_statement on a token no declaration starts with.
NotADeclaration ==
  /\ Running /\ Top.at = "unit" /\ Kind(Top, 0) \in {"string", "open_brace", "close_brace", "semicolon"}
  /\ Throw /\ UNCHANGED warnings

\* check_unnecessary_semicolon_warning, k tokens ahead: tokens it advances, and
\* what it reports.
Semicolons(k) == IF Kind(Top, k) = "semicolon" THEN 1 ELSE 0
Warn(n) == warnings' = warnings + (IF should_report_warns THEN n ELSE 0)

\* import "name" or load "name".
parse_one ==
  /\ Running /\ Top.at = "unit" /\ Kind(Top, 0) \in Keywords /\ Kind(Top, 1) # "open_brace"
  /\ LET n    == Semicolons(2)
         path == library_path(Top.path, Kind(Top, 0), Nth(Text(Top), Top.pos + 1).name)
     IN IF Kind(Top, 1) = "string" /\ Advances(Top, 2 + n)
        THEN Require(Advanced(Top, 2 + n), path) /\ Warn(n) /\ UNCHANGED <<content, aliases, unit>>
        ELSE Throw /\ UNCHANGED warnings

\* import { or load {
OpenBraces ==
  /\ Running /\ Top.at = "unit" /\ Kind(Top, 0) \in Keywords /\ Kind(Top, 1) = "open_brace"
  /\ IF Advances(Top, 2)
     THEN Replace([Advanced(Top, 2) EXCEPT !.at = Kind(Top, 0)])
          /\ UNCHANGED <<content, files_map, files_set, aliases, errors, warnings, unit, status>>
     ELSE Throw /\ UNCHANGED warnings

\* Mutant: a registered file is skipped before its name is consumed.
NameStays ==
  /\ Running /\ Top.at \in Keywords /\ Kind(Top, 0) \notin {"close_brace", "end"}
  /\ LET path == library_path(Top.path, Top.at, Nth(Text(Top), Top.pos).name)
     IN IF Kind(Top, 0) = "string" /\ Advances(Top, 1)
        THEN Require(IF path \in files_set THEN Top ELSE Advanced(Top, 1), path)
             /\ UNCHANGED <<content, aliases, warnings, unit>>
        ELSE Throw /\ UNCHANGED warnings

\* One name between the braces.
NameInBraces ==
  /\ Running /\ Top.at \in Keywords /\ Kind(Top, 0) \notin {"close_brace", "end"}
  /\ IF Kind(Top, 0) = "string" /\ Advances(Top, 1)
     THEN Require(Advanced(Top, 1), library_path(Top.path, Top.at, Nth(Text(Top), Top.pos).name))
          /\ UNCHANGED <<content, aliases, warnings, unit>>
     ELSE Throw /\ UNCHANGED warnings

CloseBraces ==
  /\ Running /\ Top.at \in Keywords /\ Kind(Top, 0) \in {"close_brace", "end"}
  /\ LET n == Semicolons(1)
     IN IF Kind(Top, 0) = "close_brace" /\ Advances(Top, 1 + n)
        THEN /\ Replace([Advanced(Top, 1 + n) EXCEPT !.at = "unit"])
             /\ Warn(n)
             /\ UNCHANGED <<content, files_map, files_set, aliases, errors, unit, status>>
        ELSE Throw /\ UNCHANGED warnings

-----------------------------------------------------------------------------
(* The return of parse_compilation_unit.                                   *)

Done(p) == p.at = "stopped" \/ (p.at = "unit" /\ Kind(p, 0) = "end")

Above == Below[Len(Below)]
ReturnTo(p) == parsers' = Append(SubSeq(Below, 1, Len(Below) - 1), p)

\* Mutants: the errors of the file are not looked at; its nodes come first, or
\* take the place of the ones before.
IgnoresErrors ==
  /\ Running /\ Done(Top) /\ Len(parsers) > 1
  /\ ReturnTo([Above EXCEPT !.nodes = @ \o Top.nodes])
  /\ UNCHANGED <<content, files_map, files_set, aliases, errors, warnings, unit, status>>
NodesFirst ==
  /\ Running /\ Done(Top) /\ Len(parsers) > 1
  /\ ReturnTo(IF errors > 0 THEN [Above EXCEPT !.at = "stopped"]
                            ELSE [Above EXCEPT !.nodes = Top.nodes \o @])
  /\ UNCHANGED <<content, files_map, files_set, aliases, errors, warnings, unit, status>>

KeepsInner ==
  /\ Running /\ Done(Top) /\ Len(parsers) > 1
  /\ ReturnTo(IF errors > 0 THEN [Above EXCEPT !.at = "stopped"]
                            ELSE [Above EXCEPT !.nodes = Top.nodes])
  /\ UNCHANGED <<content, files_map, files_set, aliases, errors, warnings, unit, status>>

\* To parse_single_source_file, and from there to the parser above.
ReturnToParser ==
  /\ Running /\ Done(Top) /\ Len(parsers) > 1
  /\ ReturnTo(IF errors > 0 THEN [Above EXCEPT !.at = "stopped"]
                            ELSE [Above EXCEPT !.nodes = @ \o Top.nodes])
  /\ UNCHANGED <<content, files_map, files_set, aliases, errors, warnings, unit, status>>

\* To parse_source_code, which reports the errors and exits if there are any.
ReturnToDriver ==
  /\ Running /\ Done(Top) /\ Len(parsers) = 1
  /\ parsers' = <<>>
  /\ IF errors > 0
     THEN status' = "failed" /\ UNCHANGED unit
     ELSE status' = "parsed" /\ unit' = Top.nodes
  /\ UNCHANGED <<content, files_map, files_set, aliases, errors, warnings>>

Init ==
  /\ content \in Contents
  /\ parsers = <<>> /\ files_map = <<>> /\ files_set = {} /\ aliases = Primitives
  /\ errors = 0 /\ warnings = 0 /\ unit = <<>> /\ status = "running"

\* The exit of the process is no deadlock.
Finished == status # "running" /\ UNCHANGED vars

Next ==
  \/ parse_source_code \/ Begin \/ Declaration \/ TypeAlias \/ NotADeclaration
  \/ parse_one \/ OpenBraces \/ NameInBraces \/ CloseBraces
  \/ ReturnToParser \/ ReturnToDriver \/ Finished

\* The compiler is one thread that never waits, so a step that can be taken is.
Spec == Init /\ [][Next]_vars /\ WF_vars(Next)

-----------------------------------------------------------------------------
(* Properties.                                                             *)

\* The variables have their types; every parser reads a file that exists.
TypeOK ==
  /\ content \in Contents
  /\ parsers \in Seq(Parser)
  /\ \A i \in DOMAIN parsers : FileAt(parsers[i].path) \in Files
  /\ files_map \in Seq(Path)
  /\ aliases \subseteq Path
  /\ errors \in Nat /\ warnings \in Nat
  /\ unit \in Seq(Path \X Nat)
  /\ status \in {"running", "parsed", "failed", "crashed"}

\* A path gets one source id (register_source_path is called for a path only
\* once), so that no file is parsed again, or inside itself, under one path.
NeverTwice ==
  /\ files_set = {files_map[i] : i \in DOMAIN files_map}
  /\ \A i, j \in DOMAIN files_map : files_map[i] = files_map[j] => i = j
  /\ \A i, j \in DOMAIN parsers : parsers[i].path = parsers[j].path => i = j

\* The places of the declarations of a text.
Declared(text) == {k \in DOMAIN text : text[k].kind = "declaration"}

\* A file reaches another one by the names in it and in the files they lead to.
Reaches(from, to) ==
  \A paths \in SUBSET files_set :
    from \in paths /\ (\A path \in paths : Named(path, content[FileAt(path)]) \subseteq paths) => to \in paths

\* The unit the driver gets has every declaration of every file that was opened,
\* once, in the order of its file, and behind all those of the files that its own
\* file named before it, except where the files form a cycle: a file that reaches
\* the one that names it may still be in the middle of its own text.
UnitComplete ==
  status = "parsed" =>
    /\ {unit[i] : i \in DOMAIN unit} = UNION {{path} \X Declared(content[FileAt(path)]) : path \in files_set}
    /\ \A i, j \in DOMAIN unit :
         i < j =>
           /\ unit[i][1] = unit[j][1] => unit[i][2] < unit[j][2]
           /\ unit[j][1] \in NamedBefore(unit[i][1], content[FileAt(unit[i][1])], unit[i][2])
                => Reaches(unit[j][1], unit[i][1])

\* Each file is read once, and nothing of what is read is lost.
ReadOnce == NeverTwice /\ UnitComplete

\* While there are no errors, exactly the parsers of the file tree are at work;
\* the first error stops all of them: no parser reads on, opens a file, defines
\* an alias or reports a second error, and the program fails.
OneError ==
  /\ errors \in {0, 1}
  /\ parsers # <<>> => (errors = 1 <=> Top.at = "stopped")
  /\ status = "failed" <=> errors = 1 /\ parsers = <<>>

\* From the first error on, the parsers only return.
ErrorStops ==
  [][errors = 1 =>
       /\ UNCHANGED <<files_map, aliases, warnings, unit>>
       /\ Len(parsers') = Len(parsers) - 1]_vars

\* Loading opens the closure of the main file, each path once: what the parsers
\* do together implements FileClosure.
Closure == INSTANCE FileClosure WITH opened <- files_set, outcome <- status
OpensClosure == Closure!Spec

\* Parsing ends, whatever cycles the files form.
Terminates == <>(status # "running")
=============================================================================
