------------------------------- MODULE MCDriver -------------------------------
(***************************************************************************)
(* Driver with one source file, every command and short lists of options.  *)
(***************************************************************************)
EXTENDS Driver, SequencesExt

AllWords   == {"compile", "object", "emit-ir", "check", "create", "version",
               "main.amun", "app", "output", "-o", "-w", "-werr", "-l"}
OneSource  == {"main.amun"}

\* Every list of up to two options, and the ones that test where a flag stands.
OptionLists ==
  BoundedSeq({"-o", "-w", "-werr", "-l", "app"}, 2) \cup
  {<<"-o", "app", "-werr">>, <<"-werr", "-o", "app">>, <<"-o", "-o", "-o">>, <<"-o", "-o", "app">>,
   <<"-o", "-w", "-w">>, <<"-w", "-o", "-w">>, <<"-o", "app", "-o", "output">>, <<"-w", "-l", "-w">>,
   <<"-l", "-l", "-o">>, <<"-werr", "-w", "-werr">>, <<"-o", "-l", "-l", "-o">>, <<"-o", "app", "-l", "-o">>}

AllArgLists ==
  {<<command, "main.amun">> \o list : command \in OptionCommands, list \in OptionLists}
    \cup {<<command, "main.amun", "-o", "main.amun">> : command \in OptionCommands}
    \cup {<<"check", "main.amun">>, <<"check", "main.amun", "-werr">>, <<"check", "app">>, <<"compile", "output">>}
    \cup {<<>>, <<"app">>, <<"version">>, <<"object">>, <<"create">>, <<"create", "app">>, <<"create", "main.amun">>}

\* A good text, and good texts with one thing changed.
Good == [id |-> 3, parse |-> "ok", semicolons |-> 0, check |-> 0, warnings |-> 0, generate |-> "ok", main |-> TRUE]
SomePrograms ==
  {Good, [Good EXCEPT !.id = 4], [Good EXCEPT !.parse = "error"], [Good EXCEPT !.parse = "aborts"],
   [Good EXCEPT !.semicolons = 1], [Good EXCEPT !.check = 1], [Good EXCEPT !.warnings = 1],
   [Good EXCEPT !.generate = "throws"], [Good EXCEPT !.generate = "exits"], [Good EXCEPT !.main = FALSE]}

\* Success, exit status 1 of the linker, its end by a signal, no process.
SomeStatuses == {0, 256, 2, -1}
=============================================================================
