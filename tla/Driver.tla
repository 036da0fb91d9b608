-------------------------------- MODULE Driver --------------------------------
(***************************************************************************)
(* The commands of the compiler, run one after another in one directory:   *)
(* the dispatch of main, the options, and the phases of `compile`,         *)
(* `object`, `emit-ir` and `check`, each with its exits.                   *)
(*                                                                         *)
(* A source text is what the phases make of it (Program); an output file   *)
(* is what it was translated from.  What the operating system, LLVM's      *)
(* target and the linker answer is any of their answers.                   *)
(*                                                                         *)
(* A file name is the sequence of its parts: a word of the command line,   *)
(* then an extension or a file of a project.  No word ends in one.         *)
(***************************************************************************)
EXTENDS Integers, Sequences, FiniteSets

CONSTANTS
  Words,        \* words of command lines
  Sources,      \* those that end in ".amun"
  ArgLists,     \* command lines, without the name of the program
  Programs,     \* source texts
  LinkStatuses, \* what std::system returns for the linker
  MaxRuns       \* bound: commands run in the directory

\* What the phases make of a text: how its parser ends, its unnecessary
\* semicolons, the errors and warnings of the type checker, how its generation
\* ends, and whether the module that leaves has a function main.
Program == [id : Nat, parse : {"ok", "error", "aborts"}, semicolons : Nat,
            check : Nat, warnings : Nat, generate : {"ok", "throws", "exits"}, main : BOOLEAN]

ASSUME WordsAssumption    == Sources \subseteq Words /\ "output" \in Words
ASSUME ArgsAssumption     == ArgLists \subseteq Seq(Words)
ASSUME ProgramsAssumption == Programs \subseteq Program
ASSUME LinkAssumption     == LinkStatuses \subseteq Int
ASSUME RunsAssumption     == MaxRuns \in Nat

Files == {<<w>> : w \in Words} \cup {<<w, part>> : w \in Words, part \in {".o", ".ll", "/main.amun"}}

\* Texts that nobody wrote: of a new project, of a directory and of a binary.
Text(id, parse) == [id |-> id, parse |-> parse, semicolons |-> 0, check |-> 0, warnings |-> 0,
                    generate |-> "ok", main |-> parse = "ok" /\ id = 0]
HelloWorld == Text(0, "ok")
NoText     == Text(1, "ok")
Binary     == Text(2, "error")

\* of is the text a file has or was translated from; whole, whether all of it was.
Kinds   == {"none", "directory", "source", "empty", "object", "executable", "ir"}
Content == [kind : Kinds, of : Program, whole : BOOLEAN]
File(kind, of, whole) == [kind |-> kind, of |-> of, whole |-> whole]
Nothing      == File("none", NoText, FALSE)
Directory    == File("directory", NoText, FALSE)
Source(text) == File("source", text, TRUE)

VARIABLES
  disk,              \* what each file holds
  argv,              \* arguments of the command
  before,            \* history: the disk before the command
  step,              \* what the process does next, or "none", or "exited"
  status,            \* exit status of the process
  options,           \* CompilerOptions
  received_options,  \* the flags met so far
  i,                 \* the next argument
  program,           \* the text that was read
  errors, warnings,  \* counts of the diagnostics
  module,            \* what the backend returned
  result,            \* what the linker returned
  runs               \* commands started

vars == <<disk, argv, before, step, status, options, received_options, i, program, errors, warnings, module, result, runs>>
started     == <<argv, before, runs>>
optionsRead == <<options, received_options, i>>
analysed    == <<program, errors, warnings>>

Defaults == [output_file_name |-> "output", should_report_warns |-> FALSE,
             convert_warns_to_errors |-> FALSE, linker_extra_flags |-> <<>>]

OptionCommands == {"compile", "object", "emit-ir"}
Commands       == OptionCommands \cup {"check", "create", "version", "help"}

Command  == argv[1]
SourceAt == disk[<<argv[2]>>]
Exit(s)  == step' = "exited" /\ status' = s
Continue(next) == step' = next /\ UNCHANGED status
NewProcess ==
  /\ options' = Defaults /\ received_options' = {} /\ i' = 3
  /\ program' = NoText /\ errors' = 0 /\ warnings' = 0
  /\ module' = Nothing /\ result' = 0
Failure  == 1
Aborted  == 134  \* std::terminate

-----------------------------------------------------------------------------
(* Between the commands.                                                   *)

\* The end of a process: nothing of it is left but the files.  The user may
\* write a source file before the next command.
Edit ==
  /\ step = "exited" /\ runs < MaxRuns
  /\ \/ UNCHANGED disk
     \/ \E w \in Sources, text \in Programs :
          disk[<<w>>].kind # "directory" /\ disk' = [disk EXCEPT ![<<w>>] = Source(text)]
  /\ step' = "none" /\ argv' = <<>> /\ before' = disk' /\ status' = 0 /\ NewProcess
  /\ UNCHANGED runs

\* CommandMap::executeCommand.
executeCommand ==
  /\ step = "none" /\ runs < MaxRuns
  /\ \E args \in ArgLists :
       /\ argv' = args
       /\ IF args # <<>> /\ args[1] \in Commands THEN Continue("command") ELSE Exit(Failure)
  /\ runs' = runs + 1
  /\ UNCHANGED <<disk, before, optionsRead, analysed, module, result>>

-----------------------------------------------------------------------------
(* The functions main registers.                                           *)

execute_version_or_help ==
  /\ step = "command" /\ Command \in {"version", "help"}
  /\ Exit(0)
  /\ UNCHANGED <<disk, started, optionsRead, analysed, module, result>>

\* std::filesystem::create_directory may throw, and nothing catches it.
NewName == Len(argv) >= 2 /\ SourceAt = Nothing
execute_create_command ==
  /\ step = "command" /\ Command = "create"
  /\ \/ Exit(IF NewName THEN Aborted ELSE Failure) /\ UNCHANGED disk
     \/ /\ NewName /\ Exit(0)
        /\ disk' = [disk EXCEPT ![<<argv[2]>>] = Directory,
                                ![<<argv[2], "/main.amun">>] = Source(HelloWorld)]
  /\ UNCHANGED <<started, optionsRead, analysed, module, result>>

\* What the four commands on a source file have in common; only check takes no options.
SourceGiven == Len(argv) >= 2 /\ SourceAt # Nothing /\ argv[2] \in Sources
execute_source_command ==
  /\ step = "command" /\ Command \in OptionCommands \cup {"check"}
  /\ IF ~SourceGiven THEN Exit(Failure)
     ELSE Continue(IF Command = "check" THEN "parse" ELSE "options")
  /\ UNCHANGED <<disk, started, optionsRead, analysed, module, result>>

-----------------------------------------------------------------------------
(* parse_compiler_options, one turn of its loop at a time.                 *)

Reading(flag) == step = "options" /\ i <= Len(argv) /\ argv[i] = flag

OutputName ==
  /\ Reading("-o")
  /\ IF "-o" \in received_options \/ i = Len(argv)
     THEN Exit(Failure) /\ UNCHANGED optionsRead
     ELSE /\ options' = [options EXCEPT !.output_file_name = argv[i + 1]]
          /\ received_options' = received_options \cup {"-o"}
          /\ i' = i + 2 /\ UNCHANGED <<step, status>>
  /\ UNCHANGED <<disk, started, analysed, module, result>>

\* Mutant: -werr does not switch the warnings on.
WerrAlone ==
  \E flag \in {"-w", "-werr"} :
    /\ Reading(flag)
    /\ IF flag \in received_options
       THEN Exit(Failure) /\ UNCHANGED optionsRead
       ELSE /\ options' = [options EXCEPT !.should_report_warns = @ \/ flag = "-w",
                                          !.convert_warns_to_errors = @ \/ flag = "-werr"]
            /\ received_options' = received_options \cup {flag}
            /\ i' = i + 1 /\ UNCHANGED <<step, status>>
    /\ UNCHANGED <<disk, started, analysed, module, result>>

WarningFlag ==
  \E flag \in {"-w", "-werr"} :
    /\ Reading(flag)
    /\ IF flag \in received_options
       THEN Exit(Failure) /\ UNCHANGED optionsRead
       ELSE /\ options' = [options EXCEPT !.should_report_warns = TRUE,
                                          !.convert_warns_to_errors = @ \/ flag = "-werr"]
            /\ received_options' = received_options \cup {flag}
            /\ i' = i + 1 /\ UNCHANGED <<step, status>>
    /\ UNCHANGED <<disk, started, analysed, module, result>>

\* Compile looks for a linker first.
AfterOptions == IF Command = "compile" THEN "linker" ELSE "parse"

\* Mutant: the loop goes on after the flags of the linker.
GoesOn ==
  /\ Reading("-l")
  /\ IF "-l" \in received_options THEN Exit(Failure) /\ UNCHANGED optionsRead
     ELSE /\ options' = [options EXCEPT !.linker_extra_flags = SubSeq(argv, i + 1, Len(argv))]
          /\ received_options' = received_options \cup {"-l"}
          /\ i' = i + 1 /\ UNCHANGED <<step, status>>
  /\ UNCHANGED <<disk, started, analysed, module, result>>

\* -l takes the rest of the arguments, so it is never met twice.
LinkerFlags ==
  /\ Reading("-l")
  /\ options' = [options EXCEPT !.linker_extra_flags = SubSeq(argv, i + 1, Len(argv))]
  /\ received_options' = received_options \cup {"-l"}
  /\ Continue(AfterOptions)
  /\ UNCHANGED <<disk, started, i, analysed, module, result>>

UnknownFlag ==
  /\ step = "options" /\ i <= Len(argv) /\ argv[i] \notin {"-o", "-w", "-werr", "-l"}
  /\ Exit(Failure)
  /\ UNCHANGED <<disk, started, optionsRead, analysed, module, result>>

NoMoreOptions ==
  /\ step = "options" /\ i > Len(argv)
  /\ Continue(AfterOptions)
  /\ UNCHANGED <<disk, started, optionsRead, analysed, module, result>>

-----------------------------------------------------------------------------
(* The phases of compile_source_code and its three siblings.               *)

check_aviable_linker ==
  /\ step = "linker"
  /\ Exit(Failure) \/ Continue("parse")
  /\ UNCHANGED <<disk, started, optionsRead, analysed, module, result>>

Read(file) ==
  CASE file.kind = "source"    -> file.of
    [] file.kind = "directory" -> NoText
    [] OTHER                   -> Binary

\* The parser counts an unnecessary semicolon only if warnings are switched on.
parse_source_code ==
  /\ step = "parse"
  /\ program' = Read(SourceAt)
  /\ CASE program'.parse = "aborts" -> Exit(Aborted) /\ UNCHANGED errors
       [] program'.parse = "error"  -> Exit(Failure) /\ errors' = 1
       [] OTHER                     -> Continue("check") /\ UNCHANGED errors
  /\ warnings' = IF options.should_report_warns THEN program'.semicolons ELSE 0
  /\ UNCHANGED <<disk, started, optionsRead, module, result>>

\* The type checker, the report of the diagnostics and what follows from them.
check_compilation_unit ==
  /\ step = "check"
  /\ errors' = errors + program.check
  /\ warnings' = warnings + program.warnings
  /\ IF errors' > 0 \/ (options.convert_warns_to_errors /\ warnings' > 0) THEN Exit(Failure)
     ELSE IF Command = "check" THEN Exit(0) ELSE Continue("generate")
  /\ UNCHANGED <<disk, started, optionsRead, program, module, result>>

OutputFile == <<options.output_file_name, IF Command = "emit-ir" THEN ".ll" ELSE ".o">>
Executable == <<options.output_file_name>>
Write(file, content) == disk' = [disk EXCEPT ![file] = content]

\* Mutant: the object file is opened before the function main is looked for.
OpensFirst ==
  /\ step = "generate"
  /\ IF program.generate = "exits" THEN Exit(Failure) /\ UNCHANGED <<module, disk>>
     ELSE /\ module' = File("ir", program, program.generate = "ok")
          /\ IF Command = "compile" /\ ~program.main
             THEN Write(OutputFile, File("empty", NoText, FALSE)) /\ Exit(Failure)
             ELSE Continue("output") /\ UNCHANGED disk
  /\ UNCHANGED <<started, optionsRead, analysed, result>>

\* LLVMBackend::compile returns what it has when it catches an exception; an
\* internal compiler error ends the process.  Only compile asks for main.
Generate ==
  /\ step = "generate"
  /\ IF program.generate = "exits" THEN Exit(Failure) /\ UNCHANGED module
     ELSE /\ module' = File("ir", program, program.generate = "ok")
          /\ IF Command = "compile" /\ ~program.main THEN Exit(Failure) ELSE Continue("output")
  /\ UNCHANGED <<disk, started, optionsRead, analysed, result>>

\* The output file is opened, and emptied, or cannot be.
OpenOutput ==
  /\ step = "output"
  /\ \/ Exit(Failure) /\ UNCHANGED disk
     \/ Command = "emit-ir" /\ Write(OutputFile, module) /\ Exit(0)
     \/ Command # "emit-ir" /\ Write(OutputFile, File("empty", NoText, FALSE)) /\ Continue("emit")
  /\ UNCHANGED <<started, optionsRead, analysed, module, result>>

Emitted == Write(OutputFile, File("object", module.of, module.whole))

\* Mutant: a target that cannot be used is no failure.
NoTargetSucceeds ==
  /\ step = "emit"
  /\ \/ Exit(0) /\ UNCHANGED disk
     \/ Emitted /\ IF Command = "object" THEN Exit(0) ELSE Continue("link")
  /\ UNCHANGED <<started, optionsRead, analysed, module, result>>

\* There is no such target, it cannot emit objects, or it does.
Emit ==
  /\ step = "emit"
  /\ \/ Exit(Failure) /\ UNCHANGED disk
     \/ Emitted /\ IF Command = "object" THEN Exit(0) ELSE Continue("link")
  /\ UNCHANGED <<started, optionsRead, analysed, module, result>>

\* Mutant: the operating system keeps all of the returned status.
Untruncated ==
  /\ step = "link"
  /\ \E s \in LinkStatuses :
       /\ result' = s /\ (disk[Executable] = Directory => s # 0)
       /\ IF s = 0 THEN Write(Executable, File("executable", module.of, module.whole)) ELSE UNCHANGED disk
       /\ Exit(s)
  /\ UNCHANGED <<started, optionsRead, analysed, module>>

\* ExternalLinker::link, whose result main returns: a process keeps the lowest
\* eight bits, where std::system has the signal, not the status, of the linker.
Link ==
  /\ step = "link"
  /\ \E s \in LinkStatuses :
       /\ result' = s /\ (disk[Executable] = Directory => s # 0)
       /\ IF s = 0 THEN Write(Executable, File("executable", module.of, module.whole)) ELSE UNCHANGED disk
       /\ Exit(s % 256)
  /\ UNCHANGED <<started, optionsRead, analysed, module>>

Init ==
  /\ disk \in {[f \in Files |-> IF f \in {<<w>> : w \in Sources} THEN Source(text) ELSE Nothing] : text \in Programs}
  /\ argv = <<>> /\ before = disk /\ step = "none" /\ status = 0
  /\ options = Defaults /\ received_options = {} /\ i = 3
  /\ program = NoText /\ errors = 0 /\ warnings = 0
  /\ module = Nothing /\ result = 0 /\ runs = 0

\* The last command has ended.
Stop == step = "exited" /\ runs = MaxRuns /\ UNCHANGED vars

Next ==
  \/ Edit \/ executeCommand \/ Stop
  \/ execute_version_or_help \/ execute_create_command \/ execute_source_command
  \/ OutputName \/ WarningFlag \/ LinkerFlags \/ UnknownFlag \/ NoMoreOptions
  \/ check_aviable_linker \/ parse_source_code \/ check_compilation_unit
  \/ Generate \/ OpenOutput \/ Emit \/ Link

Spec == Init /\ [][Next]_vars

-----------------------------------------------------------------------------
(* The arguments, without a loop.                                          *)

\* An argument is the name after -o if an odd number of -o stands before it.
NameBefore(args, k) == {j \in 3 .. k - 1 : \A m \in j .. k - 1 : args[m] = "-o"}
IsName(args, k)     == Cardinality(NameBefore(args, k)) % 2 = 1
ForLinker(args, k)  == \E j \in 3 .. k - 1 : args[j] = "-l" /\ ~IsName(args, j)

Flags(args) == {k \in 3 .. Len(args) : ~IsName(args, k) /\ ~ForLinker(args, k)}
Given(args, flag) == \E k \in Flags(args) : args[k] = flag

WellFormed(args) ==
  /\ \A k \in Flags(args) : args[k] \in {"-o", "-w", "-werr", "-l"} /\ (args[k] = "-o" => k < Len(args))
  /\ \A j, k \in Flags(args) : args[j] = args[k] => j = k

Meaning(args) ==
  [output_file_name |->
     IF Given(args, "-o") THEN args[(CHOOSE k \in Flags(args) : args[k] = "-o") + 1] ELSE "output",
   should_report_warns     |-> Given(args, "-w") \/ Given(args, "-werr"),
   convert_warns_to_errors |-> Given(args, "-werr"),
   linker_extra_flags      |->
     IF Given(args, "-l") THEN SubSeq(args, (CHOOSE k \in Flags(args) : args[k] = "-l") + 1, Len(args)) ELSE <<>>]

-----------------------------------------------------------------------------
(* Properties.                                                             *)

\* The variables have their types; an exit status is a byte.
TypeOK ==
  /\ disk \in [Files -> Content] /\ before \in [Files -> Content]
  /\ argv \in Seq(Words)
  /\ step \in {"none", "exited", "command", "options", "linker", "parse", "check", "generate", "output", "emit", "link"}
  /\ status \in 0 .. 255
  /\ options \in [output_file_name : Words, should_report_warns : BOOLEAN,
                  convert_warns_to_errors : BOOLEAN, linker_extra_flags : Seq(Words)]
  /\ received_options \subseteq {"-o", "-w", "-werr", "-l"}
  /\ i \in Nat \ {0}
  /\ program \in Program /\ errors \in Nat /\ warnings \in Nat
  /\ module \in Content /\ result \in Int /\ runs \in Nat

\* "Report error and exit if any compiler option is passed twice": the loop over
\* the arguments refuses exactly the lists that are not well-formed, and reads
\* the others as they are meant, whatever stands where.
OptionsRead ==
  [][step = "options" /\ step' # "options" =>
       IF step' = "exited" THEN ~WellFormed(argv)
       ELSE WellFormed(argv) /\ options' = Meaning(argv)]_vars

\* A text all phases before the generation agree to.
Accepted ==
  /\ program.parse = "ok" /\ program.check = 0
  /\ options.convert_warns_to_errors => program.semicolons = 0 /\ program.warnings = 0

\* No module is made of a text with an error, nor, under -werr, of one with a
\* warning of any phase, counted only because -werr switches the warnings on.
OnlyAccepted == step \in {"generate", "output", "emit", "link"} => Accepted

Finished(command) == step = "exited" /\ argv # <<>> /\ Command = command
Translated(kind)  == File(kind, program, program.generate = "ok")

\* Exit status 0 means that the source is accepted and that the output file is
\* its translation, never an older one: a partial one only if the backend threw,
\* and for compile an executable only if the linker returned 0.
SuccessFresh ==
  status = 0 =>
    /\ Finished("check")   => Accepted
    /\ Finished("emit-ir") => Accepted /\ disk[OutputFile] = Translated("ir")
    /\ Finished("object")  => Accepted /\ disk[OutputFile] = Translated("object")
    /\ Finished("compile") => /\ Accepted /\ program.main /\ disk[OutputFile] = Translated("object")
                              /\ result = 0 => disk[Executable] = Translated("executable")

\* A command that fails leaves every file as it was, except the object file of
\* an accepted text, with a main if it was to be linked: empty if the target failed, complete if the linker did.
FailureKeeps ==
  step = "exited" /\ status # 0 =>
    \A f \in Files : disk[f] # before[f] =>
      /\ f = OutputFile /\ Accepted
      /\ Command = "object" \/ (Command = "compile" /\ program.main)
      /\ disk[f] = (IF result = 0 THEN File("empty", NoText, FALSE) ELSE Translated("object"))
=============================================================================
