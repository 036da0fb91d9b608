---------------------------- MODULE Driver_proofs ----------------------------
(***************************************************************************)
(* Proofs about Driver, for all command lines, texts and answers of the    *)
(* operating system, and any number of commands.                           *)
(***************************************************************************)
EXTENDS Driver, FiniteSetTheorems, TLAPS

Options == [output_file_name : Words, should_report_warns : BOOLEAN,
            convert_warns_to_errors : BOOLEAN, linker_extra_flags : Seq(Words)]

-----------------------------------------------------------------------------
(* Types.                                                                  *)

LEMMA TextType == ASSUME NEW id \in Nat, NEW parse \in {"ok", "error", "aborts"} PROVE Text(id, parse) \in Program
BY DEF Text, Program

LEMMA GivenTexts == HelloWorld \in Program /\ NoText \in Program /\ Binary \in Program
BY TextType DEF HelloWorld, NoText, Binary

LEMMA FileType ==
  ASSUME NEW kind \in Kinds, NEW of \in Program, NEW whole \in BOOLEAN
  PROVE  File(kind, of, whole) \in Content
BY DEF File, Content

LEMMA ContentTypes ==
  /\ Nothing \in Content /\ Directory \in Content /\ File("empty", NoText, FALSE) \in Content
  /\ \A text \in Program : Source(text) \in Content
BY GivenTexts, FileType DEF Nothing, Directory, Source, Kinds

LEMMA WriteType ==
  ASSUME NEW d \in [Files -> Content], NEW f, NEW c \in Content
  PROVE  [d EXCEPT ![f] = c] \in [Files -> Content]
OBVIOUS

LEMMA ReadType == ASSUME NEW file \in Content PROVE Read(file) \in Program
BY GivenTexts DEF Read, Content

LEMMA DefaultsType == Defaults \in Options
BY WordsAssumption DEF Defaults, Options

LEMMA OutputFiles ==
  ASSUME options \in Options
  PROVE  OutputFile \in Files /\ Executable \in Files /\ OutputFile # Executable
<1>1. options.output_file_name \in Words
  BY DEF Options
<1>2. OutputFile \in Files /\ Executable \in Files
  BY <1>1 DEF OutputFile, Executable, Files
<1>3. Len(OutputFile) = 2 /\ Len(Executable) = 1
  BY DEF OutputFile, Executable
<1> QED
  BY <1>2, <1>3

-----------------------------------------------------------------------------
(* The invariant.                                                          *)

\* The command that is at work; what is known when each phase begins.
Phases == {"parse", "check", "generate", "output", "emit", "link"}
AtWork ==
  /\ step # "exited" => result = 0
  /\ step \notin {"none", "exited"} => argv # <<>>
  /\ step = "options" => Command \in OptionCommands
  /\ step = "linker" => Command = "compile"
  /\ step \in {"parse", "check"} => Command \in OptionCommands \cup {"check"} /\ Len(argv) >= 2 /\ <<argv[2]>> \in Files
  /\ step \in {"generate", "output"} => Command \in OptionCommands
  /\ step = "emit" => Command \in {"compile", "object"}
  /\ step = "link" => Command = "compile"
  /\ step = "options" => Len(argv) >= 2 /\ argv[2] \in Words
  /\ step = "linker" => Len(argv) >= 2 /\ argv[2] \in Words

Counted ==
  /\ options.convert_warns_to_errors => options.should_report_warns
  /\ step \in {"none", "command", "options", "linker", "parse"} => errors = 0
  /\ step = "check" =>
       /\ errors = 0 /\ program.parse = "ok"
       /\ warnings = IF options.should_report_warns THEN program.semicolons ELSE 0

\* What has been written when.
Written ==
  /\ step \in {"output", "emit", "link"} =>
       module = Translated("ir") /\ (Command = "compile" => program.main)
  /\ step \notin {"emit", "link", "exited"} => disk = before
  /\ step \in {"emit", "link"} => \A f \in Files : f # OutputFile => disk[f] = before[f]
  /\ step = "emit" => disk[OutputFile] = File("empty", NoText, FALSE)
  /\ step = "link" => disk[OutputFile] = Translated("object")

IInv == TypeOK /\ AtWork /\ Counted /\ OnlyAccepted /\ Written /\ SuccessFresh /\ FailureKeeps

-----------------------------------------------------------------------------
(* The two properties about finished commands.                             *)

LEMMA StillAtWork == ASSUME step' # "exited" PROVE SuccessFresh' /\ FailureKeeps'
BY DEF SuccessFresh, FailureKeeps, Finished

LEMMA FailsClean ==
  ASSUME step' = "exited", status' # 0, disk' = before'
  PROVE  SuccessFresh' /\ FailureKeeps'
BY DEF SuccessFresh, FailureKeeps

\* A command that is none of the four, or stays clean.
LEMMA OtherCommand ==
  ASSUME argv # <<>>, Command \in {"create", "version", "help"}, argv' = argv, status' = 0
  PROVE  SuccessFresh' /\ FailureKeeps'
BY DEF SuccessFresh, FailureKeeps, Finished, Command

LEMMA StatusType ==
  ASSUME TypeOK, status' = status \/ status' \in {0, 1, 134}
  PROVE  status' \in 0 .. 255
<1>1. status \in 0 .. 255
  BY DEF TypeOK
<1> QED
  BY <1>1

LEMMA InitStep == Init => IInv
<1> SUFFICES ASSUME Init PROVE IInv
  OBVIOUS
<1>1. PICK text \in Programs :
        disk = [f \in Files |-> IF f \in {<<w>> : w \in Sources} THEN Source(text) ELSE Nothing]
  BY DEF Init
<1>2. disk \in [Files -> Content]
  BY <1>1, ContentTypes, ProgramsAssumption
<1>3. TypeOK
  BY <1>2, DefaultsType, GivenTexts, ContentTypes, RunsAssumption DEF Init, TypeOK, Options
<1>4. AtWork /\ Counted /\ OnlyAccepted /\ Written
  BY DEF Init, AtWork, Counted, OnlyAccepted, Written, Defaults
<1>5. SuccessFresh /\ FailureKeeps
  BY DEF Init, SuccessFresh, FailureKeeps, Finished
<1> QED
  BY <1>3, <1>4, <1>5 DEF IInv

LEMMA StutterStep == ASSUME IInv, UNCHANGED vars PROVE IInv'
<1>1. TypeOK'
  BY DEF IInv, vars, TypeOK
<1>2. AtWork' /\ Counted'
  BY DEF IInv, vars, AtWork, Counted, Command
<1>3. OnlyAccepted'
  BY DEF IInv, vars, OnlyAccepted, Accepted
<1>4. Written'
  BY DEF IInv, vars, Written, Translated, OutputFile, Command
<1>5. SuccessFresh'
  BY DEF IInv, vars, SuccessFresh, Finished, Accepted, Translated, OutputFile, Executable, Command
<1>6. FailureKeeps'
  BY DEF IInv, vars, FailureKeeps, Accepted, Translated, OutputFile, Command
<1> QED
  BY <1>1, <1>2, <1>3, <1>4, <1>5, <1>6 DEF IInv

-----------------------------------------------------------------------------
(* Between the commands.                                                   *)

LEMMA EditStep == ASSUME IInv, Edit PROVE IInv'
<1>1. disk' \in [Files -> Content] /\ before' = disk'
  <2>1. CASE UNCHANGED disk
    BY <2>1 DEF Edit, IInv, TypeOK
  <2>2. ASSUME NEW w \in Sources, NEW text \in Programs, disk' = [disk EXCEPT ![<<w>>] = Source(text)]
        PROVE  disk' \in [Files -> Content]
    BY <2>2, ContentTypes, ProgramsAssumption DEF IInv, TypeOK
  <2> QED
    BY <2>1, <2>2 DEF Edit
<1>2. /\ step' = "none" /\ argv' = <<>> /\ status' = 0 /\ runs' = runs /\ options' = Defaults
      /\ received_options' = {} /\ i' = 3 /\ program' = NoText /\ errors' = 0 /\ warnings' = 0
      /\ module' = Nothing /\ result' = 0
  BY DEF Edit, NewProcess
<1>3. TypeOK'
  BY <1>1, <1>2, DefaultsType, GivenTexts, ContentTypes DEF IInv, TypeOK, Options
<1>4. AtWork' /\ Counted' /\ OnlyAccepted' /\ Written'
  BY <1>1, <1>2 DEF AtWork, Counted, OnlyAccepted, Written, Defaults
<1> QED
  BY <1>2, <1>3, <1>4, StillAtWork DEF IInv

LEMMA executeCommandStep == ASSUME IInv, executeCommand PROVE IInv'
<1>1. argv' \in Seq(Words) /\ runs' = runs + 1 /\ UNCHANGED <<disk, before, optionsRead, analysed, module, result>>
  BY ArgsAssumption DEF executeCommand
<1>2. \/ step' = "command" /\ status' = status
      \/ step' = "exited" /\ status' = 1
  BY DEF executeCommand, Continue, Exit, Failure
<1>3. step' = "command" => argv' # <<>>
  BY DEF executeCommand, Continue, Exit
<1>4. disk = before /\ step = "none" /\ errors = 0
  BY DEF IInv, Written, Counted, executeCommand
<1>5. TypeOK'
  <2>1. status' \in 0 .. 255
    BY <1>2, StatusType DEF IInv
  <2> QED
    BY <1>1, <1>2, <2>1 DEF IInv, TypeOK, optionsRead, analysed
<1>6. AtWork' /\ Counted' /\ OnlyAccepted' /\ Written'
  BY <1>1, <1>2, <1>3, <1>4 DEF IInv, AtWork, Counted, OnlyAccepted, Written, optionsRead, analysed
<1>7. SuccessFresh' /\ FailureKeeps'
  BY <1>1, <1>2, <1>4, StillAtWork, FailsClean
<1> QED
  BY <1>5, <1>6, <1>7 DEF IInv

-----------------------------------------------------------------------------
(* The functions main registers, and the options.                          *)

\* Steps that write nothing and either go on or fail.
LEMMA ControlType ==
  ASSUME TypeOK, UNCHANGED <<disk, started, analysed, module, result>>, options' \in Options,
         received_options' \subseteq {"-o", "-w", "-werr", "-l"}, i' \in Nat \ {0},
         step' \in {"exited", "command", "options", "linker", "parse", "check", "generate", "output"},
         status' = status \/ status' \in {0, 1, 134}
  PROVE  TypeOK'
<1>1. status' \in 0 .. 255
  BY StatusType
<1> QED
  BY <1>1 DEF TypeOK, Options, started, analysed

LEMMA OptionsType == ASSUME TypeOK PROVE options \in Options /\ i \in Nat \ {0} /\ received_options \subseteq {"-o", "-w", "-werr", "-l"}
BY DEF TypeOK, Options

LEMMA execute_version_or_helpStep == ASSUME IInv, execute_version_or_help PROVE IInv'
<1>1. /\ step = "command" /\ Command \in {"version", "help"} /\ step' = "exited" /\ status' = 0
      /\ UNCHANGED <<disk, started, optionsRead, analysed, module, result>>
  BY DEF execute_version_or_help, Exit
<1>2. TypeOK'
  BY <1>1, ControlType, OptionsType DEF IInv, optionsRead
<1>3. AtWork' /\ Counted' /\ OnlyAccepted' /\ Written'
  BY <1>1 DEF IInv, AtWork, Counted, OnlyAccepted, Written, optionsRead
<1>4. SuccessFresh' /\ FailureKeeps'
  <2>1. argv # <<>> /\ argv' = argv
    BY <1>1 DEF IInv, AtWork, started
  <2> QED
    BY <1>1, <2>1, OtherCommand
<1> QED
  BY <1>2, <1>3, <1>4 DEF IInv

LEMMA execute_create_commandStep == ASSUME IInv, execute_create_command PROVE IInv'
<1>1. /\ step = "command" /\ Command = "create" /\ step' = "exited" /\ argv' = argv
      /\ UNCHANGED <<started, optionsRead, analysed, module, result>>
  BY DEF execute_create_command, Exit, started
<1>2. disk = before /\ argv # <<>>
  BY <1>1 DEF IInv, Written, AtWork
<1>3. \/ status' \in {1, 134} /\ disk' = disk
      \/ status' = 0 /\ disk' \in [Files -> Content]
  <2>1. CASE UNCHANGED disk /\ Exit(IF NewName THEN Aborted ELSE Failure)
    BY <2>1 DEF Exit, Aborted, Failure
  <2>2. CASE /\ NewName /\ Exit(0)
             /\ disk' = [disk EXCEPT ![<<argv[2]>>] = Directory,
                                     ![<<argv[2], "/main.amun">>] = Source(HelloWorld)]
    <3>1. disk \in [Files -> Content]
      BY DEF IInv, TypeOK
    <3>2. [disk EXCEPT ![<<argv[2]>>] = Directory] \in [Files -> Content]
      BY <3>1, ContentTypes
    <3>3. Source(HelloWorld) \in Content
      BY ContentTypes, GivenTexts
    <3>4. disk' \in [Files -> Content]
      BY <2>2, <3>2, <3>3
    <3> QED
      BY <2>2, <3>4 DEF Exit
  <2> QED
    BY <2>1, <2>2 DEF execute_create_command
<1>4. TypeOK'
  <2>1. disk' \in [Files -> Content]
    BY <1>3 DEF IInv, TypeOK
  <2>2. status' \in 0 .. 255
    BY <1>3, StatusType DEF IInv
  <2> QED
    BY <1>1, <2>1, <2>2 DEF IInv, TypeOK, started, optionsRead, analysed
<1>5. AtWork' /\ Counted' /\ OnlyAccepted' /\ Written'
  BY <1>1 DEF IInv, AtWork, Counted, OnlyAccepted, Written, optionsRead
<1>6. SuccessFresh' /\ FailureKeeps'
  BY <1>1, <1>2, <1>3, OtherCommand, FailsClean DEF started
<1> QED
  BY <1>4, <1>5, <1>6 DEF IInv

LEMMA execute_source_commandStep == ASSUME IInv, execute_source_command PROVE IInv'
<1>1. /\ step = "command" /\ Command \in OptionCommands \cup {"check"} /\ argv' = argv
      /\ UNCHANGED <<disk, started, optionsRead, analysed, module, result>>
  BY DEF execute_source_command, started
<1>2. \/ step' = "exited" /\ status' = 1
      \/ /\ status' = status /\ Len(argv) >= 2 /\ argv[2] \in Words
         /\ \/ step' = "parse" /\ Command = "check"
            \/ step' = "options" /\ Command \in OptionCommands
  <2>1. CASE ~SourceGiven
    BY <2>1 DEF execute_source_command, Exit, Failure
  <2>2. CASE SourceGiven
    BY <2>2, <1>1, WordsAssumption DEF execute_source_command, Continue, SourceGiven, OptionCommands
  <2> QED
    BY <2>1, <2>2
<1>3. TypeOK'
  BY <1>1, <1>2, ControlType, OptionsType DEF IInv, optionsRead
<1>4. AtWork'
  <2>1. argv[2] \in Words => <<argv[2]>> \in Files
    BY DEF Files
  <2> QED
    BY <1>1, <1>2, <2>1 DEF IInv, AtWork, Command
<1>5. Counted' /\ OnlyAccepted' /\ Written'
  BY <1>1, <1>2 DEF IInv, Counted, OnlyAccepted, Written, optionsRead, started, analysed
<1>6. SuccessFresh' /\ FailureKeeps'
  BY <1>1, <1>2, StillAtWork, FailsClean DEF IInv, Written, started
<1> QED
  BY <1>3, <1>4, <1>5, <1>6 DEF IInv

\* A turn of the loop over the arguments: it refuses them, or goes on.
LEMMA OptionStep ==
  ASSUME IInv, step = "options", UNCHANGED <<disk, started, analysed, module, result>>,
         options' \in Options,
         received_options' \subseteq {"-o", "-w", "-werr", "-l"}, i' \in Nat \ {0},
         options'.convert_warns_to_errors => options'.should_report_warns,
         \/ step' = "exited" /\ status' = 1
         \/ step' = "options" /\ status' = status
         \/ step' = AfterOptions /\ status' = status
  PROVE  IInv'
<1>1. step' \in {"exited", "options", "linker", "parse"}
  BY DEF AfterOptions
<1>2. TypeOK'
  BY <1>1, ControlType DEF IInv
<1>3. AtWork'
  <2>1. argv' = argv /\ result' = result
    BY DEF started
  <2>2. argv[2] \in Words => <<argv[2]>> \in Files
    BY DEF Files
  <2> QED
    BY <2>1, <2>2 DEF IInv, AtWork, Command, AfterOptions
<1>4. Counted' /\ OnlyAccepted' /\ Written'
  BY <1>1 DEF IInv, Counted, OnlyAccepted, Written, started, analysed
<1>5. SuccessFresh' /\ FailureKeeps'
  <2>1. CASE step' = "exited"
    <3>1. status' # 0
      BY <2>1 DEF AfterOptions
    <3> QED
      BY <2>1, <3>1, FailsClean DEF IInv, Written, started
  <2>2. CASE step' # "exited"
    BY <2>2, StillAtWork
  <2> QED
    BY <2>1, <2>2
<1> QED
  BY <1>2, <1>3, <1>4, <1>5 DEF IInv

LEMMA OutputNameStep == ASSUME IInv, OutputName PROVE IInv'
<1>1. /\ step = "options" /\ i <= Len(argv) /\ UNCHANGED <<disk, started, analysed, module, result>>
  BY DEF OutputName, Reading
<1>2. argv \in Seq(Words) /\ i \in Nat \ {0} /\ options \in Options
  BY OptionsType DEF IInv, TypeOK
<1>3. options.convert_warns_to_errors => options.should_report_warns
  BY DEF IInv, Counted
<1>4. CASE Exit(Failure) /\ UNCHANGED optionsRead
  BY <1>1, <1>3, <1>4, OptionStep, OptionsType DEF optionsRead, Exit, Failure, IInv
<1>5. CASE /\ i # Len(argv)
           /\ options' = [options EXCEPT !.output_file_name = argv[i + 1]]
           /\ received_options' = received_options \cup {"-o"}
           /\ i' = i + 2 /\ UNCHANGED <<step, status>>
  <2>1. argv[i + 1] \in Words /\ i' \in Nat \ {0}
    BY <1>1, <1>2, <1>5
  <2>2. options' \in Options /\ (options'.convert_warns_to_errors => options'.should_report_warns)
    BY <1>2, <1>3, <1>5, <2>1 DEF Options
  <2>3. received_options' \subseteq {"-o", "-w", "-werr", "-l"}
    BY <1>5, OptionsType DEF IInv
  <2> QED
    BY <1>1, <1>5, <2>1, <2>2, <2>3, OptionStep
<1> QED
  BY <1>4, <1>5 DEF OutputName

LEMMA WarningFlagStep == ASSUME IInv, WarningFlag PROVE IInv'
<1>1. /\ step = "options" /\ UNCHANGED <<disk, started, analysed, module, result>>
  BY DEF WarningFlag, Reading
<1>2. i \in Nat \ {0} /\ options \in Options /\ (options.convert_warns_to_errors => options.should_report_warns)
  BY OptionsType DEF IInv, Counted
<1>3. CASE Exit(Failure) /\ UNCHANGED optionsRead
  BY <1>1, <1>2, <1>3, OptionStep, OptionsType DEF optionsRead, Exit, Failure, IInv
<1>4. ASSUME NEW flag \in {"-w", "-werr"},
             options' = [options EXCEPT !.should_report_warns = TRUE,
                                        !.convert_warns_to_errors = @ \/ flag = "-werr"],
             received_options' = received_options \cup {flag},
             i' = i + 1, UNCHANGED <<step, status>>
      PROVE  IInv'
  <2>1. options' \in Options
    BY <1>2, <1>4 DEF Options
  <2>2. options'.should_report_warns
    BY <1>2, <1>4 DEF Options
  <2>3. received_options' \subseteq {"-o", "-w", "-werr", "-l"} /\ i' \in Nat \ {0}
    BY <1>2, <1>4, OptionsType DEF IInv
  <2> QED
    BY <1>1, <1>4, <2>1, <2>2, <2>3, OptionStep
<1> QED
  BY <1>3, <1>4 DEF WarningFlag

LEMMA LinkerFlagsStep == ASSUME IInv, LinkerFlags PROVE IInv'
<1>1. /\ step = "options" /\ i <= Len(argv) /\ UNCHANGED <<disk, started, analysed, module, result, i>>
      /\ options' = [options EXCEPT !.linker_extra_flags = SubSeq(argv, i + 1, Len(argv))]
      /\ received_options' = received_options \cup {"-l"} /\ step' = AfterOptions /\ status' = status
  BY DEF LinkerFlags, Reading, Continue
<1>2. argv \in Seq(Words) /\ i \in Nat \ {0} /\ options \in Options
      /\ (options.convert_warns_to_errors => options.should_report_warns)
  BY OptionsType DEF IInv, TypeOK, Counted
<1>3. SubSeq(argv, i + 1, Len(argv)) \in Seq(Words)
  BY <1>1, <1>2
<1>4. options' \in Options /\ (options'.convert_warns_to_errors => options'.should_report_warns)
  BY <1>1, <1>2, <1>3 DEF Options
<1>5. received_options' \subseteq {"-o", "-w", "-werr", "-l"}
  BY <1>1, OptionsType DEF IInv
<1> QED
  BY <1>1, <1>2, <1>4, <1>5, OptionStep

LEMMA UnknownFlagStep == ASSUME IInv, UnknownFlag PROVE IInv'
<1>1. options.convert_warns_to_errors => options.should_report_warns
  BY DEF IInv, Counted
<1> QED
  BY <1>1, OptionStep, OptionsType DEF UnknownFlag, Exit, Failure, IInv, optionsRead

LEMMA NoMoreOptionsStep == ASSUME IInv, NoMoreOptions PROVE IInv'
<1>1. options.convert_warns_to_errors => options.should_report_warns
  BY DEF IInv, Counted
<1> QED
  BY <1>1, OptionStep, OptionsType DEF NoMoreOptions, Continue, IInv, optionsRead

-----------------------------------------------------------------------------
(* The phases.                                                             *)

LEMMA check_aviable_linkerStep == ASSUME IInv, check_aviable_linker PROVE IInv'
<1>1. /\ step = "linker" /\ argv' = argv /\ UNCHANGED <<disk, started, optionsRead, analysed, module, result>>
      /\ \/ step' = "exited" /\ status' = 1
         \/ step' = "parse" /\ status' = status
  BY DEF check_aviable_linker, Exit, Continue, Failure, started
<1>2. TypeOK'
  BY <1>1, ControlType, OptionsType DEF IInv, optionsRead
<1>3. AtWork'
  <2>1. argv[2] \in Words => <<argv[2]>> \in Files
    BY DEF Files
  <2> QED
    BY <1>1, <2>1 DEF IInv, AtWork, Command, OptionCommands
<1>4. Counted' /\ OnlyAccepted' /\ Written'
  BY <1>1 DEF IInv, Counted, OnlyAccepted, Written, optionsRead, started, analysed
<1>5. SuccessFresh' /\ FailureKeeps'
  BY <1>1, StillAtWork, FailsClean DEF IInv, Written, started
<1> QED
  BY <1>2, <1>3, <1>4, <1>5 DEF IInv

LEMMA parse_source_codeStep == ASSUME IInv, parse_source_code PROVE IInv'
<1>1. /\ step = "parse" /\ UNCHANGED <<disk, started, optionsRead, module, result>>
      /\ argv' = argv /\ disk' = disk /\ before' = before /\ options' = options
  BY DEF parse_source_code, started, optionsRead
<1>2. program' \in Program
  <2>1. SourceAt \in Content
    BY <1>1 DEF IInv, TypeOK, AtWork, SourceAt
  <2> QED
    BY <2>1, ReadType DEF parse_source_code
<1>3. /\ warnings' = IF options.should_report_warns THEN program'.semicolons ELSE 0
      /\ \/ step' = "exited" /\ status' \in {1, 134} /\ errors' \in {0, 1}
         \/ step' = "check" /\ status' = status /\ errors' = 0 /\ program'.parse = "ok"
  <2>1. errors = 0
    BY <1>1 DEF IInv, Counted
  <2> QED
    BY <1>2, <2>1 DEF parse_source_code, Exit, Continue, Failure, Aborted, Program
<1>4. TypeOK'
  <2>1. status' \in 0 .. 255
    BY <1>3, StatusType DEF IInv
  <2>2. warnings' \in Nat
    BY <1>2, <1>3 DEF Program
  <2> QED
    BY <1>1, <1>2, <1>3, <2>1, <2>2 DEF IInv, TypeOK, started, optionsRead
<1>5. AtWork'
  BY <1>1, <1>3 DEF IInv, AtWork, Command
<1>6. Counted' /\ OnlyAccepted' /\ Written'
  BY <1>1, <1>3 DEF IInv, Counted, OnlyAccepted, Written
<1>7. SuccessFresh' /\ FailureKeeps'
  BY <1>1, <1>3, StillAtWork, FailsClean DEF IInv, Written
<1> QED
  BY <1>4, <1>5, <1>6, <1>7 DEF IInv

LEMMA check_compilation_unitStep == ASSUME IInv, check_compilation_unit PROVE IInv'
<1>1. /\ step = "check" /\ UNCHANGED <<disk, started, optionsRead, program, module, result>>
      /\ argv' = argv /\ disk' = disk /\ before' = before /\ options' = options /\ program' = program
      /\ errors' = errors + program.check /\ warnings' = warnings + program.warnings
  BY DEF check_compilation_unit, started, optionsRead
<1>2. /\ errors = 0 /\ program.parse = "ok" /\ program \in Program /\ options \in Options
      /\ warnings = IF options.should_report_warns THEN program.semicolons ELSE 0
      /\ options.convert_warns_to_errors => options.should_report_warns
      /\ warnings \in Nat /\ Command \in OptionCommands \cup {"check"} /\ disk = before
  BY <1>1, OptionsType DEF IInv, Counted, TypeOK, AtWork, Written
<1>3. program.check \in Nat /\ program.warnings \in Nat /\ program.semicolons \in Nat
  BY <1>2 DEF Program
<1>4. \/ step' = "exited" /\ status' = 1
      \/ /\ Accepted
         /\ \/ Command = "check" /\ step' = "exited" /\ status' = 0
            \/ Command \in OptionCommands /\ step' = "generate" /\ status' = status
  <2>1. CASE errors' > 0 \/ (options.convert_warns_to_errors /\ warnings' > 0)
    BY <2>1 DEF check_compilation_unit, Exit, Failure
  <2>2. CASE ~(errors' > 0 \/ (options.convert_warns_to_errors /\ warnings' > 0))
    <3>1. program.check = 0
      BY <1>1, <1>2, <1>3, <2>2
    <3>2. ASSUME options.convert_warns_to_errors PROVE program.semicolons = 0 /\ program.warnings = 0
      <4>1. warnings = program.semicolons /\ warnings' = warnings + program.warnings /\ ~(warnings' > 0)
        BY <1>1, <1>2, <2>2, <3>2
      <4> QED
        BY <1>3, <4>1
    <3>3. Accepted
      BY <1>2, <3>1, <3>2 DEF Accepted
    <3> QED
      BY <1>2, <2>2, <3>3 DEF check_compilation_unit, Exit, Continue
  <2> QED
    BY <2>1, <2>2
<1>5. TypeOK'
  <2>1. status' \in 0 .. 255
    BY <1>4, StatusType DEF IInv
  <2>2. warnings' \in Nat /\ errors' \in Nat
    BY <1>1, <1>2, <1>3
  <2> QED
    BY <1>1, <1>4, <2>1, <2>2 DEF IInv, TypeOK, started, optionsRead
<1>6. AtWork'
  BY <1>1, <1>4 DEF IInv, AtWork, Command
<1>7. Accepted' <=> Accepted
  BY <1>1 DEF Accepted
<1>8. Counted' /\ OnlyAccepted' /\ Written'
  BY <1>1, <1>2, <1>4, <1>7 DEF IInv, Counted, OnlyAccepted, Written
<1>9. SuccessFresh' /\ FailureKeeps'
  <2>1. CASE step' = "exited" /\ status' = 0
    BY <1>1, <1>4, <1>7, <2>1 DEF SuccessFresh, FailureKeeps, Finished, Command, OptionCommands
  <2>2. CASE ~(step' = "exited" /\ status' = 0)
    BY <1>1, <1>2, <2>2, StillAtWork, FailsClean
  <2> QED
    BY <2>1, <2>2
<1> QED
  BY <1>5, <1>6, <1>8, <1>9 DEF IInv

LEMMA GenerateStep == ASSUME IInv, Generate PROVE IInv'
<1>1. /\ step = "generate" /\ UNCHANGED <<disk, started, optionsRead, analysed, result>>
      /\ argv' = argv /\ disk' = disk /\ before' = before /\ options' = options /\ program' = program
  BY DEF Generate, started, optionsRead, analysed
<1>2. program \in Program /\ Command \in OptionCommands /\ disk = before /\ Accepted
  BY <1>1 DEF IInv, TypeOK, AtWork, Written, OnlyAccepted
<1>3. /\ module' \in {module, Translated("ir")}
      /\ \/ step' = "exited" /\ status' = 1
         \/ /\ step' = "output" /\ status' = status
            /\ module' = Translated("ir") /\ (Command = "compile" => program.main)
  BY DEF Generate, Exit, Continue, Failure, Translated
<1>4. TypeOK'
  <2>1. module' \in Content
    <3>1. Translated("ir") \in Content
      BY <1>2, FileType DEF Translated, Kinds
    <3> QED
      BY <1>3, <3>1 DEF IInv, TypeOK
  <2>2. status' \in 0 .. 255
    BY <1>3, StatusType DEF IInv
  <2> QED
    BY <1>1, <1>3, <2>1, <2>2 DEF IInv, TypeOK, started, optionsRead, analysed
<1>5. AtWork'
  BY <1>1, <1>3 DEF IInv, AtWork, Command
<1>6. Counted' /\ OnlyAccepted'
  BY <1>1, <1>2, <1>3 DEF IInv, Counted, OnlyAccepted, Accepted
<1>7. Written'
  BY <1>1, <1>2, <1>3 DEF Written, Translated, Command
<1>8. SuccessFresh' /\ FailureKeeps'
  BY <1>1, <1>2, <1>3, StillAtWork, FailsClean
<1> QED
  BY <1>4, <1>5, <1>6, <1>7, <1>8 DEF IInv

\* What stays the same while the output is written.
Kept == /\ UNCHANGED <<started, optionsRead, analysed, module>>
        /\ argv' = argv /\ before' = before /\ options' = options /\ program' = program
        /\ errors' = errors /\ warnings' = warnings /\ module' = module

LEMMA KeptSame ==
  ASSUME Kept
  PROVE  /\ Accepted' = Accepted /\ OutputFile' = OutputFile /\ Executable' = Executable /\ Command' = Command
         /\ \A kind : Translated(kind)' = Translated(kind)
BY DEF Kept, Accepted, OutputFile, Executable, Command, Translated

LEMMA WritingType ==
  ASSUME TypeOK, Kept, disk' \in [Files -> Content], step' \in {"exited", "emit", "link"}, status' \in 0 .. 255,
         result' \in Int
  PROVE  TypeOK'
BY DEF TypeOK, Kept, started, optionsRead

LEMMA WritingRest ==
  ASSUME IInv, Kept, step \in {"output", "emit", "link"}, step' \in {"exited", "emit", "link"},
         result' = result \/ step' = "exited",
         step' = "emit" => Command \in {"compile", "object"}, step' = "link" => Command = "compile"
  PROVE  AtWork' /\ Counted' /\ OnlyAccepted'
<1>1. AtWork'
  BY DEF IInv, AtWork, Kept, Command
<1>2. Counted'
  BY DEF IInv, Counted, Kept
<1>3. OnlyAccepted'
  BY KeptSame DEF IInv, OnlyAccepted
<1> QED
  BY <1>1, <1>2, <1>3

LEMMA OpenOutputStep == ASSUME IInv, OpenOutput PROVE IInv'
<1>1. step = "output" /\ Kept /\ result' = result
  BY DEF OpenOutput, Kept, started, optionsRead, analysed
<1>2. /\ disk \in [Files -> Content] /\ module \in Content /\ Command \in OptionCommands /\ result = 0
      /\ module = Translated("ir") /\ (Command = "compile" => program.main) /\ disk = before /\ Accepted
  BY <1>1 DEF IInv, TypeOK, AtWork, Written, OnlyAccepted
<1>3. OutputFile \in Files
  BY OutputFiles, OptionsType DEF IInv
<1>4. CASE Exit(Failure) /\ UNCHANGED disk
  <2>1. step' = "exited" /\ status' = 1 /\ disk' = before'
    BY <1>1, <1>2, <1>4 DEF Exit, Failure, Kept
  <2>2. TypeOK'
    BY <1>1, <1>2, <1>4, <2>1, WritingType DEF IInv, TypeOK
  <2>3. AtWork' /\ Counted' /\ OnlyAccepted'
    BY <1>1, <2>1, WritingRest
  <2>4. Written'
    BY <2>1 DEF Written
  <2> QED
    BY <2>1, <2>2, <2>3, <2>4, FailsClean DEF IInv
<1>5. CASE Command = "emit-ir" /\ Write(OutputFile, module) /\ Exit(0)
  <2>1. step' = "exited" /\ status' = 0 /\ disk' = [disk EXCEPT ![OutputFile] = module]
    BY <1>5 DEF Exit, Write
  <2>2. disk' \in [Files -> Content] /\ disk'[OutputFile] = Translated("ir")
    BY <1>2, <1>3, <2>1
  <2>3. TypeOK'
    BY <1>1, <1>2, <2>1, <2>2, WritingType DEF IInv
  <2>4. AtWork' /\ Counted' /\ OnlyAccepted'
    BY <1>1, <2>1, WritingRest
  <2>5. Written'
    BY <2>1 DEF Written
  <2>6. SuccessFresh' /\ FailureKeeps'
    BY <1>1, <1>2, <1>5, <2>1, <2>2, KeptSame DEF SuccessFresh, FailureKeeps, Finished
  <2> QED
    BY <2>3, <2>4, <2>5, <2>6 DEF IInv
<1>6. CASE Command # "emit-ir" /\ Write(OutputFile, File("empty", NoText, FALSE)) /\ Continue("emit")
  <2>1. step' = "emit" /\ status' = status /\ disk' = [disk EXCEPT ![OutputFile] = File("empty", NoText, FALSE)]
    BY <1>6 DEF Continue, Write
  <2>2. /\ disk' \in [Files -> Content] /\ disk'[OutputFile] = File("empty", NoText, FALSE)
        /\ \A f \in Files : f # OutputFile => disk'[f] = before[f]
    BY <1>2, <1>3, <2>1, ContentTypes
  <2>3. TypeOK'
    BY <1>1, <1>2, <2>1, <2>2, WritingType DEF IInv, TypeOK
  <2>4. AtWork' /\ Counted' /\ OnlyAccepted'
    BY <1>1, <1>2, <1>6, <2>1, WritingRest DEF OptionCommands
  <2>5. Written'
    BY <1>1, <1>2, <2>1, <2>2, KeptSame DEF Written, Kept
  <2> QED
    BY <2>1, <2>3, <2>4, <2>5, StillAtWork DEF IInv
<1> QED
  BY <1>4, <1>5, <1>6 DEF OpenOutput

LEMMA EmitStep == ASSUME IInv, Emit PROVE IInv'
<1>1. step = "emit" /\ Kept /\ result' = result
  BY DEF Emit, Kept, started, optionsRead, analysed
<1>2. /\ disk \in [Files -> Content] /\ program \in Program /\ Command \in {"compile", "object"} /\ result = 0
      /\ module = Translated("ir") /\ (Command = "compile" => program.main) /\ Accepted
      /\ disk[OutputFile] = File("empty", NoText, FALSE)
      /\ \A f \in Files : f # OutputFile => disk[f] = before[f]
  BY <1>1 DEF IInv, TypeOK, AtWork, Written, OnlyAccepted
<1>3. OutputFile \in Files
  BY OutputFiles, OptionsType DEF IInv
<1>4. CASE Exit(Failure) /\ UNCHANGED disk
  <2>1. step' = "exited" /\ status' = 1 /\ disk' = disk
    BY <1>4 DEF Exit, Failure
  <2>2. TypeOK'
    BY <1>1, <1>2, <2>1, WritingType DEF IInv, TypeOK
  <2>3. AtWork' /\ Counted' /\ OnlyAccepted'
    BY <1>1, <2>1, WritingRest
  <2>4. Written'
    BY <2>1 DEF Written
  <2>5. SuccessFresh' /\ FailureKeeps'
    BY <1>1, <1>2, <2>1, KeptSame DEF SuccessFresh, FailureKeeps, Kept, File
  <2> QED
    BY <2>2, <2>3, <2>4, <2>5 DEF IInv
<1>5. CASE Emitted /\ IF Command = "object" THEN Exit(0) ELSE Continue("link")
  <2>1. /\ disk' = [disk EXCEPT ![OutputFile] = Translated("object")]
        /\ \/ Command = "object" /\ step' = "exited" /\ status' = 0
           \/ Command = "compile" /\ step' = "link" /\ status' = status
    <3>1. File("object", module.of, module.whole) = Translated("object")
      BY <1>2 DEF Translated, File
    <3> QED
      BY <1>2, <1>5, <3>1 DEF Emitted, Write, Exit, Continue
  <2>2. /\ disk' \in [Files -> Content] /\ disk'[OutputFile] = Translated("object")
        /\ \A f \in Files : f # OutputFile => disk'[f] = before[f]
    <3>1. Translated("object") \in Content
      BY <1>2, FileType DEF Translated, Kinds
    <3> QED
      BY <1>2, <1>3, <2>1, <3>1
  <2>3. TypeOK'
    <3>1. status' \in 0 .. 255
      BY <2>1, StatusType DEF IInv
    <3> QED
      BY <1>1, <1>2, <2>1, <2>2, <3>1, WritingType DEF IInv
  <2>4. AtWork' /\ Counted' /\ OnlyAccepted'
    BY <1>1, <1>2, <2>1, WritingRest
  <2>5. Written'
    BY <1>1, <1>2, <2>1, <2>2, KeptSame DEF Written, Kept
  <2>6. SuccessFresh' /\ FailureKeeps'
    <3>1. CASE step' = "link"
      BY <3>1, StillAtWork
    <3>2. CASE Command = "object" /\ step' = "exited" /\ status' = 0
      BY <1>1, <1>2, <2>2, <3>2, KeptSame DEF SuccessFresh, FailureKeeps, Finished
    <3> QED
      BY <2>1, <3>1, <3>2
  <2> QED
    BY <2>3, <2>4, <2>5, <2>6 DEF IInv
<1> QED
  BY <1>4, <1>5 DEF Emit

LEMMA LinkStep == ASSUME IInv, Link PROVE IInv'
<1>1. step = "link" /\ Kept
  BY DEF Link, Kept, started, optionsRead, analysed
<1>2. /\ disk \in [Files -> Content] /\ program \in Program /\ Command = "compile"
      /\ module = Translated("ir") /\ program.main /\ Accepted
      /\ disk[OutputFile] = Translated("object")
      /\ \A f \in Files : f # OutputFile => disk[f] = before[f]
  BY <1>1 DEF IInv, TypeOK, AtWork, Written, OnlyAccepted
<1>3. OutputFile \in Files /\ Executable \in Files /\ OutputFile # Executable
  BY OutputFiles, OptionsType DEF IInv
<1>4. PICK s \in LinkStatuses :
        /\ result' = s /\ step' = "exited" /\ status' = s % 256
        /\ IF s = 0 THEN disk' = [disk EXCEPT ![Executable] = Translated("executable")] ELSE disk' = disk
  <2>1. File("executable", module.of, module.whole) = Translated("executable")
    BY <1>2 DEF Translated, File
  <2> QED
    BY <2>1 DEF Link, Write, Exit
<1>5. s \in Int /\ (s = 0 => status' = 0) /\ status' \in 0 .. 255
  BY <1>4, LinkAssumption
<1>6. /\ disk' \in [Files -> Content] /\ disk'[OutputFile] = Translated("object")
      /\ s = 0 => disk'[Executable] = Translated("executable")
      /\ s # 0 => disk' = disk
  <2>1. Translated("executable") \in Content
    BY <1>2, FileType DEF Translated, Kinds
  <2> QED
    BY <1>2, <1>3, <1>4, <2>1
<1>7. TypeOK'
  BY <1>1, <1>4, <1>5, <1>6, WritingType DEF IInv
<1>8. AtWork' /\ Counted' /\ OnlyAccepted'
  BY <1>1, <1>4, WritingRest
<1>9. Written'
  BY <1>4 DEF Written
<1>10. SuccessFresh'
  <2>1. Command' = "compile" /\ Accepted' /\ program'.main
    BY <1>1, <1>2, KeptSame DEF Kept
  <2>2. disk'[OutputFile'] = Translated("object")' /\ (result' = 0 => disk'[Executable'] = Translated("executable")')
    BY <1>1, <1>4, <1>6, KeptSame
  <2> QED
    BY <2>1, <2>2 DEF SuccessFresh, Finished
<1>11. FailureKeeps'
  BY <1>1, <1>2, <1>4, <1>5, <1>6, KeptSame DEF FailureKeeps, Kept
<1> QED
  BY <1>7, <1>8, <1>9, <1>10, <1>11 DEF IInv

-----------------------------------------------------------------------------
(* The theorems.                                                           *)

LEMMA Invariance == Spec => []IInv
<1>1. IInv /\ [Next]_vars => IInv'
  <2> SUFFICES ASSUME IInv, [Next]_vars PROVE IInv'
    OBVIOUS
  <2>1. CASE UNCHANGED vars
    BY <2>1, StutterStep
  <2>2. CASE Next
    BY <2>2, StutterStep, EditStep, executeCommandStep, execute_version_or_helpStep, execute_create_commandStep,
       execute_source_commandStep, OutputNameStep, WarningFlagStep, LinkerFlagsStep, UnknownFlagStep,
       NoMoreOptionsStep, check_aviable_linkerStep, parse_source_codeStep, check_compilation_unitStep,
       GenerateStep, OpenOutputStep, EmitStep, LinkStep
       DEF Next, Stop
  <2> QED
    BY <2>1, <2>2
<1> QED
  BY <1>1, InitStep, PTL DEF Spec

\* The variables of the driver have their types, an exit status is a byte.
THEOREM TypeCorrect == Spec => []TypeOK
BY Invariance, PTL DEF IInv

\* No command generates code from a text that one of the phases refused.
THEOREM GeneratesAccepted == Spec => []OnlyAccepted
BY Invariance, PTL DEF IInv

\* Exit status 0 stands for a new translation of an accepted text.
THEOREM SuccessIsFresh == Spec => []SuccessFresh
BY Invariance, PTL DEF IInv

\* A command that fails leaves the files as they were, but for its own object file.
THEOREM FailureIsClean == Spec => []FailureKeeps
BY Invariance, PTL DEF IInv

-----------------------------------------------------------------------------
(* The arguments: where a flag stands.                                     *)

LEMMA FirstIsNoName == ASSUME NEW args PROVE ~IsName(args, 3)
<1>1. NameBefore(args, 3) = {}
  BY DEF NameBefore
<1> QED
  BY <1>1, FS_EmptySet DEF IsName

LEMMA NextName ==
  ASSUME NEW args, NEW k \in Nat, k >= 3
  PROVE  IsName(args, k + 1) <=> args[k] = "-o" /\ ~IsName(args, k)
<1>1. IsFiniteSet(NameBefore(args, k)) /\ k \notin NameBefore(args, k)
  <2>1. NameBefore(args, k) \in SUBSET (3 .. k - 1) /\ k \notin 3 .. k - 1
    BY DEF NameBefore
  <2>2. IsFiniteSet(3 .. k - 1)
    BY FS_Interval
  <2> QED
    BY <2>1, <2>2, FS_Subset
<1>2. CASE args[k] # "-o"
  <2>1. NameBefore(args, k + 1) = {}
    BY <1>2 DEF NameBefore
  <2> QED
    BY <1>2, <2>1, FS_EmptySet DEF IsName
<1>3. CASE args[k] = "-o"
  <2>1. NameBefore(args, k + 1) = NameBefore(args, k) \cup {k}
    <3>1. ASSUME NEW j PROVE j \in NameBefore(args, k + 1) <=> j \in NameBefore(args, k) \cup {k}
      <4>1. j \in 3 .. (k + 1) - 1 <=> j \in 3 .. k - 1 \/ j = k
        OBVIOUS
      <4>2. CASE j = k
        BY <1>3, <4>2 DEF NameBefore
      <4>3. ASSUME j \in 3 .. k - 1
            PROVE  (\A m \in j .. (k + 1) - 1 : args[m] = "-o") <=> \A m \in j .. k - 1 : args[m] = "-o"
        <5>1. \A m : m \in j .. (k + 1) - 1 <=> m \in j .. k - 1 \/ m = k
          BY <4>3
        <5> QED
          BY <1>3, <5>1
      <4> QED
        BY <4>1, <4>2, <4>3 DEF NameBefore
    <3> QED
      BY <3>1
  <2>2. /\ Cardinality(NameBefore(args, k)) \in Nat
        /\ Cardinality(NameBefore(args, k + 1)) = Cardinality(NameBefore(args, k)) + 1
    BY <1>1, <2>1, FS_AddElement, FS_CardinalityType
  <2> QED
    BY <1>3, <2>2 DEF IsName
<1> QED
  BY <1>2, <1>3

-----------------------------------------------------------------------------
(* The loop over the arguments: what has been read before the i-th.        *)

FlagNames == {"-o", "-w", "-werr", "-l"}
Seen(k) == {j \in 3 .. k - 1 : ~IsName(argv, j)}

\* The flags that stand before the k-th argument, and what they mean.
Fine(k) ==
  /\ k \in 3 .. Len(argv) + 1 /\ ~IsName(argv, k)
  /\ \A j \in Seen(k) : argv[j] \in {"-o", "-w", "-werr"} /\ (argv[j] = "-o" => j < Len(argv))
  /\ \A j, m \in Seen(k) : argv[j] = argv[m] => j = m
ReadSoFar(k) ==
  /\ received_options = {argv[j] : j \in Seen(k)}
  /\ options.linker_extra_flags = <<>>
  /\ options.should_report_warns <=> received_options \cap {"-w", "-werr"} # {}
  /\ options.convert_warns_to_errors <=> "-werr" \in received_options
  /\ "-o" \notin received_options => options.output_file_name = "output"
  /\ \A j \in Seen(k) : argv[j] = "-o" => options.output_file_name = argv[j + 1]

OptionsInv ==
  /\ step \in {"none", "command"} => options = Defaults /\ received_options = {} /\ i = 3
  /\ step = "options" => Fine(i) /\ ReadSoFar(i)

\* Among the flags that were fine, none takes the rest for the linker.
LEMMA SeenFlags ==
  ASSUME NEW k \in Nat, Fine(k), Len(argv) \in Nat
  PROVE  /\ Seen(k) = {j \in Flags(argv) : j < k}
         /\ k <= Len(argv) => k \in Flags(argv)
<1>1. ASSUME NEW j \in 3 .. k - 1, argv[j] = "-l" PROVE IsName(argv, j)
  BY <1>1 DEF Fine, Seen
<1>2. \A m \in 3 .. k : ~ForLinker(argv, m)
  BY <1>1 DEF ForLinker
<1>3. \A j \in 3 .. k - 1 : j \in 3 .. Len(argv)
  BY DEF Fine
<1>4. \A j : j \in 3 .. Len(argv) /\ j < k <=> j \in 3 .. k - 1
  BY <1>3
<1>5. Seen(k) = {j \in Flags(argv) : j < k}
  <2>1. ASSUME NEW j PROVE j \in Seen(k) <=> j \in Flags(argv) /\ j < k
    BY <1>2, <1>3, <1>4 DEF Seen, Flags
  <2> QED
    BY <2>1
<1>6. k <= Len(argv) => k \in Flags(argv)
  BY <1>2 DEF Fine, Flags
<1> QED
  BY <1>5, <1>6

\* One flag more, with the name behind it or without.
LEMMA OneMore ==
  ASSUME NEW k \in Nat, Fine(k), k <= Len(argv), Len(argv) \in Nat,
         argv[k] \in {"-o", "-w", "-werr"}, argv[k] = "-o" => k < Len(argv),
         argv[k] \notin {argv[j] : j \in Seen(k)}
  PROVE  LET next == IF argv[k] = "-o" THEN k + 2 ELSE k + 1
         IN Fine(next) /\ Seen(next) = Seen(k) \cup {k}
<1> DEFINE next == IF argv[k] = "-o" THEN k + 2 ELSE k + 1
<1>1. k >= 3 /\ ~IsName(argv, k) /\ k + 1 \in Nat /\ k + 1 >= 3 /\ (k + 1) + 1 = k + 2
  BY DEF Fine
<1>2. IsName(argv, k + 1) <=> argv[k] = "-o"
  BY <1>1, NextName
<1>3. argv[k] = "-o" => ~IsName(argv, k + 2)
  BY <1>1, <1>2, NextName
<1>4. next \in 3 .. Len(argv) + 1 /\ ~IsName(argv, next)
  BY <1>1, <1>2, <1>3
<1>5. Seen(next) = Seen(k) \cup {k}
  <2>1. CASE argv[k] = "-o"
    <3>1. \A j : j \in 3 .. (k + 2) - 1 <=> j \in 3 .. k - 1 \/ j = k \/ j = k + 1
      BY <1>1
    <3> QED
      BY <1>1, <1>2, <2>1, <3>1 DEF Seen
  <2>2. CASE argv[k] # "-o"
    <3>1. \A j : j \in 3 .. (k + 1) - 1 <=> j \in 3 .. k - 1 \/ j = k
      BY <1>1
    <3> QED
      BY <1>1, <2>2, <3>1 DEF Seen
  <2> QED
    BY <2>1, <2>2
<1>6. \A j \in Seen(next) : argv[j] \in {"-o", "-w", "-werr"} /\ (argv[j] = "-o" => j < Len(argv))
  BY <1>5 DEF Fine
<1>7. \A j, m \in Seen(next) : argv[j] = argv[m] => j = m
  BY <1>5 DEF Fine
<1> QED
  BY <1>4, <1>5, <1>6, <1>7 DEF Fine

\* Flags that are fine and lead to the end of the arguments are well-formed, and
\* what was read is what they mean.
LEMMA AllRead ==
  ASSUME options \in Options, Len(argv) \in Nat, NEW k \in Nat, Fine(k), ReadSoFar(k), k > Len(argv)
  PROVE  WellFormed(argv) /\ options = Meaning(argv)
<1>1. Flags(argv) = Seen(k)
  BY SeenFlags DEF Flags
<1>2. WellFormed(argv)
  BY <1>1 DEF Fine, WellFormed
<1>3. \A flag : Given(argv, flag) <=> flag \in received_options
  BY <1>1 DEF Given, ReadSoFar
<1>4. ~Given(argv, "-l")
  BY <1>1 DEF Fine, Given
<1>5. options.output_file_name =
        IF Given(argv, "-o") THEN argv[(CHOOSE j \in Flags(argv) : argv[j] = "-o") + 1] ELSE "output"
  <2>1. ASSUME Given(argv, "-o")
        PROVE  options.output_file_name = argv[(CHOOSE j \in Flags(argv) : argv[j] = "-o") + 1]
    <3> DEFINE o == CHOOSE j \in Flags(argv) : argv[j] = "-o"
    <3>1. o \in Flags(argv) /\ argv[o] = "-o"
      BY <2>1 DEF Given
    <3> QED
      BY <1>1, <3>1 DEF ReadSoFar
  <2>2. ~Given(argv, "-o") => options.output_file_name = "output"
    BY <1>3 DEF ReadSoFar
  <2> QED
    BY <2>1, <2>2
<1>6. /\ options.should_report_warns = (Given(argv, "-w") \/ Given(argv, "-werr"))
      /\ options.convert_warns_to_errors = Given(argv, "-werr")
      /\ options.linker_extra_flags = <<>>
  BY <1>3 DEF ReadSoFar, Options, Given
<1> QED
  BY <1>2, <1>4, <1>5, <1>6 DEF Options, Meaning

\* -l takes the rest.
LEMMA RestRead ==
  ASSUME options \in Options, Len(argv) \in Nat, NEW k \in Nat, Fine(k), ReadSoFar(k), k <= Len(argv),
         argv[k] = "-l"
  PROVE  /\ WellFormed(argv)
         /\ [options EXCEPT !.linker_extra_flags = SubSeq(argv, k + 1, Len(argv))] = Meaning(argv)
<1> DEFINE read == [options EXCEPT !.linker_extra_flags = SubSeq(argv, k + 1, Len(argv))]
<1>1. Flags(argv) = Seen(k) \cup {k}
  <2>1. Seen(k) = {j \in Flags(argv) : j < k} /\ k \in Flags(argv) /\ ~IsName(argv, k) /\ k >= 3
    BY SeenFlags DEF Fine
  <2>2. ASSUME NEW j \in Flags(argv), j > k PROVE FALSE
    <3>1. k \in 3 .. j - 1 /\ ~ForLinker(argv, j)
      BY <2>1, <2>2 DEF Flags
    <3> QED
      BY <2>1, <3>1 DEF ForLinker
  <2>3. \A j \in Flags(argv) : j \in Nat
    BY DEF Flags
  <2>4. \A j \in Flags(argv) : j < k \/ j = k
    BY <2>2, <2>3
  <2> QED
    BY <2>1, <2>4
<1>2. \A j \in Seen(k) : argv[j] # "-l"
  BY DEF Fine
<1>3. WellFormed(argv)
  BY <1>1, <1>2 DEF Fine, WellFormed
<1>4. /\ \A flag : flag # "-l" => (Given(argv, flag) <=> flag \in received_options)
      /\ Given(argv, "-l") /\ (CHOOSE j \in Flags(argv) : argv[j] = "-l") = k
  <2>1. \A j \in Flags(argv) : argv[j] = "-l" <=> j = k
    BY <1>1, <1>2
  <2>2. (CHOOSE j \in Flags(argv) : argv[j] = "-l") = k
    BY <1>1, <2>1
  <2> QED
    BY <1>1, <2>2 DEF Given, ReadSoFar
<1>5. options.output_file_name =
        IF Given(argv, "-o") THEN argv[(CHOOSE j \in Flags(argv) : argv[j] = "-o") + 1] ELSE "output"
  <2>1. ASSUME Given(argv, "-o")
        PROVE  options.output_file_name = argv[(CHOOSE j \in Flags(argv) : argv[j] = "-o") + 1]
    <3> DEFINE o == CHOOSE j \in Flags(argv) : argv[j] = "-o"
    <3>1. o \in Flags(argv) /\ argv[o] = "-o"
      BY <2>1 DEF Given
    <3> QED
      BY <1>1, <3>1 DEF ReadSoFar
  <2>2. ~Given(argv, "-o") => options.output_file_name = "output"
    BY <1>4 DEF ReadSoFar
  <2> QED
    BY <2>1, <2>2
<1>6. /\ options.should_report_warns = (Given(argv, "-w") \/ Given(argv, "-werr"))
      /\ options.convert_warns_to_errors = Given(argv, "-werr")
  BY <1>4 DEF ReadSoFar, Options, Given
<1>7. IF Given(argv, "-l")
      THEN read.linker_extra_flags = SubSeq(argv, (CHOOSE j \in Flags(argv) : argv[j] = "-l") + 1, Len(argv))
      ELSE FALSE
  BY <1>4 DEF Options
<1>8. read = [output_file_name |-> options.output_file_name,
              should_report_warns |-> options.should_report_warns,
              convert_warns_to_errors |-> options.convert_warns_to_errors,
              linker_extra_flags |-> read.linker_extra_flags]
  <2> DEFINE rest == SubSeq(argv, k + 1, Len(argv))
  <2> HIDE DEF rest
  <2>1. [options EXCEPT !.linker_extra_flags = rest] =
          [output_file_name |-> options.output_file_name,
           should_report_warns |-> options.should_report_warns,
           convert_warns_to_errors |-> options.convert_warns_to_errors,
           linker_extra_flags |-> rest]
    BY DEF Options
  <2>2. read.linker_extra_flags = rest
    BY DEF Options, rest
  <2> QED
    BY <2>1, <2>2 DEF rest
<1> HIDE DEF read
<1>9. read = Meaning(argv)
  BY <1>5, <1>6, <1>7, <1>8 DEF Meaning
<1> QED
  BY <1>3, <1>9 DEF read

-----------------------------------------------------------------------------
(* The steps of the loop.                                                  *)

\* Before the loop, the options are those of a new process.
LEMMA InitRead == Init => OptionsInv
BY DEF Init, OptionsInv

LEMMA ArgvFacts ==
  ASSUME IInv, OptionsInv, step = "options"
  PROVE  /\ options \in Options /\ Len(argv) \in Nat /\ i \in Nat /\ Fine(i) /\ ReadSoFar(i)
         /\ AfterOptions \in {"linker", "parse"}
BY OptionsType DEF IInv, TypeOK, OptionsInv, AfterOptions

LEMMA StartsReading ==
  ASSUME IInv, OptionsInv, execute_source_command
  PROVE  OptionsInv'
<1>1. /\ options = Defaults /\ received_options = {} /\ i = 3 /\ UNCHANGED <<started, optionsRead>>
      /\ step' \in {"exited", "parse", "options"} /\ (step' = "options" => Len(argv) >= 2)
  BY DEF execute_source_command, OptionsInv, Exit, Continue, SourceGiven
<1>2. CASE step' = "options"
  <2>1. Len(argv) \in Nat /\ argv' = argv /\ i' = 3 /\ options' = Defaults /\ received_options' = {}
    BY <1>1 DEF IInv, TypeOK, started, optionsRead
  <2>2. Seen(3)' = {}
    BY DEF Seen
  <2>3. Fine(3)'
    BY <1>1, <1>2, <2>1, <2>2, FirstIsNoName DEF Fine
  <2>4. ReadSoFar(3)'
    BY <2>1, <2>2 DEF ReadSoFar, Defaults
  <2> QED
    BY <1>2, <2>1, <2>3, <2>4 DEF OptionsInv, Fine, ReadSoFar, Seen
<1> QED
  BY <1>1, <1>2 DEF OptionsInv

\* A name after -o, and a flag without one.
LEMMA OutputNameRead ==
  ASSUME IInv, OptionsInv, OutputName
  PROVE  OptionsInv' /\ (step' # "options" => step' = "exited" /\ ~WellFormed(argv))
<1>1. /\ step = "options" /\ i <= Len(argv) /\ argv[i] = "-o" /\ argv' = argv
      /\ options \in Options /\ Len(argv) \in Nat /\ i \in Nat /\ Fine(i) /\ ReadSoFar(i)
  BY ArgvFacts DEF OutputName, Reading, started
<1>2. Seen(i) = {j \in Flags(argv) : j < i} /\ i \in Flags(argv)
  BY <1>1, SeenFlags
<1>3. CASE "-o" \in received_options \/ i = Len(argv)
  <2>1. step' = "exited"
    BY <1>3 DEF OutputName, Exit
  <2>2. CASE "-o" \in received_options
    <3>1. PICK j \in Seen(i) : argv[j] = "-o"
      BY <1>1, <2>2 DEF ReadSoFar
    <3>2. j \in Flags(argv) /\ j < i
      BY <1>2, <3>1
    <3> QED
      BY <1>1, <1>2, <2>1, <3>1, <3>2 DEF WellFormed, OptionsInv
  <2>3. CASE i = Len(argv)
    BY <1>1, <1>2, <2>1, <2>3 DEF WellFormed, OptionsInv
  <2> QED
    BY <1>3, <2>2, <2>3
<1>4. CASE ~("-o" \in received_options \/ i = Len(argv))
  <2>1. /\ step' = "options" /\ i' = i + 2 /\ received_options' = received_options \cup {"-o"}
        /\ options' = [options EXCEPT !.output_file_name = argv[i + 1]]
    BY <1>1, <1>4 DEF OutputName
  <2>2. argv[i] \notin {argv[j] : j \in Seen(i)} /\ i < Len(argv)
    BY <1>1, <1>4 DEF ReadSoFar
  <2>3. Fine(i + 2) /\ Seen(i + 2) = Seen(i) \cup {i}
    BY <1>1, <2>2, OneMore
  <2>4. /\ options'.output_file_name = argv[i + 1] /\ options'.linker_extra_flags = <<>>
        /\ options'.should_report_warns <=> options.should_report_warns
        /\ options'.convert_warns_to_errors <=> options.convert_warns_to_errors
    BY <1>1, <2>1 DEF Options, ReadSoFar
  <2>5. \A j \in Seen(i + 2) : argv[j] = "-o" => j = i
    BY <1>1, <2>2, <2>3
  <2>6. received_options' = {argv[j] : j \in Seen(i + 2)}
    BY <1>1, <2>1, <2>3 DEF ReadSoFar
  <2>7. Seen(i)' = Seen(i + 2) /\ i' = i + 2
    BY <1>1, <2>1 DEF Seen
  <2>8. Fine(i)'
    BY <1>1, <2>1, <2>3, <2>7 DEF Fine
  <2>9. /\ "-o" \in received_options' /\ received_options' \cap {"-w", "-werr"} = received_options \cap {"-w", "-werr"}
        /\ "-werr" \in received_options' <=> "-werr" \in received_options
    BY <2>1
  <2>10. ReadSoFar(i)'
    <3>1. \A j \in Seen(i)' : argv'[j] = "-o" => options'.output_file_name = argv'[j + 1]
      BY <1>1, <2>4, <2>5, <2>7
    <3>2. received_options' = {argv'[j] : j \in Seen(i)'}
      BY <1>1, <2>6, <2>7
    <3> QED
      BY <1>1, <2>4, <2>9, <3>1, <3>2 DEF ReadSoFar
  <2> QED
    BY <2>1, <2>8, <2>10 DEF OptionsInv
<1> QED
  BY <1>3, <1>4

LEMMA WarningFlagRead ==
  ASSUME IInv, OptionsInv, WarningFlag
  PROVE  OptionsInv' /\ (step' # "options" => step' = "exited" /\ ~WellFormed(argv))
<1>1. PICK flag \in {"-w", "-werr"} :
        /\ Reading(flag) /\ argv' = argv
        /\ IF flag \in received_options
           THEN Exit(Failure) /\ UNCHANGED optionsRead
           ELSE /\ options' = [options EXCEPT !.should_report_warns = TRUE,
                                              !.convert_warns_to_errors = @ \/ flag = "-werr"]
                /\ received_options' = received_options \cup {flag}
                /\ i' = i + 1 /\ UNCHANGED <<step, status>>
  BY DEF WarningFlag, started
<1>2. /\ step = "options" /\ i <= Len(argv) /\ argv[i] = flag
      /\ options \in Options /\ Len(argv) \in Nat /\ i \in Nat /\ Fine(i) /\ ReadSoFar(i)
  BY <1>1, ArgvFacts DEF Reading
<1>3. Seen(i) = {j \in Flags(argv) : j < i} /\ i \in Flags(argv)
  BY <1>2, SeenFlags
<1>4. CASE flag \in received_options
  <2>1. step' = "exited"
    BY <1>1, <1>4 DEF Exit
  <2>2. PICK j \in Seen(i) : argv[j] = flag
    BY <1>2, <1>4 DEF ReadSoFar
  <2>3. j \in Flags(argv) /\ j < i
    BY <1>3, <2>2
  <2> QED
    BY <1>2, <1>3, <2>1, <2>2, <2>3 DEF WellFormed, OptionsInv
<1>5. CASE flag \notin received_options
  <2>1. /\ step' = "options" /\ i' = i + 1 /\ received_options' = received_options \cup {flag}
        /\ options' = [options EXCEPT !.should_report_warns = TRUE,
                                      !.convert_warns_to_errors = @ \/ flag = "-werr"]
    BY <1>1, <1>2, <1>5
  <2>2. argv[i] \notin {argv[j] : j \in Seen(i)} /\ argv[i] # "-o"
    BY <1>2, <1>5 DEF ReadSoFar
  <2>3. Fine(i + 1) /\ Seen(i + 1) = Seen(i) \cup {i}
    BY <1>2, <2>2, OneMore
  <2>4. /\ options'.output_file_name = options.output_file_name /\ options'.linker_extra_flags = <<>>
        /\ options'.should_report_warns = TRUE
        /\ options'.convert_warns_to_errors <=> options.convert_warns_to_errors \/ flag = "-werr"
    BY <1>2, <2>1 DEF Options, ReadSoFar
  <2>5. \A j \in Seen(i + 1) : argv[j] = "-o" => j \in Seen(i)
    BY <1>2, <2>3
  <2>6. received_options' = {argv[j] : j \in Seen(i + 1)}
    BY <1>2, <2>1, <2>3 DEF ReadSoFar
  <2>7. Seen(i)' = Seen(i + 1) /\ i' = i + 1
    BY <1>1, <2>1 DEF Seen
  <2>8. Fine(i)'
    BY <1>1, <2>1, <2>3, <2>7 DEF Fine, Seen
  <2>9. ReadSoFar(i)'
    BY <1>1, <1>2, <2>1, <2>4, <2>5, <2>6, <2>7 DEF ReadSoFar, Seen
  <2> QED
    BY <2>1, <2>8, <2>9 DEF OptionsInv
<1> QED
  BY <1>4, <1>5

LEMMA UnknownFlagRead ==
  ASSUME IInv, OptionsInv, UnknownFlag
  PROVE  OptionsInv' /\ step' = "exited" /\ ~WellFormed(argv)
<1>1. /\ step = "options" /\ i <= Len(argv) /\ argv[i] \notin FlagNames /\ step' = "exited"
      /\ Len(argv) \in Nat /\ i \in Nat /\ Fine(i)
  BY ArgvFacts DEF UnknownFlag, Exit, FlagNames
<1>2. i \in Flags(argv)
  BY <1>1, SeenFlags
<1> QED
  BY <1>1, <1>2 DEF WellFormed, FlagNames, OptionsInv

\* The loop ends: with the flags of the linker, or with the arguments.
LEMMA LoopEnds ==
  ASSUME IInv, OptionsInv, LinkerFlags \/ NoMoreOptions
  PROVE  OptionsInv' /\ step' \in {"linker", "parse"} /\ WellFormed(argv) /\ options' = Meaning(argv)
<1>1. /\ step = "options" /\ step' = AfterOptions
      /\ options \in Options /\ Len(argv) \in Nat /\ i \in Nat /\ Fine(i) /\ ReadSoFar(i)
      /\ AfterOptions \in {"linker", "parse"}
  BY ArgvFacts DEF LinkerFlags, NoMoreOptions, Reading, Continue
<1>2. WellFormed(argv) /\ options' = Meaning(argv)
  <2>1. CASE LinkerFlags
    BY <1>1, <2>1, RestRead DEF LinkerFlags, Reading
  <2>2. CASE NoMoreOptions
    BY <1>1, <2>2, AllRead DEF NoMoreOptions, optionsRead
  <2> QED
    BY <2>1, <2>2
<1> QED
  BY <1>1, <1>2 DEF OptionsInv

\* Nothing else reads an argument.
LEMMA OtherRead ==
  ASSUME IInv, OptionsInv, [Next]_vars,
         ~execute_source_command, ~OutputName, ~WarningFlag, ~UnknownFlag, ~LinkerFlags, ~NoMoreOptions
  PROVE  OptionsInv' /\ (step = "options" => step' = "options")
<1>1. CASE UNCHANGED vars \/ Stop
  BY <1>1 DEF vars, Stop, OptionsInv, Fine, ReadSoFar, Seen
<1>2. CASE Edit
  BY <1>2 DEF Edit, NewProcess, OptionsInv
<1>3. CASE executeCommand
  BY <1>3 DEF executeCommand, Continue, Exit, optionsRead, OptionsInv
<1>4. CASE execute_version_or_help \/ execute_create_command
  BY <1>4 DEF execute_version_or_help, execute_create_command, Exit, OptionsInv
<1>5. CASE check_aviable_linker \/ parse_source_code \/ check_compilation_unit \/ Generate
  BY <1>5 DEF check_aviable_linker, parse_source_code, check_compilation_unit, Generate, Exit, Continue, OptionsInv
<1>6. CASE OpenOutput \/ Emit \/ Link
  BY <1>6 DEF OpenOutput, Emit, Link, Exit, Continue, OptionsInv
<1> QED
  BY <1>1, <1>2, <1>3, <1>4, <1>5, <1>6 DEF Next

LEMMA ReadStep ==
  ASSUME IInv, OptionsInv, [Next]_vars
  PROVE  /\ OptionsInv'
         /\ step = "options" /\ step' # "options" =>
              IF step' = "exited" THEN ~WellFormed(argv)
              ELSE WellFormed(argv) /\ options' = Meaning(argv)
<1>1. CASE execute_source_command
  BY <1>1, StartsReading DEF execute_source_command
<1> QED
  BY <1>1, OutputNameRead, WarningFlagRead, UnknownFlagRead, LoopEnds, OtherRead

\* The loop over the arguments refuses exactly the lists that are not well-formed,
\* and gives every other one its meaning.
THEOREM OptionsAreRead == Spec => OptionsRead
<1>1. IInv /\ OptionsInv /\ [Next]_vars => OptionsInv'
  BY ReadStep
<1>2. IInv /\ OptionsInv /\ [Next]_vars =>
        [step = "options" /\ step' # "options" =>
           IF step' = "exited" THEN ~WellFormed(argv)
           ELSE WellFormed(argv) /\ options' = Meaning(argv)]_vars
  BY ReadStep
<1> QED
  BY <1>1, <1>2, InitRead, Invariance, PTL DEF Spec, OptionsRead
=============================================================================
