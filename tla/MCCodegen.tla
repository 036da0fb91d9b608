------------------------------ MODULE MCCodegen ------------------------------
(***************************************************************************)
(* CodegenDefers and CodegenControl on small programs.  A .cfg chooses     *)
(* which of the program classes below it explores.                         *)
(***************************************************************************)
EXTENDS CodegenDefers

One    == {1}
OneTwo == {1, 2}
None   == {}

Constructs == {"while", "forever", "if", "block"}
Jumping    == {"return", "break", "continue"}

\* Every way to combine the constructs, functions made inside functions too.
Everything == Constructs \cup Jumping \cup {"work", "defer", "lambda", "generic"}
Simple     == {"work", "break", "continue"}

\* The programs the generator has no trouble with.
Structured == Loops \cup Selects \cup Jumping \cup {"defer", "generic"}
LoopBodies == Loops \cup Selects

\* Functions made inside functions, no branches.
Inner == {"work", "defer", "block", "while", "break", "lambda", "generic"}
=============================================================================
