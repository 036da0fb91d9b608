----------------------------- MODULE FileClosure -----------------------------
(***************************************************************************)
(* What loading promises, without parsers: starting from the main file,    *)
(* every path that an opened file names is opened, each at most once, and  *)
(* nothing else is; unless the compilation fails.                          *)
(***************************************************************************)
EXTENDS SourceTexts

VARIABLES
  content,  \* the text of every file
  opened,   \* the paths that have been opened
  outcome   \* "running", "parsed", "failed" or "crashed"

vars == <<content, opened, outcome>>

NeedsOf(path) == Named(path, content[FileAt(path)])

Init ==
  /\ content \in Contents
  /\ opened = {}
  /\ outcome = "running"

OpenMain ==
  /\ outcome = "running" /\ opened = {}
  /\ \E path \in MainPaths : FileAt(path) \in Files /\ opened' = {path}
  /\ UNCHANGED <<content, outcome>>

Open ==
  /\ outcome = "running"
  /\ \E from \in opened : \E path \in NeedsOf(from) :
       path \notin opened /\ FileAt(path) \in Files /\ opened' = opened \cup {path}
  /\ UNCHANGED <<content, outcome>>

Succeed ==
  /\ outcome = "running" /\ opened # {}
  /\ \A from \in opened : NeedsOf(from) \subseteq opened
  /\ outcome' = "parsed"
  /\ UNCHANGED <<content, opened>>

GiveUp ==
  /\ outcome = "running" /\ outcome' \in {"failed", "crashed"}
  /\ UNCHANGED <<content, opened>>

Next == OpenMain \/ Open \/ Succeed \/ GiveUp

Spec == Init /\ [][Next]_vars
=============================================================================
