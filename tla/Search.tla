------------------------------- MODULE Search -------------------------------
(***************************************************************************)
(* What one run of ucg promises its user: the matches of every file that   *)
(* has any are written once, whole and in one piece, in some order of the  *)
(* files; and the program ends with a status that says whether there were  *)
(* any.  Pipeline implements it.                                           *)
(***************************************************************************)
EXTENDS Naturals, Sequences

CONSTANT
  Results     \* [file -> its list of matched lines], of the files that have any

VARIABLES
  may_abort,  \* whether the process may be terminated by an exception; never changes
  shown,      \* the lists written so far
  exit        \* "running", "match", "nomatch", "failed" or "aborted"

vars == <<may_abort, shown, exit>>

Init == may_abort \in BOOLEAN /\ shown = <<>> /\ exit = "running"

List(f) == [file |-> f, lines |-> Results[f]]

Shown(f) == \E i \in DOMAIN shown : shown[i].file = f

Show(f) ==
  /\ exit = "running"
  /\ ~Shown(f)
  /\ shown' = Append(shown, List(f))
  /\ UNCHANGED exit

Exit ==
  /\ exit = "running"
  /\ \A f \in DOMAIN Results : Shown(f)
  /\ exit' = IF shown = <<>> THEN "nomatch" ELSE "match"
  /\ UNCHANGED shown

\* The command line or the pattern is refused, or no thread can be started: nothing is written.
Fail == exit = "running" /\ shown = <<>> /\ exit' = "failed" /\ UNCHANGED shown

Abort == may_abort /\ exit = "running" /\ exit' = "aborted" /\ UNCHANGED shown

Next ==
  /\ (\E f \in DOMAIN Results : Show(f)) \/ Exit \/ Fail \/ Abort
  /\ UNCHANGED may_abort

\* The program ends.
Spec == Init /\ [][Next]_vars /\ WF_vars(Next)
=============================================================================
