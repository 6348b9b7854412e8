---------------------------- MODULE TaskLifecycle ----------------------------
(***************************************************************************)
(* The task as the framework sees it: its container starts at most once,   *)
(* and what the executor reports is never ahead of what has happened.  A   *)
(* report of TASK_RUNNING may come after a terminal one only when the task *)
(* has a health checker, whose goroutine and main's both send it.          *)
(***************************************************************************)
CONSTANTS
  States   \* the states an update may report

VARIABLES
  phase,   \* staging, up or over
  checked, \* the task has a health checker: it never changes
  told     \* the states that were reported

lifecycle == <<phase, checked, told>>

TerminalStates == States \ {"RUNNING"}

Init ==
  /\ phase = "staging"
  /\ checked \in BOOLEAN
  /\ told = {}

(* A task of which the end was reported is over, and never starts. *)
Start ==
  /\ phase = "staging"
  /\ phase' = "up"
  /\ UNCHANGED <<checked, told>>

End ==
  /\ phase' = "over"
  /\ UNCHANGED <<checked, told>>

ReportRunning ==
  /\ phase # "staging"
  /\ checked \/ told \subseteq {"RUNNING"}
  /\ told' = told \cup {"RUNNING"}
  /\ UNCHANGED <<phase, checked>>

(* The end of a task that was never up, or is no more; success only after a  *)
(* TASK_RUNNING.                                                             *)
ReportEnd(state) ==
  /\ phase # "up"
  /\ state = "FINISHED" => "RUNNING" \in told
  /\ phase' = "over"
  /\ told' = told \cup {state}
  /\ UNCHANGED checked

Next ==
  \/ Start \/ End \/ ReportRunning
  \/ \E state \in TerminalStates : ReportEnd(state)

Spec == Init /\ [][Next]_lifecycle
=============================================================================
