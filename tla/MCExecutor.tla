----------------------------- MODULE MCExecutor -----------------------------
(***************************************************************************)
(* The faults of Executor for TLC.                                         *)
(***************************************************************************)
EXTENDS ExecutorRefines

(* What may fail in the run of signals: the hooks that run before and while  *)
(* the task runs, the stop and the wait, the agent's API and the event       *)
(* stream.  A creation or a start that fails goes where a hook that fails    *)
(* just before it goes, and what the stop hooks leave behind matters to no   *)
(* property there.                                                           *)
SignalFaults == {"hook", "stop", "wait", "update", "subscribe", "stream", "error"}

(* What may fail while a health checker runs: none of the faults that leave  *)
(* the container running or its rules in place, and few others, for the      *)
(* larger state space.                                                       *)
CheckedFaults == {"hook", "inspect", "update", "error"}
=============================================================================
