--------------------------- MODULE ExecutorRefines ---------------------------
(***************************************************************************)
(* The abstract specifications that the executor implements.               *)
(***************************************************************************)
EXTENDS Executor

(* What the subscription being made carries. *)
Offered == IF pc["main"] = "subscribing" THEN {resend} ELSE {}

Ledger == INSTANCE UpdateLedger WITH
  reached <- accepted,
  open <- InFlight,
  kept <- unacked,
  offer <- Offered,
  settled <- acked,
  dropped <- lost

(* The books the executor keeps of its status updates, with an update sent,  *)
(* recorded, acknowledged and offered again by different goroutines at any   *)
(* moment, are those UpdateLedger promises the agent: no update is forgotten *)
(* between two of these steps, and each subscription carries all that are    *)
(* kept (executor.go:156, 313-325, 350-400).                                 *)
ImplementsLedger == Ledger!Spec

(* How far the task is, read off the container and the agent. *)
Over == container \in {"exited", "removed"} \/ \E u \in accepted : Terminal(u)
Phase == IF Over THEN "over" ELSE IF container = "running" THEN "up" ELSE "staging"

Task == INSTANCE TaskLifecycle WITH
  States <- {"RUNNING", "KILLED", "FAILED", "FINISHED"},
  phase <- Phase,
  checked <- (checkType # "NONE"),
  told <- {StateOf(u) : u \in accepted}

(* The framework is never told more than is true: no terminal state of a     *)
(* task that runs or will, no success before TASK_RUNNING, no TASK_RUNNING   *)
(* before the container started and, without a health checker, none after a  *)
(* terminal state, although four goroutines report on their own              *)
(* (executor.go:209-311, 402-510).                                           *)
ImplementsTask == Task!Spec
=============================================================================
