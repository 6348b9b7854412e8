----------------------------- MODULE DockerExec -----------------------------
(***************************************************************************)
(* ContainerExec and checkExec of container/docker.go: a goroutine, the    *)
(* poller, runs a command in the container and sends what came of it on an *)
(* unbuffered channel of its own.  One poller per health check s: it may   *)
(* outlive the check, whose context ends by its deadline or by its cancel. *)
(***************************************************************************)
EXTENDS Naturals

CONSTANTS
  Slots   \* places for checks that are not over

VARIABLES
  poller,     \* where each poller is, or what it has to send
  ctxDone,    \* the context of each command has ended
  exitedZero  \* history: the poller saw its command exit with code zero

execVars == <<poller, ctxDone, exitedZero>>

(* "failed", "zero" and "nonzero" are sends that wait for a receiver. *)
PollerStates == {"none", "create", "start", "poll", "spin", "failed", "zero", "nonzero"}
Answers == {"failed", "zero", "nonzero"}

ExecInit ==
  /\ poller = [s \in Slots |-> "none"]
  /\ ctxDone = [s \in Slots |-> FALSE]
  /\ exitedZero = [s \in Slots |-> FALSE]

PollerGoto(s, label) == poller' = [poller EXCEPT ![s] = label]

(* The call itself: it starts the poller and returns. *)
ContainerExec(s) ==
  /\ PollerGoto(s, "create")
  /\ ctxDone' = [ctxDone EXCEPT ![s] = FALSE]
  /\ exitedZero' = [exitedZero EXCEPT ![s] = FALSE]

(* CreateExec, or its error. *)
PollerCreate(s) ==
  /\ poller[s] = "create"
  /\ PollerGoto(s, "start") \/ PollerGoto(s, "failed")
  /\ UNCHANGED <<ctxDone, exitedZero>>

(* StartExec follows the output of the command to its end, which may never   *)
(* come; the context does not interrupt it.                                  *)
PollerStart(s) ==
  /\ poller[s] = "start"
  /\ PollerGoto(s, "poll") \/ PollerGoto(s, "failed")
  /\ UNCHANGED <<ctxDone, exitedZero>>

(* One turn of the loop.  Once the context has ended the loop does nothing,  *)
(* for ever; before, checkExec finds the command running, or sends.          *)
PollerTurn(s) ==
  /\ poller[s] = "poll"
  /\ IF ctxDone[s]
       THEN PollerGoto(s, "spin") /\ UNCHANGED exitedZero
       ELSE \E answer \in {"poll", "zero", "nonzero"} :
              /\ PollerGoto(s, answer)
              /\ exitedZero' = [exitedZero EXCEPT ![s] = @ \/ answer = "zero"]
  /\ UNCHANGED ctxDone

(* The answer is received.  The poller ends only if its command never ran:   *)
(* otherwise it polls again.                                                 *)
SendAnswer(s) ==
  /\ PollerGoto(s, IF poller[s] = "failed" THEN "none" ELSE "poll")
  /\ UNCHANGED <<ctxDone, exitedZero>>

(* The deadline passes, or the check is over and cancels (seen is FALSE).    *)
EndContext(s, seen) ==
  /\ ctxDone' = [ctxDone EXCEPT ![s] = TRUE]
  /\ exitedZero' = [exitedZero EXCEPT ![s] = @ /\ seen]
  /\ UNCHANGED poller

PollerStep(s) == PollerCreate(s) \/ PollerStart(s) \/ PollerTurn(s)
=============================================================================
