------------------------------- MODULE Checks -------------------------------
(***************************************************************************)
(* The health checker with its check functions, checkHTTP, checkTCP and    *)
(* checkCommand of healthcheck/healthcheck.go.  HealthChecker reduces a    *)
(* check to its result; here each check is a goroutine, which Run starts   *)
(* on a tick and whose result Run takes from a channel made for it:        *)
(*   - a check of a bridged task enters the container's namespace          *)
(*     (Namespace) and its deferred calls run after Run went on, beside    *)
(*     the next check;                                                     *)
(*   - a command is run by a poller (DockerExec), with a deadline.         *)
(***************************************************************************)
EXTENDS HealthChecker, Namespace, DockerExec, FiniteSets

CONSTANTS
  Networks   \* the network modes a task may come with

ASSUME ChecksAssumption ==
  /\ Networks \subseteq {"BRIDGE", "HOST", "USER", "NONE"}
  /\ "nobody" \notin Slots

VARIABLES
  network,   \* the network mode of the task: it never changes
  at,        \* where the check in each slot is, or the result it has to send
  probed     \* history: the namespace in which the check last got an answer

checkVars == <<network, at, probed>>
vars == <<ckVars, nsVars, execVars, checkVars>>

CheckLabels == {"idle", "enter", "switch", "dial", "read", "hung", "exec", "wait",
                "healthy", "unhealthy", "exit", "cancel"}

(* Only a bridged task is checked in a namespace other than the executor's:  *)
(* one of a user network or of none, which runs in a namespace of its own,   *)
(* is checked on the host as well.                                           *)
Bridged == network = "BRIDGE" /\ checkType \in {"HTTP", "TCP"}

Init ==
  /\ CkInit /\ NsInit /\ ExecInit
  /\ network \in Networks
  /\ at = [s \in Slots |-> "idle"]
  /\ probed = [s \in Slots |-> "none"]

Goto(s, label) == at' = [at EXCEPT ![s] = label]
Quiet == UNCHANGED <<ckVars, network>>

(* A tick starts a check.  A poller left by an older check stays for ever,   *)
(* and nobody receives from it: it is forgotten when its slot is taken.      *)
Take(s) ==
  /\ at[s] = "idle"
  /\ CkTake
  /\ Goto(s, CASE checkType = "COMMAND" -> "exec"
               [] Bridged -> "enter"
               [] OTHER -> "dial")
  /\ probed' = [probed EXCEPT ![s] = "none"]
  /\ UNCHANGED <<network, nsVars, execVars>>

(* An error is a false result. *)
Enter(s) ==
  /\ at[s] = "enter"
  /\ \E ok \in BOOLEAN :
       OpenNamespace(s, ok) /\ Goto(s, IF ok THEN "switch" ELSE "unhealthy")
  /\ Quiet /\ UNCHANGED <<probed, execVars>>

Switch(s) ==
  /\ at[s] = "switch"
  /\ \E ok \in BOOLEAN :
       SwitchNamespace(s, ok) /\ Goto(s, IF ok THEN "dial" ELSE "unhealthy")
  /\ Quiet /\ UNCHANGED <<probed, execVars>>

(* The threads that may run the check: its own if it is locked to one.       *)
RunsOn(s) == IF LockedTo(s) # {} THEN LockedTo(s) ELSE Unlocked

(* The dial, within its timeout, in the namespace of the thread: in that of  *)
(* a container nothing answers once the container has ended.                 *)
Dial(s) ==
  /\ at[s] = "dial"
  /\ \/ Goto(s, "unhealthy") /\ UNCHANGED probed
     \/ \E t \in RunsOn(s) :
          /\ ns[t] # "host" => pidOwner = ns[t]
          /\ Goto(s, IF checkType = "TCP" THEN "healthy" ELSE "read")
          /\ probed' = [probed EXCEPT ![s] = ns[t]]
  /\ Quiet /\ UNCHANGED <<nsVars, execVars>>

(* The response, its status or the error it leads to. *)
ReadResponse(s) ==
  /\ at[s] = "read"
  /\ Goto(s, "healthy") \/ Goto(s, "unhealthy")
  /\ Quiet /\ UNCHANGED <<probed, nsVars, execVars>>

(* No response and no deadline for it. *)
ReadHangs(s) ==
  /\ at[s] = "read"
  /\ CkHang
  /\ Goto(s, "hung")
  /\ UNCHANGED <<network, probed, nsVars, execVars>>

Exec(s) ==
  /\ at[s] = "exec"
  /\ ContainerExec(s)
  /\ Goto(s, "wait")
  /\ Quiet /\ UNCHANGED <<probed, nsVars>>

(* The select of checkCommand: the poller's answer ... *)
WaitAnswer(s) ==
  /\ at[s] = "wait"
  /\ poller[s] \in Answers
  /\ Goto(s, IF poller[s] = "zero" THEN "healthy" ELSE "unhealthy")
  /\ SendAnswer(s)
  /\ Quiet /\ UNCHANGED <<nsVars, probed>>

(* A mutant of WaitDeadline: the select does not look at the context. *)
WaitForEver(s) == FALSE /\ UNCHANGED vars

(* ... or the end of the context. *)
WaitDeadline(s) ==
  /\ at[s] = "wait"
  /\ ctxDone[s]
  /\ Goto(s, "unhealthy")
  /\ Quiet /\ UNCHANGED <<probed, nsVars, execVars>>

(* A mutant of Deadline: the context has no timeout. *)
NoDeadline(s) == FALSE /\ UNCHANGED vars

Deadline(s) ==
  /\ at[s] = "wait"
  /\ ~ctxDone[s]
  /\ EndContext(s, TRUE)
  /\ Quiet /\ UNCHANGED <<at, probed, nsVars>>

(* What a check has deferred until its result is taken. *)
Deferred == CASE checkType = "COMMAND" -> "cancel"
              [] Bridged -> "exit"
              [] OTHER -> "idle"

(* Run takes the result; the deferred calls of the check are left. *)
Result(s, label, outcome) ==
  /\ at[s] = label
  /\ outcome
  /\ Goto(s, Deferred)
  /\ UNCHANGED <<network, probed, nsVars, execVars>>

HealthyResult(s) == Result(s, "healthy", CkHealthyResult)
UnhealthyResult(s) == Result(s, "unhealthy", CkUnhealthyResult)

(* A mutant of HungEnds: Run has a deadline of its own for the result, and   *)
(* leaves the check where it hangs.                                          *)
HungIsLeft(s) ==
  /\ at[s] = "hung"
  /\ CkHungEnds
  /\ UNCHANGED <<checkVars, nsVars, execVars>>

HungEnds(s) == Result(s, "hung", CkHungEnds)

Exit(s) ==
  /\ at[s] = "exit"
  /\ ExitNetworkNamespace(s)
  /\ Goto(s, "idle")
  /\ Quiet /\ UNCHANGED <<probed, execVars>>

Cancel(s) ==
  /\ at[s] = "cancel"
  /\ EndContext(s, FALSE)
  /\ Goto(s, "idle")
  /\ Quiet /\ UNCHANGED <<probed, nsVars>>

-----------------------------------------------------------------------------
(* The steps of Run that start no check and take no result.                  *)
RunStep == CkStart \/ CkDelayElapsed \/ CkGraceExpire \/ CkTick \/ CkSend \/ CkRecvQuit

RunAlone == RunStep /\ UNCHANGED <<checkVars, nsVars, execVars>>

(* What a check does by itself within bounded time. *)
CheckStep(s) ==
  \/ Enter(s) \/ Switch(s) \/ Dial(s) \/ ReadResponse(s)
  \/ Exec(s) \/ WaitAnswer(s) \/ WaitDeadline(s)
  \/ HealthyResult(s) \/ UnhealthyResult(s)
  \/ Exit(s) \/ Cancel(s)

(* Checks that enter no namespace do not depend on threads and processes.    *)
Environment ==
  \/ /\ Bridged
     /\ StartThread \/ PidChanges
     /\ UNCHANGED <<ckVars, checkVars, execVars>>
  \/ \E s \in Slots : PollerStep(s) /\ UNCHANGED <<ckVars, checkVars, nsVars>>

Next ==
  \/ RunAlone
  \/ \E s \in Slots :
       Take(s) \/ CheckStep(s) \/ ReadHangs(s) \/ HungEnds(s) \/ Deadline(s)
  \/ Environment

Spec == Init /\ [][Next]_vars

(* The fairness of Run, and of each check and its deadline in the place of   *)
(* that of a result.  Nothing obliges the container, its processes, Docker   *)
(* or the other end of a connection to do anything.                          *)
Fairness ==
  /\ WF_vars((CkStart \/ CkDelayElapsed \/ CkSend) /\ RunAlone)
  /\ WF_vars(CkTick /\ RunAlone)
  /\ WF_vars(CkGraceExpire /\ RunAlone)
  /\ WF_vars(\E s \in Slots : Take(s))
  /\ \A s \in Slots : WF_vars(CheckStep(s)) /\ WF_vars(Deadline(s))

FairSpec == Spec /\ Fairness

-----------------------------------------------------------------------------
(* Types (healthcheck.go:138-279, namespace.go:14-58, docker.go:239-309).    *)
(* While Run waits for a result exactly one check has it to give, whatever   *)
(* older checks still do, and otherwise none has.                            *)
Spaces == {"host", "container", "other"}

ChecksTypeOK ==
  /\ at \in [Slots -> CheckLabels]
  /\ probed \in [Slots -> Spaces \cup {"none"}]
  /\ ns \in [Threads -> Spaces \cup {"none"}]
  /\ lockedBy \in [Threads -> Slots \cup {"nobody"}]
  /\ opened \in [Threads -> Spaces \cup {"none"}]
  /\ handles \in Nat
  /\ pidOwner \in Spaces \cup {"nobody"}
  /\ poller \in [Slots -> PollerStates]
  /\ Cardinality({s \in Slots : at[s] \notin {"idle", "exit", "cancel"}})
       = IF ckPC \in {"checking", "hung"} THEN 1 ELSE 0

(* No goroutine but the check that entered it ever runs in a container's     *)
(* namespace: a thread that is free to run others is in the executor's own,  *)
(* whichever way the check ended, and also while the next check runs (README *)
(* .md:184, healthcheck.go:144, 212; namespace.go:31, 51).  It needs a       *)
(* runtime that starts no thread from a locked one, and is false for others. *)
UnlockedIsHome == \A t \in Unlocked : ns[t] = "host"

(* A result is healthy only on an answer that this very check got, and got   *)
(* where it was meant to look: from its own command, not from that of an     *)
(* earlier check that ran late; for a bridged task from a namespace that it  *)
(* entered, never from a service of the host behind the same port, and from  *)
(* the task's own as long as its process has the pid; for any other task     *)
(* from the host, where a task of a user network or of none does not run     *)
(* (healthcheck.go:96, 143, 211, 259; namespace.go:29-46; docker.go:242).    *)
HealthyIsAnswered ==
  \A s \in Slots : at[s] = "healthy" =>
    CASE checkType = "COMMAND" -> exitedZero[s]
      [] Bridged -> /\ probed[s] \in {"container", "other"}
                    /\ pidOwner = "container" => probed[s] = "container"
      [] OTHER -> probed[s] = "host"

(* The checks implement the checker as HealthChecker specifies it, fairness  *)
(* included: a check whose command never ends, whose namespace is gone or    *)
(* whose file limit is reached still answers, and only a silent HTTP peer    *)
(* holds Run (healthcheck.go:95-98, 257-276).                                *)
ImplementsChecker == CkSpec
=============================================================================
