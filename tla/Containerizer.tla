--------------------------- MODULE Containerizer ---------------------------
(***************************************************************************)
(* The task's container as the executor sees it through the Containerizer  *)
(* interface (container/containerizer.go) and its Docker implementation    *)
(* (container/docker.go).  Each operation takes the outcome, ok, that its  *)
(* error result reports: the daemon refuses what the container's state     *)
(* does not allow, and may fail on its own when Faults says so.            *)
(***************************************************************************)
EXTENDS Naturals

CONSTANTS
  Faults      \* the operations that may fail without a reason of the model

VARIABLES
  container,  \* state of the container in the Docker daemon
  exitCode    \* its exit code, 0 or 1 (any other code), once it has exited

dockerVars == <<container, exitCode>>

ContainerStates == {"absent", "created", "running", "exited", "removed"}

DockerTypeOK ==
  /\ container \in ContainerStates
  /\ exitCode \in {0, 1}

DockerInit ==
  /\ container = "absent"
  /\ exitCode = 0

(* The outcomes of an operation that succeeds only if possible holds. *)
Outcomes(operation, possible) ==
  {ok \in BOOLEAN : IF ok THEN possible ELSE ~possible \/ operation \in Faults}

(* An invalid network mode or volume mode, or an error of the daemon, creates *)
(* nothing.                                                                   *)
ContainerCreate(ok) ==
  /\ ok \in Outcomes("create", container = "absent")
  /\ container' = IF ok THEN "created" ELSE container
  /\ UNCHANGED exitCode

ContainerRun(ok) ==
  /\ ok \in Outcomes("run", container = "created")
  /\ container' = IF ok THEN "running" ELSE container
  /\ UNCHANGED exitCode

(* A stop with no delay: the process gets the stop signal, may end on it with *)
(* a code of its own, and is killed.  Stopping an unknown or a stopped        *)
(* container is an error.                                                     *)
ContainerStop(known, ok) ==
  /\ ok \in Outcomes("stop", known /\ container = "running")
  /\ IF ok
       THEN container' = "exited" /\ exitCode' \in {0, 1}
       ELSE UNCHANGED dockerVars

(* Not forced: the daemon refuses to remove a running container. *)
ContainerRemove(known, ok) ==
  /\ ok \in Outcomes("remove", known /\ container \in {"created", "exited"})
  /\ container' = IF ok THEN "removed" ELSE container
  /\ UNCHANGED exitCode

(* The container can be inspected as long as it exists. *)
ContainerGetPID(ok) ==
  /\ ok \in Outcomes("inspect", container \notin {"absent", "removed"})
  /\ UNCHANGED dockerVars

(* The wait returns when the container does not run; the exit code of a      *)
(* container that was removed in between may be gone.                        *)
ContainerWait(ok) ==
  /\ container # "running" \/ "wait" \in Faults
  /\ ok => container # "running"
  /\ ~ok => container = "removed" \/ "wait" \in Faults
  /\ UNCHANGED dockerVars

(* The process of the container ends by itself. *)
ContainerExits ==
  /\ container = "running"
  /\ container' = "exited"
  /\ exitCode' \in {0, 1}
=============================================================================
