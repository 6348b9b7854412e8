------------------------------ MODULE Namespace ------------------------------
(***************************************************************************)
(* Network namespaces, namespace/namespace.go, and the OS threads on which *)
(* the Go runtime runs goroutines.  A goroutine g that enters the          *)
(* namespace of the container first locks itself to a thread; the switch   *)
(* is the thread's.  The operators are the halves of a call: the caller    *)
(* (Checks) conjoins them with its own step.                               *)
(***************************************************************************)
EXTENDS Naturals

CONSTANTS
  Threads,       \* the threads of the process, from its first one to the last
  FirstThread,   \* the thread that ran init
  Inherits,      \* a locked thread may start new ones (the runtime up to Go 1.9)
  HandleLimit,   \* namespace handles the process may hold (its file limit)
  SwitchFaults   \* the switches, "enter" and "exit", that may fail

ASSUME NamespaceAssumption ==
  /\ FirstThread \in Threads
  /\ Inherits \in BOOLEAN
  /\ HandleLimit \in Nat
  /\ SwitchFaults \subseteq {"enter", "exit"}

VARIABLES
  ns,         \* the namespace each thread is in; "none": not started yet
  lockedBy,   \* the goroutine locked to each thread, or "nobody"
  opened,     \* the namespace opened from each thread and not entered yet
  handles,    \* namespace handles opened: no one closes them
  pidOwner    \* whose process has the pid stored for the container: the
              \* container's, one of the host's or of another container's

nsVars == <<ns, lockedBy, opened, handles, pidOwner>>

NsInit ==
  /\ ns = [t \in Threads |-> IF t = FirstThread THEN "host" ELSE "none"]
  /\ lockedBy = [t \in Threads |-> "nobody"]
  /\ opened = [t \in Threads |-> "none"]
  /\ handles = 0
  /\ pidOwner = "container"

Started == {t \in Threads : ns[t] # "none"}
Unlocked == {t \in Started : lockedBy[t] = "nobody"}
LockedTo(g) == {t \in Threads : lockedBy[t] = g}

(* The runtime clones a thread, which is in the namespace of its parent.     *)
StartThread ==
  /\ \E t \in Threads \ Started, parent \in IF Inherits THEN Started ELSE Unlocked :
       ns' = [ns EXCEPT ![t] = ns[parent]]
  /\ UNCHANGED <<lockedBy, opened, handles, pidOwner>>

(* The process that has the pid ends; later another one may get it, of the   *)
(* host or of another container.  The container itself never runs again.     *)
PidChanges ==
  /\ \/ pidOwner # "nobody" /\ pidOwner' = "nobody"
     \/ pidOwner = "nobody" /\ pidOwner' \in {"host", "other"}
  /\ UNCHANGED <<ns, lockedBy, opened, handles>>

CanOpen == pidOwner # "nobody" /\ handles < HandleLimit

(* EnterNetworkNamespace up to the switch: goroutine g is locked to a thread *)
(* first, and refused the namespaces that Refused names.                     *)
OpenUnless(g, ok, Refused) ==
  /\ ok = (CanOpen /\ pidOwner \notin Refused)
  /\ \E t \in Unlocked :
       /\ lockedBy' = [lockedBy EXCEPT ![t] = g]
       /\ opened' = [opened EXCEPT ![t] = IF ok THEN pidOwner ELSE "none"]
  /\ handles' = IF CanOpen THEN handles + 1 ELSE handles
  /\ UNCHANGED <<ns, pidOwner>>

(* A mutant of OpenNamespace: it does not compare the namespace with its own. *)
OpenAnyNamespace(g, ok) == OpenUnless(g, ok, {})

(* It is the executor's own namespace that is refused, and no other. *)
OpenNamespace(g, ok) == OpenUnless(g, ok, {"host"})

(* netns.Set in EnterNetworkNamespace: whatever became of the process, the   *)
(* thread enters the namespace that was opened.                              *)
SwitchNamespace(g, ok) ==
  /\ ok \/ "enter" \in SwitchFaults
  /\ ns' = [t \in Threads |-> IF ok /\ lockedBy[t] = g THEN opened[t] ELSE ns[t]]
  /\ opened' = [t \in Threads |-> IF lockedBy[t] = g THEN "none" ELSE opened[t]]
  /\ UNCHANGED <<lockedBy, handles, pidOwner>>

(* A mutant of ExitNetworkNamespace: the thread is only unlocked. *)
UnlockThread(g) ==
  /\ lockedBy' = [t \in Threads |-> IF lockedBy[t] = g THEN "nobody" ELSE lockedBy[t]]
  /\ UNCHANGED <<ns, opened, handles, pidOwner>>

(* ExitNetworkNamespace: the thread is unlocked whether or not the switch    *)
(* back works.                                                               *)
ExitNetworkNamespace(g) ==
  /\ \E ok \in {TRUE} \cup (IF "exit" \in SwitchFaults THEN {FALSE} ELSE {}) :
       ns' = [t \in Threads |-> IF ok /\ lockedBy[t] = g THEN "host" ELSE ns[t]]
  /\ lockedBy' = [t \in Threads |-> IF lockedBy[t] = g THEN "nobody" ELSE lockedBy[t]]
  /\ UNCHANGED <<opened, handles, pidOwner>>
=============================================================================
