------------------------------ MODULE HostHooks ------------------------------
(***************************************************************************)
(* The hooks that main.go registers, run by the hook manager in one        *)
(* executor: AclHook and NetnsHook as they are, the iptables hook by       *)
(* whether it left rules (IptablesHook has them one by one), the remove    *)
(* container hook by its error (Executor has the container), and the       *)
(* network hook.  HookManager is the abstract specification: it knows of a *)
(* hook only whether something of it is on the host, and here that is read *)
(* off the host.                                                           *)
(***************************************************************************)
EXTENDS Integers, FiniteSets, AclHook, NetnsHook

CONSTANTS
  Priorities   \* the priorities a hook may have: all 0 in the code

ASSUME PrioritiesAssumption == Priorities \subseteq Int

VARIABLES
  enabled, priority, toRegister, hooks, phase, pos, ran,  \* as in HookManager
  rules,    \* rules of the iptables hook are on the host
  failed    \* history: hooks a command or call failed in the last time they undid

managerVars == <<enabled, priority, toRegister, hooks, phase, pos, ran>>
vars == <<managerVars, aclVars, netnsVars, rules, failed>>

(* The order of registration, and the runs each hook has a function for. *)
Order == <<"acl", "iptables", "netns", "removeContainer", "network">>
Implements ==
  [acl |-> {"postRun", "preStop"},
   iptables |-> {"postRun", "preStop"},
   netns |-> {"postRun", "postStop"},
   removeContainer |-> {"postStop"},
   network |-> {"preCreate"}]
MayFail == {"acl", "iptables", "netns", "removeContainer"}

(* The hooks that have something on the host. *)
OnHost ==
  (IF chain # EmptyBag THEN {"acl"} ELSE {})
    \cup (IF rules THEN {"iptables"} ELSE {})
    \cup (IF link THEN {"netns"} ELSE {})

Manager == INSTANCE HookManager WITH applied <- OnHost, stuck <- failed

Init ==
  /\ AclInit /\ NetnsInit
  /\ rules = FALSE
  /\ failed = {}
  /\ Manager!Init

(* The hook returns the error of the removal of the container.               *)
RemoveContainerPostStop(ok, fault) ==
  /\ fault = ~ok
  /\ UNCHANGED <<rules, network>>

(* The other hooks, whose errors and effects are those Executor gives them.  *)
OtherHook(h, ok, fault) ==
  CASE h = "iptables" /\ phase = "postRun" ->
         /\ ~ok => "append" \in HostFaults
         /\ rules' \in IF ok THEN {TRUE} ELSE {rules, TRUE}
         /\ UNCHANGED network
    [] h = "iptables" /\ phase = "preStop" ->
         /\ fault => "delete" \in HostFaults
         /\ rules' \in IF fault THEN {rules, FALSE} ELSE {FALSE}
         /\ UNCHANGED network
    [] h = "removeContainer" -> RemoveContainerPostStop(ok, fault)
    [] h = "network" ->
         /\ ok /\ ~fault
         /\ network' = "USER"
         /\ UNCHANGED rules

(* The function hook h has for the run in progress. *)
HookFunction(h, ok, fault) ==
  CASE h = "acl" ->
         /\ IF phase = "postRun" THEN AclPostRun(ok) ELSE AclPreStop(ok, fault)
         /\ UNCHANGED <<network, labels, netnsVars, rules>>
    [] h = "netns" ->
         /\ IF phase = "postRun" THEN NetnsPostRun(ok) ELSE NetnsPostStop(ok, fault)
         /\ UNCHANGED <<aclVars, rules>>
    [] OTHER ->
         /\ OtherHook(h, ok, fault)
         /\ UNCHANGED <<labels, chain, netnsVars>>

RunHook ==
  \E ok, fault \in BOOLEAN :
    /\ Manager!Call(ok)
    /\ HookFunction(hooks[pos], ok, fault)
    /\ fault => phase \in Manager!StopRuns
    /\ failed' = IF phase \in Manager!StopRuns
                   THEN IF fault THEN failed \cup {hooks[pos]} ELSE failed \ {hooks[pos]}
                   ELSE failed

(* The steps of the manager that touch nothing on the host. *)
ManagerStep ==
  /\ UNCHANGED <<aclVars, netnsVars, rules, failed>>
  /\ \/ Manager!RegisterHooks
     \/ \E run \in Manager!StartRuns \cup Manager!StopRuns : Manager!Ask(run)
     \/ Manager!EndOfHooks
     \/ Manager!SkipHook

Next == ManagerStep \/ RunHook

Spec == Init /\ [][Next]_vars

-----------------------------------------------------------------------------
(* Types, with those of the manager: each enabled hook that was registered   *)
(* is in the manager's list once (hook_manager.go:84-97).                    *)
HookTypeOK ==
  /\ Manager!HookTypeOK
  /\ network \in {"BRIDGE", "HOST", "USER"}
  /\ linkPath \in BOOLEAN
  /\ IsABag(chain)

(* In each run the function of a hook is called after those of all hooks of  *)
(* a higher priority that have one, although hooks are sorted one            *)
(* registration at a time by an order that is not strict (hook_manager.go:   *)
(* 70-97, 124-165).                                                          *)
HighestPriorityFirst == Manager!HighestPriorityFirst

(* After a teardown the chain has a rule of the task, or the namespace       *)
(* directory its link, only if a command of the hook itself failed in that   *)
(* teardown: not because the launch failed between two rules, because a      *)
(* label is refused after others had their rules, because the network hook   *)
(* changed the network in between, or because another hook failed            *)
(* (acl.go:50-71, 129-195; netns.go:23-45; hook_manager.go:114-122).         *)
OnlyOwnFailureLeaks == Manager!OnlyOwnFailureLeaks

(* A launch that goes through with the ACL hook has a rule for each address  *)
(* of each label and for each default range on each port, as many times as   *)
(* they are named: a label or a command that fails ends the launch instead   *)
(* (acl.go:32-49, 129-215; hook_manager.go:99-112).                          *)
LaunchedWithAcl ==
  phase = "up" /\ "acl" \in enabled /\ AclApplies =>
    /\ AllGood
    /\ \A l \in DOMAIN labels : \A i \in DOMAIN labels[l].ips :
         <<labels[l].ips[i], labels[l].port>> \in BagToSet(chain)
    /\ \A d \in DOMAIN Defaults : \A p \in 0 .. Ports - 1 :
         /\ <<Defaults[d], p>> \in BagToSet(chain)
         /\ chain[<<Defaults[d], p>>]
              >= Cardinality({e \in DOMAIN Defaults : Defaults[e] = Defaults[d]})

(* With the hooks of main.go the manager does what HookManager promises for  *)
(* any hooks: a stop function that no command of its own failed in leaves    *)
(* nothing of its hook on the host, and no hook's function touches what      *)
(* another hook left there (hook_manager.go:124-177, acl.go, netns.go).      *)
ImplementsManager == Manager!Spec
=============================================================================
