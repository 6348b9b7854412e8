------------------------------- MODULE AclHook -------------------------------
(***************************************************************************)
(* The ACL hook, hook/acl.go: for each ACL label of the task, in order,    *)
(* one rule per allowed address of the label and then the default ranges   *)
(* on every port, appended to a chain of the host on post-run and deleted  *)
(* on pre-stop.  A rule names the task's host port, so no other executor   *)
(* has it.  The operators are calls, with ok for a nil error and fault for *)
(* an iptables command that failed on its own.                             *)
(***************************************************************************)
EXTENDS Integers, Sequences, FiniteSets, Bags

CONSTANTS
  TaskLabels,   \* the sequences of ACL labels a task may come with
  Ports,        \* the number of its port mappings
  Defaults,     \* acl.default_allowed_cidr
  TaskNetworks, \* the network modes a task may come with
  HostFaults    \* the iptables commands that may fail

ASSUME AclAssumption ==
  /\ Ports \in Nat
  /\ TaskLabels \subseteq Seq([port : Nat, ips : Seq(STRING)])
  /\ Defaults \in Seq(STRING)
  /\ TaskNetworks \subseteq {"BRIDGE", "HOST", "USER"}

VARIABLES
  network,  \* the network mode of the task, which the network hook changes
  labels,   \* the ACL labels of the task: they never change
  chain     \* the rules of the task in the chain, a bag

aclVars == <<network, labels, chain>>

AclInit ==
  /\ network \in TaskNetworks
  /\ labels \in TaskLabels
  /\ chain = EmptyBag

(* A label is refused for its port index or for one of its addresses. *)
ValidLabel(label) ==
  label.port < Ports /\ \A i \in DOMAIN label.ips : label.ips[i] # "malformed"

AllGood == \A l \in DOMAIN labels : ValidLabel(labels[l])

(* The loops of generateACL: those over the labels come first, then those    *)
(* over the default ranges; a refused label ends the function.               *)
Loops == 1 .. (Len(labels) + Len(Defaults))
ReadLoops ==
  {g \in Loops : \A l \in DOMAIN labels : l <= g => ValidLabel(labels[l])}

RulesOf(g) ==
  IF g <= Len(labels)
    THEN [i \in DOMAIN labels[g].ips |-> <<labels[g].ips[i], labels[g].port>>]
    ELSE [p \in 1 .. Ports |-> <<Defaults[g - Len(labels)], p - 1>>]

(* The calls of action, each by its loop and its turn, and the rule of each. *)
Calls == UNION {{g} \X DOMAIN RulesOf(g) : g \in ReadLoops}
RuleAt(c) == RulesOf(c[1])[c[2]]

Earlier(c, d) == c[1] < d[1] \/ (c[1] = d[1] /\ c[2] < d[2])
FirstCalls ==
  {made \in SUBSET Calls : \A c \in made : \A d \in Calls : Earlier(d, c) => d \in made}

(* The rules of some calls, as many times as they are named. *)
RulesBag(calls) ==
  [r \in {RuleAt(c) : c \in calls} |-> Cardinality({c \in calls : RuleAt(c) = r})]

(* The hook works for bridge and user networks, when the chain is there. *)
AclApplies == network \in {"BRIDGE", "USER"}

(* A mutant of AclPostRun: a command that fails is passed over there too. *)
AclPostRunGoesOn(ok) ==
  \/ ~AclApplies /\ ok /\ UNCHANGED chain
  \/ /\ AclApplies
     /\ ok = AllGood
     /\ \E made \in FirstCalls : chain' = chain (+) RulesBag(made)

(* On post-run the first command that fails ends the hook. *)
AclPostRun(ok) ==
  \/ ~AclApplies /\ ok /\ UNCHANGED chain
  \/ AclApplies /\ ~ok /\ "chain" \in HostFaults /\ UNCHANGED chain
  \/ /\ AclApplies
     /\ \E made \in FirstCalls :
          /\ made # Calls => ~ok /\ "append" \in HostFaults
          /\ made = Calls => ok = AllGood
          /\ chain' = chain (+) RulesBag(made)

(* A mutant of AclPreStop: no rule is deleted unless every label is right. *)
AclPreStopChecksFirst(ok, fault) ==
  /\ ok = (~AclApplies \/ AllGood)
  /\ ~fault
  /\ chain' = IF AclApplies /\ AllGood THEN chain (-) RulesBag(Calls) ELSE chain

(* On pre-stop a command that fails, that for a rule which is not there      *)
(* included, is passed over, and no error tells of it.                       *)
AclPreStop(ok, fault) ==
  \/ ~AclApplies /\ ok /\ ~fault /\ UNCHANGED chain
  \/ AclApplies /\ ~ok /\ fault /\ "chain" \in HostFaults /\ UNCHANGED chain
  \/ /\ AclApplies
     /\ ok = AllGood
     /\ \E deleted \in IF "delete" \in HostFaults THEN SUBSET Calls ELSE {Calls} :
          /\ fault = (deleted # Calls)
          /\ chain' = chain (-) RulesBag(deleted)
=============================================================================
