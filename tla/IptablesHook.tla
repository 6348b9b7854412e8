---------------------------- MODULE IptablesHook ----------------------------
(***************************************************************************)
(* The iptables hook, hook/iptables.go, in several executors of one host:  *)
(* each runs one container with one port mapping on the bridge network,    *)
(* appends rules for the container's address to the host's tables on       *)
(* post-run and deletes them on pre-stop, rule by rule.  The Docker daemon *)
(* gives the address of a stopped container to another one.                *)
(***************************************************************************)
EXTENDS Naturals, Sequences, FiniteSets

CONSTANTS
  Executors,
  Addresses,      \* addresses the daemon gives to containers
  Bridge,         \* the host's own address on the bridge network
  Masquerading,   \* iptables.ip_masquerading
  Forwarding,     \* iptables.ip_forwarding
  MayEndEarly,    \* a container may end before its post-run hooks are over
  MaxTeardowns,   \* bound: teardowns of one executor
  Faults          \* what may fail without a reason of the model

ASSUME IptablesAssumption ==
  /\ IsFiniteSet(Executors)
  /\ Bridge \notin Addresses
  /\ Masquerading \in BOOLEAN
  /\ Forwarding \in BOOLEAN
  /\ MayEndEarly \in BOOLEAN
  /\ MaxTeardowns \in Nat \ {0}
  /\ Faults \subseteq {"prepare", "chains", "append", "prepareStop", "chainsStop", "delete"}

VARIABLES
  running,    \* the executors whose container runs
  address,    \* the address of each container, last one if it ended
  cache,      \* iptablesHookContainerIPCache of each executor: a set of addresses
  pc, pos,    \* where each executor is, and at which rule
  teardowns,  \* teardowns each executor has begun
  host,       \* the host's rules: how many times each is there
  partial     \* history: executors whose post-run hook failed with its addresses cached

hostVars == <<running, address, cache, pc, pos, teardowns, host, partial>>

(* The rules of executor e for address a; only the DNAT rule names the host  *)
(* port, which is e's alone.                                                 *)
Kinds == {"masquerade", "dnat", "self", "forwardIn", "forwardOut"}
Rule == [kind : Kinds, ip : Addresses \cup {Bridge}, port : Executors \cup {"any"}]

RulesFor(e, a) ==
  LET any(kind) == [kind |-> kind, ip |-> a, port |-> "any"]
  IN  (IF Masquerading
         THEN <<any("masquerade"), [any("dnat") EXCEPT !.port = e], any("self")>>
         ELSE <<>>)
      \o (IF Forwarding THEN <<any("forwardIn"), any("forwardOut")>> ELSE <<>>)

(* The rules generateIptables goes through when e has cached its address. *)
Rules(e) == IF cache[e] = {} THEN <<>> ELSE RulesFor(e, CHOOSE a \in cache[e] : TRUE)

RulesOf(e) == {Rules(e)[i] : i \in DOMAIN Rules(e)}

Init ==
  /\ running = {}
  /\ address \in [Executors -> Addresses]
  /\ cache = [e \in Executors |-> {}]
  /\ pc = [e \in Executors |-> "idle"]
  /\ pos = [e \in Executors |-> 1]
  /\ teardowns = [e \in Executors |-> 0]
  /\ host = [r \in Rule |-> 0]
  /\ partial = {}

Goto(e, label) == pc' = [pc EXCEPT ![e] = label]
Restart(e, label) == Goto(e, label) /\ pos' = [pos EXCEPT ![e] = 1]

(* The container starts with an address no running container has. *)
StartContainer(e) ==
  /\ pc[e] = "idle"
  /\ \E a \in Addresses \ {address[f] : f \in running} :
       address' = [address EXCEPT ![e] = a]
  /\ running' = running \cup {e}
  /\ Goto(e, "postRun")
  /\ UNCHANGED <<cache, pos, teardowns, host, partial>>

ContainerEnds(e) ==
  /\ e \in running
  /\ MayEndEarly \/ pc[e] \notin {"postRun", "append"}
  /\ running' = running \ {e}
  /\ UNCHANGED <<address, cache, pc, pos, teardowns, host, partial>>

(* ContainerGetIPsByInterface: the addresses of the bridge network seen from  *)
(* the namespace of the container's process.  The container may have ended:   *)
(* the namespace cannot be entered, the error is ignored, and the addresses   *)
(* seen are those of the host.                                                *)
IPsByInterface(e) == IF e \in running THEN {address[e]} ELSE {Bridge}

(* A plausible mistake: the addresses are not kept for the pre-stop hook.    *)
PostRunForgets(e) ==
  /\ pc[e] = "postRun"
  /\ Restart(e, "append")
  /\ UNCHANGED <<running, address, cache, teardowns, host, partial>>

(* The post-run hook up to its first rule: it stores the addresses and then  *)
(* checks the chains; an error fails the launch.                             *)
PostRun(e) ==
  /\ pc[e] = "postRun"
  /\ \/ "prepare" \in Faults /\ Restart(e, "preStop") /\ UNCHANGED <<cache, partial>>
     \/ /\ cache' = [cache EXCEPT ![e] = IPsByInterface(e)]
        /\ \/ Restart(e, "append") /\ UNCHANGED partial
           \/ /\ "chains" \in Faults
              /\ Restart(e, "preStop")
              /\ partial' = partial \cup {e}
  /\ UNCHANGED <<running, address, teardowns, host>>

(* The next rule is appended, or not, and then the hook stops: its error     *)
(* fails the launch.                                                         *)
AppendRule(e) ==
  /\ pc[e] = "append"
  /\ pos[e] <= Len(Rules(e))
  /\ \/ /\ host' = [host EXCEPT ![Rules(e)[pos[e]]] = @ + 1]
        /\ pos' = [pos EXCEPT ![e] = @ + 1]
        /\ UNCHANGED <<pc, partial>>
     \/ /\ "append" \in Faults
        /\ Goto(e, "preStop")
        /\ partial' = partial \cup {e}
        /\ UNCHANGED <<host, pos>>
  /\ UNCHANGED <<running, address, cache, teardowns>>

AppendsDone(e) ==
  /\ pc[e] = "append"
  /\ pos[e] > Len(Rules(e))
  /\ Goto(e, "up")
  /\ UNCHANGED <<running, address, cache, pos, teardowns, host, partial>>

(* A kill, or the end of the container, begins a teardown; another kill may  *)
(* begin a second one.                                                       *)
BeginTeardown(e) ==
  /\ pc[e] \in {"up", "down"}
  /\ teardowns[e] < MaxTeardowns
  /\ Goto(e, "preStop")
  /\ UNCHANGED <<running, address, cache, pos, teardowns, host, partial>>

(* The pre-stop hook up to its first rule.  The cached addresses stay        *)
(* cached.  Without any, or when iptables, the name of the interface or the  *)
(* chains are not there, nothing is deleted.                                 *)
PreStop(e) ==
  /\ pc[e] = "preStop"
  /\ \/ cache[e] # {} /\ Restart(e, "delete")
     \/ /\ cache[e] = {} \/ Faults \cap {"prepareStop", "chainsStop"} # {}
        /\ Restart(e, "stop")
  /\ teardowns' = [teardowns EXCEPT ![e] = @ + 1]
  /\ UNCHANGED <<running, address, cache, host, partial>>

(* Plausible mistakes: an error ends the removal; every copy is deleted.     *)
DeleteRuleOrStop(e) ==
  /\ pc[e] = "delete"
  /\ pos[e] <= Len(Rules(e))
  /\ LET r == Rules(e)[pos[e]]
     IN  IF host[r] > 0
           THEN host' = [host EXCEPT ![r] = @ - 1] /\ UNCHANGED pc
           ELSE Goto(e, "stop") /\ UNCHANGED host
  /\ pos' = [pos EXCEPT ![e] = @ + 1]
  /\ UNCHANGED <<running, address, cache, teardowns, partial>>

DeleteRuleEverywhere(e) ==
  /\ pc[e] = "delete"
  /\ pos[e] <= Len(Rules(e))
  /\ host' = [host EXCEPT ![Rules(e)[pos[e]]] = 0]
  /\ pos' = [pos EXCEPT ![e] = @ + 1]
  /\ UNCHANGED <<running, address, cache, pc, teardowns, partial>>

(* The next rule is deleted once.  An error, that of a rule which is not     *)
(* there among them, is logged and ignored.                                  *)
DeleteRule(e) ==
  /\ pc[e] = "delete"
  /\ pos[e] <= Len(Rules(e))
  /\ LET r == Rules(e)[pos[e]]
     IN  \/ host' = [host EXCEPT ![r] = IF @ > 0 THEN @ - 1 ELSE 0]
         \/ "delete" \in Faults /\ UNCHANGED host
  /\ pos' = [pos EXCEPT ![e] = @ + 1]
  /\ UNCHANGED <<running, address, cache, pc, teardowns, partial>>

DeletesDone(e) ==
  /\ pc[e] = "delete"
  /\ pos[e] > Len(Rules(e))
  /\ Goto(e, "stop")
  /\ UNCHANGED <<running, address, cache, pos, teardowns, host, partial>>

(* The teardown goes on with ContainerStop. *)
StopContainer(e) ==
  /\ pc[e] = "stop"
  /\ running' = running \ {e}
  /\ Goto(e, "down")
  /\ UNCHANGED <<address, cache, pos, teardowns, host, partial>>

Step(e) ==
  \/ StartContainer(e) \/ ContainerEnds(e)
  \/ PostRun(e) \/ AppendRule(e) \/ AppendsDone(e)
  \/ BeginTeardown(e) \/ PreStop(e) \/ DeleteRule(e) \/ DeletesDone(e)
  \/ StopContainer(e)

Next == \E e \in Executors : Step(e)

Spec == Init /\ [][Next]_hostVars

-----------------------------------------------------------------------------
(* Types of the state of the hook and of the host: an executor that appends  *)
(* or deletes, or whose container is up, has addresses in its cache          *)
(* (iptables.go:26-30, 64, 87).                                              *)
HostTypeOK ==
  /\ running \subseteq Executors
  /\ address \in [Executors -> Addresses]
  /\ cache \in [Executors -> SUBSET (Addresses \cup {Bridge})]
  /\ pc \in [Executors -> {"idle", "postRun", "append", "up", "preStop",
                           "delete", "stop", "down"}]
  /\ pos \in [Executors -> Nat \ {0}]
  /\ teardowns \in [Executors -> 0 .. MaxTeardowns]
  /\ host \in [Rule -> Nat]
  /\ partial \subseteq Executors
  /\ \A e \in Executors : pc[e] \in {"append", "up", "delete"} => cache[e] # {}

(* The rules executor e has yet to delete in its first teardown. *)
Owed(e) ==
  {Rules(e)[i] : i \in {j \in DOMAIN Rules(e) :
     \/ pc[e] = "append" /\ j < pos[e]
     \/ pc[e] \in {"up", "preStop"} /\ teardowns[e] = 0
     \/ pc[e] = "delete" /\ j >= pos[e] /\ teardowns[e] = 1}}

(* Every rule on the host, as many times as it is there, is owed by an       *)
(* executor that will delete it: none is left when all are down, although    *)
(* appends fail halfway, addresses are used again and executors delete each  *)
(* other's rules (iptables.go:66, 109, 148-243).                             *)
NoOrphanRule ==
  \A r \in Rule : host[r] <= Cardinality({e \in Executors : r \in Owed(e)})

(* A rule that a running container misses after its launch was lost to an    *)
(* executor whose post-run hook failed after it had cached the address: its  *)
(* pre-stop hook deletes rules it never appended.  No other executor takes a *)
(* rule from a running container, and nobody takes the DNAT rule of its host *)
(* port, as long as each tears down once (iptables.go:64, 109, 157-161).     *)
LostRuleIsShared ==
  \A e \in running :
    pc[e] = "up"
      => \A r \in RulesOf(e) : host[r] > 0 \/ \E f \in partial \ {e} : r \in RulesOf(f)

(* A running container whose launch is over has all its rules (README.md:99, *)
(* iptables.go:31-110).                                                      *)
RunningHasRules ==
  \A e \in running : pc[e] = "up" => \A r \in RulesOf(e) : host[r] > 0

(* The rules name addresses of containers (docker.go:168-169).               *)
RulesNameContainers == \A r \in Rule : host[r] > 0 => r.ip # Bridge
=============================================================================
