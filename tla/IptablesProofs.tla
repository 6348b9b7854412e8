--------------------------- MODULE IptablesProofs ---------------------------
(***************************************************************************)
(* What the iptables hook leaves on a host, for any number of executors    *)
(* and addresses.                                                          *)
(***************************************************************************)
EXTENDS IptablesHook, FiniteSetTheorems, TLAPS

(* The two halves of the rules of an address.                                *)
MasqueradeRules(e, a) ==
  IF Masquerading
    THEN << [kind |-> "masquerade", ip |-> a, port |-> "any"],
            [kind |-> "dnat", ip |-> a, port |-> e],
            [kind |-> "self", ip |-> a, port |-> "any"] >>
    ELSE << >>

ForwardRules(a) ==
  IF Forwarding
    THEN << [kind |-> "forwardIn", ip |-> a, port |-> "any"],
            [kind |-> "forwardOut", ip |-> a, port |-> "any"] >>
    ELSE << >>

(* generateIptables goes through a sequence of rules, each once.             *)
LEMMA RulesForDistinct ==
  ASSUME NEW e \in Executors, NEW a \in Addresses \cup {Bridge}
  PROVE  /\ RulesFor(e, a) \in Seq(Rule)
         /\ \A i, j \in DOMAIN RulesFor(e, a) : RulesFor(e, a)[i] = RulesFor(e, a)[j] => i = j
<1> DEFINE s == MasqueradeRules(e, a)
           t == ForwardRules(a)
<1>1. RulesFor(e, a) = s \o t
  BY DEF RulesFor, MasqueradeRules, ForwardRules
<1>2. /\ s \in Seq(Rule) /\ Len(s) \in Nat
      /\ \A i \in 1 .. Len(s) : s[i].kind \in {"masquerade", "dnat", "self"}
      /\ \A i, j \in 1 .. Len(s) : s[i] = s[j] => i = j
  <2>1. CASE Masquerading
    <3> DEFINE x == [kind |-> "masquerade", ip |-> a, port |-> "any"]
               y == [kind |-> "dnat", ip |-> a, port |-> e]
               z == [kind |-> "self", ip |-> a, port |-> "any"]
    <3>1. s = <<x, y, z>>
      BY <2>1 DEF MasqueradeRules
    <3>2. x \in Rule /\ y \in Rule /\ z \in Rule
      BY DEF Rule, Kinds
    <3>3. x.kind = "masquerade" /\ y.kind = "dnat" /\ z.kind = "self"
      OBVIOUS
    <3>4. x # y /\ x # z /\ y # z
      BY <3>3
    <3> QED
      BY <3>1, <3>2, <3>3, <3>4
  <2>2. CASE ~Masquerading
    BY <2>2 DEF MasqueradeRules
  <2> QED
    BY <2>1, <2>2
<1>3. /\ t \in Seq(Rule) /\ Len(t) \in Nat
      /\ \A i \in 1 .. Len(t) : t[i].kind \in {"forwardIn", "forwardOut"}
      /\ \A i, j \in 1 .. Len(t) : t[i] = t[j] => i = j
  <2>1. CASE Forwarding
    <3> DEFINE x == [kind |-> "forwardIn", ip |-> a, port |-> "any"]
               y == [kind |-> "forwardOut", ip |-> a, port |-> "any"]
    <3>1. t = <<x, y>>
      BY <2>1 DEF ForwardRules
    <3>2. x \in Rule /\ y \in Rule
      BY DEF Rule, Kinds
    <3>3. x.kind = "forwardIn" /\ y.kind = "forwardOut"
      OBVIOUS
    <3>4. x # y
      BY <3>3
    <3> QED
      BY <3>1, <3>2, <3>3, <3>4
  <2>2. CASE ~Forwarding
    BY <2>2 DEF ForwardRules
  <2> QED
    BY <2>1, <2>2
<1> HIDE DEF s, t
<1>4. s \o t \in Seq(Rule)
  BY <1>2, <1>3
<1>5. \A i, j \in 1 .. (Len(s) + Len(t)) : (s \o t)[i] = (s \o t)[j] => i = j
  <2>1. \A i \in 1 .. (Len(s) + Len(t)) :
          (s \o t)[i] = IF i <= Len(s) THEN s[i] ELSE t[i - Len(s)]
    BY <1>2, <1>3
  <2> SUFFICES ASSUME NEW i \in 1 .. (Len(s) + Len(t)), NEW j \in 1 .. (Len(s) + Len(t)),
                      (s \o t)[i] = (s \o t)[j]
               PROVE  i = j
    OBVIOUS
  <2>2. CASE i <= Len(s) /\ j <= Len(s)
    BY <1>2, <2>1, <2>2
  <2>3. CASE i > Len(s) /\ j > Len(s)
    <3>1. t[i - Len(s)] = t[j - Len(s)]
      BY <1>2, <2>1, <2>3
    <3>2. i - Len(s) \in 1 .. Len(t) /\ j - Len(s) \in 1 .. Len(t)
      BY <1>2, <1>3, <2>3
    <3> QED
      BY <1>2, <1>3, <3>1, <3>2, SMTT(30)
  <2>4. ASSUME NEW k \in 1 .. (Len(s) + Len(t)), NEW l \in 1 .. (Len(s) + Len(t)),
               k <= Len(s), l > Len(s)
        PROVE  (s \o t)[k] # (s \o t)[l]
    <3>1. (s \o t)[k] = s[k] /\ k \in 1 .. Len(s)
      BY <1>2, <2>1, <2>4
    <3>2. (s \o t)[l] = t[l - Len(s)] /\ l - Len(s) \in 1 .. Len(t)
      BY <1>2, <1>3, <2>1, <2>4
    <3>3. s[k].kind # t[l - Len(s)].kind
      BY <1>2, <1>3, <3>1, <3>2
    <3> QED
      BY <3>1, <3>2, <3>3
  <2>5. ~(i <= Len(s) /\ j > Len(s)) /\ ~(i > Len(s) /\ j <= Len(s))
    BY <2>4
  <2> QED
    BY <1>2, <1>3, <2>2, <2>3, <2>4, <2>5
<1>6. DOMAIN (s \o t) = 1 .. (Len(s) + Len(t))
  BY <1>2, <1>3
<1> QED
  BY <1>1, <1>4, <1>5, <1>6

-----------------------------------------------------------------------------
(* The types, and where the teardowns and the cache of an executor stand at  *)
(* each place: PreStop counts a teardown, PostRun fills the cache, and an    *)
(* executor whose post-run hook failed is torn down.                         *)
Places ==
  \A e \in Executors :
    /\ pc[e] \in {"idle", "postRun", "append", "up"} => teardowns[e] = 0
    /\ pc[e] = "preStop" => teardowns[e] < MaxTeardowns
    /\ pc[e] \in {"delete", "stop", "down"} => teardowns[e] > 0
    /\ pc[e] \in {"idle", "postRun"} => cache[e] = {}
    /\ e \in partial => pc[e] \in {"preStop", "delete", "stop", "down"}

PlacesInv == HostTypeOK /\ Places

(* The rules an executor goes through are those of one address, or none.     *)
LEMMA RulesDistinct ==
  ASSUME HostTypeOK, NEW e \in Executors
  PROVE  /\ Rules(e) \in Seq(Rule)
         /\ \A i, j \in DOMAIN Rules(e) : Rules(e)[i] = Rules(e)[j] => i = j
<1>1. CASE cache[e] = {}
  BY <1>1 DEF Rules
<1>2. CASE cache[e] # {}
  <2>1. (CHOOSE a \in cache[e] : TRUE) \in Addresses \cup {Bridge}
    BY <1>2 DEF HostTypeOK
  <2> QED
    BY <1>2, <2>1, RulesForDistinct DEF Rules
<1> QED
  BY <1>1, <1>2

LEMMA InitPlaces == Init => PlacesInv
  BY IptablesAssumption DEF Init, PlacesInv, HostTypeOK, Places

(* Every step of an executor keeps the types and the places.                 *)
LEMMA NextPlaces == PlacesInv /\ [Next]_hostVars => PlacesInv'
<1> SUFFICES ASSUME PlacesInv, [Next]_hostVars
             PROVE  PlacesInv'
  OBVIOUS
<1> USE IptablesAssumption DEF PlacesInv, HostTypeOK, Places, Goto, Restart
<1>1. CASE UNCHANGED hostVars
  BY <1>1 DEF hostVars
<1>2. ASSUME NEW e \in Executors, Step(e)
      PROVE  PlacesInv'
  <2>1. CASE StartContainer(e)
    BY <2>1 DEF StartContainer
  <2>2. CASE ContainerEnds(e)
    BY <2>2 DEF ContainerEnds
  <2>3. CASE PostRun(e)
    <3> DEFINE ips == IPsByInterface(e)
    <3>1. ips \subseteq Addresses \cup {Bridge} /\ ips # {}
      BY DEF IPsByInterface
    <3> HIDE DEF ips
    <3>2. UNCHANGED <<running, address, teardowns, host>> /\ pc[e] = "postRun"
      BY <2>3 DEF PostRun
    <3>3. pos' = [pos EXCEPT ![e] = 1]
      BY <2>3 DEF PostRun
    <3>4. CASE pc' = [pc EXCEPT ![e] = "preStop"] /\ UNCHANGED <<cache, partial>>
      BY <3>2, <3>3, <3>4
    <3>5. CASE /\ pc' = [pc EXCEPT ![e] = "append"] /\ UNCHANGED partial
               /\ cache' = [cache EXCEPT ![e] = ips]
      BY <3>1, <3>2, <3>3, <3>5
    <3>6. CASE /\ pc' = [pc EXCEPT ![e] = "preStop"] /\ partial' = partial \cup {e}
               /\ cache' = [cache EXCEPT ![e] = ips]
      BY <3>1, <3>2, <3>3, <3>6
    <3> QED
      BY <2>3, <3>4, <3>5, <3>6 DEF PostRun, ips
  <2>4. CASE AppendRule(e)
    <3> DEFINE r == Rules(e)[pos[e]]
    <3>1. Rules(e) \in Seq(Rule) /\ r \in Rule
      BY <2>4, RulesDistinct DEF AppendRule
    <3>2. UNCHANGED <<running, address, cache, teardowns>> /\ pc[e] = "append"
      BY <2>4 DEF AppendRule
    <3>3. CASE /\ host' = [host EXCEPT ![r] = @ + 1] /\ pos' = [pos EXCEPT ![e] = @ + 1]
               /\ UNCHANGED <<pc, partial>>
      <4>1. host' \in [Rule -> Nat] /\ pos' \in [Executors -> Nat \ {0}]
        BY <3>1, <3>3
      <4> QED
        BY <3>2, <3>3, <4>1
    <3>4. CASE /\ pc' = [pc EXCEPT ![e] = "preStop"] /\ partial' = partial \cup {e}
               /\ UNCHANGED <<host, pos>>
      BY <3>2, <3>4
    <3> QED
      BY <2>4, <3>3, <3>4 DEF AppendRule
  <2>5. CASE AppendsDone(e)
    BY <2>5 DEF AppendsDone
  <2>6. CASE BeginTeardown(e)
    BY <2>6 DEF BeginTeardown
  <2>7. CASE PreStop(e)
    BY <2>7 DEF PreStop
  <2>8. CASE DeleteRule(e)
    <3>1. Rules(e) \in Seq(Rule) /\ Rules(e)[pos[e]] \in Rule
      BY <2>8, RulesDistinct, SMTT(30) DEF DeleteRule
    <3>2. host' \in [Rule -> Nat]
      <4>1. (IF host[Rules(e)[pos[e]]] > 0 THEN host[Rules(e)[pos[e]]] - 1 ELSE 0) \in Nat
        BY <3>1
      <4>2. host' = host \/ host' = [host EXCEPT ![Rules(e)[pos[e]]] =
              IF host[Rules(e)[pos[e]]] > 0 THEN host[Rules(e)[pos[e]]] - 1 ELSE 0]
        BY <2>8 DEF DeleteRule
      <4> QED
        BY <4>1, <4>2
    <3>3. pos' \in [Executors -> Nat \ {0}]
      BY <2>8 DEF DeleteRule
    <3>4. UNCHANGED <<running, address, cache, pc, teardowns, partial>>
      BY <2>8 DEF DeleteRule
    <3> QED
      BY <3>2, <3>3, <3>4
  <2>9. CASE DeletesDone(e)
    BY <2>9 DEF DeletesDone
  <2>10. CASE StopContainer(e)
    BY <2>10 DEF StopContainer
  <2> QED
    BY <1>2, <2>1, <2>2, <2>3, <2>4, <2>5, <2>6, <2>7, <2>8, <2>9, <2>10 DEF Step
<1> QED
  BY <1>1, <1>2 DEF Next

(* Types: whatever fails, whatever ends early, however many teardowns        *)
(* (iptables.go:26-110).                                                     *)
THEOREM HostTyped == Spec => []HostTypeOK
<1>1. PlacesInv => HostTypeOK
  BY DEF PlacesInv
<1> QED
  BY <1>1, InitPlaces, NextPlaces, PTL DEF Spec

-----------------------------------------------------------------------------
(* Who owes rule r.                                                          *)
Owing(r) == {e \in Executors : r \in Owed(e)}

LEMMA OwingFinite ==
  ASSUME NEW r \in Rule
  PROVE  IsFiniteSet(Owing(r)) /\ Cardinality(Owing(r)) \in Nat
BY IptablesAssumption, FS_Subset, FS_CardinalityType DEF Owing

(* A step after which nobody owes less, and the host has no more, keeps the  *)
(* account.                                                                  *)
LEMMA OwedGrows ==
  ASSUME HostTypeOK, HostTypeOK', NoOrphanRule,
         \A r \in Rule : host'[r] <= host[r],
         \A e \in Executors : Owed(e) \subseteq Owed(e)'
  PROVE  NoOrphanRule'
<1> SUFFICES ASSUME NEW r \in Rule
             PROVE  host'[r] <= Cardinality(Owing(r)')
  BY DEF NoOrphanRule, Owing
<1>1. Owing(r) \subseteq Owing(r)'
  BY DEF Owing
<1>2. IsFiniteSet(Owing(r)') /\ Cardinality(Owing(r)') \in Nat
  BY IptablesAssumption, FS_Subset, FS_CardinalityType DEF Owing
<1>3. Cardinality(Owing(r)) <= Cardinality(Owing(r)')
  BY <1>1, <1>2, FS_Subset
<1>4. host[r] <= Cardinality(Owing(r))
  BY DEF NoOrphanRule, Owing
<1>5. host[r] \in Nat /\ host'[r] \in Nat
  BY DEF HostTypeOK
<1> QED
  BY <1>2, <1>3, <1>4, <1>5, OwingFinite

(* What a step of e leaves alone in the others.                              *)
LEMMA OthersOwe ==
  ASSUME NEW f \in Executors,
         cache'[f] = cache[f], pc'[f] = pc[f], pos'[f] = pos[f],
         teardowns'[f] = teardowns[f]
  PROVE  Owed(f)' = Owed(f)
<1>1. Rules(f)' = Rules(f)
  BY DEF Rules
<1> QED
  BY <1>1 DEF Owed

(* Outside of the places Owed names nothing is owed.                         *)
LEMMA OwesNothing ==
  ASSUME NEW f \in Executors,
         pc[f] \notin {"append", "up", "preStop", "delete"}
  PROVE  Owed(f) = {}
BY DEF Owed

(* A step of e that appends the next rule owes that rule besides.            *)
LEMMA AppendKeepsAccount ==
  ASSUME PlacesInv, PlacesInv', NoOrphanRule, NEW e \in Executors, AppendRule(e)
  PROVE  NoOrphanRule'
<1> DEFINE r == Rules(e)[pos[e]]
<1>1. Rules(e) \in Seq(Rule) /\ pos[e] \in DOMAIN Rules(e) /\ r \in Rule
  BY RulesDistinct DEF AppendRule, PlacesInv, HostTypeOK
<1>2. cache' = cache /\ Rules(e)' = Rules(e) /\ teardowns' = teardowns /\ pc[e] = "append"
  BY DEF AppendRule, Rules
<1>3. teardowns[e] = 0
  BY <1>2 DEF PlacesInv, Places
<1>4. \A f \in Executors \ {e} : Owed(f)' = Owed(f)
  BY OthersOwe DEF AppendRule, Goto, PlacesInv, HostTypeOK
<1>5. CASE host' = [host EXCEPT ![r] = @ + 1] /\ pos' = [pos EXCEPT ![e] = @ + 1] /\ pc' = pc
  <2>1. pos'[e] = pos[e] + 1 /\ pos[e] \in Nat
    BY <1>5 DEF PlacesInv, HostTypeOK
  <2>2. r \in Owed(e)'
    BY <1>1, <1>2, <1>5, <2>1 DEF Owed
  <2>3. r \notin Owed(e)
    BY <1>1, <1>2, RulesDistinct, SMTT(30) DEF Owed, PlacesInv, HostTypeOK
  <2>4. Owed(e) \subseteq Owed(e)'
    BY <1>1, <1>2, <1>5, <2>1 DEF Owed
  <2> SUFFICES ASSUME NEW q \in Rule
               PROVE  host'[q] <= Cardinality(Owing(q)')
    BY DEF NoOrphanRule, Owing
  <2>5. IsFiniteSet(Owing(q)') /\ Cardinality(Owing(q)') \in Nat
    BY IptablesAssumption, FS_Subset, FS_CardinalityType DEF Owing
  <2>6. Owing(q) \subseteq Owing(q)'
    BY <1>4, <2>4 DEF Owing
  <2>7. Cardinality(Owing(q)) <= Cardinality(Owing(q)')
    BY <2>5, <2>6, FS_Subset
  <2>8. host[q] <= Cardinality(Owing(q)) /\ host[q] \in Nat
    BY DEF NoOrphanRule, Owing, PlacesInv, HostTypeOK
  <2>9. CASE q # r
    <3>1. host'[q] = host[q]
      BY <1>1, <1>5, <2>9 DEF PlacesInv, HostTypeOK
    <3> QED
      BY <2>5, <2>7, <2>8, <3>1, OwingFinite
  <2>10. CASE q = r
    <3>1. host'[q] = host[q] + 1
      BY <1>1, <1>5, <2>10 DEF PlacesInv, HostTypeOK
    <3>2. Owing(q) # Owing(q)'
      BY <2>2, <2>3, <2>10 DEF Owing
    <3>3. Cardinality(Owing(q)) # Cardinality(Owing(q)')
      BY <2>5, <2>6, <3>2, FS_Subset
    <3> QED
      BY <2>5, <2>7, <2>8, <3>1, <3>3, OwingFinite
  <2> QED
    BY <2>9, <2>10
<1>6. CASE Goto(e, "preStop") /\ host' = host /\ pos' = pos
  <2>1. pc'[e] = "preStop" /\ teardowns'[e] = 0
    BY <1>2, <1>3, <1>6 DEF Goto, PlacesInv, HostTypeOK
  <2>2. Owed(e) \subseteq Owed(e)'
    BY <1>2, <2>1 DEF Owed
  <2> QED
    BY <1>4, <1>6, <2>2, OwedGrows DEF PlacesInv, HostTypeOK
<1> QED
  BY <1>5, <1>6 DEF AppendRule

(* A step that deletes the next rule takes one copy from the host and, in    *)
(* the first teardown of e, that rule from what e owes.                      *)
LEMMA DeleteKeepsAccount ==
  ASSUME "delete" \notin Faults,
         PlacesInv, PlacesInv', NoOrphanRule, NEW e \in Executors, DeleteRule(e)
  PROVE  NoOrphanRule'
<1> DEFINE r == Rules(e)[pos[e]]
<1>1. Rules(e) \in Seq(Rule) /\ pos[e] \in DOMAIN Rules(e) /\ r \in Rule
  BY RulesDistinct DEF DeleteRule, PlacesInv, HostTypeOK
<1>2. cache' = cache /\ Rules(e)' = Rules(e) /\ teardowns' = teardowns
      /\ pc[e] = "delete" /\ pc' = pc
  BY DEF DeleteRule, Rules
<1>3. \A f \in Executors \ {e} : Owed(f)' = Owed(f)
  BY OthersOwe DEF DeleteRule, PlacesInv, HostTypeOK
<1>4. pos'[e] = pos[e] + 1 /\ pos[e] \in Nat
  BY DEF DeleteRule, PlacesInv, HostTypeOK
<1>5. Owed(e) \ {r} \subseteq Owed(e)'
  BY <1>1, <1>2, <1>4 DEF Owed
<1> SUFFICES ASSUME NEW q \in Rule
             PROVE  host'[q] <= Cardinality(Owing(q)')
  BY DEF NoOrphanRule, Owing
<1>6. IsFiniteSet(Owing(q)') /\ Cardinality(Owing(q)') \in Nat
  BY IptablesAssumption, FS_Subset, FS_CardinalityType DEF Owing
<1>7. host[q] <= Cardinality(Owing(q)) /\ host[q] \in Nat
  BY DEF NoOrphanRule, Owing, PlacesInv, HostTypeOK
<1>8. host' = [host EXCEPT ![r] = IF @ > 0 THEN @ - 1 ELSE 0]
  BY DEF DeleteRule
<1>9. CASE q # r
  <2>1. host'[q] = host[q]
    BY <1>1, <1>8, <1>9 DEF PlacesInv, HostTypeOK
  <2>2. Owing(q) \subseteq Owing(q)'
    BY <1>3, <1>5, <1>9 DEF Owing
  <2>3. Cardinality(Owing(q)) <= Cardinality(Owing(q)')
    BY <1>6, <2>2, FS_Subset
  <2> QED
    BY <1>6, <1>7, <2>1, <2>3, OwingFinite
<1>10. CASE q = r
  <2>1. host'[q] = IF host[q] > 0 THEN host[q] - 1 ELSE 0
    BY <1>1, <1>8, <1>10 DEF PlacesInv, HostTypeOK
  <2>2. Owing(q) \ {e} \subseteq Owing(q)'
    BY <1>3 DEF Owing
  <2>3. Cardinality(Owing(q) \ {e}) <= Cardinality(Owing(q)')
    BY <1>6, <2>2, FS_Subset
  <2>4. Cardinality(Owing(q) \ {e}) >= Cardinality(Owing(q)) - 1
    BY OwingFinite, FS_RemoveElement, SMTT(30)
  <2>5. Cardinality(Owing(q)) \in Nat /\ Cardinality(Owing(q) \ {e}) \in Nat
    BY OwingFinite, FS_RemoveElement, FS_CardinalityType
  <2> QED
    BY <1>6, <1>7, <2>1, <2>3, <2>4, <2>5
<1> QED
  BY <1>9, <1>10

(* Every other step leaves the host alone, and makes nobody owe less.        *)
LEMMA NextAccount ==
  ASSUME Faults \cap {"delete", "prepareStop", "chainsStop"} = {},
         PlacesInv, PlacesInv', NoOrphanRule, [Next]_hostVars
  PROVE  NoOrphanRule'
<1>1. CASE UNCHANGED hostVars
  <2>1. host' = host /\ \A f \in Executors : Owed(f)' = Owed(f)
    BY <1>1, OthersOwe DEF hostVars
  <2> QED
    BY <2>1, OwedGrows DEF PlacesInv, HostTypeOK
<1>2. ASSUME NEW e \in Executors, Step(e)
      PROVE  NoOrphanRule'
  <2>1. CASE AppendRule(e)
    BY <2>1, AppendKeepsAccount
  <2>2. CASE DeleteRule(e)
    BY <2>2, DeleteKeepsAccount
  <2>3. SUFFICES ASSUME ~AppendRule(e), ~DeleteRule(e)
                 PROVE  Owed(e) \subseteq Owed(e)'
    <3>1. ASSUME ~AppendRule(e), ~DeleteRule(e)
          PROVE  host' = host /\ \A f \in Executors \ {e} : Owed(f)' = Owed(f)
      BY <1>2, <3>1, OthersOwe, SMTT(30)
      DEF Step, StartContainer, ContainerEnds, PostRun, AppendsDone, BeginTeardown, PreStop,
          DeletesDone, StopContainer, Goto, Restart, PlacesInv, HostTypeOK
    <3> QED
      BY <2>1, <2>2, <3>1, OwedGrows DEF PlacesInv, HostTypeOK
  <2> USE DEF Goto, Restart, PlacesInv, HostTypeOK
  <2>4. CASE StartContainer(e) \/ PostRun(e) \/ StopContainer(e)
    BY <2>4, OwesNothing DEF StartContainer, PostRun, StopContainer
  <2>5. CASE ContainerEnds(e)
    BY <2>5, OthersOwe DEF ContainerEnds
  <2>6. CASE AppendsDone(e) \/ BeginTeardown(e)
    <3>1. Rules(e)' = Rules(e)
      <4>1. cache' = cache
        BY <2>6 DEF AppendsDone, BeginTeardown
      <4> QED
        BY <4>1 DEF Rules
    <3>2. CASE AppendsDone(e) \/ pc[e] = "up"
      <4>1. teardowns'[e] = 0 /\ pc'[e] \in {"up", "preStop"}
        BY <2>6, <3>2 DEF AppendsDone, BeginTeardown, Places
      <4> QED
        BY <3>1, <4>1 DEF Owed
    <3>3. CASE pc[e] = "down"
      BY <3>3, OwesNothing
    <3> QED
      BY <2>6, <3>2, <3>3 DEF BeginTeardown
  <2>7. CASE PreStop(e)
    <3>1. Rules(e)' = Rules(e) /\ Rules(e) \in Seq(Rule)
      BY <2>7, RulesDistinct DEF PreStop, Rules
    <3>2. CASE cache[e] = {}
      BY <3>2 DEF Owed, Rules
    <3>3. CASE cache[e] # {} /\ teardowns[e] = 0
      <4>1. pc'[e] = "delete" /\ pos'[e] = 1 /\ teardowns'[e] = 1
        BY <2>7, <3>3 DEF PreStop
      <4>2. \A j \in DOMAIN Rules(e) : j >= 1
        BY <3>1
      <4> QED
        BY <3>1, <4>1, <4>2 DEF Owed
    <3>4. CASE teardowns[e] # 0
      BY <2>7, <3>4 DEF PreStop, Owed
    <3> QED
      BY <3>2, <3>3, <3>4
  <2>8. CASE DeletesDone(e)
    <3>1. Rules(e) \in Seq(Rule)
      BY RulesDistinct
    <3>2. \A j \in DOMAIN Rules(e) : ~(j >= pos[e])
      BY <2>8, <3>1 DEF DeletesDone
    <3> QED
      BY <2>8, <3>2 DEF DeletesDone, Owed
  <2> QED
    BY <1>2, <2>3, <2>4, <2>5, <2>6, <2>7, <2>8 DEF Step
<1> QED
  BY <1>1, <1>2 DEF Next

(* No rule is left without an executor that will delete it, for any number   *)
(* of executors, addresses and teardowns, whatever appends fail, whichever   *)
(* containers end early and whoever gets an address again, as long as the    *)
(* pre-stop hook finds its interface and its chains and its deletions work   *)
(* (iptables.go:66, 109, 148-243).                                           *)
THEOREM NothingOrphaned ==
  ASSUME Faults \cap {"delete", "prepareStop", "chainsStop"} = {}
  PROVE  Spec => []NoOrphanRule
<1> DEFINE Inv == PlacesInv /\ NoOrphanRule
<1>1. Init => Inv
  <2> SUFFICES ASSUME Init, NEW r \in Rule
               PROVE  host[r] <= Cardinality(Owing(r))
    BY InitPlaces DEF NoOrphanRule, Owing
  <2>1. host[r] = 0
    BY DEF Init
  <2> QED
    BY <2>1, OwingFinite
<1>2. Inv /\ [Next]_hostVars => Inv'
  BY NextPlaces, NextAccount
<1>3. Inv => NoOrphanRule
  OBVIOUS
<1> QED
  BY <1>1, <1>2, <1>3, PTL DEF Spec

-----------------------------------------------------------------------------
(* Rule r is not one of an executor whose post-run hook failed.              *)
Whole(r) == \A f \in partial : r \notin RulesOf(f)

(* As long as no append failed halfway, the host has what is owed.           *)
NothingMissing ==
  \A r \in Rule : Whole(r) => Cardinality(Owing(r)) <= host[r]

(* What a failed post-run hook may cost others is never taken back: it has   *)
(* its addresses for good.                                                   *)
LEMMA WholeBefore ==
  ASSUME PlacesInv, [Next]_hostVars, NEW r, Whole(r)'
  PROVE  Whole(r)
<1> SUFFICES ASSUME NEW f \in partial
             PROVE  f \in partial' /\ RulesOf(f)' = RulesOf(f)
  BY DEF Whole
<1>1. f \in Executors /\ pc[f] # "postRun"
  BY DEF PlacesInv, HostTypeOK, Places
<1>2. partial \subseteq partial' /\ cache'[f] = cache[f]
  <2>1. CASE UNCHANGED hostVars
    BY <2>1 DEF hostVars
  <2>2. ASSUME NEW e \in Executors, PostRun(e)
        PROVE  partial \subseteq partial' /\ cache'[f] = cache[f]
    BY <1>1, <2>2 DEF PostRun, PlacesInv, HostTypeOK
  <2>3. ASSUME NEW e \in Executors, Step(e), ~PostRun(e)
        PROVE  partial \subseteq partial' /\ cache'[f] = cache[f]
    BY <2>3 DEF Step, StartContainer, ContainerEnds, AppendRule, AppendsDone, BeginTeardown,
       PreStop, DeleteRule, DeletesDone, StopContainer
  <2> QED
    BY <2>1, <2>2, <2>3 DEF Next
<1> QED
  BY <1>2 DEF RulesOf, Rules

(* A step after which the host has no less of r, and nobody newly owes it.   *)
LEMMA OwedShrinks ==
  ASSUME HostTypeOK, HostTypeOK', NothingMissing, NEW r \in Rule, Whole(r),
         host[r] <= host'[r],
         \A e \in Executors : r \in Owed(e)' => r \in Owed(e)
  PROVE  Cardinality(Owing(r)') <= host'[r]
<1>1. Owing(r)' \subseteq Owing(r)
  BY DEF Owing
<1>2. Cardinality(Owing(r)') <= Cardinality(Owing(r)) /\ Cardinality(Owing(r)') \in Nat
  BY <1>1, OwingFinite, FS_Subset, FS_CardinalityType
<1>3. Cardinality(Owing(r)) <= host[r]
  BY DEF NothingMissing
<1>4. host[r] \in Nat /\ host'[r] \in Nat
  BY DEF HostTypeOK
<1> QED
  BY <1>2, <1>3, <1>4, OwingFinite

(* What an executor owes is among its rules.                                 *)
LEMMA OwesItsRules ==
  ASSUME NEW f \in Executors
  PROVE  Owed(f) \subseteq RulesOf(f)
BY DEF Owed, RulesOf

(* An appended rule is there before it is owed.                              *)
LEMMA AppendMissesNothing ==
  ASSUME PlacesInv, PlacesInv', NothingMissing, NEW e \in Executors, AppendRule(e),
         NEW q \in Rule, Whole(q), Whole(q)'
  PROVE  Cardinality(Owing(q)') <= host'[q]
<1> DEFINE r == Rules(e)[pos[e]]
<1>1. Rules(e) \in Seq(Rule) /\ pos[e] \in DOMAIN Rules(e) /\ r \in Rule
  BY RulesDistinct DEF AppendRule, PlacesInv, HostTypeOK
<1>2. cache' = cache /\ Rules(e)' = Rules(e) /\ teardowns' = teardowns /\ pc[e] = "append"
  BY DEF AppendRule, Rules
<1>3. \A f \in Executors \ {e} : Owed(f)' = Owed(f)
  BY OthersOwe DEF AppendRule, Goto, PlacesInv, HostTypeOK
<1> SUFFICES ASSUME host' = [host EXCEPT ![r] = @ + 1],
                    pos' = [pos EXCEPT ![e] = @ + 1], pc' = pc
             PROVE  Cardinality(Owing(q)') <= host'[q]
  <2>1. ASSUME host' = host, partial' = partial \cup {e}
        PROVE  Cardinality(Owing(q)') <= host'[q]
    <3>1. q \notin RulesOf(e)'
      BY <2>1 DEF Whole
    <3>2. q \notin Owed(e)'
      <4>1. Owed(e)' \subseteq RulesOf(e)'
        BY DEF Owed, RulesOf
      <4> QED
        BY <3>1, <4>1
    <3>3. \A f \in Executors : q \in Owed(f)' => q \in Owed(f)
      BY <1>3, <3>2
    <3> QED
      BY <2>1, <3>3, OwedShrinks DEF PlacesInv, HostTypeOK
  <2> QED
    BY <2>1 DEF AppendRule
<1>4. host' = [host EXCEPT ![r] = @ + 1] /\ pos' = [pos EXCEPT ![e] = @ + 1] /\ pc' = pc
  OBVIOUS
<1>5. pos'[e] = pos[e] + 1 /\ pos[e] \in Nat
  BY <1>4 DEF PlacesInv, HostTypeOK
<1>6. Owed(e)' \subseteq Owed(e) \cup {r}
  BY <1>1, <1>2, <1>4, <1>5 DEF Owed
<1>7. Cardinality(Owing(q)) <= host[q] /\ host[q] \in Nat
  BY <1>4 DEF NothingMissing, PlacesInv, HostTypeOK
<1>8. CASE q # r
  <2>1. host'[q] = host[q]
    BY <1>1, <1>4, <1>8 DEF PlacesInv, HostTypeOK
  <2>2. Owing(q)' \subseteq Owing(q)
    BY <1>3, <1>6, <1>8 DEF Owing
  <2>3. Cardinality(Owing(q)') <= Cardinality(Owing(q)) /\ Cardinality(Owing(q)') \in Nat
    BY <2>2, OwingFinite, FS_Subset, FS_CardinalityType
  <2> QED
    BY <1>7, <2>1, <2>3, OwingFinite
<1>9. CASE q = r
  <2>1. host'[q] = host[q] + 1
    BY <1>1, <1>4, <1>9 DEF PlacesInv, HostTypeOK
  <2>2. Owing(q)' \subseteq Owing(q) \cup {e}
    BY <1>3 DEF Owing
  <2>3. IsFiniteSet(Owing(q) \cup {e})
        /\ Cardinality(Owing(q) \cup {e}) <= Cardinality(Owing(q)) + 1
        /\ Cardinality(Owing(q) \cup {e}) \in Nat
    <3>1. IsFiniteSet(Owing(q)) /\ Cardinality(Owing(q)) \in Nat
      BY OwingFinite
    <3>2. /\ IsFiniteSet(Owing(q) \cup {e})
          /\ Cardinality(Owing(q) \cup {e}) =
               IF e \in Owing(q) THEN Cardinality(Owing(q)) ELSE Cardinality(Owing(q)) + 1
      BY <3>1, FS_AddElement
    <3> QED
      BY <3>1, <3>2
  <2>4. Cardinality(Owing(q)') <= Cardinality(Owing(q) \cup {e})
        /\ Cardinality(Owing(q)') \in Nat
    BY <2>2, <2>3, FS_Subset, FS_CardinalityType
  <2> QED
    BY <1>7, <2>1, <2>3, <2>4, OwingFinite
<1> QED
  BY <1>8, <1>9

(* In its only teardown an executor deletes what it owes.                    *)
LEMMA DeleteMissesNothing ==
  ASSUME MaxTeardowns = 1,
         PlacesInv, PlacesInv', NothingMissing, NEW e \in Executors, DeleteRule(e),
         NEW q \in Rule, Whole(q)
  PROVE  Cardinality(Owing(q)') <= host'[q]
<1> DEFINE r == Rules(e)[pos[e]]
<1>1. Rules(e) \in Seq(Rule) /\ pos[e] \in DOMAIN Rules(e) /\ r \in Rule
  BY RulesDistinct DEF DeleteRule, PlacesInv, HostTypeOK
<1>2. cache' = cache /\ Rules(e)' = Rules(e) /\ teardowns' = teardowns
      /\ pc[e] = "delete" /\ pc' = pc
  BY DEF DeleteRule, Rules
<1>3. teardowns[e] = 1
  BY <1>2 DEF PlacesInv, HostTypeOK, Places
<1>4. \A f \in Executors \ {e} : Owed(f)' = Owed(f)
  BY OthersOwe DEF DeleteRule, PlacesInv, HostTypeOK
<1>5. pos'[e] = pos[e] + 1 /\ pos[e] \in Nat
  BY DEF DeleteRule, PlacesInv, HostTypeOK
<1>6. Owed(e)' \subseteq Owed(e) /\ r \in Owed(e)
  BY <1>1, <1>2, <1>3, <1>5 DEF Owed
<1>7. r \notin Owed(e)'
  BY <1>1, <1>2, <1>3, <1>5, RulesDistinct, SMTT(30) DEF Owed, PlacesInv, HostTypeOK
<1>8. Cardinality(Owing(q)) <= host[q] /\ host[q] \in Nat /\ host'[q] \in Nat
  BY <1>2 DEF NothingMissing, PlacesInv, HostTypeOK
<1>9. host' = host \/ host' = [host EXCEPT ![r] = IF host[r] > 0 THEN host[r] - 1 ELSE 0]
  BY DEF DeleteRule
<1>10. CASE q # r
  <2>1. host'[q] = host[q]
    BY <1>1, <1>9, <1>10 DEF PlacesInv, HostTypeOK
  <2>2. Owing(q)' \subseteq Owing(q)
    BY <1>4, <1>6 DEF Owing
  <2>3. Cardinality(Owing(q)') <= Cardinality(Owing(q)) /\ Cardinality(Owing(q)') \in Nat
    BY <2>2, OwingFinite, FS_Subset, FS_CardinalityType
  <2> QED
    BY <1>8, <2>1, <2>3, OwingFinite
<1>11. CASE q = r
  <2>1. host'[q] >= host[q] - 1
    BY <1>1, <1>8, <1>9, <1>11 DEF PlacesInv, HostTypeOK
  <2>2. Owing(q)' \subseteq Owing(q) \ {e} /\ e \in Owing(q)
    BY <1>4, <1>6, <1>7, <1>11 DEF Owing
  <2>3. IsFiniteSet(Owing(q) \ {e}) /\ Cardinality(Owing(q) \ {e}) = Cardinality(Owing(q)) - 1
    BY <2>2, OwingFinite, FS_RemoveElement
  <2>4. Cardinality(Owing(q)') <= Cardinality(Owing(q)) - 1 /\ Cardinality(Owing(q)') \in Nat
    BY <2>2, <2>3, FS_Subset, FS_CardinalityType
  <2> QED
    BY <1>8, <2>1, <2>4, OwingFinite
<1> QED
  BY <1>10, <1>11

(* Every other step of an executor but a failing post-run hook owes nothing  *)
(* new, and a failing one only what it is then known to share.               *)
LEMMA NextMissesNothing ==
  ASSUME MaxTeardowns = 1, PlacesInv, PlacesInv', NothingMissing, [Next]_hostVars
  PROVE  NothingMissing'
<1> SUFFICES ASSUME NEW r \in Rule, Whole(r), Whole(r)'
             PROVE  Cardinality(Owing(r)') <= host'[r]
  BY WholeBefore DEF NothingMissing
<1>1. CASE UNCHANGED hostVars
  <2>1. host' = host /\ \A f \in Executors : Owed(f)' = Owed(f)
    BY <1>1, OthersOwe DEF hostVars
  <2> QED
    BY <2>1, OwedShrinks DEF PlacesInv, HostTypeOK
<1>2. ASSUME NEW e \in Executors, Step(e)
      PROVE  Cardinality(Owing(r)') <= host'[r]
  <2>1. CASE AppendRule(e)
    BY <2>1, AppendMissesNothing
  <2>2. CASE DeleteRule(e)
    BY <2>2, DeleteMissesNothing
  <2>3. SUFFICES ASSUME ~AppendRule(e), ~DeleteRule(e)
                 PROVE  r \in Owed(e)' => r \in Owed(e)
    <3>1. ASSUME ~AppendRule(e), ~DeleteRule(e)
          PROVE  host' = host /\ \A f \in Executors \ {e} : Owed(f)' = Owed(f)
      BY <1>2, <3>1, OthersOwe, SMTT(30)
      DEF Step, StartContainer, ContainerEnds, PostRun, AppendsDone, BeginTeardown, PreStop,
          DeletesDone, StopContainer, Goto, Restart, PlacesInv, HostTypeOK
    <3> QED
      BY <2>1, <2>2, <3>1, OwedShrinks DEF PlacesInv, HostTypeOK
  <2> USE DEF Goto, Restart, PlacesInv, HostTypeOK
  <2>4. CASE StartContainer(e) \/ DeletesDone(e) \/ StopContainer(e)
    BY <2>4 DEF StartContainer, DeletesDone, StopContainer, Owed
  <2>5. CASE ContainerEnds(e)
    BY <2>5, OthersOwe DEF ContainerEnds
  <2>6. CASE PostRun(e)
    <3>1. CASE pc'[e] = "append" /\ pos'[e] = 1
      <4>1. Rules(e)' \in Seq(Rule)
        <5>1. CASE cache'[e] = {}
          BY <5>1 DEF Rules
        <5>2. CASE cache'[e] # {}
          <6>1. (CHOOSE a \in cache'[e] : TRUE) \in Addresses \cup {Bridge}
            BY <5>2
          <6> QED
            BY <5>2, <6>1, RulesForDistinct DEF Rules
        <5> QED
          BY <5>1, <5>2
      <4>2. \A j \in DOMAIN Rules(e)' : ~(j < 1)
        BY <4>1
      <4> QED
        BY <3>1, <4>2 DEF Owed
    <3>2. CASE UNCHANGED cache
      <4>1. cache'[e] = {}
        BY <2>6, <3>2 DEF PostRun, Places
      <4> QED
        BY <4>1 DEF Owed, Rules
    <3>3. CASE partial' = partial \cup {e}
      <4>1. r \notin RulesOf(e)'
        BY <3>3 DEF Whole
      <4>2. Owed(e)' \subseteq RulesOf(e)'
        BY DEF Owed, RulesOf
      <4> QED
        BY <4>1, <4>2
    <3> QED
      BY <2>6, <3>1, <3>2, <3>3 DEF PostRun
  <2>7. CASE AppendsDone(e)
    <3>1. Rules(e)' = Rules(e) /\ Rules(e) \in Seq(Rule)
      BY <2>7, RulesDistinct DEF AppendsDone, Rules
    <3>2. \A j \in DOMAIN Rules(e) : j < pos[e]
      BY <2>7, <3>1 DEF AppendsDone
    <3> QED
      BY <2>7, <3>1, <3>2 DEF AppendsDone, Owed
  <2>8. CASE BeginTeardown(e)
    <3>1. cache' = cache /\ teardowns' = teardowns /\ pc[e] = "up"
      BY <2>8 DEF BeginTeardown, Places
    <3>2. Rules(e)' = Rules(e) /\ pc'[e] = "preStop"
      BY <2>8, <3>1 DEF BeginTeardown, Rules
    <3> QED
      BY <3>1, <3>2 DEF Owed
  <2>9. CASE PreStop(e)
    <3>1. cache' = cache /\ teardowns[e] = 0 /\ pc[e] = "preStop"
      BY <2>9 DEF PreStop, Places
    <3>2. Rules(e)' = Rules(e)
      BY <3>1 DEF Rules
    <3> QED
      BY <3>1, <3>2 DEF Owed
  <2> QED
    BY <1>2, <2>3, <2>4, <2>5, <2>6, <2>7, <2>8, <2>9 DEF Step
<1> QED
  BY <1>1, <1>2 DEF Next

(* Where each executor tears down once, whatever fails, a rule that a        *)
(* running container misses after its launch is one of an executor whose     *)
(* post-run hook failed with its addresses cached (iptables.go:31-110).      *)
THEOREM RulesStay ==
  ASSUME MaxTeardowns = 1
  PROVE  Spec => []LostRuleIsShared
<1> DEFINE Inv == PlacesInv /\ NothingMissing
<1>1. Init => Inv
  <2> SUFFICES ASSUME Init, NEW r \in Rule
               PROVE  Cardinality(Owing(r)) <= host[r]
    BY InitPlaces DEF NothingMissing
  <2>1. Owing(r) = {}
    BY OwesNothing DEF Init, Owing
  <2>2. host[r] = 0
    BY DEF Init
  <2> QED
    BY <2>1, <2>2, FS_EmptySet
<1>2. Inv /\ [Next]_hostVars => Inv'
  BY NextPlaces, NextMissesNothing
<1>3. Inv => LostRuleIsShared
  <2> SUFFICES ASSUME Inv, NEW e \in running, pc[e] = "up", NEW r \in RulesOf(e),
                      ~\E f \in partial \ {e} : r \in RulesOf(f)
               PROVE  host[r] > 0
    BY DEF LostRuleIsShared
  <2>1. e \in Executors /\ e \notin partial /\ teardowns[e] = 0
    BY DEF PlacesInv, HostTypeOK, Places
  <2>2. r \in Rule /\ Whole(r)
    <3>1. Rules(e) \in Seq(Rule)
      BY <2>1, RulesDistinct DEF PlacesInv
    <3> QED
      BY <2>1, <3>1 DEF RulesOf, Whole
  <2>3. e \in Owing(r)
    BY <2>1 DEF Owing, Owed, RulesOf
  <2>4. Cardinality(Owing(r)) # 0
    BY <2>2, <2>3, OwingFinite, FS_EmptySet
  <2>5. Cardinality(Owing(r)) <= host[r] /\ host[r] \in Nat
    BY <2>2 DEF NothingMissing, PlacesInv, HostTypeOK
  <2> QED
    BY <2>2, <2>4, <2>5, OwingFinite
<1> QED
  BY <1>1, <1>2, <1>3, PTL DEF Spec

-----------------------------------------------------------------------------
(* No post-run hook fails once it has cached its addresses.                  *)
LEMMA NoneFails ==
  ASSUME Faults \cap {"chains", "append"} = {}
  PROVE  Spec => [](partial = {})
<1> DEFINE Inv == partial = {}
<1>1. Init => Inv
  BY DEF Init
<1>2. Inv /\ [Next]_hostVars => Inv'
  BY DEF Next, Step, hostVars, StartContainer, ContainerEnds, PostRun, AppendRule, AppendsDone,
     BeginTeardown, PreStop, DeleteRule, DeletesDone, StopContainer
<1> QED
  BY <1>1, <1>2, PTL DEF Spec

(* Where, besides, the chains are there and appends work, a running          *)
(* container has all its rules from the end of its launch on                 *)
(* (iptables.go:31-110).                                                     *)
THEOREM RulesComplete ==
  ASSUME MaxTeardowns = 1, Faults \cap {"chains", "append"} = {}
  PROVE  Spec => []RunningHasRules
<1>1. partial = {} /\ LostRuleIsShared => RunningHasRules
  BY DEF LostRuleIsShared, RunningHasRules
<1> QED
  BY <1>1, NoneFails, RulesStay, PTL
=============================================================================
