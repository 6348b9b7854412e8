----------------------------- MODULE HookProofs -----------------------------
(***************************************************************************)
(* Proofs about the hooks and their manager, for every set of labels,      *)
(* priorities, ports and default ranges, and for any commands that fail.   *)
(***************************************************************************)
EXTENDS HostHooks, FiniteSetTheorems, SequenceTheorems, TLAPS

Names == {"acl", "iptables", "netns", "removeContainer", "network"}

-----------------------------------------------------------------------------
(* The sort by priority.                                                     *)

Sortable(s) == s \in Seq(Names) /\ priority \in [Names -> Int]

(* Whatever the priorities, each of two elements ends up before the other or *)
(* after it, although Less holds both ways for equal priorities.             *)
LEMMA BeforeOrders ==
  ASSUME NEW s, Sortable(s), NEW i \in DOMAIN s, NEW j \in DOMAIN s, NEW k \in DOMAIN s
  PROVE  /\ ~Manager!Before(s, i, i)
         /\ i # j => Manager!Before(s, i, j) \/ Manager!Before(s, j, i)
         /\ Manager!Before(s, i, j) /\ Manager!Before(s, j, k) => Manager!Before(s, i, k)
<1> DEFINE P(n) == priority[s[n]]
<1>1. i \in Nat /\ j \in Nat /\ k \in Nat /\ P(i) \in Int /\ P(j) \in Int /\ P(k) \in Int
  BY DEF Sortable
<1>2. \A m, n \in {i, j, k} :
         Manager!Before(s, m, n) <=> (m < n /\ P(n) < P(m)) \/ (m > n /\ ~(P(m) < P(n)))
  BY DEF Manager!Before, Manager!Less
<1>3. \A m, n \in {i, j, k} :
         Manager!Before(s, m, n) <=> (P(n) < P(m) \/ (P(n) = P(m) /\ m > n))
  <2> HIDE DEF P
  <2> QED
    BY <1>1, <1>2
<1> HIDE DEF P
<1> QED
  BY <1>1, <1>3

(* The instance counts like the module itself.                               *)
LEMMA ManagerCardinality == \A S : Manager!Cardinality(S) = Cardinality(S)
BY DEF Manager!Cardinality, Cardinality, Manager!IsFiniteSet, IsFiniteSet

Preceding(s, j) == {i \in DOMAIN s : Manager!Before(s, i, j)}

(* So the ranks of the elements are the places of the list, each once.       *)
LEMMA RanksArePlaces ==
  ASSUME NEW s, Sortable(s)
  PROVE  /\ \A j \in DOMAIN s : Manager!Rank(s, j) \in DOMAIN s
         /\ \A i, j \in DOMAIN s :
              Manager!Before(s, i, j) => Manager!Rank(s, i) < Manager!Rank(s, j)
         /\ \A r \in DOMAIN s : \E j \in DOMAIN s : Manager!Rank(s, j) = r
<1> DEFINE n == Len(s)
<1>1. n \in Nat /\ DOMAIN s = 1 .. n
  BY DEF Sortable
<1> HIDE DEF n
<1>2. IsFiniteSet(DOMAIN s) /\ Cardinality(DOMAIN s) = n
  <2>1. IsFiniteSet(1 .. n) /\ Cardinality(1 .. n) = n
    BY <1>1, FS_Interval
  <2> QED
    BY <1>1, <2>1, Zenon
<1>3. ASSUME NEW j \in DOMAIN s
      PROVE  /\ IsFiniteSet(Preceding(s, j))
             /\ Cardinality(Preceding(s, j)) \in 0 .. n - 1
             /\ Manager!Rank(s, j) = 1 + Cardinality(Preceding(s, j))
  <2>1. Preceding(s, j) \in SUBSET (DOMAIN s \ {j})
    BY BeforeOrders DEF Preceding
  <2>2. IsFiniteSet(DOMAIN s \ {j}) /\ Cardinality(DOMAIN s \ {j}) = n - 1
    BY <1>2, FS_RemoveElement
  <2>3. IsFiniteSet(Preceding(s, j)) /\ Cardinality(Preceding(s, j)) <= n - 1
    BY <2>1, <2>2, FS_Subset
  <2>4. Cardinality(Preceding(s, j)) \in Nat
    BY <2>3, FS_CardinalityType
  <2>5. Manager!Rank(s, j) = 1 + Cardinality(Preceding(s, j))
    BY ManagerCardinality, Zenon DEF Manager!Rank, Preceding
  <2> QED
    BY <1>1, <2>3, <2>4, <2>5
<1>4. ASSUME NEW i \in DOMAIN s, NEW j \in DOMAIN s, Manager!Before(s, i, j)
      PROVE  Manager!Rank(s, i) < Manager!Rank(s, j)
  <2>1. Preceding(s, i) \cup {i} \in SUBSET Preceding(s, j) /\ i \notin Preceding(s, i)
    BY <1>4, BeforeOrders DEF Preceding
  <2>2. Cardinality(Preceding(s, i) \cup {i}) = Cardinality(Preceding(s, i)) + 1
    BY <1>3, <2>1, FS_AddElement
  <2>3. Cardinality(Preceding(s, i) \cup {i}) <= Cardinality(Preceding(s, j))
    BY <1>3, <2>1, FS_Subset
  <2> QED
    BY <1>1, <1>3, <2>2, <2>3
<1>5. \A j \in DOMAIN s : Manager!Rank(s, j) \in DOMAIN s
  BY <1>1, <1>3
<1>6. \A i, j \in DOMAIN s : Manager!Rank(s, i) = Manager!Rank(s, j) => i = j
  <2> SUFFICES ASSUME NEW i \in DOMAIN s, NEW j \in DOMAIN s, i # j
               PROVE  Manager!Rank(s, i) # Manager!Rank(s, j)
    OBVIOUS
  <2>1. Manager!Before(s, i, j) \/ Manager!Before(s, j, i)
    BY BeforeOrders
  <2>2. Manager!Rank(s, i) \in Nat /\ Manager!Rank(s, j) \in Nat
    BY <1>1, <1>5
  <2> QED
    BY <1>4, <2>1, <2>2
<1>7. ASSUME NEW r \in DOMAIN s
      PROVE  \E j \in DOMAIN s : Manager!Rank(s, j) = r
  <2> DEFINE f == [j \in DOMAIN s |-> Manager!Rank(s, j)]
  <2>1. f \in Injection(DOMAIN s, DOMAIN s)
    BY <1>5, <1>6 DEF Injection, IsInjective
  <2>2. f \in Surjection(DOMAIN s, DOMAIN s)
    BY <1>2, <2>1, FS_Injection
  <2> QED
    BY <2>2 DEF Surjection
<1> QED
  BY <1>4, <1>5, <1>7

Distinct(s) == \A i, j \in DOMAIN s : s[i] = s[j] => i = j
Descending(s) == \A i, j \in DOMAIN s : i < j => priority[s[i]] >= priority[s[j]]

LEMMA FunctionIsSeq ==
  ASSUME NEW S, NEW n \in Nat, NEW f \in [1 .. n -> S]
  PROVE  f \in Seq(S)
BY SeqDef

(* The sort keeps the elements and leaves them by descending priority, with  *)
(* a comparison that is not the strict one sort.Sort asks for                *)
(* (hook_manager.go:68-80).                                                  *)
THEOREM SortSorts ==
  ASSUME NEW s, Sortable(s)
  PROVE  LET t == Manager!SortByPriority(s) IN
         /\ Sortable(t)
         /\ Manager!Range(t) = Manager!Range(s)
         /\ Distinct(s) => Distinct(t)
         /\ Descending(t)
<1> DEFINE t == Manager!SortByPriority(s)
           place(r) == CHOOSE j \in DOMAIN s : Manager!Rank(s, j) = r
<1>1. DOMAIN s = 1 .. Len(s) /\ Len(s) \in Nat /\ s \in [DOMAIN s -> Names]
  BY DEF Sortable
<1>2. t = [r \in DOMAIN s |-> s[place(r)]]
  BY DEF Manager!SortByPriority
<1>3. \A r \in DOMAIN s : place(r) \in DOMAIN s /\ Manager!Rank(s, place(r)) = r
  BY RanksArePlaces
<1> HIDE DEF t, place
<1>4. DOMAIN t = DOMAIN s /\ \A r \in DOMAIN s : t[r] = s[place(r)]
  BY <1>2
<1>5. Sortable(t)
  <2>1. t \in [1 .. Len(s) -> Names]
    BY <1>1, <1>2, <1>3
  <2>2. t \in Seq(Names)
    BY <1>1, <2>1, FunctionIsSeq
  <2> QED
    BY <2>2 DEF Sortable
<1>6. \A i, j \in DOMAIN s : Manager!Rank(s, i) = Manager!Rank(s, j) => i = j
  <2> SUFFICES ASSUME NEW i \in DOMAIN s, NEW j \in DOMAIN s, i # j
               PROVE  Manager!Rank(s, i) # Manager!Rank(s, j)
    OBVIOUS
  <2>1. Manager!Before(s, i, j) \/ Manager!Before(s, j, i)
    BY BeforeOrders
  <2>2. Manager!Rank(s, i) \in Nat /\ Manager!Rank(s, j) \in Nat
    BY <1>1, RanksArePlaces, SMTT(30)
  <2> QED
    BY <2>1, <2>2, RanksArePlaces
<1>7. \A j \in DOMAIN s : t[Manager!Rank(s, j)] = s[j] /\ Manager!Rank(s, j) \in DOMAIN t
  BY <1>3, <1>4, <1>6, RanksArePlaces
<1>8. Manager!Range(t) = Manager!Range(s)
  BY <1>3, <1>4, <1>7 DEF Manager!Range
<1>9. Distinct(s) => Distinct(t)
  BY <1>3, <1>4 DEF Distinct
<1>10. Descending(t)
  <2> SUFFICES ASSUME NEW i \in DOMAIN s, NEW j \in DOMAIN s, i < j
               PROVE  priority[s[place(i)]] >= priority[s[place(j)]]
    BY <1>4 DEF Descending
  <2>1. place(i) \in DOMAIN s /\ place(j) \in DOMAIN s /\ place(i) # place(j)
    BY <1>1, <1>3
  <2>2. Manager!Before(s, place(i), place(j)) \/ Manager!Before(s, place(j), place(i))
    BY <2>1, BeforeOrders
  <2>3. ~Manager!Before(s, place(j), place(i))
    <3>1. SUFFICES ASSUME Manager!Before(s, place(j), place(i))
                   PROVE  FALSE
      OBVIOUS
    <3>2. Manager!Rank(s, place(j)) < Manager!Rank(s, place(i))
      BY <2>1, <3>1, RanksArePlaces
    <3>3. j < i
      BY <1>3, <3>2
    <3> QED
      BY <1>1, <3>3
  <2>4. priority[s[place(i)]] \in Int /\ priority[s[place(j)]] \in Int
    BY <1>1, <2>1 DEF Sortable
  <2> QED
    BY <2>2, <2>3, <2>4 DEF Manager!Before, Manager!Less
<1> QED
  BY <1>5, <1>8, <1>9, <1>10 DEF t

-----------------------------------------------------------------------------
(* The manager's list, and how far a run of the hooks is in it.              *)

Listed ==
  /\ enabled \in SUBSET Names
  /\ toRegister \in Seq(Names) /\ Distinct(toRegister)
  /\ Sortable(hooks) /\ Distinct(hooks) /\ Descending(hooks)
  /\ Manager!Range(hooks) = enabled \ Manager!Range(toRegister)
  /\ phase # "register" => toRegister = <<>>

Runs == Manager!StartRuns \cup Manager!StopRuns
Phases == {"register", "created", "started", "up", "failed", "stopped", "down"} \cup Runs

(* In list s the functions for a run in the places before n are in calls.    *)
Called(s, calls, run, n) ==
  \A j \in 1 .. n - 1 : run \in Implements[s[j]] => <<run, s[j]>> \in calls

(* Each of the calls came after those for the places before it.              *)
Ordered(s, calls) ==
  \A c \in calls : \E i \in DOMAIN s : s[i] = c[2] /\ Called(s, calls, c[1], i)

InTurn ==
  /\ phase \in Phases
  /\ pos \in 1 .. Len(hooks) + 1
  /\ phase = "register" => pos = 1 /\ ran = {}
  /\ ran \subseteq Runs \X Names
  /\ Ordered(hooks, ran)
  /\ phase \in Runs => Called(hooks, ran, phase, pos)

LEMMA ListFrame ==
  ASSUME [Next]_vars
  PROVE  \/ Manager!RegisterHooks
         \/ /\ UNCHANGED <<enabled, priority, toRegister, hooks>>
            /\ phase' = "register" => phase = "register"
            /\ phase = "register" /\ phase' # "register" => toRegister = <<>>
<1>1. CASE ManagerStep
  BY <1>1 DEF ManagerStep, Manager!Ask, Manager!EndOfHooks, Manager!SkipHook,
     Manager!After, Manager!StartRuns, Manager!StopRuns
<1>2. CASE RunHook
  BY <1>2 DEF RunHook, Manager!Call, Manager!After, Manager!StartRuns, Manager!StopRuns
<1>3. CASE UNCHANGED vars
  BY <1>3 DEF vars, managerVars
<1> QED
  BY <1>1, <1>2, <1>3 DEF Next

LEMMA ListedStep == Listed /\ [Next]_vars => Listed'
<1> SUFFICES ASSUME Listed, [Next]_vars
             PROVE  Listed'
  OBVIOUS
<1>1. CASE Manager!RegisterHooks
  <2> DEFINE h == Head(toRegister)
             s == IF h \in enabled THEN Append(hooks, h) ELSE hooks
  <2>1. /\ toRegister # <<>> /\ toRegister' = Tail(toRegister)
        /\ hooks' = Manager!SortByPriority(s)
        /\ UNCHANGED <<enabled, priority, phase>> /\ phase = "register"
    BY <1>1 DEF Manager!RegisterHooks
  <2>2. /\ h \in Names /\ h = toRegister[1]
        /\ Tail(toRegister) \in Seq(Names) /\ Distinct(Tail(toRegister))
        /\ Manager!Range(Tail(toRegister)) = Manager!Range(toRegister) \ {h}
        /\ h \in Manager!Range(toRegister)
    <3>1. toRegister \in Seq(Names) /\ toRegister # <<>>
      BY <2>1 DEF Listed
    <3>2. /\ Tail(toRegister) \in Seq(Names) /\ h \in Names /\ h = toRegister[1]
          /\ DOMAIN toRegister = 1 .. Len(toRegister) /\ Len(toRegister) \in Nat \ {0}
          /\ DOMAIN Tail(toRegister) = 1 .. Len(toRegister) - 1
          /\ \A i \in DOMAIN Tail(toRegister) : Tail(toRegister)[i] = toRegister[i + 1]
      BY <3>1
    <3> HIDE DEF h
    <3>3. \A i \in 2 .. Len(toRegister) :
            /\ i - 1 \in DOMAIN Tail(toRegister)
            /\ Tail(toRegister)[i - 1] = toRegister[i]
      BY <3>2
    <3>4. Distinct(toRegister)
      BY DEF Listed
    <3>5. Distinct(Tail(toRegister))
      BY <3>2, <3>4 DEF Distinct
    <3>6. Manager!Range(Tail(toRegister)) = Manager!Range(toRegister) \ {h}
      <4>1. ASSUME NEW x \in Manager!Range(Tail(toRegister))
            PROVE  x \in Manager!Range(toRegister) \ {h}
        <5>1. PICK i \in DOMAIN Tail(toRegister) : x = Tail(toRegister)[i]
          BY <4>1 DEF Manager!Range
        <5>2. i + 1 \in DOMAIN toRegister /\ x = toRegister[i + 1] /\ i + 1 # 1
          BY <3>2, <5>1
        <5>3. x # toRegister[1]
          BY <3>2, <3>4, <5>2 DEF Distinct
        <5> QED
          BY <3>2, <5>2, <5>3 DEF Manager!Range
      <4>2. ASSUME NEW x \in Manager!Range(toRegister), x # h
            PROVE  x \in Manager!Range(Tail(toRegister))
        <5>1. PICK i \in DOMAIN toRegister : x = toRegister[i]
          BY <4>2 DEF Manager!Range
        <5>2. i \in 2 .. Len(toRegister)
          BY <3>2, <4>2, <5>1
        <5> QED
          BY <3>3, <5>1, <5>2 DEF Manager!Range
      <4> QED
        BY <4>1, <4>2, Zenon
    <3>7. h \in Manager!Range(toRegister)
      BY <3>2 DEF Manager!Range
    <3> QED
      BY <3>2, <3>5, <3>6, <3>7
  <2> HIDE DEF h
  <2>3. /\ Sortable(s) /\ Distinct(s)
        /\ Manager!Range(s) = enabled \ Manager!Range(Tail(toRegister))
    <3>1. CASE h \notin enabled
      BY <2>2, <3>1 DEF Listed
    <3>2. CASE h \in enabled
      <4>1. /\ s = Append(hooks, h) /\ hooks \in Seq(Names)
            /\ DOMAIN s = 1 .. Len(hooks) + 1 /\ s[Len(hooks) + 1] = h
            /\ \A i \in 1 .. Len(hooks) : s[i] = hooks[i]
            /\ DOMAIN hooks = 1 .. Len(hooks) /\ Len(hooks) \in Nat
            /\ s \in Seq(Names)
        BY <2>2, <3>2 DEF Listed, Sortable
      <4>2. h \notin Manager!Range(hooks)
        BY <2>2 DEF Listed
      <4> HIDE DEF s
      <4>3. Manager!Range(s) = Manager!Range(hooks) \cup {h}
        BY <4>1 DEF Manager!Range
      <4>4. Distinct(s)
        BY <4>1, <4>2 DEF Listed, Distinct, Manager!Range
      <4> QED
        BY <2>2, <3>2, <4>1, <4>3, <4>4 DEF Listed, Sortable
    <3> QED
      BY <3>1, <3>2
  <2> HIDE DEF s
  <2>4. /\ Sortable(hooks') /\ Manager!Range(hooks') = Manager!Range(s)
        /\ Distinct(hooks') /\ Descending(hooks')
    BY <2>1, <2>3, SortSorts
  <2>5. Sortable(hooks)' /\ Distinct(hooks)' /\ Descending(hooks)' /\ Distinct(toRegister)'
    BY <2>1, <2>2, <2>4 DEF Sortable, Descending, Distinct
  <2>6. Manager!Range(hooks)' = (enabled \ Manager!Range(toRegister))'
    BY <2>1, <2>3, <2>4 DEF Manager!Range
  <2> QED
    BY <2>1, <2>2, <2>5, <2>6 DEF Listed
<1>2. CASE /\ UNCHANGED <<enabled, priority, toRegister, hooks>>
           /\ phase' = "register" => phase = "register"
           /\ phase = "register" /\ phase' # "register" => toRegister = <<>>
  <2>1. Sortable(hooks)' /\ Distinct(hooks)' /\ Descending(hooks)' /\ Distinct(toRegister)'
    BY <1>2 DEF Listed, Sortable, Descending, Distinct
  <2>2. Manager!Range(hooks)' = (enabled \ Manager!Range(toRegister))'
    BY <1>2 DEF Listed, Manager!Range
  <2> QED
    BY <1>2, <2>1, <2>2 DEF Listed
<1> QED
  BY <1>1, <1>2, ListFrame

USE DEF Manager!StartRuns, Manager!StopRuns, Manager!After

(* One more call for the next place keeps the calls ordered.                 *)
LEMMA NextCall ==
  ASSUME NEW s, NEW n \in Nat, DOMAIN s = 1 .. n, NEW i \in DOMAIN s, NEW run, NEW calls,
         Ordered(s, calls), Called(s, calls, run, i)
  PROVE  LET made == calls \cup {<<run, s[i]>>} IN
         Ordered(s, made) /\ Called(s, made, run, i + 1)
<1> DEFINE made == calls \cup {<<run, s[i]>>}
<1>1. Called(s, made, run, i)
  BY DEF Called
<1>2. Called(s, made, run, i + 1)
  BY <1>1 DEF Called
<1>3. ASSUME NEW c \in calls
      PROVE  \E k \in DOMAIN s : s[k] = c[2] /\ Called(s, made, c[1], k)
  <2>1. PICK k \in DOMAIN s : s[k] = c[2] /\ Called(s, calls, c[1], k)
    BY DEF Ordered
  <2>2. Called(s, made, c[1], k)
    BY <2>1 DEF Called
  <2> QED
    BY <2>1, <2>2
<1>4. <<run, s[i]>>[1] = run /\ <<run, s[i]>>[2] = s[i]
  OBVIOUS
<1>5. ASSUME NEW c \in made
      PROVE  \E k \in DOMAIN s : s[k] = c[2] /\ Called(s, made, c[1], k)
  BY <1>1, <1>3, <1>4
<1> QED
  BY <1>2, <1>5 DEF Ordered

LEMMA InTurnStep == Listed /\ InTurn /\ [Next]_vars => InTurn'
<1> SUFFICES ASSUME Listed, InTurn, [Next]_vars
             PROVE  InTurn'
  OBVIOUS
<1>1. Len(hooks) \in Nat /\ DOMAIN hooks = 1 .. Len(hooks) /\ pos \in Nat
  BY DEF Listed, Sortable, InTurn
<1>2. \A s, run : Ordered(s, {}) /\ Called(s, ran, run, 1) /\ Called(s, {}, run, 1)
  BY DEF Ordered, Called
<1>3. CASE Manager!RegisterHooks
  <2>1. pos' = 1 /\ ran' = {} /\ phase' = "register"
    BY <1>3 DEF Manager!RegisterHooks, InTurn
  <2>2. Len(hooks') \in Nat
    BY ListedStep DEF Listed, Sortable
  <2> QED
    BY <1>2, <2>1, <2>2 DEF InTurn, Phases, Runs
<1>4. ASSUME NEW run \in Runs, Manager!Ask(run)
      PROVE  InTurn'
  <2>1. phase' = run /\ pos' = 1 /\ hooks' = hooks /\ (ran' = {} \/ ran' = ran)
    BY <1>4 DEF Manager!Ask
  <2>2. Ordered(hooks', ran') /\ Called(hooks', ran', phase', pos')
    BY <1>2, <2>1 DEF InTurn
  <2>3. phase' # "register" /\ phase' \in Phases
    BY <2>1 DEF Runs, Phases
  <2>4. ran' \subseteq Runs \X Names
    BY <2>1 DEF InTurn
  <2> QED
    BY <1>1, <2>1, <2>2, <2>3, <2>4 DEF InTurn
<1>5. CASE Manager!EndOfHooks
  <2>1. /\ phase' \in {"created", "started", "up", "stopped", "down"}
        /\ hooks' = hooks /\ pos' = pos /\ ran' = ran
    BY <1>5 DEF Manager!EndOfHooks
  <2> QED
    BY <2>1 DEF InTurn, Phases, Runs
<1>6. CASE Manager!SkipHook
  <2>1. /\ phase \in Runs /\ pos <= Len(hooks) /\ pos' = pos + 1
        /\ phase \notin Implements[hooks[pos]]
        /\ hooks' = hooks /\ phase' = phase /\ ran' = ran
    BY <1>6 DEF Manager!SkipHook, Runs
  <2>2. Called(hooks, ran, phase, pos + 1)
    BY <1>1, <2>1 DEF InTurn, Called
  <2>3. phase # "register"
    BY <2>1 DEF Runs
  <2> QED
    BY <1>1, <2>1, <2>2, <2>3 DEF InTurn
<1>7. ASSUME NEW ok \in BOOLEAN, Manager!Call(ok)
      PROVE  InTurn'
  <2> DEFINE made == ran \cup {<<phase, hooks[pos]>>}
  <2>1. /\ phase \in Runs /\ pos \in DOMAIN hooks /\ hooks' = hooks
        /\ ran' = made /\ hooks[pos] \in Names
    BY <1>1, <1>7 DEF Manager!Call, Runs, InTurn, Listed, Sortable
  <2>2. \/ pos' = pos + 1 /\ phase' = phase
        \/ pos' = pos /\ phase' \in {"failed", "stopped", "down"}
    BY <1>7 DEF Manager!Call
  <2>3. Ordered(hooks, made) /\ Called(hooks, made, phase, pos + 1)
    BY <1>1, <2>1, NextCall DEF InTurn
  <2>4. made \subseteq Runs \X Names
    BY <2>1 DEF InTurn
  <2> HIDE DEF made
  <2>5. /\ phase' \in Phases /\ phase' # "register" /\ pos' \in 1 .. Len(hooks') + 1
        /\ phase' \in Runs => phase' = phase /\ pos' = pos + 1
    BY <1>1, <2>1, <2>2 DEF InTurn, Phases, Runs
  <2> QED
    BY <2>1, <2>3, <2>4, <2>5 DEF InTurn
<1>8. CASE UNCHANGED vars
  BY <1>8 DEF vars, managerVars, InTurn
<1>9. CASE ManagerStep
  BY <1>3, <1>4, <1>5, <1>6, <1>9 DEF ManagerStep, Runs
<1>10. CASE RunHook
  BY <1>7, <1>10 DEF RunHook
<1> QED
  BY <1>8, <1>9, <1>10 DEF Next

LEMMA ManagerInit == Init => Listed /\ InTurn
<1> SUFFICES ASSUME Init
             PROVE  Listed /\ InTurn
  OBVIOUS
<1>1. /\ enabled \in SUBSET Manager!Range(Order)
      /\ priority \in [Manager!Range(Order) -> Priorities]
      /\ toRegister = Order /\ hooks = <<>> /\ phase = "register" /\ pos = 1 /\ ran = {}
  BY DEF Init, Manager!Init
<1>2. Manager!Range(Order) = Names /\ Order \in Seq(Names) /\ Distinct(Order)
  BY DEF Manager!Range, Order, Names, Distinct
<1>3. hooks \in Seq(Names) /\ DOMAIN hooks = {} /\ Len(hooks) = 0
  BY <1>1
<1>4. Distinct(hooks) /\ Descending(hooks) /\ Manager!Range(hooks) = {}
  BY <1>3 DEF Distinct, Descending, Manager!Range
<1>5. priority \in [Names -> Int]
  BY <1>1, <1>2, PrioritiesAssumption
<1>6. Listed
  BY <1>1, <1>2, <1>3, <1>4, <1>5 DEF Listed, Sortable
<1> QED
  BY <1>1, <1>3, <1>6 DEF InTurn, Phases, Runs, Ordered

(* In each run the functions of the hooks are called by descending priority, *)
(* for any priorities and any hooks enabled (hook_manager.go:70-97,          *)
(* 124-165).                                                                 *)
THEOREM PriorityOrder == Spec => []HighestPriorityFirst
<1>1. Listed /\ InTurn => HighestPriorityFirst
  <2> SUFFICES ASSUME Listed, InTurn, NEW r \in ran, NEW h \in Manager!Range(hooks),
                      priority[h] > priority[r[2]], r[1] \in Implements[h]
               PROVE  <<r[1], h>> \in ran
    BY DEF HighestPriorityFirst, Manager!HighestPriorityFirst
  <2>1. PICK i \in DOMAIN hooks : hooks[i] = r[2] /\ Called(hooks, ran, r[1], i)
    BY DEF InTurn, Ordered
  <2>2. PICK k \in DOMAIN hooks : hooks[k] = h
    BY DEF Manager!Range
  <2>3. DOMAIN hooks = 1 .. Len(hooks) /\ priority[h] \in Int /\ priority[r[2]] \in Int
    BY <2>1, <2>2 DEF Listed, Sortable
  <2>4. ~(i <= k)
    BY <2>1, <2>2, <2>3 DEF Listed, Descending
  <2> QED
    BY <2>1, <2>2, <2>3, <2>4 DEF Called
<1> QED
  BY <1>1, ManagerInit, ListedStep, InTurnStep, PTL DEF Spec

-----------------------------------------------------------------------------
(* The rules of the ACL hook, as bags.                                       *)

IsLabels(l) == l \in Seq([port : Nat, ips : Seq(STRING)])

(* One loop of generateACL makes finitely many calls, and all its loops do.  *)
LEMMA FiniteCalls ==
  ASSUME IsLabels(labels)
  PROVE  /\ IsFiniteSet(Calls)
         /\ \A c \in Calls : c[1] \in Loops /\ c[2] \in DOMAIN RulesOf(c[1]) /\ c = <<c[1], c[2]>>
<1> DEFINE turns(g) == {g} \X DOMAIN RulesOf(g)
           all == {turns(g) : g \in ReadLoops}
           f == [g \in ReadLoops |-> turns(g)]
<1>1. /\ Len(labels) \in Nat /\ Len(Defaults) \in Nat
      /\ \A g \in 1 .. Len(labels) :
           /\ Len(labels[g].ips) \in Nat
           /\ DOMAIN labels[g].ips = 1 .. Len(labels[g].ips)
  <2> DEFINE R == [port : Nat, ips : Seq(STRING)]
  <2>1. labels \in Seq(R)
    BY DEF IsLabels
  <2>2. \A r \in R : r.ips \in Seq(STRING)
    OBVIOUS
  <2> HIDE DEF R
  <2>3. Len(labels) \in Nat /\ \A g \in 1 .. Len(labels) : labels[g] \in R
    BY <2>1
  <2>4. \A r \in R : Len(r.ips) \in Nat /\ DOMAIN r.ips = 1 .. Len(r.ips)
    BY <2>2
  <2>5. Len(Defaults) \in Nat
    BY AclAssumption
  <2> QED
    BY <2>3, <2>4, <2>5
<1>2. ReadLoops \subseteq Loops /\ IsFiniteSet(Loops)
  <2>1. Len(labels) + Len(Defaults) \in Int
    BY <1>1
  <2> QED
    BY <2>1, FS_Interval DEF ReadLoops, Loops
<1>3. IsFiniteSet(ReadLoops)
  BY <1>2, FS_Subset
<1>4. ASSUME NEW g \in ReadLoops
      PROVE  IsFiniteSet(turns(g))
  <2>1. g \in Nat
    BY <1>1, <1>2 DEF Loops
  <2>2. \E n \in Nat : DOMAIN RulesOf(g) = 1 .. n
    <3>1. CASE g <= Len(labels)
      <4>1. g \in 1 .. Len(labels)
        BY <1>1, <1>2, <3>1 DEF Loops
      <4>2. DOMAIN RulesOf(g) = DOMAIN labels[g].ips
        BY <3>1 DEF RulesOf
      <4> QED
        BY <1>1, <4>1, <4>2
    <3>2. CASE ~(g <= Len(labels))
      BY <3>2, AclAssumption DEF RulesOf
    <3> QED
      BY <3>1, <3>2
  <2>3. IsFiniteSet(DOMAIN RulesOf(g))
    <3>1. PICK n \in Nat : DOMAIN RulesOf(g) = 1 .. n
      BY <2>2
    <3>2. IsFiniteSet(1 .. n)
      BY FS_Interval
    <3> QED
      BY <3>1, <3>2, Zenon
  <2> QED
    BY <2>3, FS_Singleton, FS_Product
<1>5. IsFiniteSet(all)
  <2>1. f \in Surjection(ReadLoops, all)
    BY DEF Surjection
  <2> QED
    BY <1>3, <2>1, FS_Surjection
<1>6. IsFiniteSet(Calls)
  <2>1. \A T \in all : IsFiniteSet(T)
    BY <1>4
  <2>2. IsFiniteSet(UNION all)
    BY <1>5, <2>1, FS_UNION
  <2>3. Calls = UNION all
    BY DEF Calls
  <2> QED
    BY <2>2, <2>3
<1>7. ASSUME NEW c \in Calls
      PROVE  c[1] \in Loops /\ c[2] \in DOMAIN RulesOf(c[1]) /\ c = <<c[1], c[2]>>
  <2>1. PICK g \in ReadLoops : c \in turns(g)
    BY DEF Calls
  <2> QED
    BY <1>2, <2>1
<1> QED
  BY <1>6, <1>7

(* The rules of some of the calls are a bag, and no more than those of more  *)
(* calls.                                                                    *)
LEMMA RulesAreABag ==
  ASSUME IsLabels(labels), NEW made \in SUBSET Calls
  PROVE  /\ IsABag(RulesBag(made))
         /\ DOMAIN RulesBag(made) = {RuleAt(c) : c \in made}
         /\ RulesBag(made) \sqsubseteq RulesBag(Calls)
<1> DEFINE of(S, r) == {c \in S : RuleAt(c) = r}
<1>1. ASSUME NEW S \in SUBSET Calls, NEW r
      PROVE  /\ IsFiniteSet(of(S, r)) /\ Cardinality(of(S, r)) \in Nat
             /\ Cardinality(of(S, r)) <= Cardinality(of(Calls, r))
             /\ \A c \in S : RuleAt(c) = r => Cardinality(of(S, r)) > 0
  <2>1. IsFiniteSet(of(Calls, r))
    <3>1. of(Calls, r) \in SUBSET Calls
      OBVIOUS
    <3> QED
      BY <3>1, FiniteCalls, FS_Subset
  <2>2. of(S, r) \in SUBSET of(Calls, r)
    OBVIOUS
  <2> HIDE DEF of
  <2>3. IsFiniteSet(of(S, r)) /\ Cardinality(of(S, r)) <= Cardinality(of(Calls, r))
    BY <2>1, <2>2, FS_Subset
  <2>4. Cardinality(of(S, r)) \in Nat
    BY <2>3, FS_CardinalityType
  <2>5. \A c \in S : RuleAt(c) = r => of(S, r) # {}
    BY DEF of
  <2>6. \A c \in S : RuleAt(c) = r => Cardinality(of(S, r)) # 0
    BY <2>3, <2>5, FS_EmptySet
  <2> QED
    BY <2>3, <2>4, <2>6
<1>2. \A S : RulesBag(S) = [r \in {RuleAt(c) : c \in S} |-> Cardinality(of(S, r))]
  BY DEF RulesBag
<1> HIDE DEF of
<1>3. \A S \in SUBSET Calls :
        /\ DOMAIN RulesBag(S) = {RuleAt(c) : c \in S}
        /\ \A r \in DOMAIN RulesBag(S) : RulesBag(S)[r] = Cardinality(of(S, r))
  BY <1>2
<1>4. \A r \in DOMAIN RulesBag(made) : Cardinality(of(made, r)) \in {n \in Nat : n > 0}
  <2> SUFFICES ASSUME NEW r \in DOMAIN RulesBag(made)
               PROVE  Cardinality(of(made, r)) \in {n \in Nat : n > 0}
    OBVIOUS
  <2>1. PICK c \in made : RuleAt(c) = r
    BY <1>3
  <2> QED
    BY <1>1, <2>1
<1>5. IsABag(RulesBag(made))
  <2>1. RulesBag(made) \in [DOMAIN RulesBag(made) -> {n \in Nat : n > 0}]
    BY <1>2, <1>3, <1>4
  <2> QED
    BY <2>1 DEF IsABag
<1>6. RulesBag(made) \sqsubseteq RulesBag(Calls)
  <2>1. /\ Calls \in SUBSET Calls
        /\ DOMAIN RulesBag(made) \subseteq DOMAIN RulesBag(Calls)
    <3>1. Calls \in SUBSET Calls
      OBVIOUS
    <3>2. DOMAIN RulesBag(Calls) = {RuleAt(c) : c \in Calls}
      BY <1>3, <3>1
    <3>3. DOMAIN RulesBag(made) = {RuleAt(c) : c \in made}
      BY <1>3
    <3> QED
      BY <3>1, <3>2, <3>3
  <2>2. ASSUME NEW r \in DOMAIN RulesBag(made)
        PROVE  RulesBag(made)[r] <= RulesBag(Calls)[r]
    <3>1. RulesBag(made)[r] = Cardinality(of(made, r))
      BY <1>3
    <3>2. RulesBag(Calls)[r] = Cardinality(of(Calls, r))
      BY <1>3, <2>1
    <3> QED
      BY <1>1, <3>1, <3>2
  <2> QED
    BY <2>1, <2>2 DEF \sqsubseteq
<1> QED
  BY <1>3, <1>5, <1>6

LEMMA EmptyIsABag ==
  IsABag(EmptyBag) /\ DOMAIN EmptyBag = {} /\ \A B : DOMAIN B = {} /\ IsABag(B) => B = EmptyBag
BY DEF IsABag, EmptyBag, SetToBag

(* What adding rules to a bag and taking rules from it do.                   *)
LEMMA AddRules ==
  ASSUME NEW B, IsABag(B)
  PROVE  /\ EmptyBag (+) B = B
         /\ \A A : IsABag(A) /\ A # EmptyBag => A (+) B # EmptyBag
<1>1. EmptyBag (+) B = B
  <2>1. DOMAIN (EmptyBag (+) B) = DOMAIN B
    BY EmptyIsABag DEF (+)
  <2>2. B \in [DOMAIN B -> Nat]
    BY DEF IsABag
  <2>3. \A e \in DOMAIN B : (EmptyBag (+) B)[e] = B[e]
    BY <2>2, EmptyIsABag DEF (+)
  <2>4. EmptyBag (+) B = [e \in DOMAIN B |-> (EmptyBag (+) B)[e]]
    BY <2>1 DEF (+)
  <2> QED
    BY <2>2, <2>3, <2>4
<1>2. ASSUME NEW A, IsABag(A), A # EmptyBag
      PROVE  A (+) B # EmptyBag
  <2>1. DOMAIN A # {}
    BY <1>2, EmptyIsABag
  <2>2. DOMAIN (A (+) B) = DOMAIN A \cup DOMAIN B
    BY DEF (+)
  <2> QED
    BY <2>1, <2>2, EmptyIsABag
<1> QED
  BY <1>1, <1>2

LEMMA TakeRules ==
  ASSUME NEW A, NEW B, IsABag(A), IsABag(B)
  PROVE  /\ IsABag(A (-) B) /\ A (-) B \sqsubseteq A
         /\ A \sqsubseteq B => A (-) B = EmptyBag
         /\ \A C : IsABag(C) /\ A \sqsubseteq C => A (-) B \sqsubseteq C
<1> DEFINE n(e) == IF e \in DOMAIN B THEN A[e] - B[e] ELSE A[e]
           D == [e \in DOMAIN A |-> n(e)]
<1>1. \A e \in DOMAIN A : A[e] \in Nat /\ n(e) \in Int /\ n(e) <= A[e]
  BY DEF IsABag
<1>2. A (-) B = [e \in {d \in DOMAIN A : n(d) > 0} |-> n(e)]
  <2>1. A (-) B = [e \in {d \in DOMAIN D : D[d] > 0} |-> D[e]]
    BY DEF (-)
  <2>2. {d \in DOMAIN D : D[d] > 0} = {d \in DOMAIN A : n(d) > 0}
    OBVIOUS
  <2>3. \A e \in {d \in DOMAIN A : n(d) > 0} : D[e] = n(e)
    OBVIOUS
  <2> HIDE DEF n, D
  <2> QED
    BY <2>1, <2>2, <2>3
<1> HIDE DEF n
<1>3. /\ DOMAIN (A (-) B) = {d \in DOMAIN A : n(d) > 0}
      /\ \A e \in DOMAIN (A (-) B) : (A (-) B)[e] = n(e)
  BY <1>2
<1>4. IsABag(A (-) B)
  <2>1. A (-) B \in [DOMAIN (A (-) B) -> {k \in Nat : k > 0}]
    BY <1>1, <1>2, <1>3
  <2> QED
    BY <2>1 DEF IsABag
<1>5. A (-) B \sqsubseteq A
  BY <1>1, <1>3 DEF \sqsubseteq
<1>6. ASSUME A \sqsubseteq B
      PROVE  A (-) B = EmptyBag
  <2>1. \A e \in DOMAIN A : e \in DOMAIN B /\ A[e] <= B[e] /\ B[e] \in Nat
    BY <1>6 DEF \sqsubseteq, IsABag
  <2>2. \A e \in DOMAIN A : ~(n(e) > 0)
    BY <1>1, <2>1 DEF n
  <2> QED
    BY <1>3, <1>4, <2>2, EmptyIsABag
<1>7. ASSUME NEW C, IsABag(C), A \sqsubseteq C
      PROVE  A (-) B \sqsubseteq C
  <2>1. \A e \in DOMAIN A : e \in DOMAIN C /\ A[e] <= C[e] /\ C[e] \in Nat
    BY <1>7 DEF \sqsubseteq, IsABag
  <2> QED
    BY <1>1, <1>3, <2>1 DEF \sqsubseteq
<1> QED
  BY <1>4, <1>5, <1>6, <1>7

(* The labels of the task never change, and so neither do its rules.         *)
LEMMA SameRules ==
  ASSUME labels' = labels
  PROVE  AllGood' = AllGood /\ RulesBag(Calls)' = RulesBag(Calls)
<1>1. \A g : RulesOf(g)' = RulesOf(g)
  BY DEF RulesOf
<1>2. \A c : RuleAt(c)' = RuleAt(c)
  BY <1>1 DEF RuleAt
<1>3. ReadLoops' = ReadLoops
  BY DEF ReadLoops, Loops, ValidLabel
<1>4. Calls' = Calls
  BY <1>1, <1>3 DEF Calls
<1>5. AllGood' = AllGood
  BY DEF AllGood, ValidLabel
<1>6. RulesBag(Calls)' = RulesBag(Calls)
  BY <1>2, <1>4 DEF RulesBag
<1> QED
  BY <1>5, <1>6

-----------------------------------------------------------------------------
(* What the hooks have on the host, and when.                                *)

HostTypes ==
  /\ network \in {"BRIDGE", "HOST", "USER"}
  /\ labels \in TaskLabels
  /\ linkPath \in BOOLEAN /\ link \in BOOLEAN /\ rules \in BOOLEAN
  /\ link => linkPath
  /\ IsABag(chain)
  /\ OnHost \cup failed \subseteq enabled

(* The chain has all rules of the task, if it has any.                       *)
Complete == AclApplies => AllGood /\ chain = RulesBag(Calls)

(* The chain has rules of the task only, once its post-run was reached and   *)
(* in a network the hook works for.                                          *)
Early == {"register", "preCreate", "created", "preRun", "started"}
OwnRules ==
  /\ chain \sqsubseteq RulesBag(Calls)
  /\ chain # EmptyBag => AclApplies
  /\ phase \in Early => chain = EmptyBag
  /\ phase = "postRun" => \A j \in pos .. Len(hooks) : hooks[j] = "acl" => chain = EmptyBag

AllRules ==
  /\ phase = "postRun" => \A j \in 1 .. pos - 1 : hooks[j] = "acl" => Complete
  /\ phase = "up" /\ "acl" \in enabled => Complete

(* The stop functions are all called in a teardown, and in no launch.        *)
StopsCalled ==
  /\ phase \in {"stopped", "postStop", "down"} => Called(hooks, ran, "preStop", Len(hooks) + 1)
  /\ phase = "down" => Called(hooks, ran, "postStop", Len(hooks) + 1)
  /\ phase \in Early \cup {"postRun", "up", "failed"} =>
       \A r \in ran : r[1] \notin Manager!StopRuns

(* What is on the host after its stop function is there for a failure.       *)
Undone ==
  \A h \in OnHost :
    <<"preStop", h>> \in ran \/ <<"postStop", h>> \in ran => h \in failed

LEMMA AclLaunches ==
  ASSUME IsLabels(labels), chain = EmptyBag, NEW ok \in BOOLEAN, AclPostRun(ok)
  PROVE  /\ IsABag(chain') /\ chain' \sqsubseteq RulesBag(Calls)
         /\ chain' # EmptyBag => AclApplies
         /\ ok /\ AclApplies => AllGood /\ chain' = RulesBag(Calls)
<1>1. EmptyBag \sqsubseteq RulesBag(Calls) /\ IsABag(EmptyBag)
  BY EmptyIsABag DEF \sqsubseteq
<1>2. CASE UNCHANGED chain /\ (AclApplies => ~ok)
  BY <1>1, <1>2
<1>3. CASE /\ AclApplies
           /\ \E made \in FirstCalls :
                /\ made # Calls => ~ok /\ "append" \in HostFaults
                /\ made = Calls => ok = AllGood
                /\ chain' = chain (+) RulesBag(made)
  <2>1. PICK made \in SUBSET Calls :
               /\ made # Calls => ~ok
               /\ made = Calls => ok = AllGood
               /\ chain' = chain (+) RulesBag(made)
    BY <1>3 DEF FirstCalls
  <2>2. IsABag(RulesBag(made)) /\ RulesBag(made) \sqsubseteq RulesBag(Calls)
    BY RulesAreABag
  <2>3. chain' = RulesBag(made)
    BY <2>1, <2>2, AddRules
  <2> QED
    BY <1>3, <2>1, <2>2, <2>3
<1> QED
  BY <1>2, <1>3 DEF AclPostRun

LEMMA AclStops ==
  ASSUME IsLabels(labels), IsABag(chain), chain \sqsubseteq RulesBag(Calls),
         chain # EmptyBag => AclApplies,
         NEW ok \in BOOLEAN, NEW fault \in BOOLEAN, AclPreStop(ok, fault)
  PROVE  /\ IsABag(chain') /\ chain' \sqsubseteq RulesBag(Calls)
         /\ chain' # EmptyBag => chain # EmptyBag
         /\ ~fault => chain' = EmptyBag
<1>1. CASE UNCHANGED chain /\ (fault \/ ~AclApplies)
  BY <1>1
<1>2. CASE /\ AclApplies
           /\ \E deleted \in IF "delete" \in HostFaults THEN SUBSET Calls ELSE {Calls} :
                /\ fault = (deleted # Calls)
                /\ chain' = chain (-) RulesBag(deleted)
  <2>1. PICK deleted \in SUBSET Calls :
               fault = (deleted # Calls) /\ chain' = chain (-) RulesBag(deleted)
    BY <1>2
  <2>2. IsABag(RulesBag(deleted)) /\ IsABag(RulesBag(Calls))
    <3>1. Calls \in SUBSET Calls
      OBVIOUS
    <3> QED
      BY <3>1, RulesAreABag
  <2>3. IsABag(chain') /\ chain' \sqsubseteq RulesBag(Calls)
    BY <2>1, <2>2, TakeRules
  <2>4. chain = EmptyBag => chain' = EmptyBag
    <3>1. ASSUME chain = EmptyBag
          PROVE  chain \sqsubseteq RulesBag(deleted)
      BY <3>1, EmptyIsABag DEF \sqsubseteq
    <3> QED
      BY <2>1, <2>2, <3>1, TakeRules
  <2>5. ~fault => chain' = EmptyBag
    <3>1. ASSUME ~fault
          PROVE  deleted = Calls
      BY <2>1, <3>1
    <3> QED
      BY <2>1, <2>2, <3>1, TakeRules
  <2> QED
    BY <2>3, <2>4, <2>5
<1> QED
  BY <1>1, <1>2 DEF AclPreStop

(* What a hook's function does to the host, in terms of its hook alone.      *)
Does(h, ok, fault) ==
  /\ labels' = labels /\ network' \in {"BRIDGE", "HOST", "USER"}
  /\ phase # "preCreate" => network' = network
  /\ linkPath' \in BOOLEAN /\ link' \in BOOLEAN /\ rules' \in BOOLEAN
  /\ link' => linkPath'
  /\ IsABag(chain') /\ chain' \sqsubseteq RulesBag(Calls)
  /\ chain' # EmptyBag => AclApplies'
  /\ h # "acl" => chain' = chain
  /\ h = "acl" /\ phase = "postRun" /\ ok => Complete'
  /\ OnHost' \ {h} = OnHost \ {h}
  /\ phase \in {"preCreate", "preRun"} => OnHost' = OnHost /\ ~fault
  /\ phase = "postRun" => OnHost \subseteq OnHost'
  /\ phase \in Manager!StopRuns => OnHost' \subseteq OnHost /\ (~fault => h \notin OnHost')
  /\ fault \/ ~ok => h \in MayFail

LEMMA OnHostIs ==
  /\ \A h : h \in OnHost <=> \/ h = "acl" /\ chain # EmptyBag
                             \/ h = "iptables" /\ rules
                             \/ h = "netns" /\ link
  /\ \A h : h \in OnHost' <=> \/ h = "acl" /\ chain' # EmptyBag
                              \/ h = "iptables" /\ rules'
                              \/ h = "netns" /\ link'
BY DEF OnHost

LEMMA EachFunction ==
  ASSUME Listed, InTurn, HostTypes, OwnRules, NEW ok \in BOOLEAN, NEW fault \in BOOLEAN,
         Manager!Call(ok), HookFunction(hooks[pos], ok, fault),
         fault => phase \in Manager!StopRuns
  PROVE  Does(hooks[pos], ok, fault)
<1> DEFINE h == hooks[pos]
<1> SUFFICES Does(h, ok, fault)
  OBVIOUS
<1>1. /\ h = hooks[pos] /\ h \in Names /\ pos \in DOMAIN hooks /\ pos \in pos .. Len(hooks)
      /\ phase \in Implements[h] /\ phase \in Runs /\ HookFunction(h, ok, fault)
  <2>1. pos \in Nat /\ pos \in DOMAIN hooks /\ hooks \in Seq(Names) /\ Len(hooks) \in Nat
    BY DEF Manager!Call, Listed, Sortable, InTurn
  <2>2. pos <= Len(hooks) /\ phase \in Implements[hooks[pos]] /\ phase \in Runs
    BY DEF Manager!Call, Runs
  <2> QED
    BY <2>1, <2>2
<1> HIDE DEF h
<1>2. IsLabels(labels) /\ labels' = labels => RulesBag(Calls)' = RulesBag(Calls) /\ AllGood' = AllGood
  BY SameRules
<1>3. IsLabels(labels)
  BY AclAssumption DEF HostTypes, IsLabels
<1>4. CASE h = "acl"
  <2>1. /\ UNCHANGED <<network, labels, linkPath, link, rules>>
        /\ phase \in {"postRun", "preStop"}
    BY <1>1, <1>4 DEF HookFunction, netnsVars, Implements
  <2>2. AclApplies' = AclApplies
    BY <2>1 DEF AclApplies
  <2>3. CASE phase = "postRun"
    <3>1. AclPostRun(ok) /\ chain = EmptyBag
      BY <1>1, <1>4, <2>3 DEF HookFunction, OwnRules
    <3>2. /\ IsABag(chain') /\ chain' \sqsubseteq RulesBag(Calls)
          /\ chain' # EmptyBag => AclApplies
          /\ ok /\ AclApplies => AllGood /\ chain' = RulesBag(Calls)
      BY <1>3, <3>1, AclLaunches
    <3>3. ok => Complete'
      BY <1>2, <1>3, <2>1, <2>2, <3>2 DEF Complete
    <3>4. OnHost' \ {h} = OnHost \ {h} /\ OnHost \subseteq OnHost'
      BY <1>4, <2>1, <3>1, OnHostIs
    <3> QED
      BY <1>4, <2>1, <2>2, <2>3, <3>2, <3>3, <3>4 DEF Does, HostTypes, MayFail
  <2>4. CASE phase = "preStop"
    <3>1. AclPreStop(ok, fault)
      BY <1>1, <1>4, <2>4 DEF HookFunction
    <3>2. /\ IsABag(chain') /\ chain' \sqsubseteq RulesBag(Calls)
          /\ chain' # EmptyBag => chain # EmptyBag
          /\ ~fault => chain' = EmptyBag
      BY <1>3, <3>1, AclStops DEF HostTypes, OwnRules
    <3>3. /\ OnHost' \ {h} = OnHost \ {h} /\ OnHost' \subseteq OnHost
          /\ ~fault => h \notin OnHost'
      BY <1>4, <2>1, <3>2, OnHostIs
    <3> QED
      BY <1>4, <2>1, <2>2, <2>4, <3>2, <3>3 DEF Does, HostTypes, OwnRules, MayFail
  <2> QED
    BY <2>1, <2>3, <2>4
<1>5. CASE h = "netns"
  <2>1. /\ UNCHANGED <<network, labels, chain, rules>>
        /\ phase \in {"postRun", "postStop"}
        /\ IF phase = "postRun" THEN NetnsPostRun(ok) ELSE NetnsPostStop(ok, fault)
    BY <1>1, <1>5 DEF HookFunction, aclVars, Implements
  <2>2. /\ linkPath' \in BOOLEAN /\ link' \in BOOLEAN
        /\ link' => linkPath'
        /\ phase = "postRun" => (link => link')
        /\ phase = "postStop" => (link' => link) /\ (~fault => ~link')
    BY <2>1 DEF HostTypes, NetnsPostRun, NetnsPostStop, netnsVars
  <2>3. /\ OnHost' \ {h} = OnHost \ {h}
        /\ phase = "postRun" => OnHost \subseteq OnHost'
        /\ phase = "postStop" => OnHost' \subseteq OnHost /\ (~fault => h \notin OnHost')
    BY <1>5, <2>1, <2>2, OnHostIs
  <2>4. AclApplies' = AclApplies
    BY <2>1 DEF AclApplies
  <2>5. /\ labels' = labels /\ network' = network /\ network' \in {"BRIDGE", "HOST", "USER"}
        /\ chain' = chain /\ IsABag(chain') /\ chain' \sqsubseteq RulesBag(Calls)
        /\ rules' \in BOOLEAN /\ (chain' # EmptyBag => AclApplies)
    BY <2>1 DEF HostTypes, OwnRules
  <2>6. phase \in {"postRun", "postStop"}
    BY <2>1
  <2> QED
    BY <1>5, <2>2, <2>3, <2>4, <2>5, <2>6 DEF Does, MayFail
<1>6. CASE h \in {"iptables", "removeContainer", "network"}
  <2>1. OtherHook(h, ok, fault) /\ UNCHANGED <<labels, chain, linkPath, link>>
    BY <1>1, <1>6 DEF HookFunction, netnsVars
  <2>2. CASE h = "iptables" /\ phase = "postRun"
    <3>1. network' = network /\ rules' \in IF ok THEN {TRUE} ELSE {rules, TRUE}
      BY <2>1, <2>2 DEF OtherHook, RemoveContainerPostStop
    <3>2. OnHost' \ {h} = OnHost \ {h} /\ OnHost \subseteq OnHost' /\ rules' \in BOOLEAN
      BY <2>1, <2>2, <3>1, OnHostIs DEF HostTypes
    <3>3. AclApplies' = AclApplies
      BY <3>1 DEF AclApplies
    <3> QED
      BY <2>1, <2>2, <3>1, <3>2, <3>3 DEF Does, HostTypes, OwnRules, MayFail
  <2>3. CASE h = "iptables" /\ phase = "preStop"
    <3>1. network' = network /\ rules' \in IF fault THEN {rules, FALSE} ELSE {FALSE}
      BY <2>1, <2>3 DEF OtherHook, RemoveContainerPostStop
    <3>2. /\ rules' \in BOOLEAN /\ (rules' => rules)
          /\ ~fault => ~rules'
      BY <3>1 DEF HostTypes
    <3>3. AclApplies' = AclApplies
      BY <3>1 DEF AclApplies
    <3>4. /\ OnHost' \ {h} = OnHost \ {h} /\ OnHost' \subseteq OnHost
          /\ ~fault => h \notin OnHost'
      BY <2>1, <2>3, <3>2, OnHostIs
    <3> QED
      BY <2>1, <2>3, <3>1, <3>2, <3>3, <3>4 DEF Does, HostTypes, OwnRules, MayFail
  <2>4. CASE h = "removeContainer"
    <3>1. UNCHANGED <<network, rules>> /\ phase = "postStop"
      BY <1>1, <2>1, <2>4 DEF OtherHook, RemoveContainerPostStop, Implements
    <3>2. OnHost' = OnHost /\ h \notin OnHost
      BY <2>1, <2>4, <3>1, OnHostIs
    <3>3. AclApplies' = AclApplies
      BY <3>1 DEF AclApplies
    <3> QED
      BY <2>1, <2>4, <3>1, <3>2, <3>3 DEF Does, HostTypes, OwnRules, MayFail
  <2>5. CASE h = "network"
    <3>1. ok /\ ~fault /\ network' = "USER" /\ rules' = rules /\ phase = "preCreate"
      BY <1>1, <2>1, <2>5 DEF OtherHook, RemoveContainerPostStop, Implements
    <3>2. OnHost' = OnHost
      BY <2>1, <3>1, OnHostIs
    <3>3. AclApplies'
      BY <3>1 DEF AclApplies
    <3> QED
      BY <2>1, <2>5, <3>1, <3>2, <3>3 DEF Does, HostTypes, OwnRules, MayFail
  <2>6. h = "iptables" => phase \in {"postRun", "preStop"}
    BY <1>1 DEF Implements
  <2> QED
    BY <1>6, <2>2, <2>3, <2>4, <2>5, <2>6
<1> QED
  BY <1>1, <1>4, <1>5, <1>6 DEF Names

HostInv == HostTypes /\ OwnRules /\ AllRules /\ StopsCalled /\ Undone

LEMMA HostFrame ==
  ASSUME UNCHANGED <<aclVars, netnsVars, rules, failed, enabled>>
  PROVE  /\ chain' = chain /\ OnHost' = OnHost /\ failed' = failed
         /\ AclApplies' = AclApplies /\ Complete' = Complete
         /\ RulesBag(Calls)' = RulesBag(Calls)
         /\ HostTypes' = HostTypes
<1>1. /\ chain' = chain /\ OnHost' = OnHost /\ failed' = failed
      /\ AclApplies' = AclApplies /\ labels' = labels
  BY DEF aclVars, netnsVars, OnHost, AclApplies
<1>2. RulesBag(Calls)' = RulesBag(Calls) /\ AllGood' = AllGood
  BY <1>1, SameRules
<1>3. Complete' = Complete
  BY <1>1, <1>2 DEF Complete
<1>4. HostTypes' = HostTypes
  BY <1>1 DEF HostTypes, aclVars, netnsVars
<1> QED
  BY <1>1, <1>2, <1>3, <1>4

LEMMA HostManagerStep ==
  ASSUME Listed, InTurn, HostInv, ManagerStep
  PROVE  HostInv'
<1>1. /\ chain' = chain /\ OnHost' = OnHost /\ failed' = failed
      /\ AclApplies' = AclApplies /\ Complete' = Complete
      /\ RulesBag(Calls)' = RulesBag(Calls) /\ HostTypes'
  <2>1. enabled' = enabled
    BY DEF ManagerStep, Manager!RegisterHooks, Manager!Ask, Manager!EndOfHooks,
           Manager!SkipHook
  <2> QED
    BY <2>1, HostFrame DEF ManagerStep, HostInv
<1>2. Len(hooks) \in Nat /\ DOMAIN hooks = 1 .. Len(hooks) /\ pos \in 1 .. Len(hooks) + 1
  BY DEF Listed, Sortable, InTurn
<1>3. CASE Manager!RegisterHooks
  <2>1. phase = "register" /\ phase' = "register" /\ ran' = {}
    BY <1>3 DEF Manager!RegisterHooks, InTurn
  <2> QED
    BY <1>1, <2>1 DEF HostInv, OwnRules, AllRules, StopsCalled, Undone, Early
<1>4. ASSUME NEW run \in Runs, Manager!Ask(run)
      PROVE  HostInv'
  <2>1. /\ phase' = run /\ pos' = 1 /\ hooks' = hooks /\ enabled' = enabled
        /\ ran' = IF run \in {"preCreate", "preStop"} THEN {} ELSE ran
    BY <1>4 DEF Manager!Ask
  <2>2. /\ run = "preCreate" => phase = "register"
        /\ run = "preRun" => phase = "created"
        /\ run = "postRun" => phase = "started"
        /\ run = "postStop" => phase = "stopped"
    BY <1>4 DEF Manager!Ask
  <2>3. OwnRules'
    BY <1>1, <2>1, <2>2 DEF HostInv, OwnRules, Early, Runs
  <2>4. AllRules'
    BY <2>1 DEF AllRules, Runs
  <2>5. StopsCalled'
    BY <2>1, <2>2 DEF HostInv, StopsCalled, Early, Runs
  <2>6. Undone'
    BY <1>1, <2>1 DEF HostInv, Undone
  <2> QED
    BY <1>1, <2>3, <2>4, <2>5, <2>6 DEF HostInv
<1>5. CASE Manager!EndOfHooks
  <2>1. /\ phase \in Runs /\ phase' = Manager!After[phase] /\ pos = Len(hooks) + 1
        /\ hooks' = hooks /\ ran' = ran /\ enabled' = enabled
    BY <1>2, <1>5 DEF Manager!EndOfHooks, Runs
  <2>2. /\ phase' = "created" => phase = "preCreate"
        /\ phase' = "started" => phase = "preRun"
        /\ phase' = "up" => phase = "postRun"
        /\ phase' = "stopped" => phase = "preStop"
        /\ phase' = "down" => phase = "postStop"
        /\ phase' \in {"created", "started", "up", "stopped", "down"}
    BY <2>1 DEF Runs
  <2>3. OwnRules'
    BY <1>1, <2>2 DEF HostInv, OwnRules, Early
  <2>4. AllRules'
    <3>1. ASSUME phase = "postRun", "acl" \in enabled
          PROVE  Complete
      <4>1. toRegister = <<>> /\ Manager!Range(hooks) = enabled \ Manager!Range(toRegister)
        BY <3>1 DEF Listed
      <4>2. "acl" \in Manager!Range(hooks)
        BY <3>1, <4>1 DEF Manager!Range
      <4>3. PICK j \in DOMAIN hooks : hooks[j] = "acl"
        BY <4>2 DEF Manager!Range
      <4> QED
        BY <1>2, <2>1, <3>1, <4>3 DEF HostInv, AllRules
    <3> QED
      BY <1>1, <2>1, <2>2, <3>1 DEF AllRules
  <2>5. StopsCalled'
    BY <2>1, <2>2 DEF HostInv, StopsCalled, Early, InTurn
  <2>6. Undone'
    BY <1>1, <2>1 DEF HostInv, Undone
  <2> QED
    BY <1>1, <2>3, <2>4, <2>5, <2>6 DEF HostInv
<1>6. CASE Manager!SkipHook
  <2>1. /\ phase \in Runs /\ phase' = phase /\ pos' = pos + 1 /\ pos <= Len(hooks)
        /\ phase \notin Implements[hooks[pos]]
        /\ hooks' = hooks /\ ran' = ran /\ enabled' = enabled
    BY <1>6 DEF Manager!SkipHook, Runs
  <2>2. phase = "postRun" => hooks[pos] # "acl"
    BY <2>1 DEF Implements
  <2>3. OwnRules'
    <3>1. \A j \in pos' .. Len(hooks) : j \in pos .. Len(hooks)
      BY <1>2, <2>1
    <3> QED
      BY <1>1, <2>1, <3>1 DEF HostInv, OwnRules
  <2>4. AllRules'
    <3>1. \A j \in 1 .. pos' - 1 : j = pos \/ j \in 1 .. pos - 1
      BY <1>2, <2>1
    <3> QED
      BY <1>1, <2>1, <2>2, <3>1 DEF HostInv, AllRules
  <2>5. StopsCalled'
    BY <2>1 DEF HostInv, StopsCalled
  <2>6. Undone'
    BY <1>1, <2>1 DEF HostInv, Undone
  <2> QED
    BY <1>1, <2>3, <2>4, <2>5, <2>6 DEF HostInv
<1> QED
  BY <1>3, <1>4, <1>5, <1>6 DEF ManagerStep, Runs

LEMMA HostCallStep ==
  ASSUME Listed, InTurn, HostInv, NEW ok \in BOOLEAN, NEW fault \in BOOLEAN,
         Manager!Call(ok), HookFunction(hooks[pos], ok, fault),
         fault => phase \in Manager!StopRuns,
         failed' = IF phase \in Manager!StopRuns
                     THEN IF fault THEN failed \cup {hooks[pos]} ELSE failed \ {hooks[pos]}
                     ELSE failed
  PROVE  HostInv'
<1> DEFINE h == hooks[pos]
<1>1. /\ DOMAIN hooks = 1 .. Len(hooks) /\ Len(hooks) \in Nat /\ pos \in DOMAIN hooks
      /\ hooks' = hooks /\ enabled' = enabled /\ ran' = ran \cup {<<phase, h>>}
      /\ phase \in Runs /\ h \in enabled
      /\ \A j \in DOMAIN hooks : hooks[j] = h => j = pos
  <2>1. /\ DOMAIN hooks = 1 .. Len(hooks) /\ Len(hooks) \in Nat /\ pos \in DOMAIN hooks
        /\ hooks' = hooks /\ enabled' = enabled /\ ran' = ran \cup {<<phase, h>>}
        /\ phase \in Runs
    BY DEF Manager!Call, Listed, Sortable, InTurn, Runs
  <2>2. h \in Manager!Range(hooks)
    BY <2>1 DEF Manager!Range
  <2>3. h \in enabled
    BY <2>2 DEF Listed
  <2>4. \A j \in DOMAIN hooks : hooks[j] = h => j = pos
    BY <2>1 DEF Listed, Distinct
  <2> QED
    BY <2>1, <2>3, <2>4
<1>2. \/ pos' = pos + 1 /\ phase' = phase /\ (ok \/ phase \in Manager!StopRuns)
      \/ pos' = pos /\ phase' = "failed" /\ phase \notin Manager!StopRuns
  BY DEF Manager!Call, Manager!ExitOnError
<1>3. Does(h, ok, fault)
  BY EachFunction DEF HostInv
<1>4. h = hooks[pos]
  OBVIOUS
<1>5. failed' = IF phase \in Manager!StopRuns
                  THEN IF fault THEN failed \cup {h} ELSE failed \ {h}
                  ELSE failed
  OBVIOUS
<1> HIDE DEF h
<1>6. labels' = labels /\ RulesBag(Calls)' = RulesBag(Calls) /\ AllGood' = AllGood
  BY <1>3, SameRules DEF Does
<1>7. HostTypes'
  <2>1. OnHost' \cup failed' \subseteq enabled'
    BY <1>1, <1>3, <1>5 DEF Does, HostInv, HostTypes
  <2> QED
    BY <1>3, <1>6, <2>1 DEF Does, HostInv, HostTypes
<1>8. OwnRules'
  <2>1. chain' \sqsubseteq RulesBag(Calls)' /\ (chain' # EmptyBag => AclApplies')
    BY <1>3, <1>6 DEF Does
  <2>2. ASSUME phase' \in Early
        PROVE  chain' = EmptyBag
    <3>1. phase \in {"preCreate", "preRun"} /\ chain = EmptyBag
      BY <1>1, <1>2, <2>2 DEF Early, Runs, HostInv, OwnRules
    <3>2. OnHost' = OnHost
      BY <1>3, <3>1 DEF Does
    <3> QED
      BY <3>1, <3>2, OnHostIs
  <2>3. ASSUME phase' = "postRun", NEW j \in pos' .. Len(hooks'), hooks'[j] = "acl"
        PROVE  chain' = EmptyBag
    <3>1. phase = "postRun" /\ pos' = pos + 1
      BY <1>2, <2>3
    <3>2. j \in pos .. Len(hooks) /\ j \in DOMAIN hooks /\ j # pos /\ hooks[j] = "acl"
      BY <1>1, <2>3, <3>1
    <3>3. chain = EmptyBag
      BY <3>1, <3>2 DEF HostInv, OwnRules
    <3>4. h # "acl"
      BY <1>1, <3>2
    <3> QED
      BY <1>3, <3>3, <3>4 DEF Does
  <2> QED
    BY <2>1, <2>2, <2>3 DEF OwnRules
<1>9. AllRules'
  <2>1. phase' # "up"
    BY <1>1, <1>2 DEF Runs
  <2>2. ASSUME phase' = "postRun", NEW j \in 1 .. pos' - 1, hooks'[j] = "acl"
        PROVE  Complete'
    <3>1. phase = "postRun" /\ pos' = pos + 1 /\ ok
      BY <1>2, <2>2
    <3>2. CASE j = pos
      <4>1. h = "acl"
        BY <1>1, <1>4, <2>2, <3>2
      <4> QED
        BY <1>3, <3>1, <4>1 DEF Does
    <3>3. CASE j # pos
      <4>1. j \in 1 .. pos - 1 /\ j \in DOMAIN hooks /\ hooks[j] = "acl"
        BY <1>1, <2>2, <3>1, <3>3
      <4>2. Complete
        BY <3>1, <4>1 DEF HostInv, AllRules
      <4>3. h # "acl"
        BY <1>1, <3>3, <4>1
      <4>4. chain' = chain /\ network' = network
        BY <1>3, <3>1, <4>3 DEF Does
      <4> QED
        BY <1>6, <4>2, <4>4 DEF Complete, AclApplies
    <3> QED
      BY <3>2, <3>3
  <2> QED
    BY <2>1, <2>2 DEF AllRules
<1>10. StopsCalled'
  <2>1. phase' \notin {"stopped", "down"}
    BY <1>1, <1>2 DEF Runs
  <2>2. ASSUME phase' = "postStop"
        PROVE  Called(hooks', ran', "preStop", Len(hooks') + 1)
    <3>1. Called(hooks, ran, "preStop", Len(hooks) + 1)
      BY <1>2, <2>2 DEF HostInv, StopsCalled
    <3> QED
      BY <1>1, <3>1 DEF Called
  <2>3. ASSUME phase' \in Early \cup {"postRun", "up", "failed"}, NEW r \in ran'
        PROVE  r[1] \notin Manager!StopRuns
    <3>1. phase \in {"preCreate", "preRun", "postRun"}
      BY <1>1, <1>2, <2>3 DEF Runs, Early
    <3>2. \A q \in ran : q[1] \notin Manager!StopRuns
      BY <3>1 DEF HostInv, StopsCalled, Early
    <3>3. CASE r \in ran
      BY <3>2, <3>3
    <3>4. CASE r = <<phase, h>>
      BY <3>1, <3>4
    <3> QED
      BY <1>1, <2>3, <3>3, <3>4
  <2> QED
    BY <2>1, <2>2, <2>3 DEF StopsCalled
<1>11. Undone'
  <2> SUFFICES ASSUME NEW g \in OnHost', NEW run \in Manager!StopRuns, <<run, g>> \in ran'
               PROVE  g \in failed'
    BY DEF Undone
  <2>1. CASE g # h
    <3>1. g \in OnHost
      BY <1>3, <2>1 DEF Does
    <3>2. <<run, g>> \in ran
      BY <1>1, <2>1
    <3>3. g \in failed
      BY <3>1, <3>2 DEF HostInv, Undone
    <3> QED
      BY <1>5, <2>1, <3>3
  <2>2. CASE g = h
    <3>1. CASE phase \in Manager!StopRuns
      <4>1. fault
        BY <1>3, <2>2, <3>1 DEF Does
      <4> QED
        BY <1>5, <2>2, <3>1, <4>1
    <3>2. CASE phase \notin Manager!StopRuns
      <4>1. phase \in Early \cup {"postRun"}
        BY <1>1, <3>2 DEF Runs, Early
      <4>2. \A q \in ran : q[1] \notin Manager!StopRuns
        BY <4>1 DEF HostInv, StopsCalled
      <4>3. <<run, g>> \in ran
        BY <1>1, <3>2
      <4> QED
        BY <4>2, <4>3
    <3> QED
      BY <3>1, <3>2
  <2> QED
    BY <2>1, <2>2
<1> QED
  BY <1>7, <1>8, <1>9, <1>10, <1>11 DEF HostInv

LEMMA HostStep == Listed /\ InTurn /\ HostInv /\ [Next]_vars => HostInv'
<1> SUFFICES ASSUME Listed, InTurn, HostInv, [Next]_vars
             PROVE  HostInv'
  OBVIOUS
<1>1. CASE ManagerStep
  BY <1>1, HostManagerStep
<1>2. CASE RunHook
  BY <1>2, HostCallStep DEF RunHook
<1>3. CASE UNCHANGED vars
  <2>1. /\ UNCHANGED <<aclVars, netnsVars, rules, failed, enabled>>
        /\ UNCHANGED <<hooks, phase, pos, ran>>
    BY <1>3 DEF vars, managerVars
  <2>2. /\ chain' = chain /\ OnHost' = OnHost /\ failed' = failed
        /\ AclApplies' = AclApplies /\ Complete' = Complete
        /\ RulesBag(Calls)' = RulesBag(Calls) /\ HostTypes'
    BY <2>1, HostFrame DEF HostInv
  <2> QED
    BY <2>1, <2>2 DEF HostInv, OwnRules, AllRules, StopsCalled, Undone
<1> QED
  BY <1>1, <1>2, <1>3 DEF Next

LEMMA HostInit == Init => HostInv
<1> SUFFICES ASSUME Init
             PROVE  HostInv
  OBVIOUS
<1>1. /\ network \in TaskNetworks /\ labels \in TaskLabels /\ chain = EmptyBag
      /\ linkPath = FALSE /\ link = FALSE /\ rules = FALSE /\ failed = {}
      /\ phase = "register" /\ ran = {}
  BY DEF Init, AclInit, NetnsInit, Manager!Init
<1>2. OnHost = {}
  BY <1>1, OnHostIs
<1>3. HostTypes
  BY <1>1, <1>2, EmptyIsABag, AclAssumption DEF HostTypes
<1>4. OwnRules
  BY <1>1, EmptyIsABag DEF OwnRules, \sqsubseteq
<1> QED
  BY <1>1, <1>2, <1>3, <1>4 DEF HostInv, AllRules, StopsCalled, Undone

LEMMA HostInvariant == Spec => [](Listed /\ InTurn /\ HostInv)
BY ManagerInit, HostInit, ListedStep, InTurnStep, HostStep, PTL DEF Spec

(* Every enabled hook that was registered is in the list.                    *)
LEMMA RegisteredListed ==
  ASSUME Listed, phase # "register", NEW h \in enabled
  PROVE  \E j \in DOMAIN hooks : hooks[j] = h
<1>1. toRegister = <<>> /\ Manager!Range(hooks) = enabled \ Manager!Range(toRegister)
  BY DEF Listed
<1>2. h \in Manager!Range(hooks)
  BY <1>1 DEF Manager!Range
<1> QED
  BY <1>2 DEF Manager!Range

-----------------------------------------------------------------------------
(* The manager's list has each enabled hook that was registered once, and no *)
(* other, whatever the sort does, and the host is typed                      *)
(* (hook_manager.go:84-97).                                                  *)
THEOREM HooksTyped == Spec => []HookTypeOK
<1>1. Listed /\ InTurn /\ HostInv => HookTypeOK
  <2> SUFFICES ASSUME Listed, InTurn, HostInv
               PROVE  HookTypeOK
    OBVIOUS
  <2>1. phase \in {"register", "failed"} \cup Runs \cup Manager!Range(Manager!After)
    <3>1. Manager!Range(Manager!After) = {"created", "started", "up", "stopped", "down"}
      BY DEF Manager!Range
    <3> QED
      BY <3>1 DEF InTurn, Phases
  <2>2. Manager!IsInjective(hooks)
    BY DEF Manager!IsInjective, Listed, Distinct
  <2>3. ran \subseteq Runs \X enabled
    <3> SUFFICES ASSUME NEW r \in ran
                 PROVE  r[2] \in enabled
      BY DEF InTurn
    <3>1. PICK i \in DOMAIN hooks : hooks[i] = r[2]
      BY DEF InTurn, Ordered
    <3>2. r[2] \in Manager!Range(hooks)
      BY <3>1 DEF Manager!Range
    <3> QED
      BY <3>2 DEF Listed
  <2>4. Manager!Range(hooks) = enabled \ Manager!Range(toRegister)
    BY DEF Listed
  <2>5. Manager!HookTypeOK
    BY <2>1, <2>2, <2>3, <2>4 DEF Manager!HookTypeOK, Runs, InTurn, HostInv, HostTypes
  <2> QED
    BY <2>5 DEF HookTypeOK, HostInv, HostTypes
<1> QED
  BY <1>1, HostInvariant, PTL

(* After a teardown something of a hook is on the host only if a command of  *)
(* that hook itself failed in it, for any labels, networks and failures of   *)
(* the launch before it (hook_manager.go:114-122, acl.go:50-71, netns.go).   *)
THEOREM NoForeignFailureLeaks == Spec => []OnlyOwnFailureLeaks
<1>1. Listed /\ InTurn /\ HostInv => OnlyOwnFailureLeaks
  <2> SUFFICES ASSUME Listed, InTurn, HostInv, phase = "down", NEW h \in OnHost
               PROVE  h \in failed
    BY DEF OnlyOwnFailureLeaks, Manager!OnlyOwnFailureLeaks
  <2>1. h \in {"acl", "iptables", "netns"} /\ h \in enabled
    BY OnHostIs DEF HostInv, HostTypes
  <2>2. PICK j \in DOMAIN hooks : hooks[j] = h
    BY <2>1, RegisteredListed
  <2>3. j \in 1 .. (Len(hooks) + 1) - 1
    BY <2>2 DEF Listed, Sortable
  <2>4. /\ Called(hooks, ran, "preStop", Len(hooks) + 1)
        /\ Called(hooks, ran, "postStop", Len(hooks) + 1)
    BY DEF HostInv, StopsCalled
  <2>5. "preStop" \in Implements[h] \/ "postStop" \in Implements[h]
    BY <2>1 DEF Implements
  <2>6. <<"preStop", h>> \in ran \/ <<"postStop", h>> \in ran
    BY <2>2, <2>3, <2>4, <2>5 DEF Called
  <2> QED
    BY <2>6 DEF HostInv, Undone
<1> QED
  BY <1>1, HostInvariant, PTL

(* A launch that goes through with the ACL hook has all the rules of the     *)
(* labels and of the default ranges, for any number of them and of ports     *)
(* (acl.go:32-49, 129-215).                                                  *)
THEOREM AclComplete == Spec => []LaunchedWithAcl
<1>1. Listed /\ InTurn /\ HostInv => LaunchedWithAcl
  <2> SUFFICES ASSUME Listed, InTurn, HostInv, phase = "up", "acl" \in enabled, AclApplies
               PROVE  /\ AllGood
                      /\ \A l \in DOMAIN labels : \A i \in DOMAIN labels[l].ips :
                           <<labels[l].ips[i], labels[l].port>> \in BagToSet(chain)
                      /\ \A d \in DOMAIN Defaults : \A p \in 0 .. Ports - 1 :
                           /\ <<Defaults[d], p>> \in BagToSet(chain)
                           /\ chain[<<Defaults[d], p>>]
                                >= Cardinality({e \in DOMAIN Defaults :
                                                  Defaults[e] = Defaults[d]})
    BY DEF LaunchedWithAcl
  <2>1. AllGood /\ chain = RulesBag(Calls)
    BY DEF HostInv, AllRules, Complete
  <2>2. IsLabels(labels)
    BY AclAssumption DEF HostInv, HostTypes, IsLabels
  <2>3. DOMAIN chain = {RuleAt(c) : c \in Calls}
    <3>1. Calls \in SUBSET Calls
      OBVIOUS
    <3> QED
      BY <2>1, <2>2, <3>1, RulesAreABag
  <2>4. /\ Len(labels) \in Nat /\ DOMAIN labels = 1 .. Len(labels)
        /\ Len(Defaults) \in Nat /\ DOMAIN Defaults = 1 .. Len(Defaults) /\ Ports \in Nat
    BY <2>2, AclAssumption DEF IsLabels
  <2>5. ReadLoops = 1 .. Len(labels) + Len(Defaults)
    BY <2>1 DEF ReadLoops, Loops, AllGood
  <2>6. ASSUME NEW l \in DOMAIN labels, NEW i \in DOMAIN labels[l].ips
        PROVE  <<labels[l].ips[i], labels[l].port>> \in DOMAIN chain
    <3>1. l \in ReadLoops /\ l <= Len(labels)
      BY <2>4, <2>5
    <3>2. RulesOf(l) = [k \in DOMAIN labels[l].ips |-> <<labels[l].ips[k], labels[l].port>>]
      BY <3>1 DEF RulesOf
    <3>3. <<l, i>> \in Calls /\ RuleAt(<<l, i>>) = <<labels[l].ips[i], labels[l].port>>
      BY <3>1, <3>2 DEF Calls, RuleAt
    <3> QED
      BY <2>3, <3>3
  <2>7. ASSUME NEW d \in DOMAIN Defaults, NEW p \in 0 .. Ports - 1
        PROVE  /\ <<Len(labels) + d, p + 1>> \in Calls
               /\ RuleAt(<<Len(labels) + d, p + 1>>) = <<Defaults[d], p>>
    <3> DEFINE g == Len(labels) + d
    <3>1. g \in ReadLoops /\ ~(g <= Len(labels)) /\ g - Len(labels) = d
      BY <2>4, <2>5
    <3>2. p + 1 \in 1 .. Ports /\ (p + 1) - 1 = p
      BY <2>4
    <3> HIDE DEF g
    <3>3. RulesOf(g) = [k \in 1 .. Ports |-> <<Defaults[d], k - 1>>]
      BY <3>1 DEF RulesOf
    <3>4. p + 1 \in DOMAIN RulesOf(g) /\ RulesOf(g)[p + 1] = <<Defaults[d], p>>
      BY <3>2, <3>3
    <3>5. <<g, p + 1>> \in Calls
      BY <3>1, <3>4 DEF Calls
    <3>6. RuleAt(<<g, p + 1>>) = <<Defaults[d], p>>
      BY <3>4 DEF RuleAt
    <3> QED
      BY <3>5, <3>6 DEF g
  <2>8. ASSUME NEW d \in DOMAIN Defaults, NEW p \in 0 .. Ports - 1
        PROVE  /\ <<Defaults[d], p>> \in DOMAIN chain
               /\ chain[<<Defaults[d], p>>]
                    >= Cardinality({e \in DOMAIN Defaults : Defaults[e] = Defaults[d]})
    <3> DEFINE E == {e \in DOMAIN Defaults : Defaults[e] = Defaults[d]}
               C == {c \in Calls : RuleAt(c) = <<Defaults[d], p>>}
               f == [e \in E |-> <<Len(labels) + e, p + 1>>]
    <3>1. <<Defaults[d], p>> \in DOMAIN chain
      BY <2>3, <2>7
    <3>2. chain[<<Defaults[d], p>>] = Cardinality(C)
      BY <2>1, <2>3, <3>1 DEF RulesBag
    <3>3. \A e \in E : <<Len(labels) + e, p + 1>> \in C
      BY <2>7
    <3>4. \A a, b \in E : f[a] = f[b] => a = b
      BY <2>4
    <3>5. f \in Injection(E, C)
      BY <3>3, <3>4 DEF Injection, IsInjective
    <3>6. IsFiniteSet(C)
      <4>1. C \in SUBSET Calls
        OBVIOUS
      <4> QED
        BY <2>2, <4>1, FiniteCalls, FS_Subset
    <3> HIDE DEF E, C, f
    <3>7. Cardinality(E) <= Cardinality(C) /\ IsFiniteSet(E)
      BY <3>5, <3>6, FS_Injection
    <3>8. Cardinality(E) \in Nat /\ Cardinality(C) \in Nat
      BY <3>6, <3>7, FS_CardinalityType
    <3>9. chain[<<Defaults[d], p>>] >= Cardinality(E)
      BY <3>2, <3>7, <3>8
    <3> QED
      BY <3>1, <3>9 DEF E
  <2> QED
    BY <2>1, <2>6, <2>8 DEF BagToSet
<1> QED
  BY <1>1, HostInvariant, PTL

(* With the hooks of main.go the manager does what HookManager promises for  *)
(* any hooks that may each leave something behind: step by step              *)
(* (hook_manager.go:124-177, acl.go, netns.go).                              *)
THEOREM HooksAreManaged == Spec => ImplementsManager
<1>1. Init => Manager!Init
  BY DEF Init
<1>2. ASSUME Listed, InTurn, HostInv, [Next]_vars
      PROVE  [Manager!Next]_(Manager!hookVars)
  <2>1. CASE ManagerStep
    <3>1. OnHost' = OnHost /\ failed' = failed
      BY <2>1 DEF ManagerStep, OnHost, aclVars, netnsVars
    <3> QED
      BY <2>1, <3>1 DEF ManagerStep, Manager!Next
  <2>2. CASE RunHook
    <3>1. PICK ok \in BOOLEAN, fault \in BOOLEAN :
                 /\ Manager!Call(ok)
                 /\ HookFunction(hooks[pos], ok, fault)
                 /\ fault => phase \in Manager!StopRuns
                 /\ failed' = IF phase \in Manager!StopRuns
                                THEN IF fault THEN failed \cup {hooks[pos]}
                                              ELSE failed \ {hooks[pos]}
                                ELSE failed
      BY <2>2 DEF RunHook
    <3> DEFINE h == hooks[pos]
    <3>2. Does(h, ok, fault)
      BY <1>2, <3>1, EachFunction DEF HostInv
    <3>3. phase \in Runs
      BY <3>1 DEF Manager!Call, Runs
    <3>4. failed' = IF phase \in Manager!StopRuns
                      THEN IF fault THEN failed \cup {h} ELSE failed \ {h}
                      ELSE failed
      BY <3>1
    <3> HIDE DEF h
    <3>5. Manager!Effect(h)
      <4>1. CASE phase = "postRun"
        <5>1. OnHost' \in {OnHost, OnHost \cup {h}}
          BY <3>2, <4>1 DEF Does
        <5>2. failed' = failed
          BY <3>4, <4>1
        <5> QED
          BY <4>1, <5>1, <5>2 DEF Manager!Effect
      <4>2. CASE phase \in Manager!StopRuns
        <5>1. OnHost' \in {OnHost, OnHost \ {h}} /\ (~fault => OnHost' = OnHost \ {h})
          BY <3>2, <4>2 DEF Does
        <5>2. fault => h \in MayFail
          BY <3>2 DEF Does
        <5> QED
          BY <3>4, <4>2, <5>1, <5>2 DEF Manager!Effect
      <4>3. CASE phase \in {"preCreate", "preRun"}
        <5>1. OnHost' = OnHost /\ failed' = failed
          BY <3>2, <3>4, <4>3 DEF Does
        <5> QED
          BY <4>3, <5>1 DEF Manager!Effect
      <4> QED
        BY <3>3, <4>1, <4>2, <4>3 DEF Runs
    <3>6. ok \/ h \in MayFail
      BY <3>2 DEF Does
    <3> QED
      BY <3>1, <3>5, <3>6 DEF h, Manager!RunHook, Manager!Next
  <2>3. CASE UNCHANGED vars
    <3>1. OnHost' = OnHost
      BY <2>3 DEF vars, aclVars, netnsVars, OnHost
    <3> QED
      BY <2>3, <3>1 DEF vars, managerVars, Manager!hookVars
  <2> QED
    BY <1>2, <2>1, <2>2, <2>3 DEF Next
<1> QED
  BY <1>1, <1>2, HostInvariant, PTL DEF Spec, ImplementsManager, Manager!Spec
=============================================================================
