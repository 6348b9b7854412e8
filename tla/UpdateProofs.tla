---------------------------- MODULE UpdateProofs ----------------------------
(***************************************************************************)
(* The executor implements UpdateLedger, and what the updates of main and  *)
(* of the waiter guarantee besides, for every task, every set of faults    *)
(* and any number of health updates.                                       *)
(***************************************************************************)
EXTENDS ExecutorProofs, ExecutorRefines


(* Acknowledgements are of updates that the agent received.                  *)
AcksReached == acks \subseteq accepted

LEMMA AcksReachedStep ==
  ASSUME Books, AcksReached, [Next]_vars
  PROVE  AcksReached'
<1> USE DEF AcksReached, Books, agentVars
<1>1. CASE SubscriptionStep
  BY <1>1 DEF SubscriptionStep, OuterLoop, PrepareSubscribe, Subscribe, SubscribeError, InnerLoop,
              StreamBroken, Abort
<1>2. CASE EventStep
  BY <1>2 DEF EventStep, HandleSubscribed, HandleLaunch, HandleKill,
              HandleMessage, HandleAcknowledged
<1>3. CASE LaunchSteps
  BY <1>3 DEF LaunchSteps, LaunchPreCreate, LaunchCreate, LaunchAssign,
              LaunchPreRun, LaunchRun, LaunchPostRun, LaunchHealthCheck, LaunchStep
<1>4. CASE ReceiveSignal \/ WaitReturns \/ HealthStep \/ CheckerStep \/ ContainerStep
  BY <1>4 DEF ReceiveSignal, WaitReturns, HealthStep, HealthStart, HealthBeat,
              HealthDone, HealthExited, CheckerStep, ContainerStep
<1>5. ASSUME NEW g \in Goroutine, SharedStep(g)
      PROVE  AcksReached'
  BY <1>5 DEF SharedStep, KillSetsFlag, TearDownQuit, TearDownPreStop,
     TearDownStop, TearDownPostStop, SendUpdate, UpdateError, RecordUpdate
<1>6. CASE UNCHANGED vars
  BY <1>6 DEF vars
<1> QED
  BY <1>1, <1>2, <1>3, <1>4, <1>5, <1>6 DEF Next

(* Which updates are being recorded changes only where they are sent and     *)
(* recorded, one at a time.                                                  *)
LEMMA InFlightSent ==
  ASSUME ControlTypeOK, LaunchOrder, [Next]_vars, NEW g \in Goroutine, SendUpdate(g)
  PROVE  InFlight' = InFlight \cup {CurrentUpdate(g)}
<1>1. pc' = [pc EXCEPT ![g] = "record"] /\ UNCHANGED <<call, beats>> /\ pc[g] = "update"
  BY DEF SendUpdate, Goto, At
<1>2. \A h \in Goroutine : CurrentUpdate(h)' = CurrentUpdate(h)
  BY <1>1 DEF CurrentUpdate
<1>3. \A h \in Goroutine : pc'[h] = "record" <=> pc[h] = "record" \/ h = g
  BY <1>1 DEF ControlTypeOK
<1> QED
  BY <1>2, <1>3 DEF InFlight

(* Where Return takes its own goroutine, and the one it may start.           *)
LEMMA ReturnMoves ==
  ASSUME ControlTypeOK, NEW g \in Goroutine, NEW ok \in BOOLEAN, Return(g, ok)
  PROVE  /\ pc'[g] \notin {"update", "record"}
         /\ \A h \in Goroutine \ {g} :
              \/ pc'[h] = pc[h]
              \/ g = "main" /\ call[g] = "launch" /\ h = "waiter" /\ pc'[h] = "waiting"
<1> USE DEF ControlTypeOK, Goroutine
<1>1. CASE /\ g = "main" /\ call[g] = "launch"
           /\ pc' = [pc EXCEPT ![g] = "inner", !["waiter"] = "waiting"]
  BY <1>1
<1>2. CASE \E label \in {"quit", "inner", "flag", "failed", "select", "finished"} :
             pc' = [pc EXCEPT ![g] = label]
  BY <1>2
<1> QED
  BY <1>1, <1>2, ReturnCases

LEMMA InFlightRecorded ==
  ASSUME ControlTypeOK, LaunchOrder, [Next]_vars, NEW g \in Goroutine, RecordUpdate(g)
  PROVE  InFlight' = InFlight \ {CurrentUpdate(g)}
<1>1. pc[g] = "record" /\ Return(g, TRUE) /\ beats' = beats
  BY DEF RecordUpdate, At
<1>2. /\ pc'[g] # "record"
      /\ \A h \in Goroutine \ {g} :
           \/ pc'[h] = pc[h]
           \/ g = "main" /\ call[g] = "launch" /\ h = "waiter" /\ pc'[h] = "waiting"
  BY <1>1, ReturnMoves
<1>3. \A h \in Goroutine \ {g} : pc'[h] = "record" <=> pc[h] = "record"
  BY <1>2 DEF LaunchOrder
<1>4. \A h \in Goroutine \ {g} : ~RecordUpdate(h)
  <2> SUFFICES ASSUME NEW h \in Goroutine \ {g}, RecordUpdate(h)
               PROVE  FALSE
    OBVIOUS
  <2>1. pc[h] = "record" /\ Return(h, TRUE)
    BY DEF RecordUpdate, At
  <2>2. pc'[h] # "record"
    BY <2>1, ReturnMoves
  <2> QED
    BY <1>3, <2>1, <2>2
<1>5. \A h \in Goroutine \ {g} :
        pc[h] = "record" => CurrentUpdate(h)' = CurrentUpdate(h)
  BY <1>4, InFlightStays
<1>6. \A h \in Goroutine \ {g} : CurrentUpdate(h) # CurrentUpdate(g)
  BY DEF CurrentUpdate
<1> QED
  BY <1>2, <1>3, <1>5, <1>6 DEF InFlight

LEMMA InFlightKept ==
  ASSUME ControlTypeOK, LaunchOrder, [Next]_vars,
         \A g \in Goroutine : ~SendUpdate(g) /\ ~RecordUpdate(g)
  PROVE  InFlight' = InFlight
<1>1. \A h \in Goroutine :
        pc[h] = "record" => pc'[h] = "record" /\ CurrentUpdate(h)' = CurrentUpdate(h)
  BY InFlightStays
<1>2. \A h \in Goroutine : pc'[h] = "record" => pc[h] = "record"
  BY InFlightStarts
<1> QED
  BY <1>1, <1>2 DEF InFlight

(* Only the preparation of a subscription and its end make or end an offer.  *)
LEMMA OfferKept ==
  ASSUME ControlTypeOK, [Next]_vars, ~PrepareSubscribe, ~Subscribe, ~SubscribeError
  PROVE  Offered' = Offered
<1>1. SUFFICES /\ resend' = resend
               /\ pc'["main"] = "subscribing" <=> pc["main"] = "subscribing"
  BY DEF Offered
<1> USE DEF ControlTypeOK, Goroutine, At, Goto, Begin, ledgerVars
<1>2. CASE SubscriptionStep
  BY <1>2 DEF SubscriptionStep, OuterLoop, InnerLoop, StreamBroken, Abort
<1>3. CASE EventStep
  BY <1>3 DEF EventStep, HandleSubscribed, HandleLaunch, HandleKill,
              HandleMessage, HandleAcknowledged
<1>4. CASE LaunchSteps
  BY <1>4 DEF LaunchSteps, LaunchPreCreate, LaunchCreate, LaunchAssign, LaunchPreRun,
              LaunchRun, LaunchPostRun, LaunchHealthCheck, LaunchStep
<1>5. CASE ReceiveSignal \/ WaitReturns \/ HealthStep
  BY <1>5 DEF ReceiveSignal, WaitReturns, HealthStep, HealthStart, HealthBeat,
              HealthDone, HealthExited
<1>6. ASSUME NEW g \in Goroutine, SharedStep(g)
      PROVE  /\ resend' = resend
             /\ pc'["main"] = "subscribing" <=> pc["main"] = "subscribing"
  <2>1. CASE UpdateError(g) \/ RecordUpdate(g)
    <3>1. resend' = resend /\ pc[g] \in {"update", "record"}
      BY <2>1 DEF UpdateError, RecordUpdate
    <3>2. \E ok \in BOOLEAN : Return(g, ok)
      BY <2>1 DEF UpdateError, RecordUpdate
    <3> QED
      BY <3>1, <3>2, ReturnCases
  <2>2. CASE ~UpdateError(g) /\ ~RecordUpdate(g)
    BY <1>6, <2>2 DEF SharedStep, KillSetsFlag, TearDownQuit, TearDownPreStop,
       TearDownStop, TearDownPostStop, SendUpdate
  <2> QED
    BY <2>1, <2>2
<1>7. CASE CheckerStep \/ ContainerStep \/ UNCHANGED vars
  BY <1>7 DEF CheckerStep, ContainerStep, vars, controlVars
<1> QED
  BY <1>2, <1>3, <1>4, <1>5, <1>6, <1>7 DEF Next

(* Each step of the executor is one of the ledger, or leaves it alone.       *)
LEMMA LedgerStep ==
  ASSUME BooksInv, AcksReached, [Next]_vars
  PROVE  [Ledger!Next]_(Ledger!ledger)
<1> USE DEF BooksInv, TypeOK
<1>1. ASSUME NEW g \in Goroutine, SendUpdate(g)
      PROVE  Ledger!Send
  <2>1. ~PrepareSubscribe /\ ~Subscribe /\ ~SubscribeError
    BY <1>1 DEF SendUpdate, PrepareSubscribe, Subscribe, SubscribeError, At, Goto,
       ControlTypeOK, Goroutine
  <2>2. Offered' = Offered
    BY <2>1, OfferKept
  <2>3. InFlight' = InFlight \cup {CurrentUpdate(g)}
    BY <1>1, InFlightSent
  <2> QED
    BY <1>1, <2>2, <2>3 DEF SendUpdate, Ledger!Send, ledgerVars
<1>2. ASSUME NEW g \in Goroutine, RecordUpdate(g)
      PROVE  \E u \in InFlight : Ledger!Record(u)
  <2>1. pc[g] = "record" /\ pc'[g] # "record" /\ CurrentUpdate(g) \in InFlight
    BY <1>2, ReturnMoves DEF RecordUpdate, At, InFlight
  <2>2. ~PrepareSubscribe /\ ~Subscribe /\ ~SubscribeError
    BY <2>1 DEF PrepareSubscribe, Subscribe, SubscribeError, At, Goto, ControlTypeOK, Goroutine
  <2>3. Offered' = Offered
    BY <2>2, OfferKept
  <2>4. InFlight' = InFlight \ {CurrentUpdate(g)}
    BY <1>2, InFlightRecorded
  <2> QED
    BY <1>2, <2>1, <2>3, <2>4 DEF RecordUpdate, Ledger!Record, agentVars
<1>3. ASSUME NEW g \in Goroutine, UpdateError(g)
      PROVE  Ledger!Drop
  <2>1. pc[g] = "update" /\ pc'[g] \notin {"update", "record"}
    BY <1>3, ReturnMoves DEF UpdateError, At
  <2>2. ~PrepareSubscribe /\ ~Subscribe /\ ~SubscribeError
    BY <2>1 DEF PrepareSubscribe, Subscribe, SubscribeError, At, Goto, ControlTypeOK, Goroutine
  <2>3. Offered' = Offered
    BY <2>2, OfferKept
  <2>4. ASSUME NEW h \in Goroutine
        PROVE  ~SendUpdate(h) /\ ~RecordUpdate(h)
    <3>1. CASE SendUpdate(h)
      BY <2>1, <3>1 DEF SendUpdate, At, Goto, ControlTypeOK
    <3>2. CASE RecordUpdate(h)
      <4>1. pc[h] = "record" /\ Return(h, TRUE)
        BY <3>2 DEF RecordUpdate, At
      <4>2. h # g
        BY <2>1, <4>1
      <4>3. pc'[h] \notin {"update", "record"}
        BY <4>1, ReturnMoves
      <4>4. pc'[h] = pc[h]
        BY <1>3, <4>1, <4>2, ReturnMoves DEF UpdateError, LaunchOrder
      <4> QED
        BY <4>1, <4>3, <4>4
    <3> QED
      BY <3>1, <3>2
  <2>5. InFlight' = InFlight
    BY <2>4, InFlightKept
  <2> QED
    BY <1>3, <2>3, <2>5 DEF UpdateError, Ledger!Drop
<1>4. ASSUME NEW u \in acks, HandleAcknowledged(u)
      PROVE  \E v \in accepted : Ledger!Settle(v)
  <2>1. pc["main"] = "decode" /\ pc' = [pc EXCEPT !["main"] = "inner"]
    BY <1>4 DEF HandleAcknowledged, At, Goto
  <2>2. Offered' = Offered
    BY <1>4, <2>1 DEF HandleAcknowledged, Offered, ControlTypeOK, Goroutine
  <2>3. InFlight' = InFlight
    BY <1>4, <2>1 DEF HandleAcknowledged, InFlight, CurrentUpdate, ControlTypeOK, Goroutine
  <2> QED
    BY <1>4, <2>2, <2>3 DEF HandleAcknowledged, Ledger!Settle, AcksReached
<1>5. CASE PrepareSubscribe \/ Subscribe \/ SubscribeError
  <2>1. pc["main"] \in {"prepare", "subscribing"}
    BY <1>5 DEF PrepareSubscribe, Subscribe, SubscribeError, At
  <2>2. InFlight' = InFlight
    BY <1>5, <2>1 DEF PrepareSubscribe, Subscribe, SubscribeError, Goto, InFlight,
       CurrentUpdate, ControlTypeOK, Goroutine
  <2>3. CASE PrepareSubscribe
    BY <2>2, <2>3 DEF PrepareSubscribe, At, Goto, Offered, ControlTypeOK, Goroutine,
       Ledger!Next, Ledger!Offer, Ledger!ledger, agentVars
  <2>4. CASE Subscribe
    BY <2>2, <2>4 DEF Subscribe, At, Goto, Offered, ControlTypeOK, Goroutine,
       Ledger!Next, Ledger!Subscribed, ledgerVars
  <2>5. CASE SubscribeError
    BY <2>2, <2>5 DEF SubscribeError, At, Goto, Offered, ControlTypeOK, Goroutine,
       Ledger!Next, Ledger!NotSubscribed, ledgerVars, agentVars
  <2> QED
    BY <1>5, <2>3, <2>4, <2>5
<1>6. CASE /\ ~(PrepareSubscribe \/ Subscribe \/ SubscribeError)
           /\ \A u \in acks : ~HandleAcknowledged(u)
           /\ \A g \in Goroutine : ~(SendUpdate(g) \/ UpdateError(g) \/ RecordUpdate(g))
  <2>1. Offered' = Offered /\ InFlight' = InFlight
    BY <1>6, OfferKept, InFlightKept
  <2>2. UNCHANGED <<unacked, acked, lost, accepted>>
    BY <1>6, LedgerCases
  <2> QED
    BY <2>1, <2>2 DEF Ledger!ledger
<1> QED
  BY <1>1, <1>2, <1>3, <1>4, <1>5, <1>6 DEF Ledger!Next

(* The executor keeps the books that UpdateLedger promises, for every task,  *)
(* any faults and any number of health updates (executor.go:156, 313-325,    *)
(* 350-400).                                                                 *)
THEOREM ExecutorImplementsLedger == Spec => ImplementsLedger
<1>1. Init => Ledger!Init /\ AcksReached
  BY DEF Init, Ledger!Init, AcksReached, Offered, InFlight, Goroutine
<1>2. BooksInv /\ AcksReached /\ [Next]_vars => AcksReached'
  BY AcksReachedStep DEF BooksInv
<1>3. BooksInv /\ AcksReached /\ [Next]_vars => [Ledger!Next]_(Ledger!ledger)
  BY LedgerStep
<1> QED
  BY <1>1, <1>2, <1>3, BooksInvariant, PTL DEF Spec, ImplementsLedger, Ledger!Spec

-----------------------------------------------------------------------------
(* The updates of main and of the waiter.                                    *)

MainUpdate(c) == [by |-> "main", call |-> c, n |-> 0]

(* Main goes through its calls in one direction, so it sends an update of    *)
(* each kind once: where main is, by the updates the agent has.              *)
Sending(c) == call["main"] = c /\ pc["main"] = "record"
Aborting == call["main"] = "abort" \/ pc["main"] = "failed"

MainOrder ==
  /\ MainUpdate("launch") \in accepted =>
       launched /\ (call["main"] = "launch" => pc["main"] = "record")
  /\ MainUpdate("kill") \in accepted =>
       \/ Sending("kill") \/ Aborting
       \/ shutdown /\ pc["main"] \in {"inner", "outer", "returned"}
  /\ MainUpdate("fail") \in accepted => Sending("fail") \/ Aborting
  /\ MainUpdate("abort") \in accepted => Sending("abort") \/ pc["main"] = "failed"

(* Main's calls and the labels they go with. *)
MainCalls ==
  /\ pc["main"] \in KillLabels \cup {"update", "record"} \cup LaunchLabels
       => call["main"] \in {"launch", "kill", "fail", "abort"}
  /\ pc["main"] \in MainLabels => call["main"] = "none"
  /\ call["main"] # "none" => pc["main"] \notin MainLabels
  /\ call["main"] = "launch" => pc["main"] \notin KillLabels /\ launched
  /\ call["main"] # "launch" => pc["main"] \notin LaunchLabels
  /\ call["main"] = "kill" => pc["main"] = "flag" \/ shutdown

MainInv == MainOrder /\ MainCalls

LEMMA MainUpdateNow ==
  ASSUME ControlTypeOK, LaunchOrder
  PROVE  CurrentUpdate("main") = MainUpdate(call["main"])
BY DEF ControlTypeOK, LaunchOrder, CurrentUpdate, MainUpdate, Goroutine

(* The steps of the other goroutines: main stays, and what the agent gets is *)
(* not main's.                                                               *)
LEMMA OthersStep ==
  ASSUME ControlTypeOK, Books, [Next]_vars,
         ~OuterLoop, ~PrepareSubscribe, ~Subscribe, ~SubscribeError,
         ~InnerLoop, ~StreamBroken, ~Abort,
         ~EventStep, ~LaunchSteps, ~SharedStep("main")
  PROVE  /\ pc'["main"] = pc["main"] /\ call'["main"] = call["main"]
         /\ launched' = launched /\ (shutdown => shutdown')
         /\ \A u \in accepted' : u.by = "main" => u \in accepted
         /\ \A u \in unacked' : u.by = "main" => u \in unacked
         /\ acked' = acked
<1> USE DEF ControlTypeOK, Goroutine, At, Goto, Begin, ledgerVars, agentVars
<1>1. CASE ReceiveSignal \/ HealthStep
  BY <1>1 DEF ReceiveSignal, HealthStep, HealthStart, HealthBeat, HealthDone, HealthExited
<1>2. CASE WaitReturns
  BY <1>2 DEF WaitReturns
<1>3. CASE CheckerStep \/ ContainerStep \/ UNCHANGED vars
  BY <1>3 DEF CheckerStep, ContainerStep, vars, controlVars
<1>4. ASSUME NEW g \in Goroutine \ {"main"}, SharedStep(g)
      PROVE  /\ pc'["main"] = pc["main"] /\ call'["main"] = call["main"]
             /\ launched' = launched /\ (shutdown => shutdown')
             /\ \A u \in accepted' : u.by = "main" => u \in accepted
             /\ \A u \in unacked' : u.by = "main" => u \in unacked
             /\ acked' = acked
  <2>1. CurrentUpdate(g).by # "main"
    BY DEF CurrentUpdate
  <2>2. CASE UpdateError(g) \/ RecordUpdate(g)
    <3>1. \E ok \in BOOLEAN : Return(g, ok)
      BY <2>2 DEF UpdateError, RecordUpdate
    <3>2. pc'["main"] = pc["main"] /\ call'["main"] = call["main"]
      BY <1>4, <3>1, ReturnCases
    <3> QED
      BY <2>1, <2>2, <3>2 DEF UpdateError, RecordUpdate
  <2>3. CASE ~UpdateError(g) /\ ~RecordUpdate(g)
    BY <1>4, <2>1, <2>3 DEF SharedStep, KillSetsFlag, TearDownQuit, TearDownPreStop,
       TearDownStop, TearDownPostStop, SendUpdate
  <2> QED
    BY <2>2, <2>3
<1> QED
  BY <1>1, <1>2, <1>3, <1>4 DEF Next, SubscriptionStep

LEMMA MainStep ==
  ASSUME ControlTypeOK, LaunchOrder, Books, MainInv, [Next]_vars
  PROVE  MainInv'
<1> USE DEF ControlTypeOK, Goroutine, MainInv, MainOrder, MainCalls, Sending, Aborting,
            MainLabels, KillLabels, LaunchLabels, At, Goto, Begin, agentVars
<1>1. CASE \/ OuterLoop \/ PrepareSubscribe \/ SubscribeError
           \/ InnerLoop \/ StreamBroken \/ Abort
  BY <1>1 DEF OuterLoop, PrepareSubscribe, SubscribeError, InnerLoop, StreamBroken, Abort
<1>2. CASE Subscribe
  <2>1. accepted' = accepted
    BY <1>2 DEF Subscribe, Books
  <2> QED
    BY <1>2, <2>1 DEF Subscribe
<1>3. CASE EventStep
  <2>1. CASE HandleLaunch
    BY <2>1 DEF HandleLaunch, LaunchOrder
  <2>2. CASE HandleKill
    BY <2>2 DEF HandleKill
  <2>3. CASE HandleSubscribed \/ HandleMessage \/ \E u \in acks : HandleAcknowledged(u)
    <3>1. /\ pc["main"] = "decode" /\ pc' = [pc EXCEPT !["main"] = "inner"]
          /\ UNCHANGED <<call, accepted, launched, shutdown>>
      BY <2>3 DEF HandleSubscribed, HandleMessage, HandleAcknowledged
    <3> QED
      BY <3>1
  <2> QED
    BY <1>3, <2>1, <2>2, <2>3 DEF EventStep
<1>4. CASE LaunchSteps
  <2>1. UNCHANGED <<accepted, launched, shutdown>>
    BY <1>4 DEF LaunchSteps, LaunchPreCreate, LaunchCreate, LaunchAssign, LaunchPreRun,
       LaunchRun, LaunchPostRun, LaunchHealthCheck, LaunchStep
  <2>2. CASE LaunchPreCreate
    BY <2>1, <2>2 DEF LaunchPreCreate, LaunchStep
  <2>3. CASE LaunchCreate
    BY <2>1, <2>3 DEF LaunchCreate, LaunchStep
  <2>4. CASE LaunchAssign
    BY <2>1, <2>4 DEF LaunchAssign, LaunchStep
  <2>5. CASE LaunchPreRun
    BY <2>1, <2>5 DEF LaunchPreRun, LaunchStep
  <2>6. CASE LaunchRun
    BY <2>1, <2>6 DEF LaunchRun, LaunchStep
  <2>7. CASE LaunchPostRun
    BY <2>1, <2>7 DEF LaunchPostRun, LaunchStep
  <2>8. CASE LaunchHealthCheck
    BY <2>1, <2>8 DEF LaunchHealthCheck
  <2> QED
    BY <1>4, <2>2, <2>3, <2>4, <2>5, <2>6, <2>7, <2>8 DEF LaunchSteps
<1>5. CASE SendUpdate("main") \/ UpdateError("main")
  <2>1. /\ pc["main"] = "update"
        /\ accepted' \in {accepted, accepted \cup {MainUpdate(call["main"])}}
        /\ UNCHANGED <<launched, shutdown>>
    BY <1>5, MainUpdateNow DEF SendUpdate, UpdateError
  <2>2. CASE SendUpdate("main")
    BY <2>1, <2>2 DEF SendUpdate, MainUpdate
  <2>3. CASE UpdateError("main")
    <3>1. \/ /\ call["main"] \in {"launch"}
             /\ pc' = [pc EXCEPT !["main"] = "quit"] /\ call' = [call EXCEPT !["main"] = "fail"]
          \/ /\ call["main"] \in {"kill", "fail"}
             /\ pc' = [pc EXCEPT !["main"] = "flag"] /\ call' = [call EXCEPT !["main"] = "abort"]
          \/ /\ call["main"] = "abort"
             /\ pc' = [pc EXCEPT !["main"] = "failed"] /\ call' = [call EXCEPT !["main"] = "none"]
      BY <2>1, <2>3, Zenon DEF UpdateError, Return
    <3> QED
      BY <2>1, <3>1 DEF MainUpdate
  <2> QED
    BY <1>5, <2>2, <2>3
<1>6. CASE RecordUpdate("main")
  <2>1. pc["main"] = "record" /\ UNCHANGED <<accepted, launched, shutdown>>
    BY <1>6 DEF RecordUpdate
  <2>2. \/ /\ call["main"] = "launch"
           /\ pc' = [pc EXCEPT !["main"] = "inner", !["waiter"] = "waiting"]
           /\ call' = [call EXCEPT !["main"] = "none"]
        \/ /\ call["main"] = "kill"
           /\ pc' = [pc EXCEPT !["main"] = "inner"] /\ call' = [call EXCEPT !["main"] = "none"]
        \/ /\ call["main"] = "fail"
           /\ pc' = [pc EXCEPT !["main"] = "flag"] /\ call' = [call EXCEPT !["main"] = "abort"]
        \/ /\ call["main"] = "abort"
           /\ pc' = [pc EXCEPT !["main"] = "failed"] /\ call' = [call EXCEPT !["main"] = "none"]
    BY <1>6, <2>1, Zenon DEF RecordUpdate, Return
  <2> QED
    BY <2>1, <2>2
<1>7. CASE \/ KillSetsFlag("main") \/ TearDownQuit("main") \/ TearDownPreStop("main")
           \/ TearDownStop("main") \/ TearDownPostStop("main")
  BY <1>7 DEF KillSetsFlag, TearDownQuit, TearDownPreStop, TearDownStop, TearDownPostStop
<1>8. CASE ~(\/ OuterLoop \/ PrepareSubscribe \/ InnerLoop \/ StreamBroken \/ Abort \/ Subscribe
             \/ SubscribeError \/ EventStep \/ LaunchSteps \/ SharedStep("main"))
  BY <1>8, OthersStep DEF MainUpdate
<1> QED
  BY <1>1, <1>2, <1>3, <1>4, <1>5, <1>6, <1>7, <1>8 DEF SharedStep

(* What the agent gets comes from a goroutine that sends it.                 *)
LEMMA AcceptedFrom ==
  ASSUME Books, [Next]_vars, NEW u \in accepted', u \notin accepted
  PROVE  \E g \in Goroutine :
           u = CurrentUpdate(g) /\ pc[g] = "update" /\ (SendUpdate(g) \/ UpdateError(g))
<1>1. CASE UNCHANGED accepted \/ (Subscribe /\ accepted' = accepted \cup resend)
  BY <1>1 DEF Books
<1>2. ASSUME NEW v \in acks, HandleAcknowledged(v)
      PROVE  FALSE
  BY <1>2 DEF HandleAcknowledged
<1>3. ASSUME NEW g \in Goroutine, SendUpdate(g) \/ UpdateError(g)
      PROVE  u = CurrentUpdate(g) /\ pc[g] = "update"
  <2>1. accepted' \in {accepted, accepted \cup {CurrentUpdate(g)}} /\ pc[g] = "update"
    BY <1>3 DEF SendUpdate, UpdateError, At
  <2> QED
    BY <2>1
<1>4. ASSUME NEW g \in Goroutine, RecordUpdate(g)
      PROVE  FALSE
  BY <1>4 DEF RecordUpdate, agentVars
<1> QED
  BY <1>1, <1>2, <1>3, <1>4, LedgerCases

(* An update of main is acknowledged only once main has recorded it.         *)
AckOrder ==
  /\ acked \subseteq accepted
  /\ pc["main"] = "record" => CurrentUpdate("main") \notin acked

AckInv == BooksInv /\ AcksReached /\ MainInv /\ AckOrder /\ MainAckIsFinal

LEMMA FreshUpdate ==
  ASSUME ControlTypeOK, MainInv, pc["main"] = "update"
  PROVE  MainUpdate(call["main"]) \notin accepted
BY DEF ControlTypeOK, Goroutine, MainInv, MainOrder, MainCalls, Sending, Aborting,
   MainLabels

LEMMA AckStep ==
  ASSUME AckInv, [Next]_vars
  PROVE  AckOrder' /\ MainAckIsFinal'
<1> USE DEF AckInv, BooksInv, TypeOK, AckOrder, MainAckIsFinal, agentVars, ledgerVars
<1>1. accepted \subseteq accepted'
  BY LedgerCases DEF HandleAcknowledged, SendUpdate, UpdateError, RecordUpdate
<1>2. CurrentUpdate("main") = MainUpdate(call["main"])
  BY MainUpdateNow
<1>3. CASE SendUpdate("main")
  <2>1. CurrentUpdate("main")' = CurrentUpdate("main") /\ UNCHANGED <<unacked, acked>>
    BY <1>3 DEF SendUpdate, CurrentUpdate
  <2>2. CurrentUpdate("main") \notin accepted
    BY <1>2, <1>3, FreshUpdate DEF SendUpdate, At
  <2> QED
    BY <1>1, <2>1, <2>2
<1>4. CASE RecordUpdate("main")
  <2>1. pc["main"] = "record" /\ pc'["main"] # "record"
    BY <1>4, ReturnMoves DEF RecordUpdate, At, Goroutine
  <2> QED
    BY <1>1, <1>4, <2>1 DEF RecordUpdate
<1>5. ASSUME NEW u \in acks, HandleAcknowledged(u)
      PROVE  AckOrder' /\ MainAckIsFinal'
  <2>1. pc'["main"] = "inner"
    BY <1>5 DEF HandleAcknowledged, Goto, At, ControlTypeOK, Goroutine
  <2> QED
    BY <1>5, <2>1 DEF HandleAcknowledged, AcksReached
<1>6. CASE ~SendUpdate("main") /\ ~RecordUpdate("main") /\ \A u \in acks : ~HandleAcknowledged(u)
  <2>1. acked' = acked
    BY <1>6, LedgerCases DEF SendUpdate, UpdateError, RecordUpdate
  <2>2. \A u \in unacked' : u.by = "main" => u \in unacked
    <3>1. ASSUME NEW g \in Goroutine, RecordUpdate(g)
          PROVE  g # "main" /\ CurrentUpdate(g).by = g
      BY <1>6, <3>1 DEF CurrentUpdate
    <3> QED
      BY <1>6, <3>1, LedgerCases DEF SendUpdate, UpdateError, RecordUpdate
  <2>3. pc'["main"] = "record" => pc["main"] = "record"
    BY <1>6, InFlightStarts DEF Goroutine
  <2>4. pc["main"] = "record" => CurrentUpdate("main")' = CurrentUpdate("main")
    BY <1>6, InFlightStays DEF Goroutine
  <2> QED
    BY <1>1, <2>1, <2>2, <2>3, <2>4
<1> QED
  BY <1>3, <1>4, <1>5, <1>6

LEMMA MainInvariant == Spec => []MainInv
<1>1. Init => MainInv
  BY DEF Init, MainInv, MainOrder, MainCalls, MainLabels, KillLabels, LaunchLabels,
     Goroutine
<1>2. BooksInv /\ MainInv /\ [Next]_vars => MainInv'
  BY MainStep DEF BooksInv, TypeOK
<1> QED
  BY <1>1, <1>2, BooksInvariant, PTL DEF Spec

(* Once the acknowledgement of an update of main was handled, no             *)
(* subscription carries that update again (executor.go:314-325, 377-400).    *)
THEOREM MainAcksFinal == Spec => []MainAckIsFinal
<1>1. Init => AcksReached /\ AckOrder /\ MainAckIsFinal
  BY DEF Init, AcksReached, AckOrder, MainAckIsFinal, Goroutine
<1>2. AckInv /\ [Next]_vars => (AcksReached /\ AckOrder /\ MainAckIsFinal)'
  BY AcksReachedStep, AckStep DEF AckInv, BooksInv, TypeOK
<1> QED
  BY <1>1, <1>2, BooksInvariant, MainInvariant, PTL DEF Spec, AckInv
-----------------------------------------------------------------------------
(* A finished task was launched and ran to its end.                          *)

Ended == container \in {"exited", "removed"}
HasRun == Ended \/ container = "running"

InCall(label) == label \in KillLabels \cup UpdateLabels \cup LaunchLabels

(* What the agent was told, or would have been but for a failed call.        *)
Told == accepted \cup lost

FinishedInv ==
  /\ pc["main"] \in {"postRun", "inspect"} => HasRun
  /\ pc["main"] \in {"update", "record"} /\ call["main"] = "launch" => HasRun
  /\ pc["waiter"] # "off" => HasRun
  /\ \A g \in Goroutine : call[g] = "finish" => exitCode = 0 /\ Ended
  /\ \A u \in Told : u.call = "finish" => exitCode = 0 /\ Ended
  /\ \A u \in Told : u.call # "none"
  /\ \A g \in Goroutine : InCall(pc[g]) => call[g] # "none"

(* A launch that failed starts no waiter, and only a waiter reports success. *)
Failing == call["main"] = "fail" \/ Aborting

FailureInv ==
  /\ call["main"] = "fail" => pc["waiter"] = "off"
  /\ (\E u \in Told : u.by = "main" /\ u.call = "fail") => Failing /\ pc["waiter"] = "off"
  /\ (\E u \in Told : u.call = "finish") => pc["waiter"] # "off"

(* What is told comes from a goroutine that sends it.                        *)
LEMMA ToldFrom ==
  ASSUME Books, [Next]_vars, NEW u \in Told', u \notin Told
  PROVE  \E g \in Goroutine :
           u = CurrentUpdate(g) /\ pc[g] = "update" /\ (SendUpdate(g) \/ UpdateError(g))
<1> USE DEF Told
<1>1. CASE UNCHANGED <<accepted, lost>>
  BY <1>1
<1>2. CASE Subscribe /\ UNCHANGED ledgerVars /\ accepted' = accepted \cup resend
  BY <1>2 DEF Books, ledgerVars
<1>3. ASSUME NEW v \in acks, HandleAcknowledged(v)
      PROVE  FALSE
  BY <1>3 DEF HandleAcknowledged
<1>4. ASSUME NEW g \in Goroutine, SendUpdate(g) \/ UpdateError(g)
      PROVE  u = CurrentUpdate(g) /\ pc[g] = "update"
  <2>1. /\ pc[g] = "update"
        /\ accepted' \in {accepted, accepted \cup {CurrentUpdate(g)}}
        /\ lost' \in {lost, lost \cup {CurrentUpdate(g)}}
    BY <1>4 DEF SendUpdate, UpdateError, At, ledgerVars
  <2> QED
    BY <2>1
<1>5. ASSUME NEW g \in Goroutine, RecordUpdate(g)
      PROVE  FALSE
  BY <1>5 DEF RecordUpdate, agentVars
<1> QED
  BY <1>1, <1>2, <1>3, <1>4, <1>5, LedgerCases

(* An end, and a start, are for good.                                        *)
LEMMA ContainerMoves ==
  ASSUME DockerTypeOK, [Next]_vars
  PROVE  (HasRun => HasRun') /\ (Ended => Ended' /\ exitCode' = exitCode)
<1> USE DEF HasRun, Ended, DockerTypeOK, ContainerStates, dockerVars
<1>1. CASE SubscriptionStep \/ EventStep
  BY <1>1 DEF SubscriptionStep, OuterLoop, PrepareSubscribe, Subscribe, SubscribeError, InnerLoop,
     StreamBroken, Abort, EventStep, HandleSubscribed, HandleLaunch, HandleKill,
     HandleMessage, HandleAcknowledged
<1>2. CASE LaunchSteps
  BY <1>2 DEF LaunchSteps, LaunchPreCreate, LaunchCreate, LaunchAssign, LaunchPreRun,
     LaunchRun, LaunchPostRun, LaunchHealthCheck, ContainerCreate, ContainerRun,
     ContainerGetPID, Outcomes
<1>3. CASE ReceiveSignal \/ WaitReturns \/ HealthStep \/ CheckerStep \/ ContainerStep
  BY <1>3 DEF ReceiveSignal, WaitReturns, ContainerWait, HealthStep, HealthStart,
     HealthBeat, HealthDone, HealthExited, CheckerStep, ContainerStep, ContainerExits
<1>4. ASSUME NEW g \in Goroutine, SharedStep(g)
      PROVE  (HasRun => HasRun') /\ (Ended => Ended' /\ exitCode' = exitCode)
  BY <1>4 DEF SharedStep, KillSetsFlag, TearDownQuit, TearDownPreStop, TearDownStop,
     TearDownPostStop, SendUpdate, UpdateError, RecordUpdate, ContainerStop,
     ContainerRemove, Outcomes
<1>5. CASE UNCHANGED vars
  BY <1>5 DEF vars
<1> QED
  BY <1>1, <1>2, <1>3, <1>4, <1>5 DEF Next

LEMMA LaunchRanStep ==
  ASSUME BooksInv, MainInv, FinishedInv, [Next]_vars
  PROVE  /\ pc'["main"] \in {"postRun", "inspect"} => HasRun'
         /\ pc'["main"] \in {"update", "record"} /\ call'["main"] = "launch" => HasRun'
         /\ pc'["waiter"] # "off" => HasRun'
<1> USE DEF BooksInv, TypeOK, FinishedInv, ControlTypeOK, Goroutine, At, Goto, Begin
<1>1. HasRun => HasRun'
  BY ContainerMoves
<1>2. pc'["waiter"] # "off" => HasRun'
  <2>1. CASE pc["waiter"] = "off" /\ pc'["waiter"] # "off"
    BY <1>1, <2>1, WaiterStarts DEF RecordUpdate
  <2> QED
    BY <1>1, <2>1
<1> DEFINE Launched(label, c) ==
      label \in {"postRun", "inspect"} \/ (label \in {"update", "record"} /\ c = "launch")
<1>3. SUFFICES Launched(pc'["main"], call'["main"]) => HasRun'
  BY <1>2
<1>4. CASE SubscriptionStep
  BY <1>4 DEF SubscriptionStep, OuterLoop, PrepareSubscribe, Subscribe, SubscribeError, InnerLoop,
     StreamBroken, Abort
<1>5. CASE EventStep
  BY <1>5 DEF EventStep, HandleSubscribed, HandleLaunch, HandleKill, HandleMessage,
     HandleAcknowledged
<1>6. CASE LaunchRun
  BY <1>6 DEF LaunchRun, LaunchStep, ContainerRun, Outcomes, HasRun, Ended
<1>7. CASE LaunchSteps /\ ~LaunchRun
  BY <1>1, <1>7 DEF LaunchSteps, LaunchPreCreate, LaunchCreate, LaunchAssign,
     LaunchPreRun, LaunchPostRun, LaunchHealthCheck, LaunchStep
<1>8. CASE ReceiveSignal \/ WaitReturns \/ HealthStep \/ CheckerStep \/ ContainerStep
  BY <1>1, <1>8 DEF ReceiveSignal, WaitReturns, HealthStep, HealthStart, HealthBeat,
     HealthDone, HealthExited, CheckerStep, ContainerStep, controlVars
<1>9. ASSUME NEW g \in Goroutine, SharedStep(g)
      PROVE  Launched(pc'["main"], call'["main"]) => HasRun'
  <2>1. CASE UpdateError(g) \/ RecordUpdate(g)
    <3>1. \E ok \in BOOLEAN : Return(g, ok)
      BY <2>1 DEF UpdateError, RecordUpdate
    <3> QED
      BY <1>1, <3>1, ReturnCases
  <2>2. CASE ~UpdateError(g) /\ ~RecordUpdate(g)
    BY <1>1, <1>9, <2>2 DEF SharedStep, KillSetsFlag, TearDownQuit, TearDownPreStop,
       TearDownStop, TearDownPostStop, SendUpdate, MainInv, MainCalls, KillLabels
  <2> QED
    BY <2>1, <2>2
<1>10. CASE UNCHANGED vars
  BY <1>1, <1>10 DEF vars, controlVars
<1> QED
  BY <1>4, <1>5, <1>6, <1>7, <1>8, <1>9, <1>10 DEF Next

(* A goroutine that tears down, launches or reports is in some call.         *)
LEMMA InCallStep ==
  ASSUME BooksInv, FinishedInv, [Next]_vars, NEW g \in Goroutine, InCall(pc'[g])
  PROVE  call'[g] # "none"
<1> USE DEF BooksInv, TypeOK, FinishedInv, ControlTypeOK, Goroutine, At, Goto, Begin,
            InCall, KillLabels, UpdateLabels, LaunchLabels
<1>1. CASE SubscriptionStep \/ EventStep
  BY <1>1 DEF SubscriptionStep, OuterLoop, PrepareSubscribe, Subscribe, SubscribeError, InnerLoop,
     StreamBroken, Abort, EventStep, HandleSubscribed, HandleLaunch, HandleKill,
     HandleMessage, HandleAcknowledged
<1>2. CASE LaunchSteps
  <2>1. CASE LaunchPreCreate
    BY <2>1 DEF LaunchPreCreate, LaunchStep
  <2>2. CASE LaunchCreate
    BY <2>2 DEF LaunchCreate, LaunchStep
  <2>3. CASE LaunchAssign
    BY <2>3 DEF LaunchAssign, LaunchStep
  <2>4. CASE LaunchPreRun
    BY <2>4 DEF LaunchPreRun, LaunchStep
  <2>5. CASE LaunchRun
    BY <2>5 DEF LaunchRun, LaunchStep
  <2>6. CASE LaunchPostRun
    BY <2>6 DEF LaunchPostRun, LaunchStep
  <2>7. CASE LaunchHealthCheck
    BY <2>7 DEF LaunchHealthCheck
  <2> QED
    BY <1>2, <2>1, <2>2, <2>3, <2>4, <2>5, <2>6, <2>7 DEF LaunchSteps
<1>3. CASE ReceiveSignal \/ WaitReturns \/ HealthStep
  BY <1>3 DEF ReceiveSignal, WaitReturns, HealthStep, HealthStart, HealthBeat,
     HealthDone, HealthExited
<1>4. CASE CheckerStep \/ ContainerStep \/ UNCHANGED vars
  BY <1>4 DEF CheckerStep, ContainerStep, vars, controlVars
<1>5. ASSUME NEW h \in Goroutine, SharedStep(h)
      PROVE  call'[g] # "none"
  <2>1. CASE UpdateError(h) \/ RecordUpdate(h)
    <3>1. PICK ok \in BOOLEAN : Return(h, ok)
      BY <2>1 DEF UpdateError, RecordUpdate
    <3>2. \/ \E label \in {"quit", "flag"}, c \in {"fail", "abort"} :
               pc' = [pc EXCEPT ![h] = label] /\ call' = [call EXCEPT ![h] = c]
          \/ /\ \E label \in {"inner", "failed", "select", "finished"} :
                  \/ pc' = [pc EXCEPT ![h] = label]
                  \/ pc' = [pc EXCEPT ![h] = label, !["waiter"] = "waiting"]
             /\ call' = [call EXCEPT ![h] = "none"]
      BY <3>1, Zenon DEF Return
    <3> QED
      BY <3>2
  <2>2. CASE ~UpdateError(h) /\ ~RecordUpdate(h)
    BY <1>5, <2>2 DEF SharedStep, KillSetsFlag, TearDownQuit, TearDownPreStop,
       TearDownStop, TearDownPostStop, SendUpdate
  <2> QED
    BY <2>1, <2>2
<1> QED
  BY <1>1, <1>2, <1>3, <1>4, <1>5 DEF Next

LEMMA FinishedStep ==
  ASSUME BooksInv, MainInv, FinishedInv, [Next]_vars
  PROVE  FinishedInv'
<1> USE DEF BooksInv, TypeOK, FinishedInv, ControlTypeOK, Goroutine, At, Goto, Begin
<1>1. exitCode = 0 /\ Ended => exitCode' = 0 /\ Ended'
  BY ContainerMoves
<1>2. ASSUME NEW g \in Goroutine, call'[g] = "finish"
      PROVE  exitCode' = 0 /\ Ended'
  <2>1. CASE SubscriptionStep \/ EventStep
    BY <1>1, <1>2, <2>1 DEF SubscriptionStep, OuterLoop, PrepareSubscribe, Subscribe, SubscribeError,
       InnerLoop, StreamBroken, Abort, EventStep, HandleSubscribed, HandleLaunch,
       HandleKill, HandleMessage, HandleAcknowledged
  <2>2. CASE LaunchSteps
    BY <1>1, <1>2, <2>2 DEF LaunchSteps, LaunchPreCreate, LaunchCreate, LaunchAssign,
       LaunchPreRun, LaunchRun, LaunchPostRun, LaunchHealthCheck, LaunchStep
  <2>3. CASE WaitReturns
    <3>1. CASE call[g] = "finish"
      BY <1>1, <3>1
    <3>2. CASE call[g] # "finish"
      BY <1>2, <2>3, <3>2 DEF WaitReturns, ContainerWait, dockerVars, HasRun, Ended
    <3> QED
      BY <3>1, <3>2
  <2>4. CASE ReceiveSignal \/ HealthStep \/ CheckerStep \/ ContainerStep \/ UNCHANGED vars
    BY <1>1, <1>2, <2>4 DEF ReceiveSignal, HealthStep, HealthStart, HealthBeat,
       HealthDone, HealthExited, CheckerStep, ContainerStep, vars, controlVars
  <2>5. ASSUME NEW h \in Goroutine, SharedStep(h)
        PROVE  exitCode' = 0 /\ Ended'
    <3>1. CASE UpdateError(h) \/ RecordUpdate(h)
      <4>1. \E ok \in BOOLEAN : Return(h, ok)
        BY <3>1 DEF UpdateError, RecordUpdate
      <4> QED
        BY <1>1, <1>2, <4>1, ReturnCases
    <3>2. CASE ~UpdateError(h) /\ ~RecordUpdate(h)
      BY <1>1, <1>2, <2>5, <3>2 DEF SharedStep, KillSetsFlag, TearDownQuit,
         TearDownPreStop, TearDownStop, TearDownPostStop, SendUpdate
    <3> QED
      BY <3>1, <3>2
  <2> QED
    BY <2>1, <2>2, <2>3, <2>4, <2>5 DEF Next
<1>3. ASSUME NEW u \in Told', u.call = "finish"
      PROVE  exitCode' = 0 /\ Ended'
  <2>1. ASSUME NEW g \in Goroutine, u = CurrentUpdate(g)
        PROVE  exitCode = 0 /\ Ended
    BY <1>3, <2>1 DEF CurrentUpdate
  <2>2. u \in Told \/ \E g \in Goroutine : u = CurrentUpdate(g)
    BY ToldFrom
  <2> QED
    BY <1>1, <1>3, <2>1, <2>2
<1>4. ASSUME NEW u \in Told'
      PROVE  u.call # "none"
  <2>1. ASSUME NEW g \in Goroutine, u = CurrentUpdate(g), pc[g] = "update"
        PROVE  u.call # "none"
    BY <2>1 DEF CurrentUpdate, InCall, UpdateLabels
  <2>2. u \in Told \/ \E g \in Goroutine : u = CurrentUpdate(g) /\ pc[g] = "update"
    BY ToldFrom
  <2> QED
    BY <2>1, <2>2
<1> QED
  BY <1>2, <1>3, <1>4, InCallStep, LaunchRanStep

(* The goroutine of the waiter is started once and for all.                  *)
LEMMA WaiterStays ==
  ASSUME ControlTypeOK, [Next]_vars, pc["waiter"] # "off"
  PROVE  pc'["waiter"] # "off"
<1> USE DEF ControlTypeOK, Goroutine, At, Goto, Begin
<1>1. CASE SubscriptionStep \/ EventStep
  BY <1>1 DEF SubscriptionStep, OuterLoop, PrepareSubscribe, Subscribe, SubscribeError, InnerLoop,
     StreamBroken, Abort, EventStep, HandleSubscribed, HandleLaunch, HandleKill,
     HandleMessage, HandleAcknowledged
<1>2. CASE LaunchSteps
  BY <1>2 DEF LaunchSteps, LaunchPreCreate, LaunchCreate, LaunchAssign, LaunchPreRun,
     LaunchRun, LaunchPostRun, LaunchHealthCheck, LaunchStep
<1>3. CASE ReceiveSignal \/ WaitReturns \/ HealthStep
  BY <1>3 DEF ReceiveSignal, WaitReturns, HealthStep, HealthStart, HealthBeat,
     HealthDone, HealthExited
<1>4. CASE CheckerStep \/ ContainerStep \/ UNCHANGED vars
  BY <1>4 DEF CheckerStep, ContainerStep, vars, controlVars
<1>5. ASSUME NEW g \in Goroutine, SharedStep(g)
      PROVE  pc'["waiter"] # "off"
  <2>1. CASE UpdateError(g) \/ RecordUpdate(g)
    <3>1. \E ok \in BOOLEAN : Return(g, ok)
      BY <2>1 DEF UpdateError, RecordUpdate
    <3> QED
      BY <3>1, ReturnCases
  <2>2. CASE ~UpdateError(g) /\ ~RecordUpdate(g)
    BY <1>5, <2>2 DEF SharedStep, KillSetsFlag, TearDownQuit, TearDownPreStop,
       TearDownStop, TearDownPostStop, SendUpdate
  <2> QED
    BY <2>1, <2>2
<1> QED
  BY <1>1, <1>2, <1>3, <1>4, <1>5 DEF Next

(* Main comes to fail from a launch, and goes on to fail to its end.         *)
LEMMA FailingMoves ==
  ASSUME BooksInv, MainInv, [Next]_vars
  PROVE  /\ Failing => Failing'
         /\ call'["main"] = "fail" => call["main"] \in {"launch", "fail"}
<1> USE DEF BooksInv, TypeOK, MainInv, MainCalls, MainLabels, Failing, Aborting,
            ControlTypeOK, Goroutine, At, Goto, Begin
<1>1. CASE SubscriptionStep \/ EventStep
  BY <1>1 DEF SubscriptionStep, OuterLoop, PrepareSubscribe, Subscribe, SubscribeError, InnerLoop,
     StreamBroken, Abort, EventStep, HandleSubscribed, HandleLaunch, HandleKill,
     HandleMessage, HandleAcknowledged
<1>2. CASE LaunchSteps
  <2>1. pc["main"] \in LaunchLabels
    BY <1>2 DEF LaunchSteps, LaunchPreCreate, LaunchCreate, LaunchAssign, LaunchPreRun,
       LaunchRun, LaunchPostRun, LaunchHealthCheck, LaunchStep, LaunchLabels
  <2>2. call["main"] = "launch" /\ pc["main"] # "failed"
    BY <2>1 DEF LaunchLabels
  <2> QED
    BY <2>2
<1>3. CASE ReceiveSignal \/ WaitReturns \/ HealthStep
  BY <1>3 DEF ReceiveSignal, WaitReturns, HealthStep, HealthStart, HealthBeat,
     HealthDone, HealthExited
<1>4. CASE CheckerStep \/ ContainerStep \/ UNCHANGED vars
  BY <1>4 DEF CheckerStep, ContainerStep, vars, controlVars
<1>5. ASSUME NEW g \in Goroutine, SharedStep(g)
      PROVE  /\ Failing => Failing'
             /\ call'["main"] = "fail" => call["main"] \in {"launch", "fail"}
  <2>1. CASE g = "main" /\ (UpdateError(g) \/ RecordUpdate(g))
    <3>1. pc["main"] \in {"update", "record"} /\ \E ok \in BOOLEAN : Return("main", ok)
      BY <2>1 DEF UpdateError, RecordUpdate
    <3>2. call["main"] \in {"launch", "kill", "fail", "abort"}
      BY <3>1
    <3>3. /\ call["main"] = "fail" => call' = [call EXCEPT !["main"] = "abort"]
          /\ call["main"] = "abort" => /\ pc' = [pc EXCEPT !["main"] = "failed"]
                                       /\ call' = [call EXCEPT !["main"] = "none"]
          /\ call["main"] = "kill" =>
               \E c \in {"none", "abort"} : call' = [call EXCEPT !["main"] = c]
      BY <3>1, Zenon DEF Return
    <3> QED
      BY <3>1, <3>2, <3>3
  <2>2. CASE g # "main" /\ (UpdateError(g) \/ RecordUpdate(g))
    <3>1. \E ok \in BOOLEAN : Return(g, ok)
      BY <2>2 DEF UpdateError, RecordUpdate
    <3>2. pc'["main"] = pc["main"] /\ call'["main"] = call["main"]
      BY <2>2, <3>1, ReturnCases
    <3> QED
      BY <3>2
  <2>3. CASE ~UpdateError(g) /\ ~RecordUpdate(g)
    BY <1>5, <2>3 DEF SharedStep, KillSetsFlag, TearDownQuit, TearDownPreStop,
       TearDownStop, TearDownPostStop, SendUpdate, Exited
  <2> QED
    BY <2>1, <2>2, <2>3
<1> QED
  BY <1>1, <1>2, <1>3, <1>4, <1>5 DEF Next

LEMMA FailureStep ==
  ASSUME BooksInv, MainInv, FailureInv, [Next]_vars
  PROVE  FailureInv'
<1> USE DEF BooksInv, TypeOK, FailureInv
<1>1. pc["waiter"] = "off" /\ Failing => pc'["waiter"] = "off"
  BY WaiterStarts
  DEF Failing, Aborting, MainInv, MainCalls, MainLabels, RecordUpdate, At, Exited
<1>2. call'["main"] = "fail" => pc'["waiter"] = "off"
  <2> SUFFICES ASSUME call'["main"] = "fail"
               PROVE  pc'["waiter"] = "off"
    OBVIOUS
  <2>1. CASE call["main"] = "fail"
    BY <1>1, <2>1 DEF Failing
  <2>2. CASE call["main"] = "launch"
    <3>1. pc["waiter"] = "off"
      BY <2>2 DEF LaunchOrder
    <3>2. ~RecordUpdate("main")
      <4>1. ASSUME RecordUpdate("main")
            PROVE  FALSE
        <5>1. call' = [call EXCEPT !["main"] = "none"]
          BY <2>2, <4>1, Zenon DEF RecordUpdate, Return
        <5> QED
          BY <5>1 DEF ControlTypeOK, Goroutine
      <4> QED
        BY <4>1
    <3> QED
      BY <3>1, <3>2, WaiterStarts
  <2> QED
    BY <2>1, <2>2, FailingMoves
<1>3. ASSUME NEW u \in Told', u.by = "main", u.call = "fail"
      PROVE  Failing' /\ pc'["waiter"] = "off"
  <2>1. CASE u \in Told
    BY <1>1, <1>3, <2>1, FailingMoves
  <2>2. CASE u \notin Told
    <3>1. PICK g \in Goroutine : u = CurrentUpdate(g)
      BY <2>2, ToldFrom
    <3>2. call["main"] = "fail"
      BY <1>3, <3>1 DEF CurrentUpdate
    <3> QED
      BY <1>1, <3>2, FailingMoves DEF Failing
  <2> QED
    BY <2>1, <2>2
<1>4. ASSUME NEW u \in Told', u.call = "finish"
      PROVE  pc'["waiter"] # "off"
  <2>1. CASE u \in Told
    BY <1>4, <2>1, WaiterStays
  <2>2. CASE u \notin Told
    <3>1. PICK g \in Goroutine : u = CurrentUpdate(g) /\ pc[g] = "update"
      BY <2>2, ToldFrom
    <3>2. call[g] = "finish"
      BY <1>4, <3>1 DEF CurrentUpdate
    <3>3. g = "waiter"
      BY <3>2 DEF CallsTypeOK, CallsOf, Goroutine
    <3> QED
      BY <3>1, <3>3, WaiterStays
  <2> QED
    BY <2>1, <2>2
<1> QED
  BY <1>2, <1>3, <1>4

(* TASK_FINISHED is reported only of a launch that succeeded and a container *)
(* that ended with code 0: nobody reports that the launch failed, before or  *)
(* after it, whatever else fails (executor.go:287-298, 474, 491-497).        *)
THEOREM FinishedIsSuccess == Spec => []FinishedMeansSuccess
<1>1. Init => FinishedInv /\ FailureInv
  BY DEF Init, FinishedInv, FailureInv, Told, InCall, KillLabels, UpdateLabels,
     LaunchLabels, Goroutine
<1>2. BooksInv /\ MainInv /\ FinishedInv /\ [Next]_vars => FinishedInv'
  BY FinishedStep
<1>3. BooksInv /\ MainInv /\ FailureInv /\ [Next]_vars => FailureInv'
  BY FailureStep
<1>4. BooksInv /\ FinishedInv /\ FailureInv => FinishedMeansSuccess
  <2> SUFFICES ASSUME BooksInv, FinishedInv, FailureInv,
                      NEW u \in Told, StateOf(u) = "FINISHED"
               PROVE  /\ exitCode = 0
                      /\ call["main"] # "fail"
                      /\ \A v \in Told : v.by = "main" => StateOf(v) # "FAILED"
    BY DEF FinishedMeansSuccess, Told
  <2>1. \A v \in Told : v \in Update
    BY DEF BooksInv, TypeOK, AgentTypeOK, LedgerTypeOK, Told
  <2>2. u.call = "finish"
    BY <2>1 DEF Update, Call, StateOf, FinishedInv
  <2>3. exitCode = 0 /\ pc["waiter"] # "off" /\ call["main"] # "fail"
    BY <2>2 DEF FinishedInv, FailureInv
  <2>4. ASSUME NEW v \in Told, v.by = "main"
        PROVE  StateOf(v) # "FAILED"
    <3>1. v.call # "fail"
      BY <2>3, <2>4 DEF FailureInv
    <3> QED
      BY <2>1, <3>1 DEF Update, Call, StateOf
  <2> QED
    BY <2>3, <2>4
<1> QED
  BY <1>1, <1>2, <1>3, <1>4, BooksInvariant, MainInvariant, PTL DEF Spec
=============================================================================
