---------------------------- MODULE UpdateLedger ----------------------------
(***************************************************************************)
(* What the executor promises about status updates, without its            *)
(* goroutines: an update the agent gets is being recorded, or kept until   *)
(* its acknowledgement is handled, unless its call returned an error; and  *)
(* every subscription offers all that were kept when it was prepared, no   *)
(* more and no fewer.  The acknowledgement of an update may be handled     *)
(* before it is recorded.                                                  *)
(***************************************************************************)

VARIABLES
  reached,  \* updates the agent has received
  open,     \* updates sent and being recorded
  kept,     \* updates recorded and not acknowledged
  offer,    \* the subscription being made, as the set of what it carries, if any
  settled,  \* updates whose acknowledgement was handled
  dropped   \* updates whose call returned an error

ledger == <<reached, open, kept, offer, settled, dropped>>

Init ==
  /\ reached = {} /\ open = {} /\ kept = {}
  /\ offer = {} /\ settled = {} /\ dropped = {}

(* An update u, of whatever kind, reaches the agent; or its call fails. *)
Send ==
  \E u \in reached' :
    /\ reached' = reached \cup {u}
    /\ open' = open \cup {u}
    /\ UNCHANGED <<kept, offer, settled, dropped>>

Drop ==
  \E u \in dropped' :
    /\ dropped' = dropped \cup {u}
    /\ reached' \in {reached, reached \cup {u}}
    /\ UNCHANGED <<open, kept, offer, settled>>

Record(u) ==
  /\ open' = open \ {u}
  /\ kept' = kept \cup {u}
  /\ UNCHANGED <<reached, offer, settled, dropped>>

Settle(u) ==
  /\ kept' = kept \ {u}
  /\ settled' = settled \cup {u}
  /\ UNCHANGED <<reached, open, offer, dropped>>

(* A subscription is prepared; the agent takes it, or it fails. *)
Offer ==
  /\ offer = {}
  /\ offer' = {kept}
  /\ UNCHANGED <<reached, open, kept, settled, dropped>>

Subscribed ==
  \E updates \in offer :
    /\ reached' = reached \cup updates
    /\ offer' = {}
    /\ UNCHANGED <<open, kept, settled, dropped>>

NotSubscribed ==
  /\ offer' = {}
  /\ UNCHANGED <<reached, open, kept, settled, dropped>>

Next ==
  \/ Send \/ Drop
  \/ \E u \in open : Record(u)
  \/ \E u \in reached : Settle(u)
  \/ Offer \/ Subscribed \/ NotSubscribed

Spec == Init /\ [][Next]_ledger
=============================================================================
