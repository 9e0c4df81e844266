-------------------------- MODULE DeliveryContract --------------------------
(***************************************************************************)
(* What the event receiver promises a producer and a conversation, said     *)
(* without buckets, timers, handlers or a database.  An event is "new"      *)
(* until the receiver takes it on; a "held" event is either shown to the    *)
(* conversation, once and for good, or handed back to its producer.         *)
(***************************************************************************)
EXTENDS FiniteSets

CONSTANT Events

VARIABLE status

Init == status = [e \in Events |-> "new"]

(* The receiver takes responsibility for an event it is not holding.        *)
Accept(e) ==
    /\ status[e] = "new"
    /\ status' = [status EXCEPT ![e] = "held"]

(* One message shows a batch of held events to the conversation.            *)
Deliver(batch) ==
    /\ batch # {}
    /\ \A e \in batch : status[e] = "held"
    /\ status' = [e \in Events |-> IF e \in batch THEN "done" ELSE status[e]]

(* The receiver gives held events back: their producers may send them       *)
(* again.  It gives back one that failed, or all it has when it stops.      *)
HandBack(batch) ==
    /\ batch # {}
    /\ \A e \in batch : status[e] = "held"
    /\ status' = [e \in Events |-> IF e \in batch THEN "new" ELSE status[e]]

Release(e) == HandBack({e})

Next ==
    \/ \E e \in Events : Accept(e)
    \/ \E batch \in SUBSET Events : Deliver(batch) \/ HandBack(batch)

Spec == Init /\ [][Next]_status

(* What is held is settled: no event stays in the receiver's hands for ever *)
(* while its conversation waits.                                            *)
Settle(e) ==
    \/ Release(e)
    \/ \E batch \in SUBSET Events : e \in batch /\ Deliver(batch)

FairSpec == Spec /\ \A e \in Events : WF_status(Settle(e))

-----------------------------------------------------------------------------
TypeOK == status \in [Events -> {"new", "held", "done"}]

=============================================================================
