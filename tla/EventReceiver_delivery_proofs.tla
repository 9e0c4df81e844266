-------------------- MODULE EventReceiver_delivery_proofs --------------------
(***************************************************************************)
(* What the receiver delivers, for every set of events and handlers.  It    *)
(* keeps its delivery contract through registry faults and crashes as long  *)
(* as the process is not stopped gracefully: disconnect hands back a batch  *)
(* whose flush may still be at work, and that batch can be shown a second   *)
(* time, which is all that can make it so.  While registry calls return it  *)
(* loses nothing silently and keeps routine events in their order.          *)
(***************************************************************************)
EXTENDS EventReceiver_proofs

NeverStopped == MaxStops = 0

(* Who owns an event between its marker and the conversation: exactly one   *)
(* of the handlers, the bucket and the flush, and only a marked event that  *)
(* was not shown.                                                           *)
Buffers(e) == e \in EventsOf(pending) \cup EventsOf(flushLeft)

Ownership ==
    /\ Unrepeated(inbox)
    /\ Members(inbox) \subseteq seen
    /\ EventsOf(pending) \cup EventsOf(flushLeft) \subseteq seen \ Members(inbox)
    /\ Distinct(pending) /\ Distinct(flushLeft)
    /\ EventsOf(pending) \cap EventsOf(flushLeft) = {}
    /\ \A h \in Handlers : pc[h] \in Holding =>
          /\ ev[h] \in seen \ Members(inbox)
          /\ ev[h] \notin EventsOf(pending) \cup EventsOf(flushLeft)
          /\ \A g \in Handlers : pc[g] \in Holding /\ ev[g] = ev[h] => g = h

DInv == Inv /\ Ownership

-----------------------------------------------------------------------------
LEMMA InitDInv == Init => DInv
<1> SUFFICES ASSUME Init PROVE DInv
  OBVIOUS
<1>1. DOMAIN inbox = {} /\ pending = <<>> /\ flushLeft = <<>>
  BY EmptySeq DEF Init
<1>2. Unrepeated(inbox) /\ Members(inbox) = {}
  BY <1>1 DEF Unrepeated, Members
<1>3. EventsOf(pending) = {} /\ EventsOf(flushLeft) = {}
      /\ Distinct(pending) /\ Distinct(flushLeft)
  BY <1>1, EmptyItems
<1>4. Ownership
  BY <1>2, <1>3 DEF Ownership, Init, Holding
<1>5. QED
  BY <1>4, InitInv DEF DInv

(* Nobody takes on an event and nothing is shown: the buffers may pass      *)
(* events to each other and handlers may give theirs up.                    *)
LEMMA OwnersShrink ==
    ASSUME DInv, inbox' = inbox, seen' = seen,
           EventsOf(pending') \cup EventsOf(flushLeft')
               \subseteq EventsOf(pending) \cup EventsOf(flushLeft),
           Distinct(pending'), Distinct(flushLeft'),
           EventsOf(pending') \cap EventsOf(flushLeft') = {},
           \A h \in Handlers :
              pc'[h] \in Holding => pc[h] \in Holding /\ ev'[h] = ev[h]
    PROVE  Ownership'
<1> USE DEF DInv, Ownership
<1>1. /\ Unrepeated(inbox') /\ Members(inbox') \subseteq seen'
      /\ EventsOf(pending') \cup EventsOf(flushLeft') \subseteq seen' \ Members(inbox')
  OBVIOUS
<1>2. ASSUME NEW h \in Handlers, pc'[h] \in Holding
      PROVE  /\ ev'[h] \in seen' \ Members(inbox')
             /\ ev'[h] \notin EventsOf(pending') \cup EventsOf(flushLeft')
             /\ \A g \in Handlers : pc'[g] \in Holding /\ ev'[g] = ev'[h] => g = h
  BY <1>2
<1>3. QED
  BY <1>1, <1>2

(* A handler's step that touches neither the buffers nor the conversation   *)
(* nor the markers, and takes on no event.                                  *)
LEMMA HandlerKeepsOwners ==
    ASSUME DInv, NEW h \in Handlers,
           \/ GetHandle(h) \/ HasSeen(h) \/ AlreadySeen(h) \/ Retire(h)
           \/ RemoveSecretArtifact(h) \/ LogEvent(h) \/ Reply(h)
    PROVE  Ownership'
<1> USE DEF Goto, Decide, RegistryRaises, durable, bucket, flush, Holding
<1>1. /\ UNCHANGED <<phase, inbox, seen, pending, flushLeft>>
      /\ \A g \in Handlers : pc'[g] \in Holding => pc[g] \in Holding /\ ev'[g] = ev[g]
  <2> USE DEF DInv, Inv, TypeOK
  <2>1. CASE GetHandle(h)
    BY <2>1 DEF GetHandle
  <2>2. CASE HasSeen(h)
    BY <2>2 DEF HasSeen
  <2>3. CASE AlreadySeen(h)
    BY <2>3 DEF AlreadySeen
  <2>4. CASE Retire(h)
    BY <2>4 DEF Retire
  <2>5. CASE RemoveSecretArtifact(h)
    BY <2>5 DEF RemoveSecretArtifact
  <2>6. CASE LogEvent(h)
    BY <2>6 DEF LogEvent
  <2>7. CASE Reply(h)
    BY <2>7 DEF Reply
  <2>8. QED
    BY <2>1, <2>2, <2>3, <2>4, <2>5, <2>6, <2>7
<1>2. Distinct(pending) /\ Distinct(flushLeft)
      /\ EventsOf(pending) \cap EventsOf(flushLeft) = {}
  BY DEF DInv, Ownership
<1>3. QED
  BY <1>1, <1>2, OwnersShrink

LEMMA MarkSeenOwners ==
    ASSUME DInv, NEW h \in Handlers, MarkSeen(h)
    PROVE  Ownership'
<1> USE DEF DInv, Inv, TypeOK, Ownership, Holding, Goto, Decide, RegistryRaises,
        MarkSeen, bucket, flush
<1>1. CASE ev[h] \notin seen /\ seen' = seen \cup {ev[h]} /\ Goto(h, "resolve")
  <2>1. /\ pc' = [pc EXCEPT ![h] = "resolve"] /\ ev' = ev
        /\ UNCHANGED <<phase, inbox, pending, flushLeft>>
    BY <1>1
  <2>2. /\ ev[h] \notin Members(inbox)
        /\ ev[h] \notin EventsOf(pending) \cup EventsOf(flushLeft)
        /\ \A g \in Handlers : pc[g] \in Holding => ev[g] # ev[h]
    BY <1>1
  <2>3. QED
    BY <1>1, <2>1, <2>2
<1>2. CASE UNCHANGED seen /\ (Goto(h, "already_seen") \/ RegistryRaises(h))
  BY <1>2, OwnersShrink
<1>3. QED
  BY <1>1, <1>2

(* Showing its event, or the failure to, takes the event from the handler.  *)
LEMMA DispatchOwners ==
    ASSUME DInv, NEW h \in Handlers, DispatchEvent(h)
    PROVE  Ownership'
<1>1. /\ ev[h] \in Events /\ inbox \in Seq(Events) /\ pc[h] = "dispatch"
      /\ ev[h] \in seen \ Members(inbox)
      /\ UNCHANGED <<seen, phase, pending, flushLeft, ev>>
  BY DEF DInv, Inv, Shape, TypeOK, Ownership, Holding, DispatchEvent, Goto,
         Decide, bucket, flush
<1>2. CASE inbox' = Append(inbox, ev[h])
           /\ \E l \in {"retire", "log"} : pc' = [pc EXCEPT ![h] = l]
  <2>1. /\ Members(inbox') = Members(inbox) \cup {ev[h]}
        /\ Unrepeated(inbox')
    BY <1>1, <1>2, ShowOne DEF DInv, Ownership
  <2>2. PICK l \in {"retire", "log"} : pc' = [pc EXCEPT ![h] = l]
    BY <1>2
  <2>3. \A g \in Handlers : pc'[g] \in Holding => pc[g] \in Holding /\ g # h
    BY <2>2 DEF Holding, DInv, Inv, TypeOK
  <2>4. QED
    BY <1>1, <2>1, <2>3 DEF DInv, Ownership, Holding
<1>3. CASE Goto(h, "forget") /\ UNCHANGED inbox
  BY <1>1, <1>3, OwnersShrink DEF Goto, Holding, DInv, Inv, TypeOK, Ownership
<1>4. QED
  BY <1>2, <1>3 DEF DispatchEvent, Decide

LEMMA ForgetOwners ==
    ASSUME DInv, NEW h \in Handlers, ForgetSeen(h)
    PROVE  Ownership'
<1> USE DEF DInv, Inv, TypeOK, Ownership, Holding, Goto, Decide, RegistryRaises,
        ForgetSeen, bucket, flush
<1>1. CASE seen' = seen \ {ev[h]} /\ Decide(h, "log", "error")
  <2>1. /\ pc' = [pc EXCEPT ![h] = "log"] /\ ev' = ev
        /\ UNCHANGED <<phase, inbox, pending, flushLeft>>
    BY <1>1
  <2>2. /\ ev[h] \notin Members(inbox)
        /\ ev[h] \notin EventsOf(pending) \cup EventsOf(flushLeft)
        /\ \A g \in Handlers : pc[g] \in Holding /\ g # h => ev[g] # ev[h]
    OBVIOUS
  <2>3. QED
    BY <1>1, <2>1, <2>2
<1>2. CASE RegistryRaises(h) /\ UNCHANGED seen
  BY <1>2, OwnersShrink
<1>3. QED
  BY <1>1, <1>2

(* Popping the bucket hands its events to the flush.                        *)
LEMMA PoppingOwners ==
    ASSUME DInv, UNCHANGED <<phase, inbox, seen>>,
           \/ \E task : ~FlushBlocked /\ BeginFlush(task)
           \/ LeaveTimer,
           \A h \in Handlers :
              pc'[h] \in Holding => pc[h] \in Holding /\ ev'[h] = ev[h]
    PROVE  Ownership'
<1>1. CASE LeaveTimer
  BY <1>1, OwnersShrink DEF LeaveTimer, flush, DInv, Ownership
<1>2. CASE \E task : ~FlushBlocked /\ BeginFlush(task)
  <2>1. pending' = <<>> /\ flushLeft' = pending
    BY <1>2 DEF BeginFlush
  <2>2. EventsOf(pending') = {} /\ Distinct(pending')
    BY <2>1, EmptyItems
  <2>3. EventsOf(flushLeft') = EventsOf(pending) /\ Distinct(flushLeft')
    BY <2>1 DEF DInv, Ownership
  <2>4. QED
    BY <2>2, <2>3, OwnersShrink
<1>3. QED
  BY <1>1, <1>2

LEMMA ResolveOwners ==
    ASSUME DInv, NEW h \in Handlers, ResolveIngressPayload(h)
    PROVE  Ownership'
<1>1. /\ pc[h] = "resolve" /\ UNCHANGED <<seen, phase, inbox>>
      /\ ev[h] \in Events /\ pending \in Seq(Item)
  BY DEF ResolveIngressPayload, durable, DInv, Inv, Shape, TypeOK
<1>2. CASE PriorityFlush(h)
  <2>1. ev' = ev /\ \E l \in {"flush", "dispatch"} : pc' = [pc EXCEPT ![h] = l]
    BY <1>2 DEF PriorityFlush, Goto
  <2>2. \A g \in Handlers : pc'[g] \in Holding => pc[g] \in Holding /\ ev'[g] = ev[g]
    BY <1>1, <2>1 DEF Holding, DInv, Inv, TypeOK
  <2>3. LeaveTimer \/ (~FlushBlocked /\ BeginFlush(h))
    BY <1>2 DEF PriorityFlush
  <2>4. QED
    BY <1>1, <2>2, <2>3, PoppingOwners
<1>3. CASE QueueCoalescedEvent(h)
  <2>1. /\ pending' = Append(pending, [ev |-> ev[h], attempts |-> 0])
        /\ pc' = [pc EXCEPT ![h] = "log"] /\ UNCHANGED <<ev, flushLeft>>
    BY <1>3 DEF QueueCoalescedEvent, Decide, flush
  <2>2. ev[h] \in seen \ Members(inbox)
        /\ ev[h] \notin EventsOf(pending) \cup EventsOf(flushLeft)
    BY <1>1 DEF DInv, Ownership, Holding
  <2>3. EventsOf(pending') = EventsOf(pending) \cup {ev[h]} /\ Distinct(pending')
    BY <1>1, <2>1, <2>2, AppendItem DEF DInv, Ownership
  <2>4. \A g \in Handlers : pc'[g] \in Holding => pc[g] \in Holding /\ g # h
    BY <2>1 DEF Holding, DInv, Inv, TypeOK
  <2>5. QED
    BY <1>1, <2>1, <2>2, <2>3, <2>4 DEF DInv, Ownership, Holding
<1>4. CASE (Goto(h, "dispatch") \/ RegistryRaises(h))
           /\ UNCHANGED <<bucket, flush, arrivals>>
  <2>1. ev' = ev /\ \E l \in {"reply", "dispatch"} : pc' = [pc EXCEPT ![h] = l]
    BY <1>4 DEF RegistryRaises, Goto, Decide
  <2>2. \A g \in Handlers : pc'[g] \in Holding => pc[g] \in Holding /\ ev'[g] = ev[g]
    BY <1>1, <2>1 DEF Holding, DInv, Inv, TypeOK
  <2>3. QED
    BY <1>1, <1>4, <2>2, OwnersShrink DEF bucket, flush, DInv, Ownership
<1>5. QED
  BY <1>2, <1>3, <1>4 DEF ResolveIngressPayload

LEMMA TimerOwners ==
    ASSUME DInv, TimerFires
    PROVE  Ownership'
<1>1. UNCHANGED <<phase, inbox, seen, pc, ev>>
      /\ (LeaveTimer \/ (~FlushBlocked /\ BeginFlush(TimerTask)))
  BY DEF TimerFires, durable, handlers
<1>2. QED
  BY <1>1, PoppingOwners

(* A flush that ends without showing anything hands its handler on.         *)
LEMMA FlushEndsOwners ==
    ASSUME DInv, flushAt # "none", FlushReturns \/ FlushRaises,
           UNCHANGED <<phase, inbox, seen>>,
           EventsOf(pending') \subseteq EventsOf(pending) \cup EventsOf(flushLeft),
           Distinct(pending')
    PROVE  Ownership'
<1>1. /\ flushLeft' = <<>>
      /\ \A h \in Handlers : pc'[h] \in Holding => pc[h] \in Holding /\ ev'[h] = ev[h]
  BY FlushEnds DEF DInv
<1>2. EventsOf(flushLeft') = {} /\ Distinct(flushLeft')
  BY <1>1, EmptyItems
<1>3. QED
  BY <1>1, <1>2, OwnersShrink

(* The digest is shown: its events leave the flush for the conversation.    *)
LEMMA FlushDispatchOwners ==
    ASSUME DInv, FlushDispatch
    PROVE  Ownership'
<1>1. /\ inbox \in Seq(Events) /\ flushLeft \in Seq(Item)
      /\ UNCHANGED <<phase, seen, pending, pc, ev>>
  BY DEF DInv, Inv, TypeOK, FlushDispatch, bucket, handlers
<1>2. CASE inbox' = inbox \o InOrder(flushLeft) /\ flushLeft' = <<>>
  <2>1. EventsOf(flushLeft') = {} /\ Distinct(flushLeft')
    BY <1>2, EmptyItems
  <2>2. /\ Members(inbox') = Members(inbox) \cup EventsOf(flushLeft)
        /\ Unrepeated(inbox')
    BY <1>1, <1>2, ShowBatch DEF DInv, Ownership
  <2>3. QED
    BY <1>1, <2>1, <2>2 DEF DInv, Ownership
<1>3. CASE UNCHANGED <<inbox, flushLeft>>
  BY <1>1, <1>3, OwnersShrink DEF DInv, Ownership
<1>4. QED
  BY <1>2, <1>3 DEF FlushDispatch

LEMMA FlushForgetOwners ==
    ASSUME DInv, FlushForget
    PROVE  Ownership'
<1> DEFINE e == Head(flushLeft).ev
<1>1. /\ flushLeft \in Seq(Item) /\ flushLeft # <<>> /\ flushAt = "forget"
      /\ UNCHANGED <<phase, inbox, pending>>
  BY DEF DInv, Inv, Shape, TypeOK, Flushing, FlushForget
<1>2. /\ e \in EventsOf(flushLeft)
      /\ EventsOf(Tail(flushLeft)) \subseteq EventsOf(flushLeft) \ {e}
      /\ Distinct(Tail(flushLeft))
  BY <1>1, TailItems DEF DInv, Ownership
<1>3. CASE seen' = seen \ {e} /\ FlushReturns
  <2>1. flushLeft' = <<>>
    BY <1>3 DEF FlushReturns
  <2>2. EventsOf(flushLeft') = {} /\ Distinct(flushLeft')
    BY <2>1, EmptyItems
  <2>3. \A h \in Handlers : pc'[h] \in Holding => pc[h] \in Holding /\ ev'[h] = ev[h]
    BY <1>1, <1>3, FlushEnds DEF DInv
  <2>4. QED
    BY <1>1, <1>2, <1>3, <2>2, <2>3 DEF DInv, Ownership
<1>4. CASE seen' = seen \ {e} /\ flushLeft' = Tail(flushLeft) /\ UNCHANGED handlers
  BY <1>1, <1>2, <1>4 DEF DInv, Ownership, handlers
<1>5. CASE UNCHANGED seen /\ FlushRaises
  BY <1>1, <1>5, FlushEndsOwners DEF DInv, Ownership
<1>6. QED
  BY <1>3, <1>4, <1>5 DEF FlushForget

LEMMA FlushOwners ==
    ASSUME DInv, FlushStep
    PROVE  Ownership'
<1>1. CASE FlushResolve
  <2>1. flushAt = "resolve" /\ UNCHANGED <<phase, inbox, seen, pending>>
    BY <1>1 DEF FlushResolve, durable, bucket
  <2>2. CASE UNCHANGED <<flushLeft, handlers>>
    BY <2>1, <2>2, OwnersShrink DEF DInv, Ownership, handlers
  <2>3. CASE FlushRaises
    BY <2>1, <2>3, FlushEndsOwners DEF DInv, Ownership
  <2>4. QED
    BY <1>1, <2>2, <2>3 DEF FlushResolve
<1>2. CASE FlushLog
  <2>1. /\ flushAt = "log" /\ UNCHANGED <<phase, inbox, seen, pending>>
        /\ FlushReturns \/ FlushRaises
    BY <1>2 DEF FlushLog, durable
  <2>2. QED
    BY <2>1, FlushEndsOwners DEF DInv, Ownership
<1>3. CASE FlushLogFailed
  <2>1. flushAt = "log_failed" /\ UNCHANGED <<phase, inbox, seen>>
        /\ pending \in Seq(Item) /\ flushLeft \in Seq(Item)
    BY <1>3 DEF FlushLogFailed, durable, DInv, Inv, TypeOK
  <2>2. CASE UNCHANGED <<bucket, flushLeft, handlers>>
    BY <2>1, <2>2, OwnersShrink DEF DInv, Ownership, handlers, bucket
  <2>3. ASSUME ~GivesUp(flushLeft),
               NEW n \in {flushLeft[i].attempts + 1 : i \in DOMAIN flushLeft},
               pending' = Requeued(flushLeft, pending, n), FlushReturns
        PROVE  Ownership'
    <3>1. n \in 0..MaxAttempts
      BY <2>1, <2>3, ItemsOf, ReceiverAssumption DEF GivesUp
    <3>2. /\ EventsOf(pending') = EventsOf(flushLeft) \cup EventsOf(pending)
          /\ Distinct(pending')
      BY <2>1, <2>3, <3>1, RequeuedItems DEF DInv, Ownership
    <3>3. QED
      BY <2>1, <2>3, <3>2, FlushEndsOwners
  <2>4. CASE FlushRaises /\ UNCHANGED pending
    BY <2>1, <2>4, FlushEndsOwners DEF DInv, Ownership
  <2>5. QED
    BY <1>3, <2>2, <2>3, <2>4 DEF FlushLogFailed
<1>4. QED
  BY <1>1, <1>2, <1>3, FlushDispatchOwners, FlushForgetOwners DEF FlushStep

(* A new process starts with empty buffers and idle handlers.               *)
LEMMA CrashOwners ==
    ASSUME DInv, Crash \/ Connect
    PROVE  Ownership'
<1>1. /\ pending' = <<>> /\ flushLeft' = <<>>
      /\ UNCHANGED <<inbox, seen>>
      /\ \A h \in Handlers : pc'[h] = "idle"
  BY DEF Crash, Connect, FreshAdapter, durable
<1>2. /\ EventsOf(pending') = {} /\ EventsOf(flushLeft') = {}
      /\ Distinct(pending') /\ Distinct(flushLeft')
  BY <1>1, EmptyItems
<1>3. QED
  BY <1>1, <1>2 DEF DInv, Ownership, Holding

(* A cancelled handler drops its event, and the batch whose flush it awaits.*)
LEMMA CancelOwners ==
    ASSUME DInv, NEW h \in Handlers, CancelHandler(h)
    PROVE  Ownership'
<1>1. /\ UNCHANGED <<inbox, seen, pending>>
      /\ \A g \in Handlers : pc'[g] \in Holding => pc[g] \in Holding /\ ev'[g] = ev[g]
      /\ flushLeft' = flushLeft \/ flushLeft' = <<>>
  BY DEF CancelHandler, durable, flush, Holding, DInv, Inv, TypeOK
<1>2. CASE flushLeft' = flushLeft
  BY <1>1, <1>2, OwnersShrink DEF DInv, Ownership
<1>3. CASE flushLeft' = <<>>
  <2>1. EventsOf(flushLeft') = {} /\ Distinct(flushLeft')
    BY <1>3, EmptyItems
  <2>2. QED
    BY <1>1, <2>1, OwnersShrink DEF DInv, Ownership
<1>4. QED
  BY <1>1, <1>2, <1>3

(* Only the end of a disconnect breaks it: it hands back what a flush of    *)
(* the timer's task may still show.                                         *)
LEMMA OwnershipStep ==
    ASSUME DInv, [Next]_vars, ~FinishDisconnect
    PROVE  Ownership'
<1>1. ASSUME NEW h \in Handlers, NEW e \in Events, Send(h, e)
      PROVE  Ownership'
  <2>1. /\ UNCHANGED <<phase, inbox, seen, pending, flushLeft>>
        /\ \A g \in Handlers : pc'[g] \in Holding => pc[g] \in Holding /\ ev'[g] = ev[g]
    BY <1>1 DEF Send, durable, bucket, flush, Holding, DInv, Inv, TypeOK
  <2>2. QED
    BY <2>1, OwnersShrink DEF DInv, Ownership
<1>2. ASSUME NEW h \in Handlers, HandlerStep(h)
      PROVE  Ownership'
  BY <1>2, HandlerKeepsOwners, MarkSeenOwners, ResolveOwners, DispatchOwners,
     ForgetOwners DEF HandlerStep
<1>3. CASE UNCHANGED vars \/ BeginDisconnect
  BY <1>3, OwnersShrink DEF vars, BeginDisconnect, durable, bucket, flush, handlers,
                            DInv, Ownership
<1>4. QED
  BY <1>1, <1>2, <1>3, FlushOwners, TimerOwners, CrashOwners, CancelOwners DEF Next

(* A disconnect that finds no batch in flight hands back what nobody shows  *)
(* any more.                                                                *)
LEMMA CleanFinishHandsBack ==
    ASSUME DInv, FinishDisconnect, inflight = <<>>
    PROVE  /\ \E batch : batch \subseteq EventsOf(pending) /\ seen' = seen \ batch
           /\ flushLeft' = <<>> /\ pending' = <<>> /\ inbox' = inbox
           /\ \A h \in Handlers : pc'[h] = "idle"
<1>1. /\ phase = "stopping" /\ pending \in Seq(Item) /\ flushAt = "none"
      /\ flushLeft = <<>> /\ flushLeft' = <<>> /\ pending' = <<>> /\ inbox' = inbox
      /\ \A h \in Handlers : pc'[h] = "idle"
  BY DEF FinishDisconnect, flush, handlers, DInv, Inv, TypeOK, Shape, SingleFlight, Flushing
<1> DEFINE buffered == pending \o inflight
<1>2. PICK n \in 0..Len(buffered) : seen' = seen \ EventsOf(SubSeq(buffered, 1, n))
  BY DEF FinishDisconnect
<1>3. buffered = pending
  BY <1>1
<1>4. EventsOf(SubSeq(pending, 1, n)) \subseteq EventsOf(pending)
  <2>1. n \in 0..Len(pending) /\ DOMAIN pending = 1..Len(pending) /\ Len(pending) \in Nat
    BY <1>1, <1>2, <1>3, LenProperties
  <2>2. \A i \in DOMAIN SubSeq(pending, 1, n) :
           i \in DOMAIN pending /\ SubSeq(pending, 1, n)[i] = pending[i]
    BY <1>1, <2>1
  <2>3. QED
    BY <2>2 DEF EventsOf
<1>5. QED
  BY <1>1, <1>2, <1>3, <1>4

LEMMA CleanFinish ==
    ASSUME DInv, FinishDisconnect, inflight = <<>>
    PROVE  Ownership'
<1>1. Members(inbox) \subseteq seen'
  BY CleanFinishHandsBack DEF DInv, Ownership
<1>2. QED
  BY <1>1, CleanFinishHandsBack, EmptyItems DEF Ownership, Holding, DInv

(* No disconnect ends while a batch is in flight.                           *)
CleanStops == [][FinishDisconnect => inflight = <<>>]_vars

LEMMA DInvAlways == Spec /\ CleanStops => []DInv
<1>1. Init => DInv
  BY InitDInv
<1>2. DInv /\ [Next]_vars /\ [FinishDisconnect => inflight = <<>>]_vars => DInv'
  <2> SUFFICES ASSUME DInv, [Next]_vars, [FinishDisconnect => inflight = <<>>]_vars
      PROVE  DInv'
    OBVIOUS
  <2>1. CASE FinishDisconnect /\ inflight = <<>>
    BY <2>1, InvStep, CleanFinish DEF DInv
  <2>2. CASE ~FinishDisconnect
    BY <2>2, InvStep, OwnershipStep DEF DInv
  <2>3. FinishDisconnect => ~UNCHANGED vars
    BY DEF FinishDisconnect, vars
  <2>4. QED
    BY <2>1, <2>2, <2>3
<1>3. QED
  BY <1>1, <1>2, PTL DEF Spec, CleanStops

(* However often the process is stopped and started, with faults and        *)
(* crashes between, nothing is shown twice unless a disconnect ends while a *)
(* flush has its batch in flight.                                           *)
THEOREM OnlyAStoppedFlushRepeats == Spec /\ CleanStops => []AtMostOnce
<1>1. DInv => AtMostOnce
  BY DEF DInv, Ownership, Unrepeated, AtMostOnce
<1>2. QED
  BY <1>1, DInvAlways, PTL

(* A process that nobody stops is up, and there is no disconnect to end.    *)
UpInv == Inv /\ phase = "up"

LEMMA UpInvAlways ==
    ASSUME NeverStopped
    PROVE  Spec => []UpInv
<1>1. Init => UpInv
  BY InitInv DEF Init, UpInv
<1>2. ASSUME UpInv, [Next]_vars
      PROVE  UpInv'
  <2>1. ~BeginDisconnect
    BY <1>2, NeverStopped, ReceiverAssumption
       DEF NeverStopped, BeginDisconnect, UpInv, Inv, TypeOK
  <2>2. ~FinishDisconnect
    BY <1>2 DEF FinishDisconnect, UpInv
  <2>3. phase' = "up"
    <3>1. ASSUME NEW h \in Handlers, HandlerStep(h) PROVE phase' = phase
      BY <3>1 DEF HandlerStep, GetHandle, HasSeen, MarkSeen, AlreadySeen,
                  ResolveIngressPayload, DispatchEvent, ForgetSeen, Retire,
                  RemoveSecretArtifact, LogEvent, Reply
    <3>2. CASE FlushStep
      BY <1>2, <3>2 DEF UpInv, FlushStep, FlushResolve, FlushDispatch, FlushLog, FlushLogFailed,
                  FlushForget
    <3>3. CASE TimerFires \/ UNCHANGED vars
               \/ \E h \in Handlers : CancelHandler(h) \/ \E e \in Events : Send(h, e)
      BY <1>2, <3>3 DEF UpInv, TimerFires, CancelHandler, Send, vars
    <3>4. CASE Crash \/ Connect
      BY <3>4 DEF Crash, Connect, FreshAdapter
    <3>5. QED
      BY <1>2, <2>1, <2>2, <3>1, <3>2, <3>3, <3>4 DEF Next, UpInv
  <2>4. QED
    BY <1>2, <2>3, InvStep DEF UpInv
<1>3. QED
  BY <1>1, <1>2, PTL DEF Spec

LEMMA NeverStoppedIsClean ==
    ASSUME NeverStopped
    PROVE  Spec => CleanStops
<1>1. UpInv => ~FinishDisconnect
  BY DEF UpInv, FinishDisconnect
<1>2. UpInv /\ [Next]_vars => [FinishDisconnect => inflight = <<>>]_vars
  BY <1>1
<1>3. QED
  BY <1>2, UpInvAlways, PTL DEF Spec, CleanStops

(* No event is shown to the conversation twice, however its producer        *)
(* repeats it, however often digests fail and are re-queued, with registry  *)
(* faults and crashes at any await.                                         *)
THEOREM ShownAtMostOnce ==
    ASSUME NeverStopped
    PROVE  Spec => []AtMostOnce
BY NeverStoppedIsClean, OnlyAStoppedFlushRepeats, PTL

-----------------------------------------------------------------------------
(* Refinement.  Seen and shown decide an event's status in the contract.    *)

LEMMA StatusFromMarks ==
    ASSUME DInv, NEW e \in Events
    PROVE  /\ e \notin seen <=> StatusOf(e) = "new"
           /\ e \in seen \ Members(inbox) <=> StatusOf(e) = "held"
           /\ e \in Members(inbox) <=> StatusOf(e) = "done"
<1>1. Shown = Members(inbox) /\ Members(inbox) \subseteq seen
  BY DEF Shown, Members, DInv, Ownership
<1>2. CASE e \in Members(inbox)
  <2>1. PICK i \in DOMAIN inbox : inbox[i] = e
    BY <1>2 DEF Members
  <2>2. \A j \in DOMAIN inbox : inbox[j] = e <=> j = i
    BY <2>1 DEF DInv, Ownership, Unrepeated
  <2>3. ShownOnce(e)
    BY <2>1, <2>2 DEF ShownOnce
  <2>4. StatusOf(e) = "done"
    BY <1>1, <1>2, <2>3 DEF StatusOf
  <2>5. QED
    BY <1>1, <1>2, <2>4
<1>3. CASE e \in seen \ Members(inbox)
  <2>1. e \notin Shown /\ e \in seen
    BY <1>1, <1>3
  <2>2. ~ShownOnce(e)
    BY <2>1 DEF ShownOnce, Shown
  <2>3. StatusOf(e) = "held"
    BY <2>1, <2>2 DEF StatusOf
  <2>4. QED
    BY <1>1, <1>3, <2>3
<1>4. CASE e \notin seen
  <2>1. e \notin Shown
    BY <1>1, <1>4
  <2>2. StatusOf(e) = "new"
    BY <1>4, <2>1 DEF StatusOf
  <2>3. QED
    BY <1>1, <1>4, <2>2
<1>5. QED
  BY <1>2, <1>3, <1>4

(* What a step may do to the marks: nothing, mark one event, show a batch   *)
(* of marked ones, or clear the markers of some that were not shown.        *)
Untouched == UNCHANGED <<seen, inbox>>

Marks(e) == e \notin seen /\ seen' = seen \cup {e} /\ inbox' = inbox

Shows(batch) ==
    /\ batch # {} /\ batch \subseteq seen \ Members(inbox)
    /\ seen' = seen /\ Members(inbox') = Members(inbox) \cup batch

Clears(batch) ==
    /\ batch # {} /\ batch \subseteq seen \ Members(inbox)
    /\ seen' = seen \ batch /\ inbox' = inbox

LEMMA HandlerTouches ==
    ASSUME DInv, NEW h \in Handlers, HandlerStep(h)
    PROVE  \/ Untouched
           \/ \E e \in Events : Marks(e)
           \/ \E batch \in SUBSET Events : Shows(batch) \/ Clears(batch)
<1>1. CASE MarkSeen(h)
  <2>1. ev[h] \in Events
    BY <1>1 DEF MarkSeen, DInv, Inv, Shape
  <2>2. QED
    BY <1>1, <2>1 DEF MarkSeen, Marks, Untouched
<1>2. CASE DispatchEvent(h)
  <2>1. ev[h] \in Events /\ inbox \in Seq(Events)
        /\ ev[h] \in seen \ Members(inbox) /\ UNCHANGED seen
    BY <1>2 DEF DispatchEvent, DInv, Inv, Shape, TypeOK, Ownership, Holding
  <2>2. CASE inbox' = Append(inbox, ev[h])
    <3>1. Shows({ev[h]})
      BY <2>1, <2>2, ShowOne DEF Shows
    <3>2. QED
      BY <2>1, <3>1
  <2>3. QED
    BY <1>2, <2>1, <2>2 DEF DispatchEvent, Untouched
<1>3. CASE ForgetSeen(h)
  <2>1. ev[h] \in Events /\ ev[h] \in seen \ Members(inbox) /\ UNCHANGED inbox
    BY <1>3 DEF ForgetSeen, DInv, Inv, Shape, Ownership, Holding
  <2>2. {ev[h]} \in SUBSET Events
    BY <2>1
  <2>3. Untouched \/ Clears({ev[h]})
    BY <1>3, <2>1 DEF ForgetSeen, Clears, Untouched
  <2>4. QED
    BY <2>2, <2>3
<1>4. CASE ~(MarkSeen(h) \/ DispatchEvent(h) \/ ForgetSeen(h))
  BY <1>4 DEF HandlerStep, GetHandle, HasSeen, AlreadySeen, ResolveIngressPayload,
              Retire, RemoveSecretArtifact, LogEvent, Reply, durable, Untouched
<1>5. QED
  BY <1>1, <1>2, <1>3, <1>4

LEMMA FlushTouches ==
    ASSUME DInv, FlushStep
    PROVE  \/ Untouched
           \/ \E batch \in SUBSET Events : Shows(batch) \/ Clears(batch)
<1>1. CASE FlushDispatch
  <2>1. /\ inbox \in Seq(Events) /\ flushLeft \in Seq(Item) /\ flushLeft # <<>>
        /\ EventsOf(flushLeft) \subseteq seen \ Members(inbox) /\ UNCHANGED seen
    BY <1>1 DEF FlushDispatch, DInv, Inv, Shape, TypeOK, Flushing, Ownership
  <2>2. EventsOf(flushLeft) \in SUBSET Events /\ EventsOf(flushLeft) # {}
    BY <2>1, ItemsOf, TailItems
  <2>3. CASE inbox' = inbox \o InOrder(flushLeft)
    <3>1. Shows(EventsOf(flushLeft))
      BY <2>1, <2>2, <2>3, ShowBatch DEF Shows
    <3>2. QED
      BY <2>2, <3>1
  <2>4. QED
    BY <1>1, <2>1, <2>3 DEF FlushDispatch, Untouched
<1>2. CASE FlushForget
  <2>1. /\ flushLeft \in Seq(Item) /\ flushLeft # <<>> /\ UNCHANGED inbox
        /\ EventsOf(flushLeft) \subseteq seen \ Members(inbox)
    BY <1>2 DEF FlushForget, DInv, Inv, Shape, TypeOK, Flushing, Ownership
  <2>2. Head(flushLeft).ev \in EventsOf(flushLeft) /\ Head(flushLeft).ev \in Events
    BY <2>1, ItemsOf, TailItems
  <2>3. Untouched \/ Clears({Head(flushLeft).ev})
    BY <1>2, <2>1, <2>2 DEF FlushForget, Clears, Untouched
  <2>4. {Head(flushLeft).ev} \in SUBSET Events
    BY <2>2
  <2>5. QED
    BY <2>3, <2>4
<1>3. CASE FlushResolve \/ FlushLog \/ FlushLogFailed
  BY <1>3 DEF FlushResolve, FlushLog, FlushLogFailed, durable, Untouched
<1>4. QED
  BY <1>1, <1>2, <1>3 DEF FlushStep

LEMMA StepTouches ==
    ASSUME DInv, [Next]_vars, FinishDisconnect => inflight = <<>>
    PROVE  \/ Untouched
           \/ \E e \in Events : Marks(e)
           \/ \E batch \in SUBSET Events : Shows(batch) \/ Clears(batch)
<1>1. CASE FinishDisconnect
  <2>1. PICK batch : batch \subseteq EventsOf(pending) /\ seen' = seen \ batch
    BY <1>1, CleanFinishHandsBack
  <2>2. inbox' = inbox /\ batch \subseteq Events /\ batch \subseteq seen \ Members(inbox)
    BY <1>1, <2>1, CleanFinishHandsBack, ItemsOf DEF DInv, Inv, TypeOK, Ownership
  <2>3. CASE batch = {}
    BY <2>1, <2>2, <2>3 DEF Untouched
  <2>4. CASE batch # {}
    BY <2>1, <2>2, <2>4 DEF Clears
  <2>5. QED
    BY <2>3, <2>4
<1>2. CASE TimerFires \/ Crash \/ Connect \/ BeginDisconnect \/ UNCHANGED vars
           \/ \E h \in Handlers : CancelHandler(h) \/ \E e \in Events : Send(h, e)
  BY <1>2 DEF TimerFires, Crash, Connect, FreshAdapter, BeginDisconnect,
              CancelHandler, Send, vars, durable, Untouched
<1>3. QED
  BY <1>1, <1>2, HandlerTouches, FlushTouches DEF Next

MarksDecide ==
    \A e \in Events :
       /\ e \notin seen <=> StatusOf(e) = "new"
       /\ e \in seen \ Members(inbox) <=> StatusOf(e) = "held"
       /\ e \in Members(inbox) <=> StatusOf(e) = "done"
       /\ e \in Members(inbox) => e \in seen

LEMMA DInvDecides == DInv => MarksDecide
BY StatusFromMarks DEF DInv, Ownership, MarksDecide

LEMMA ContractStep ==
    ASSUME DInv, DInv', [Next]_vars, FinishDisconnect => inflight = <<>>
    PROVE  [Contract!Next]_[e \in Events |-> StatusOf(e)]
<1> DEFINE S == [e \in Events |-> StatusOf(e)]
<1>1. MarksDecide /\ MarksDecide'
  BY DInvDecides, PTL
<1>2. /\ \A e \in Events : S[e] = StatusOf(e) /\ S'[e] = StatusOf(e)'
      /\ \A e \in Events : S[e] \in {"new", "held", "done"}
      /\ \A e \in Events : S'[e] \in {"new", "held", "done"}
      /\ DOMAIN S = Events /\ DOMAIN S' = Events
  BY <1>1 DEF MarksDecide
<1>3. CASE Untouched
  <2>1. \A e \in Events : S'[e] = S[e]
    BY <1>1, <1>2, <1>3 DEF MarksDecide, Untouched
  <2>2. S' = S
    BY <1>2, <2>1
  <2>3. QED
    BY <2>2
<1>4. ASSUME NEW e \in Events, Marks(e)
      PROVE  Contract!Accept(e)
  <2>1. S[e] = "new" /\ S'[e] = "held"
    BY <1>1, <1>2, <1>4 DEF MarksDecide, Marks
  <2>2. \A f \in Events : f # e => S'[f] = S[f]
    BY <1>1, <1>2, <1>4 DEF MarksDecide, Marks
  <2>3. S' = [S EXCEPT ![e] = "held"]
    BY <1>2, <2>1, <2>2
  <2>4. QED
    BY <2>1, <2>3 DEF Contract!Accept
<1>5. ASSUME NEW batch \in SUBSET Events, Clears(batch)
      PROVE  Contract!HandBack(batch)
  <2>1. \A e \in batch : S[e] = "held" /\ S'[e] = "new"
    BY <1>1, <1>2, <1>5 DEF MarksDecide, Clears
  <2>2. \A f \in Events : f \notin batch => S'[f] = S[f]
    BY <1>1, <1>2, <1>5 DEF MarksDecide, Clears
  <2>3. S' = [e \in Events |-> IF e \in batch THEN "new" ELSE S[e]]
    BY <1>2, <2>1, <2>2
  <2>4. batch # {}
    BY <1>5 DEF Clears
  <2>5. QED
    BY <2>1, <2>3, <2>4 DEF Contract!HandBack
<1>6. ASSUME NEW batch \in SUBSET Events, Shows(batch)
      PROVE  Contract!Deliver(batch)
  <2>1. \A e \in batch : S[e] = "held" /\ S'[e] = "done"
    BY <1>1, <1>2, <1>6 DEF MarksDecide, Shows
  <2>2. \A f \in Events : f \notin batch => S'[f] = S[f]
    BY <1>1, <1>2, <1>6 DEF MarksDecide, Shows
  <2>3. S' = [e \in Events |-> IF e \in batch THEN "done" ELSE S[e]]
    BY <1>2, <2>1, <2>2
  <2>4. batch # {}
    BY <1>6 DEF Shows
  <2>5. QED
    BY <2>1, <2>3, <2>4 DEF Contract!Deliver
<1>7. QED
  BY <1>3, <1>4, <1>5, <1>6, StepTouches DEF Contract!Next

(* The receiver implements its delivery contract, as long as no disconnect  *)
(* ends with a batch in flight: an event is taken on once, and then either  *)
(* shown exactly once and never again taken on, or handed back unshown,     *)
(* through faults, retries, re-queues, crashes, stops and starts.           *)
THEOREM ReceiverImplementsContract == Spec /\ CleanStops => ImplementsContract
<1>1. Init => Contract!Init
  <2> SUFFICES ASSUME Init PROVE Contract!Init
    OBVIOUS
  <2>1. MarksDecide /\ seen = {}
    BY InitDInv, DInvDecides DEF Init
  <2>2. \A e \in Events : StatusOf(e) = "new"
    BY <2>1 DEF MarksDecide
  <2>3. QED
    BY <2>2 DEF Contract!Init
<1>2. DInv /\ DInv' /\ [Next]_vars /\ [FinishDisconnect => inflight = <<>>]_vars
        => [Contract!Next]_[e \in Events |-> StatusOf(e)]
  <2>1. FinishDisconnect => ~UNCHANGED vars
    BY DEF FinishDisconnect, vars
  <2>2. QED
    BY <2>1, ContractStep
<1>3. QED
  BY <1>1, <1>2, DInvAlways, PTL DEF Spec, CleanStops, ImplementsContract, Contract!Spec

(* A process that nobody stops keeps the contract.                          *)
THEOREM ContractWithoutStops ==
    ASSUME NeverStopped
    PROVE  Spec => ImplementsContract
BY NeverStoppedIsClean, ReceiverImplementsContract, PTL

-----------------------------------------------------------------------------
(* Nothing is lost silently.  Every step hands the events it takes from one *)
(* carrier to another, to the conversation, or back to their producer, as   *)
(* long as registry calls return and nothing is torn down at an await; the  *)
(* adapter may be stopped and started any number of times.                  *)
Answering == DbFaults = FALSE /\ GraceExpires = FALSE /\ MaxCrashes = 0

InCare ==
    {ev[h] : h \in {g \in Handlers : pc[g] \in Holding}}
        \cup EventsOf(pending) \cup EventsOf(flushLeft)

Cared ==
    /\ seen \subseteq Shown \cup InCare
    /\ phase # "down" => EventsOf(flushLeft) \subseteq EventsOf(inflight)
    /\ phase = "down" => seen \subseteq Shown

LEMMA CaredIsNoLoss == Cared => NoSilentLoss
BY DEF Cared, InCare, NoSilentLoss, Carried, Holds, Holding

LEMMA ConcatEvents ==
    ASSUME NEW s \in Seq(Item), NEW t \in Seq(Item)
    PROVE  EventsOf(SubSeq(s \o t, 1, Len(s \o t))) = EventsOf(s) \cup EventsOf(t)
<1> DEFINE all == s \o t
<1>1. /\ all \in Seq(Item) /\ Len(all) = Len(s) + Len(t)
      /\ \A i \in 1 .. Len(s) + Len(t) :
            all[i] = IF i <= Len(s) THEN s[i] ELSE t[i - Len(s)]
  BY ConcatItems
<1> HIDE DEF all
<1>2. /\ DOMAIN s = 1..Len(s) /\ DOMAIN t = 1..Len(t)
      /\ DOMAIN all = 1..(Len(s) + Len(t))
      /\ Len(s) \in Nat /\ Len(t) \in Nat
  BY <1>1, ItemsOf
<1>3. SubSeq(all, 1, Len(all)) = all
  BY <1>1, ItemsOf
<1>4. \A i \in 1..Len(s) : i \in DOMAIN all /\ all[i].ev = s[i].ev
  BY <1>1, <1>2
<1>5. ASSUME NEW i \in 1..Len(t)
      PROVE  Len(s) + i \in DOMAIN all /\ all[Len(s) + i].ev = t[i].ev
  <2>1. Len(s) + i \in 1 .. Len(s) + Len(t) /\ ~(Len(s) + i <= Len(s))
        /\ Len(s) + i - Len(s) = i
    BY <1>2
  <2>2. QED
    BY <1>1, <1>2, <2>1
<1>6. \A i \in DOMAIN all :
         \/ i \in DOMAIN s /\ all[i].ev = s[i].ev
         \/ i - Len(s) \in DOMAIN t /\ all[i].ev = t[i - Len(s)].ev
  BY <1>1, <1>2
<1>7. EventsOf(all) = EventsOf(s) \cup EventsOf(t)
  <2>1. EventsOf(s) \subseteq EventsOf(all)
    BY <1>2, <1>4 DEF EventsOf
  <2>2. EventsOf(t) \subseteq EventsOf(all)
    BY <1>2, <1>5 DEF EventsOf
  <2>3. EventsOf(all) \subseteq EventsOf(s) \cup EventsOf(t)
    BY <1>6 DEF EventsOf
  <2>4. QED
    BY <2>1, <2>2, <2>3
<1>8. QED
  BY <1>3, <1>7 DEF all

(* A step that marks nothing new, and drops no carrier of an event that     *)
(* stays marked unless the event was shown.                                 *)
LEMMA CaredKept ==
    ASSUME Inv, [Next]_vars, Cared, seen' \subseteq seen,
           phase # "down", phase' # "down",
           \A h \in Handlers : pc[h] \in Holding =>
              \/ pc'[h] \in Holding /\ ev'[h] = ev[h]
              \/ ev[h] \notin seen'
              \/ ev[h] \in Shown' \cup EventsOf(pending'),
           EventsOf(pending) \cup EventsOf(flushLeft) \subseteq
              EventsOf(pending') \cup EventsOf(flushLeft') \cup Shown' \cup (Events \ seen'),
           EventsOf(flushLeft') \subseteq EventsOf(inflight')
    PROVE  Cared'
<1>1. Shown \subseteq Shown'
  BY ShownGrows
<1>2. seen' \subseteq Shown' \cup InCare'
  <2> SUFFICES ASSUME NEW e \in seen', e \notin Shown' PROVE e \in InCare'
    OBVIOUS
  <2>1. e \in InCare
    BY <1>1 DEF Cared
  <2>2. CASE \E h \in Handlers : pc[h] \in Holding /\ ev[h] = e
    BY <2>2 DEF InCare
  <2>3. CASE e \in EventsOf(pending) \cup EventsOf(flushLeft)
    BY <2>3 DEF InCare
  <2>4. QED
    BY <2>1, <2>2, <2>3 DEF InCare
<1>3. QED
  BY <1>2 DEF Cared

LEMMA CaredHandler ==
    ASSUME Answering, Inv, Cared, NEW h \in Handlers, HandlerStep(h)
    PROVE  Cared'
<1> USE DEF Goto, Decide, Holding
<1>1. /\ pc \in [Handlers -> HandlerLabel] /\ inbox \in Seq(Events)
      /\ pending \in Seq(Item) /\ ~RegistryRaises(h)
      /\ phase # "down" /\ phase' = phase /\ [Next]_vars
      /\ EventsOf(flushLeft) \subseteq EventsOf(inflight)
  <2>1. pc[h] # "idle"
    BY DEF HandlerStep, GetHandle, HasSeen, MarkSeen, AlreadySeen,
           ResolveIngressPayload, DispatchEvent, ForgetSeen, Retire,
           RemoveSecretArtifact, LogEvent, Reply
  <2>2. phase # "down"
    BY <2>1 DEF Inv, Shape
  <2>3. phase' = phase
    BY DEF HandlerStep, GetHandle, HasSeen, MarkSeen, AlreadySeen,
           ResolveIngressPayload, DispatchEvent, ForgetSeen, Retire,
           RemoveSecretArtifact, LogEvent, Reply
  <2>4. QED
    BY <2>2, <2>3 DEF Answering, RegistryRaises, Inv, TypeOK, Cared, Next
<1>2. CASE MarkSeen(h)
  <2>1. CASE seen' = seen \cup {ev[h]} /\ Goto(h, "resolve")
    <3>1. /\ ev' = ev /\ pc' = [pc EXCEPT ![h] = "resolve"] /\ pc[h] = "mark_seen"
          /\ UNCHANGED <<inbox, bucket, flush>>
      BY <1>2, <2>1 DEF MarkSeen
    <3>2. pc'[h] \in Holding /\ \A g \in Handlers : pc[g] \in Holding => pc'[g] \in Holding
      BY <1>1, <3>1
    <3>3. InCare \cup {ev[h]} \subseteq InCare' /\ Shown' = Shown
      BY <3>1, <3>2 DEF InCare, Shown, bucket, flush
    <3>4. QED
      BY <1>1, <2>1, <3>1, <3>3 DEF Cared, bucket, flush
  <2>2. CASE Goto(h, "already_seen") /\ UNCHANGED seen
    BY <1>1, <1>2, <2>2, CaredKept DEF MarkSeen, bucket, flush
  <2>3. QED
    BY <1>1, <1>2, <2>1, <2>2 DEF MarkSeen
<1>3. CASE ResolveIngressPayload(h)
  <2>1. UNCHANGED <<durable, phase>> /\ pc[h] = "resolve"
    BY <1>3 DEF ResolveIngressPayload
  <2>2. CASE PriorityFlush(h)
    <3>1. ev' = ev /\ \E l \in {"flush", "dispatch"} : pc' = [pc EXCEPT ![h] = l]
      BY <2>2 DEF PriorityFlush
    <3>2. \A g \in Handlers : pc[g] \in Holding => pc'[g] \in Holding
      BY <1>1, <3>1
    <3>3. CASE LeaveTimer
      BY <1>1, <2>1, <3>1, <3>2, <3>3, CaredKept DEF LeaveTimer, durable, flush
    <3>4. CASE ~FlushBlocked /\ BeginFlush(h)
      <4>1. flushLeft = <<>>
        BY <3>4 DEF FlushBlocked, Inv, Shape, SingleFlight, Flushing
      <4>2. EventsOf(flushLeft) = {}
        BY <4>1, EmptyItems
      <4>3. flushLeft' = pending /\ inflight' = pending
        BY <3>4 DEF BeginFlush
      <4>4. QED
        BY <1>1, <2>1, <3>1, <3>2, <4>2, <4>3, CaredKept DEF durable
    <3>5. QED
      BY <2>2, <3>3, <3>4 DEF PriorityFlush
  <2>3. CASE QueueCoalescedEvent(h)
    <3>1. /\ ev' = ev /\ pc' = [pc EXCEPT ![h] = "log"]
          /\ pending' = Append(pending, [ev |-> ev[h], attempts |-> 0])
          /\ UNCHANGED <<inflight, flushLeft>>
      BY <2>3 DEF QueueCoalescedEvent, flush
    <3>2. ev[h] \in Events
      BY <2>1 DEF Inv, Shape
    <3>3. EventsOf(pending') = EventsOf(pending) \cup {ev[h]}
      BY <1>1, <3>1, <3>2, AppendItem
    <3>4. \A g \in Handlers : pc[g] \in Holding => pc'[g] \in Holding \/ g = h
      BY <1>1, <3>1
    <3>5. QED
      BY <1>1, <2>1, <3>1, <3>3, <3>4, CaredKept DEF durable
  <2>4. CASE Goto(h, "dispatch") /\ UNCHANGED <<bucket, flush, arrivals>>
    BY <1>1, <2>1, <2>4, CaredKept DEF durable, bucket, flush
  <2>5. QED
    BY <1>1, <1>3, <2>2, <2>3, <2>4 DEF ResolveIngressPayload
<1>4. CASE DispatchEvent(h)
  <2>1. /\ UNCHANGED <<seen, phase, bucket, flush, ev>> /\ pc[h] = "dispatch"
        /\ ev[h] \in Events
    BY <1>4 DEF DispatchEvent, Inv, Shape
  <2>2. CASE inbox' = Append(inbox, ev[h])
             /\ \E l \in {"retire", "log"} : pc' = [pc EXCEPT ![h] = l]
    <3>1. ev[h] \in Shown'
      BY <1>1, <2>1, <2>2, ShowOne, ShownIsMembers
    <3>2. \A g \in Handlers : pc[g] \in Holding => pc'[g] \in Holding \/ g = h
      BY <1>1, <2>2
    <3>3. QED
      BY <1>1, <2>1, <3>1, <3>2, CaredKept DEF bucket, flush
  <2>3. CASE Goto(h, "forget")
    BY <1>1, <2>1, <2>3, CaredKept DEF bucket, flush
  <2>4. QED
    BY <1>4, <2>2, <2>3 DEF DispatchEvent
<1>5. CASE ForgetSeen(h)
  <2>1. /\ seen' = seen \ {ev[h]} /\ pc' = [pc EXCEPT ![h] = "log"] /\ ev' = ev
        /\ UNCHANGED <<phase, bucket, flush>>
    BY <1>1, <1>5 DEF ForgetSeen
  <2>2. \A g \in Handlers : pc[g] \in Holding => pc'[g] \in Holding \/ g = h
    BY <1>1, <2>1
  <2>3. QED
    BY <1>1, <2>1, <2>2, CaredKept DEF bucket, flush
<1>6. CASE \/ GetHandle(h) \/ HasSeen(h) \/ AlreadySeen(h) \/ Retire(h)
           \/ RemoveSecretArtifact(h) \/ LogEvent(h) \/ Reply(h)
  <2>1. UNCHANGED <<seen, bucket, flush>>
    BY <1>6 DEF GetHandle, HasSeen, AlreadySeen, Retire, RemoveSecretArtifact,
                LogEvent, Reply, durable
  <2>2. \A g \in Handlers : pc[g] \in Holding => pc'[g] = pc[g] /\ ev'[g] = ev[g]
    BY <1>1, <1>6 DEF GetHandle, HasSeen, AlreadySeen, Retire, RemoveSecretArtifact,
                LogEvent, Reply, Inv, TypeOK
  <2>3. QED
    BY <1>1, <2>1, <2>2, CaredKept DEF bucket, flush
<1>7. QED
  BY <1>2, <1>3, <1>4, <1>5, <1>6 DEF HandlerStep

LEMMA CaredFlush ==
    ASSUME Answering, Inv, Cared, FlushStep
    PROVE  Cared'
<1>1. /\ flushAt # "none" /\ ~FlushRaises /\ phase' = phase /\ [Next]_vars
      /\ inbox \in Seq(Events) /\ pending \in Seq(Item) /\ flushLeft \in Seq(Item)
      /\ seen' \subseteq seen
      /\ pc \in [Handlers -> HandlerLabel]
  BY DEF FlushStep, FlushResolve, FlushDispatch, FlushLog, FlushLogFailed, FlushForget,
         FlushRaises, Answering, Inv, TypeOK, Next, durable
(* The handler that awaited the flush goes on to dispatch its own event.    *)
<1>2. ASSUME FlushReturns
      PROVE  /\ ev' = ev /\ \A h \in Handlers : pc[h] \in Holding => pc'[h] \in Holding
             /\ EventsOf(flushLeft') = {}
  <2>1. CASE flushBy = TimerTask
    BY <1>2, <2>1, EmptyItems DEF FlushReturns, handlers
  <2>2. CASE flushBy # TimerTask
    <3>1. pc' = [pc EXCEPT ![flushBy] = "dispatch"] /\ ev' = ev /\ flushLeft' = <<>>
      BY <1>2, <2>2 DEF FlushReturns, Goto
    <3>2. QED
      BY <1>1, <3>1, EmptyItems DEF Holding
  <2>3. QED
    BY <2>1, <2>2
(* After the last disconnect there is nothing left that could be lost.      *)
<1>3. CASE phase = "down"
  <2>1. Shown \subseteq Shown'
    BY <1>1, ShownGrows
  <2>2. QED
    BY <1>1, <1>3, <2>1 DEF Cared
<1>4. CASE phase # "down" /\ FlushResolve
  <2>1. UNCHANGED <<seen, pending, inflight, flushLeft, pc, ev>>
    BY <1>1, <1>4 DEF FlushResolve, durable, bucket, handlers
  <2>2. QED
    BY <1>1, <1>4, <2>1, CaredKept DEF Cared
<1>5. CASE phase # "down" /\ FlushDispatch
  <2>1. UNCHANGED <<seen, pending, inflight, pc, ev>>
    BY <1>5 DEF FlushDispatch, bucket, handlers
  <2>2. CASE inbox' = inbox \o InOrder(flushLeft) /\ flushLeft' = <<>>
    <3>1. EventsOf(flushLeft) \subseteq Shown'
      BY <1>1, <2>2, ShowBatch, ShownIsMembers
    <3>2. EventsOf(flushLeft') = {}
      BY <2>2, EmptyItems
    <3>3. QED
      BY <1>1, <1>5, <2>1, <3>1, <3>2, CaredKept
  <2>3. CASE UNCHANGED flushLeft
    BY <1>1, <1>5, <2>1, <2>3, CaredKept DEF Cared
  <2>4. QED
    BY <1>5, <2>2, <2>3 DEF FlushDispatch
<1>6. CASE phase # "down" /\ FlushLog
  <2>1. FlushReturns /\ UNCHANGED <<seen, pending>> /\ flushLeft = <<>>
    BY <1>1, <1>6 DEF FlushLog, durable, Inv, Shape, Flushing
  <2>2. EventsOf(flushLeft) = {}
    BY <2>1, EmptyItems
  <2>3. QED
    BY <1>1, <1>2, <1>6, <2>1, <2>2, CaredKept
<1>7. CASE phase # "down" /\ FlushLogFailed
  <2>1. UNCHANGED <<durable, phase>>
    BY <1>7 DEF FlushLogFailed
  <2>2. CASE UNCHANGED <<bucket, flushBy, flushLeft, handlers>>
    BY <1>1, <1>7, <2>1, <2>2, CaredKept DEF Cared, bucket, handlers, durable
  <2>3. ASSUME ~GivesUp(flushLeft),
               NEW n \in {flushLeft[i].attempts + 1 : i \in DOMAIN flushLeft},
               pending' = Requeued(flushLeft, pending, n), FlushReturns
        PROVE  Cared'
    <3>1. n \in 0..MaxAttempts
      BY <1>1, <2>3, ItemsOf, ReceiverAssumption DEF GivesUp
    <3>2. EventsOf(pending') = EventsOf(flushLeft) \cup EventsOf(pending)
      BY <1>1, <2>3, <3>1, RequeuedItems
    <3>3. QED
      BY <1>1, <1>2, <1>7, <2>1, <2>3, <3>2, CaredKept DEF durable
  <2>4. QED
    BY <1>1, <1>7, <2>2, <2>3 DEF FlushLogFailed
<1>8. CASE phase # "down" /\ FlushForget
  <2> DEFINE e == Head(flushLeft).ev
  <2>1. /\ flushLeft # <<>> /\ seen' = seen \ {e} /\ UNCHANGED pending
        /\ \/ Len(flushLeft) = 1 /\ FlushReturns
           \/ flushLeft' = Tail(flushLeft) /\ UNCHANGED <<inflight, handlers>>
    BY <1>1, <1>8 DEF FlushForget, Inv, Shape, Flushing
  <2>2. /\ Head(flushLeft) \in Item /\ e \in Events
        /\ EventsOf(Tail(flushLeft)) \subseteq EventsOf(flushLeft)
    BY <1>1, <2>1, TailItems DEF Item
  <2>3. EventsOf(flushLeft) = {e} \cup EventsOf(Tail(flushLeft))
    <3>1. /\ DOMAIN flushLeft = 1..Len(flushLeft) /\ Len(flushLeft) \in Nat \ {0}
          /\ DOMAIN Tail(flushLeft) = 1..(Len(flushLeft) - 1)
          /\ Head(flushLeft) = flushLeft[1]
          /\ \A i \in 1..(Len(flushLeft) - 1) : Tail(flushLeft)[i] = flushLeft[i + 1]
      BY <1>1, <2>1, HeadTailProperties, ItemsOf, EmptySeq
    <3>2. ASSUME NEW i \in DOMAIN flushLeft
          PROVE  flushLeft[i].ev \in {e} \cup EventsOf(Tail(flushLeft))
      <4>1. CASE i = 1
        BY <3>1, <4>1
      <4>2. CASE i # 1
        <5>1. i - 1 \in DOMAIN Tail(flushLeft) /\ Tail(flushLeft)[i - 1] = flushLeft[i]
          BY <3>1, <4>2
        <5>2. QED
          BY <5>1 DEF EventsOf
      <4>3. QED
        BY <4>1, <4>2
    <3>3. e \in EventsOf(flushLeft)
      BY <1>1, <2>1, TailItems
    <3>4. QED
      BY <2>2, <3>2, <3>3 DEF EventsOf
  <2>4. CASE Len(flushLeft) = 1 /\ FlushReturns
    <3>1. DOMAIN Tail(flushLeft) = {}
      <4>1. Tail(flushLeft) \in Seq(Item) /\ Len(Tail(flushLeft)) = 0
        BY <1>1, <2>1, <2>4, HeadTailProperties
      <4>2. QED
        BY <4>1, ItemsOf
    <3>2. EventsOf(flushLeft) = {e}
      BY <2>3, <3>1 DEF EventsOf
    <3>3. QED
      BY <1>1, <1>2, <1>8, <2>1, <2>2, <2>4, <3>2, CaredKept
  <2>5. CASE flushLeft' = Tail(flushLeft) /\ UNCHANGED <<inflight, handlers>>
    BY <1>1, <1>8, <2>1, <2>2, <2>3, <2>5, CaredKept DEF Cared, handlers
  <2>6. QED
    BY <2>1, <2>4, <2>5
<1>9. QED
  BY <1>3, <1>4, <1>5, <1>6, <1>7, <1>8 DEF FlushStep

LEMMA CaredStep ==
    ASSUME Answering, Inv, Cared, [Next]_vars
    PROVE  Cared'
<1>1. ~Crash /\ \A h \in Handlers : ~CancelHandler(h)
  BY DEF Answering, Crash, CancelHandler, Inv, TypeOK
<1>2. ASSUME NEW h \in Handlers, NEW e \in Events, Send(h, e)
      PROVE  Cared'
  <2>1. /\ UNCHANGED <<durable, phase, bucket, flush>> /\ phase = "up"
        /\ \A g \in Handlers : pc[g] \in Holding => pc'[g] = pc[g] /\ ev'[g] = ev[g]
    BY <1>2 DEF Send, Holding, Inv, TypeOK
  <2>2. QED
    BY <2>1, CaredKept DEF Cared, durable, bucket, flush
<1>3. CASE TimerFires
  <2>1. UNCHANGED <<durable, phase, handlers>> /\ timer = "armed"
    BY <1>3 DEF TimerFires
  <2>2. phase # "down"
    BY <2>1 DEF Inv, Shape, TimerCoversBucket
  <2>3. CASE LeaveTimer
    BY <2>1, <2>2, <2>3, CaredKept DEF LeaveTimer, durable, flush, handlers, Cared
  <2>4. CASE ~FlushBlocked /\ BeginFlush(TimerTask)
    <3>1. flushLeft = <<>>
      BY <2>2, <2>4 DEF FlushBlocked, Inv, Shape, SingleFlight, Flushing
    <3>2. EventsOf(flushLeft) = {} /\ flushLeft' = pending /\ inflight' = pending
      BY <2>4, <3>1, EmptyItems DEF BeginFlush
    <3>3. QED
      BY <2>1, <2>2, <3>2, CaredKept DEF durable, handlers
  <2>5. QED
    BY <1>3, <2>3, <2>4 DEF TimerFires
<1>4. CASE BeginDisconnect \/ UNCHANGED vars
  <2>1. /\ UNCHANGED <<seen, inbox, pending, inflight, flushLeft, pc, ev>>
        /\ phase # "down" => phase' # "down"
        /\ phase = "down" => phase' = "down"
    BY <1>4 DEF BeginDisconnect, vars, durable, bucket, flush, handlers
  <2>2. QED
    BY <2>1 DEF Cared, InCare, Shown
<1>5. CASE FinishDisconnect
  <2>1. /\ \A h \in Handlers : pc[h] = "idle"
        /\ phase = "stopping" /\ phase' = "down"
        /\ UNCHANGED <<inbox, flush>> /\ pending \in Seq(Item) /\ inflight \in Seq(Item)
        /\ seen' = seen \ EventsOf(SubSeq(pending \o inflight, 1,
                                          Len(pending \o inflight)))
    BY <1>5 DEF FinishDisconnect, Answering, Inv, TypeOK
  <2>2. seen' = seen \ (EventsOf(pending) \cup EventsOf(inflight))
    BY <2>1, ConcatEvents
  <2>3. InCare \subseteq EventsOf(pending) \cup EventsOf(inflight)
    <3>1. EventsOf(flushLeft) \subseteq EventsOf(inflight)
      BY <2>1 DEF Cared
    <3>2. {g \in Handlers : pc[g] \in Holding} = {}
      BY <2>1 DEF Holding
    <3>3. QED
      BY <3>1, <3>2 DEF InCare
  <2>4. seen' \subseteq Shown'
    BY <2>1, <2>2, <2>3, ShownIsMembers DEF Cared
  <2>5. QED
    BY <2>1, <2>4 DEF Cared
<1>6. CASE Connect
  <2>1. /\ phase = "down" /\ phase' = "up" /\ UNCHANGED <<seen, inbox>>
        /\ flushLeft' = <<>>
    BY <1>6 DEF Connect, FreshAdapter, durable
  <2>2. seen' \subseteq Shown' /\ EventsOf(flushLeft') = {}
    BY <2>1, EmptyItems, ShownIsMembers DEF Cared
  <2>3. QED
    BY <2>1, <2>2 DEF Cared
<1>7. QED
  BY <1>1, <1>2, <1>3, <1>4, <1>5, <1>6, CaredHandler, CaredFlush DEF Next

(* While registry calls return, no handler is cancelled and the process     *)
(* lives, an event marked seen is shown or in somebody's hands, through     *)
(* failed and re-queued digests, concurrent retries and any number of stops *)
(* and starts: no retry of its producer is answered "duplicate" for nothing.*)
THEOREM NothingLostSilently ==
    ASSUME Answering
    PROVE  Spec => []NoSilentLoss
<1>1. Init => Cared
  BY DEF Init, Cared, InCare, Shown
<1>2. Inv /\ Cared /\ [Next]_vars => Cared'
  BY CaredStep
<1>3. QED
  BY <1>1, <1>2, InvAlways, CaredIsNoLoss, PTL DEF Spec

-----------------------------------------------------------------------------
(* The order of the routine events.  Until the first stop is over, what was *)
(* shown, what is being flushed and what waits make one line, and every     *)
(* step moves events along it: through concurrent requests, failed and      *)
(* re-queued digests, batches given up, and crashes.                        *)
CallsReturn == DbFaults = FALSE /\ GraceExpires = FALSE

LEMMA SameSeq ==
    ASSUME NEW T, NEW s \in Seq(T), NEW t \in Seq(T), Len(s) = Len(t),
           \A i \in 1..Len(s) : s[i] = t[i]
    PROVE  s = t
BY SeqEqual

LEMMA InOrderAppend ==
    ASSUME NEW items \in Seq(Item), NEW e \in Events
    PROVE  InOrder(Append(items, [ev |-> e, attempts |-> 0])) = Append(InOrder(items), e)
<1> DEFINE item == [ev |-> e, attempts |-> 0]
           more == Append(items, item)
<1>1. /\ more \in Seq(Item) /\ Len(more) = Len(items) + 1 /\ Len(items) \in Nat
      /\ \A i \in 1..Len(items) : more[i] = items[i]
      /\ more[Len(items) + 1].ev = e
  <2>1. item \in Item /\ item.ev = e
    BY ReceiverAssumption DEF Item
  <2> HIDE DEF item
  <2>2. QED
    BY <2>1, AppendProperties, ItemsOf
<1> HIDE DEF more
<1>2. /\ InOrder(more) \in Seq(Events) /\ Len(InOrder(more)) = Len(items) + 1
      /\ \A i \in 1..Len(items) + 1 : InOrder(more)[i] = more[i].ev
  BY <1>1, InOrderItems
<1>3. /\ InOrder(items) \in Seq(Events) /\ Len(InOrder(items)) = Len(items)
      /\ \A i \in 1..Len(items) : InOrder(items)[i] = items[i].ev
  BY InOrderItems
<1> DEFINE s == Append(InOrder(items), e)
<1>4. /\ s \in Seq(Events) /\ Len(s) = Len(items) + 1
      /\ \A i \in 1..Len(items) : s[i] = items[i].ev
      /\ s[Len(items) + 1] = e
  BY <1>3, AppendProperties
<1> HIDE DEF s
<1>5. \A i \in 1..Len(items) + 1 : InOrder(more)[i] = s[i]
  BY <1>1, <1>2, <1>4
<1>6. InOrder(more) = s
  BY <1>2, <1>4, <1>5, SameSeq
<1>7. QED
  BY <1>6 DEF s, more

LEMMA InOrderRequeued ==
    ASSUME NEW batch \in Seq(Item), NEW queued \in Seq(Item), NEW n \in 0..MaxAttempts
    PROVE  InOrder(Requeued(batch, queued, n)) = InOrder(batch) \o InOrder(queued)
<1> DEFINE retried == [i \in DOMAIN batch |-> [ev |-> batch[i].ev, attempts |-> n]]
           all == retried \o queued
           b == InOrder(batch)
           q == InOrder(queued)
           s == b \o q
<1>1. retried \in [1..Len(batch) -> Item]
  BY ItemsOf DEF Item
<1>2. /\ retried \in Seq(Item) /\ Len(retried) = Len(batch)
      /\ \A i \in 1..Len(batch) : retried[i].ev = batch[i].ev
      /\ Len(batch) \in Nat /\ Len(queued) \in Nat
  BY <1>1, ItemsOf
<1>3. Requeued(batch, queued, n) = all
  BY DEF Requeued
<1> HIDE DEF retried
<1>4. /\ all \in Seq(Item) /\ Len(all) = Len(batch) + Len(queued)
      /\ \A i \in 1 .. Len(batch) + Len(queued) :
            all[i] = IF i <= Len(batch) THEN retried[i] ELSE queued[i - Len(batch)]
  <2>1. /\ retried \o queued \in Seq(Item)
        /\ Len(retried \o queued) = Len(retried) + Len(queued)
        /\ \A i \in 1 .. Len(retried) + Len(queued) : (retried \o queued)[i] =
               IF i <= Len(retried) THEN retried[i] ELSE queued[i - Len(retried)]
    BY <1>2, ConcatItems
  <2>2. QED
    BY <2>1, <1>2
<1> HIDE DEF all
<1>5. /\ InOrder(all) \in Seq(Events) /\ Len(InOrder(all)) = Len(batch) + Len(queued)
      /\ \A i \in 1 .. Len(batch) + Len(queued) : InOrder(all)[i] = all[i].ev
  BY <1>4, InOrderItems
<1>6. /\ b \in Seq(Events) /\ Len(b) = Len(batch)
      /\ \A i \in 1..Len(batch) : b[i] = batch[i].ev
      /\ q \in Seq(Events) /\ Len(q) = Len(queued)
      /\ \A i \in 1..Len(queued) : q[i] = queued[i].ev
  BY InOrderItems
<1> HIDE DEF b, q
<1>7. /\ s \in Seq(Events) /\ Len(s) = Len(b) + Len(q)
      /\ \A i \in 1 .. Len(b) + Len(q) :
            s[i] = IF i <= Len(b) THEN b[i] ELSE q[i - Len(b)]
  <2>1. /\ b \o q \in Seq(Events) /\ Len(b \o q) = Len(b) + Len(q)
        /\ \A i \in 1 .. Len(b) + Len(q) :
              (b \o q)[i] = IF i <= Len(b) THEN b[i] ELSE q[i - Len(b)]
    <3>1. b \in Seq(Events) /\ q \in Seq(Events)
      BY <1>6
    <3>2. QED
      BY <3>1, ConcatProperties
  <2>2. QED
    BY <2>1
<1> HIDE DEF s
<1>8. ASSUME NEW i \in 1 .. Len(batch) + Len(queued)
      PROVE  InOrder(all)[i] = s[i]
  <2>1. CASE i <= Len(batch)
    <3>1. i \in 1..Len(batch)
      BY <1>2, <2>1
    <3>2. QED
      BY <1>2, <1>4, <1>5, <1>6, <1>7, <2>1, <3>1
  <2>2. CASE ~(i <= Len(batch))
    <3>1. i - Len(batch) \in 1..Len(queued)
      BY <1>2, <2>2
    <3>2. QED
      BY <1>4, <1>5, <1>6, <1>7, <2>2, <3>1
  <2>3. QED
    BY <2>1, <2>2
<1>9. InOrder(all) = s
  BY <1>5, <1>6, <1>7, <1>8, SameSeq
<1>10. QED
  BY <1>3, <1>9 DEF s, b, q

LEMMA InOrderTail ==
    ASSUME NEW items \in Seq(Item), items # <<>>
    PROVE  InOrder(items) = <<Head(items).ev>> \o InOrder(Tail(items))
<1> DEFINE rest == Tail(items)
           s == <<Head(items).ev>> \o InOrder(rest)
<1>0. /\ Head(items) \in Item /\ Tail(items) \in Seq(Item)
      /\ Len(Tail(items)) = Len(items) - 1
      /\ \A i \in 1 .. Len(Tail(items)) : Tail(items)[i] = items[i + 1]
  BY HeadTailProperties
<1>1. /\ rest \in Seq(Item) /\ Len(rest) = Len(items) - 1
      /\ Len(items) \in Nat \ {0} /\ Len(rest) \in Nat
      /\ Head(items) = items[1] /\ Head(items).ev \in Events
      /\ \A i \in 1..Len(rest) : rest[i] = items[i + 1]
  BY <1>0, ItemsOf, EmptySeq DEF Item
<1> HIDE DEF rest
<1>2. /\ InOrder(items) \in Seq(Events) /\ Len(InOrder(items)) = Len(items)
      /\ \A i \in 1..Len(items) : InOrder(items)[i] = items[i].ev
      /\ InOrder(rest) \in Seq(Events) /\ Len(InOrder(rest)) = Len(rest)
      /\ \A i \in 1..Len(rest) : InOrder(rest)[i] = rest[i].ev
  BY <1>1, InOrderItems
<1>3. <<Head(items).ev>> \in Seq(Events) /\ Len(<<Head(items).ev>>) = 1
      /\ <<Head(items).ev>>[1] = Head(items).ev
  BY <1>1
<1>4. /\ s \in Seq(Events) /\ Len(s) = 1 + Len(rest)
      /\ \A i \in 1 .. 1 + Len(rest) :
            s[i] = IF i <= 1 THEN <<Head(items).ev>>[i] ELSE InOrder(rest)[i - 1]
  BY <1>2, <1>3, ConcatProperties
<1> HIDE DEF s
<1>5. ASSUME NEW i \in 1..Len(items)
      PROVE  InOrder(items)[i] = s[i]
  <2>1. CASE i = 1
    BY <1>1, <1>2, <1>3, <1>4, <2>1
  <2>2. CASE i # 1
    <3>1. i - 1 \in 1..Len(rest) /\ i \in 1 .. 1 + Len(rest) /\ ~(i <= 1)
          /\ (i - 1) + 1 = i
      BY <1>1, <2>2
    <3>2. QED
      BY <1>1, <1>2, <1>4, <3>1
  <2>3. QED
    BY <2>1, <2>2
<1>6. Len(s) = Len(items)
  BY <1>1, <1>4
<1>7. InOrder(items) = s
  BY <1>2, <1>4, <1>5, <1>6, SameSeq
<1>8. QED
  BY <1>7 DEF s, rest

(* Events of a buffer that are all of a kind are kept by the kind.          *)
LEMMA InOrderWithin ==
    ASSUME NEW items \in Seq(Item), NEW S, EventsOf(items) \subseteq S
    PROVE  InOrder(items) \in Seq(Events \cap S) /\ Kept(InOrder(items), S) = InOrder(items)
<1>1. /\ InOrder(items) \in Seq(Events) /\ Len(InOrder(items)) = Len(items)
      /\ \A i \in 1..Len(items) : InOrder(items)[i] = items[i].ev
      /\ DOMAIN items = 1..Len(items)
  BY InOrderItems, ItemsOf
<1>2. \A i \in 1..Len(items) : items[i].ev \in S
  BY <1>1 DEF EventsOf
<1>3. Kept(InOrder(items), S) = InOrder(items)
  BY <1>1, <1>2, KeptAll
<1>4. InOrder(items) \in [1..Len(items) -> Events \cap S]
  BY <1>1, <1>2 DEF InOrder, Item
<1>5. QED
  BY <1>3, <1>4, ItemsOf

(* The line: what was shown, what is being flushed, what waits.             *)
Coalesced == Routine \ Priority

Line == Kept(inbox, Coalesced) \o InOrder(flushLeft) \o InOrder(pending)

LEMMA LineTypes ==
    ASSUME TypeOK
    PROVE  /\ Kept(inbox, Coalesced) \in Seq(Events)
           /\ InOrder(flushLeft) \in Seq(Events) /\ InOrder(pending) \in Seq(Events)
           /\ Kept(inbox, Coalesced) \o InOrder(flushLeft) \in Seq(Events)
<1>1. Kept(inbox, Coalesced) \in Seq(Events)
  BY KeptIsSeq DEF TypeOK
<1>2. InOrder(flushLeft) \in Seq(Events) /\ InOrder(pending) \in Seq(Events)
  BY InOrderItems DEF TypeOK
<1>3. QED
  BY <1>1, <1>2, ConcatProperties

LEMMA InOrderEmpty == InOrder(<<>>) = <<>>
<1>1. /\ InOrder(<<>>) \in Seq(Events) /\ Len(InOrder(<<>>)) = Len(<<>>)
  BY EmptyItems, InOrderItems
<1>2. QED
  BY <1>1, EmptySeq

(* The bucket becomes the batch of a flush; no batch was left.              *)
LEMMA LinePopped ==
    ASSUME TypeOK, flushLeft = <<>>, flushLeft' = pending, pending' = <<>>, inbox' = inbox
    PROVE  Line' = Line
<1>1. Line = (Kept(inbox, Coalesced) \o <<>>) \o InOrder(pending)
  BY InOrderEmpty DEF Line
<1>2. Line' = (Kept(inbox, Coalesced) \o InOrder(pending)) \o <<>>
  BY InOrderEmpty DEF Line
<1>3. PICK a \in Seq(Events), b \in Seq(Events) :
         a = Kept(inbox, Coalesced) /\ b = InOrder(pending)
  BY LineTypes
<1>4. a \o b \in Seq(Events)
  BY ConcatProperties
<1>5. a \o <<>> = a /\ (a \o b) \o <<>> = a \o b
  BY <1>4, ConcatEmptySeq
<1>6. QED
  BY <1>1, <1>2, <1>3, <1>5

(* The bucket takes one event more.                                         *)
LEMMA LineJoined ==
    ASSUME TypeOK, NEW e \in Events, UNCHANGED <<inbox, flushLeft>>,
           pending' = Append(pending, [ev |-> e, attempts |-> 0])
    PROVE  Line' = Append(Line, e)
<1>1. PICK a \in Seq(Events), b \in Seq(Events) :
         a = Kept(inbox, Coalesced) \o InOrder(flushLeft) /\ b = InOrder(pending)
  BY LineTypes
<1>2. InOrder(pending') = Append(b, e)
  BY <1>1, InOrderAppend DEF TypeOK
<1>3. Line = a \o b /\ Line' = a \o Append(b, e)
  BY <1>1, <1>2 DEF Line
<1>4. a \o Append(b, e) = Append(a \o b, e)
  BY AppendAfter
<1>5. QED
  BY <1>3, <1>4

(* An event is shown that the bucket never takes.                           *)
LEMMA LineOvertaken ==
    ASSUME TypeOK, NEW e \in Events, e \notin Coalesced,
           inbox' = Append(inbox, e), UNCHANGED <<flushLeft, pending>>
    PROVE  Line' = Line
<1>1. Kept(Append(inbox, e), Coalesced) = Kept(inbox, Coalesced)
  BY KeptAppend DEF TypeOK
<1>2. QED
  BY <1>1 DEF Line

(* The batch is shown.                                                      *)
LEMMA LineShown ==
    ASSUME TypeOK, EventsOf(flushLeft) \subseteq Coalesced,
           inbox' = inbox \o InOrder(flushLeft), flushLeft' = <<>>, pending' = pending
    PROVE  Line' = Line
<1>1. PICK a \in Seq(Events), b \in Seq(Events), c \in Seq(Events), d \in Seq(Events) :
         /\ a = Kept(inbox, Coalesced) /\ b = InOrder(flushLeft) /\ c = InOrder(pending)
         /\ d = inbox
  BY LineTypes DEF TypeOK
<1>2. Kept(b, Coalesced) = b
  BY <1>1, InOrderWithin DEF TypeOK
<1>3. Kept(d \o b, Coalesced) = Kept(d, Coalesced) \o Kept(b, Coalesced)
  BY KeptConcat
<1>4. Kept(inbox', Coalesced) = a \o b
  BY <1>1, <1>2, <1>3
<1>5. (a \o b) \o <<>> = a \o b
  BY ConcatProperties, ConcatEmptySeq
<1>6. Line = (a \o b) \o c /\ Line' = ((a \o b) \o <<>>) \o c
  BY <1>1, <1>4, InOrderEmpty DEF Line
<1>7. QED
  BY <1>5, <1>6

(* The batch goes back in front of the bucket.                              *)
LEMMA LineRequeued ==
    ASSUME TypeOK, NEW n \in 0..MaxAttempts, inbox' = inbox, flushLeft' = <<>>,
           pending' = Requeued(flushLeft, pending, n)
    PROVE  Line' = Line
<1>1. PICK a \in Seq(Events), b \in Seq(Events), c \in Seq(Events) :
         a = Kept(inbox, Coalesced) /\ b = InOrder(flushLeft) /\ c = InOrder(pending)
  BY LineTypes
<1>2. InOrder(pending') = b \o c
  BY <1>1, InOrderRequeued DEF TypeOK
<1>3. Line = (a \o b) \o c /\ Line' = (a \o <<>>) \o (b \o c)
  BY <1>1, <1>2, InOrderEmpty DEF Line
<1>4. a \o <<>> = a
  BY ConcatEmptySeq
<1>5. (a \o b) \o c = a \o (b \o c)
  BY ConcatAssociative
<1>6. QED
  BY <1>3, <1>4, <1>5

(* The head of the batch is given up; it stands nowhere else in the line.   *)
(* The provers reason about a chain of concatenations once it has a name.   *)
Joined(s, t) == s \o t

LEMMA KeptJoined ==
    \A T, S : \A s, t \in Seq(T) :
       /\ Joined(s, t) \in Seq(T)
       /\ Kept(Joined(s, t), S) = Joined(Kept(s, S), Kept(t, S))
       /\ Joined(<<>>, Kept(s, S)) = Kept(s, S)
<1> SUFFICES ASSUME NEW T, NEW S, NEW s \in Seq(T), NEW t \in Seq(T)
    PROVE  /\ s \o t \in Seq(T)
           /\ Kept(s \o t, S) = Kept(s, S) \o Kept(t, S)
           /\ <<>> \o Kept(s, S) = Kept(s, S)
  BY DEF Joined
<1>1. s \o t \in Seq(T)
  BY ConcatProperties
<1>2. Kept(s \o t, S) = Kept(s, S) \o Kept(t, S)
  BY KeptConcat
<1>3. <<>> \o Kept(s, S) = Kept(s, S)
  BY KeptIsSeq, ConcatEmptySeq
<1>4. QED
  BY <1>1, <1>2, <1>3

LEMMA HeadForgotten ==
    \A T, S : \A e \in T \ S : \A a, b, c \in Seq(T) :
       Kept(Joined(Joined(a, Joined(<<e>>, b)), c), S)
          = Joined(Joined(Kept(a, S), Kept(b, S)), Kept(c, S))
<1> TAKE T, S
<1> TAKE e \in T \ S
<1> TAKE a, b, c \in Seq(T)
<1>1. <<e>> \in Seq(T)
  OBVIOUS
<1>2. Kept(<<e>>, S) = <<>>
  <2>1. <<e>> = Append(<<>>, e) /\ <<>> \in Seq(T)
    OBVIOUS
  <2>2. Kept(Append(<<>>, e), S) = Kept(<<>>, S)
    BY <2>1, KeptAppend
  <2>3. QED
    BY <2>1, <2>2, KeptEmpty
<1>3. Joined(<<e>>, b) \in Seq(T) /\ Kept(Joined(<<e>>, b), S) = Kept(b, S)
  <2>1. PICK d \in Seq(T) : d = <<e>>
    BY <1>1
  <2>2. Joined(d, b) \in Seq(T) /\ Kept(Joined(d, b), S) = Joined(Kept(d, S), Kept(b, S))
    BY KeptJoined
  <2>3. Joined(<<>>, Kept(b, S)) = Kept(b, S)
    BY KeptJoined
  <2>4. QED
    BY <1>2, <2>1, <2>2, <2>3
<1>4. /\ Joined(a, Joined(<<e>>, b)) \in Seq(T)
      /\ Kept(Joined(a, Joined(<<e>>, b)), S) = Joined(Kept(a, S), Kept(b, S))
  BY <1>3, KeptJoined
<1>5. QED
  BY <1>4, KeptJoined

LEMMA LineForgotten ==
    ASSUME TypeOK, Ownership, flushLeft # <<>>,
           flushLeft' = Tail(flushLeft), UNCHANGED <<inbox, pending>>
    PROVE  Line' = Kept(Line, Events \ {Head(flushLeft).ev})
<1> DEFINE e == Head(flushLeft).ev
<1>1. /\ e \in Events /\ e \in EventsOf(flushLeft) /\ Tail(flushLeft) \in Seq(Item)
      /\ e \notin EventsOf(Tail(flushLeft))
  BY TailItems DEF TypeOK, Ownership, Item
<1>2. e \notin Members(inbox) /\ e \notin EventsOf(pending)
  BY <1>1 DEF Ownership
<1> HIDE DEF e
<1> DEFINE S == Events \ {e}
<1>3. Kept(inbox, Coalesced) \in Seq(Events)
      /\ Kept(Kept(inbox, Coalesced), S) = Kept(inbox, Coalesced)
  <2>1. inbox \in [1..Len(inbox) -> S] /\ Len(inbox) \in Nat
    BY <1>2 DEF TypeOK, Members
  <2> HIDE DEF S
  <2>2. inbox \in Seq(S)
    BY <2>1
  <2>3. PICK k \in Seq(S) : k = Kept(inbox, Coalesced)
    BY <2>2, KeptIsSeq
  <2>4. \A i \in 1..Len(k) : k[i] \in S
    OBVIOUS
  <2>5. Kept(k, S) = k
    BY <2>4, KeptAll
  <2>6. QED
    BY <2>3, <2>5, LineTypes
<1>4. ASSUME NEW items \in Seq(Item), e \notin EventsOf(items)
      PROVE  InOrder(items) \in Seq(Events) /\ Kept(InOrder(items), S) = InOrder(items)
  <2>1. EventsOf(items) \subseteq S
    BY <1>4, ItemsOf
  <2>2. QED
    BY <2>1, InOrderWithin, InOrderItems
<1> HIDE DEF S
<1>5. PICK a \in Seq(Events), b \in Seq(Events), c \in Seq(Events) :
         /\ a = Kept(inbox, Coalesced) /\ b = InOrder(Tail(flushLeft))
         /\ c = InOrder(pending)
         /\ Kept(a, S) = a /\ Kept(b, S) = b /\ Kept(c, S) = c
  BY <1>1, <1>2, <1>3, <1>4 DEF TypeOK
<1>6. InOrder(flushLeft) = <<e>> \o b
  BY <1>5, InOrderTail DEF TypeOK, e
<1>7. /\ Line = Joined(Joined(a, Joined(<<e>>, b)), c)
      /\ Line' = Joined(Joined(a, b), c)
  BY <1>5, <1>6 DEF Line, Joined
<1>8. Kept(Joined(Joined(a, Joined(<<e>>, b)), c), S) = Joined(Joined(a, b), c)
  <2>1. e \in Events \ S
    BY <1>1 DEF S
  <2>2. /\ a \in Seq(Events) /\ b \in Seq(Events) /\ c \in Seq(Events)
        /\ Kept(a, S) = a /\ Kept(b, S) = b /\ Kept(c, S) = c
    BY <1>5
  <2>3. QED
    BY <2>1, <2>2, HeadForgotten
<1>9. QED
  BY <1>7, <1>8 DEF e, S

(* Only what _should_coalesce accepts is buffered, and nothing of it is on  *)
(* its way to be shown alone.                                               *)
Past == {"flush", "dispatch", "forget"}

Sorted ==
    /\ EventsOf(pending) \cup EventsOf(flushLeft) \subseteq Coalesced
    /\ \A h \in Handlers : pc[h] \in Past => ev[h] \notin Coalesced

InLine == Sorted /\ Line = arrivals

LEMMA SortedKept ==
    ASSUME Sorted,
           EventsOf(pending') \cup EventsOf(flushLeft')
               \subseteq EventsOf(pending) \cup EventsOf(flushLeft),
           \A h \in Handlers : pc'[h] \in Past =>
              \/ pc[h] \in Past /\ ev'[h] = ev[h]
              \/ ev'[h] \notin Coalesced
    PROVE  Sorted'
BY DEF Sorted, Coalesced

LEMMA InLineKept ==
    ASSUME InLine, UNCHANGED <<inbox, pending, flushLeft, arrivals>>,
           \A h \in Handlers : pc'[h] \in Past =>
              \/ pc[h] \in Past /\ ev'[h] = ev[h]
              \/ ev'[h] \notin Coalesced
    PROVE  InLine'
<1>1. Sorted'
  BY SortedKept DEF InLine
<1>2. Line' = arrivals'
  BY DEF InLine, Line
<1>3. QED
  BY <1>1, <1>2 DEF InLine

(* A bucket is popped for a flush, or only its timer is seen to.            *)
LEMMA PoppingInLine ==
    ASSUME Inv, InLine, phase # "down", UNCHANGED <<inbox, arrivals>>,
           LeaveTimer \/ \E task : ~FlushBlocked /\ BeginFlush(task),
           \A h \in Handlers : pc'[h] \in Past =>
              \/ pc[h] \in Past /\ ev'[h] = ev[h]
              \/ ev'[h] \notin Coalesced
    PROVE  InLine'
<1>1. CASE LeaveTimer
  BY <1>1, InLineKept DEF LeaveTimer, flush
<1>2. CASE \E task : ~FlushBlocked /\ BeginFlush(task)
  <2>1. flushLeft = <<>>
    BY <1>2 DEF FlushBlocked, Inv, Shape, SingleFlight, Flushing
  <2>2. flushLeft' = pending /\ pending' = <<>>
    BY <1>2 DEF BeginFlush
  <2>3. EventsOf(pending') = {}
    BY <2>2, EmptyItems
  <2>4. Line' = Line
    BY <2>1, <2>2, LinePopped DEF Inv
  <2>5. Sorted'
    BY <2>2, <2>3, SortedKept DEF InLine
  <2>6. QED
    BY <2>4, <2>5 DEF InLine
<1>3. QED
  BY <1>1, <1>2

LEMMA OrderHandler ==
    ASSUME CallsReturn, Inv, InLine, NEW h \in Handlers, HandlerStep(h)
    PROVE  InLine'
<1> USE DEF Goto, Decide, Past
<1>1. /\ pc \in [Handlers -> HandlerLabel] /\ inbox \in Seq(Events)
      /\ pending \in Seq(Item) /\ ~RegistryRaises(h) /\ phase # "down" /\ ev[h] \in Events
  <2>1. pc[h] # "idle"
    BY DEF HandlerStep, GetHandle, HasSeen, MarkSeen, AlreadySeen,
           ResolveIngressPayload, DispatchEvent, ForgetSeen, Retire,
           RemoveSecretArtifact, LogEvent, Reply
  <2>2. QED
    BY <2>1 DEF CallsReturn, RegistryRaises, Inv, TypeOK, Shape
<1>2. CASE ResolveIngressPayload(h)
  <2>1. UNCHANGED <<durable, phase>> /\ pc[h] = "resolve"
    BY <1>2 DEF ResolveIngressPayload
  <2>2. CASE PriorityFlush(h)
    <3>1. /\ ev' = ev /\ \E l \in Past : pc' = [pc EXCEPT ![h] = l]
          /\ ev[h] \notin Coalesced /\ UNCHANGED <<inbox, arrivals>>
          /\ LeaveTimer \/ (~FlushBlocked /\ BeginFlush(h))
      BY <2>1, <2>2 DEF PriorityFlush, Coalesced, durable
    <3>2. \A g \in Handlers : pc'[g] \in Past =>
             (pc[g] \in Past /\ ev'[g] = ev[g]) \/ ev'[g] \notin Coalesced
      BY <1>1, <3>1
    <3>3. QED
      BY <1>1, <3>1, <3>2, PoppingInLine
  <2>3. CASE QueueCoalescedEvent(h)
    <3>1. /\ ev' = ev /\ pc' = [pc EXCEPT ![h] = "log"]
          /\ pending' = Append(pending, [ev |-> ev[h], attempts |-> 0])
          /\ arrivals' = Append(arrivals, ev[h]) /\ UNCHANGED <<inbox, flushLeft>>
          /\ ev[h] \in Coalesced
      BY <2>1, <2>3 DEF QueueCoalescedEvent, flush, durable, ShouldCoalesce, Coalesced
    <3>2. Line' = Append(Line, ev[h])
      BY <1>1, <3>1, LineJoined DEF Inv
    <3>3. EventsOf(pending') = EventsOf(pending) \cup {ev[h]}
      BY <1>1, <3>1, AppendItem
    <3>4. \A g \in Handlers : pc'[g] \in Past => pc[g] \in Past
      BY <1>1, <3>1
    <3>5. Sorted'
      BY <3>1, <3>3, <3>4 DEF InLine, Sorted, Coalesced
    <3>6. QED
      BY <3>1, <3>2, <3>5 DEF InLine
  <2>4. CASE ~ShouldCoalesce(ev[h]) /\ Goto(h, "dispatch")
             /\ UNCHANGED <<bucket, flush, arrivals>>
    <3>1. \A g \in Handlers : pc'[g] \in Past =>
             (pc[g] \in Past /\ ev'[g] = ev[g]) \/ ev'[g] \notin Coalesced
      BY <1>1, <2>4 DEF ShouldCoalesce, Coalesced
    <3>2. QED
      BY <2>1, <2>4, <3>1, InLineKept DEF durable, bucket, flush
  <2>5. QED
    BY <1>1, <1>2, <2>2, <2>3, <2>4 DEF ResolveIngressPayload
<1>3. CASE DispatchEvent(h)
  <2>1. /\ UNCHANGED <<bucket, flush, arrivals, ev>> /\ pc[h] = "dispatch"
        /\ ev[h] \notin Coalesced
    BY <1>3 DEF DispatchEvent, InLine, Sorted
  <2>2. CASE inbox' = Append(inbox, ev[h])
             /\ \E l \in {"retire", "log"} : pc' = [pc EXCEPT ![h] = l]
    <3>1. Line' = Line
      BY <1>1, <2>1, <2>2, LineOvertaken DEF Inv, bucket, flush
    <3>2. \A g \in Handlers : pc'[g] \in Past => pc[g] \in Past
      BY <1>1, <2>2
    <3>3. Sorted'
      BY <2>1, <3>2, SortedKept DEF InLine, bucket, flush
    <3>4. QED
      BY <2>1, <3>1, <3>3 DEF InLine
  <2>3. CASE Goto(h, "forget") /\ UNCHANGED inbox
    BY <1>1, <2>1, <2>3, InLineKept DEF bucket, flush
  <2>4. QED
    BY <1>3, <2>2, <2>3 DEF DispatchEvent
<1>4. CASE \/ GetHandle(h) \/ HasSeen(h) \/ MarkSeen(h) \/ AlreadySeen(h)
           \/ ForgetSeen(h) \/ Retire(h) \/ RemoveSecretArtifact(h) \/ LogEvent(h)
           \/ Reply(h)
  <2>1. UNCHANGED <<inbox, bucket, flush, arrivals>>
    BY <1>4 DEF GetHandle, HasSeen, MarkSeen, AlreadySeen, ForgetSeen, Retire,
                RemoveSecretArtifact, LogEvent, Reply, durable
  <2>2. \A g \in Handlers : pc'[g] \in Past => pc[g] \in Past /\ ev'[g] = ev[g]
    BY <1>1, <1>4 DEF GetHandle, HasSeen, MarkSeen, AlreadySeen, ForgetSeen, Retire,
                RemoveSecretArtifact, LogEvent, Reply, Inv, TypeOK
  <2>3. QED
    BY <2>1, <2>2, InLineKept DEF bucket, flush
<1>5. QED
  BY <1>2, <1>3, <1>4 DEF HandlerStep

LEMMA OrderFlush ==
    ASSUME CallsReturn, Inv, InLine, Ownership, phase # "down", FlushStep
    PROVE  InLine'
<1>1. /\ flushAt # "none" /\ ~FlushRaises
      /\ inbox \in Seq(Events) /\ pending \in Seq(Item) /\ flushLeft \in Seq(Item)
      /\ pc \in [Handlers -> HandlerLabel]
  BY DEF FlushStep, FlushResolve, FlushDispatch, FlushLog, FlushLogFailed, FlushForget,
         FlushRaises, CallsReturn, Inv, TypeOK
(* The handler that awaited the flush held a priority event all along.      *)
<1>2. ASSUME FlushReturns
      PROVE  /\ flushLeft' = <<>>
             /\ \A h \in Handlers : pc'[h] \in Past => pc[h] \in Past /\ ev'[h] = ev[h]
  <2>1. CASE flushBy = TimerTask
    BY <1>2, <2>1 DEF FlushReturns, handlers
  <2>2. CASE flushBy # TimerTask
    <3>1. pc' = [pc EXCEPT ![flushBy] = "dispatch"] /\ ev' = ev /\ flushLeft' = <<>>
      BY <1>2, <2>2 DEF FlushReturns, Goto
    <3>2. \A h \in Handlers : pc[h] = "flush" <=> flushBy = h
      BY DEF Inv, Shape, SingleFlight
    <3>3. QED
      BY <1>1, <3>1, <3>2 DEF Past
  <2>3. QED
    BY <2>1, <2>2
<1>3. CASE FlushResolve
  <2>1. UNCHANGED <<inbox, pending, flushLeft, arrivals, pc, ev>>
    BY <1>1, <1>3 DEF FlushResolve, durable, bucket, handlers
  <2>2. QED
    BY <2>1, InLineKept
<1>4. CASE FlushDispatch
  <2>1. UNCHANGED <<pending, arrivals, pc, ev>>
    BY <1>4 DEF FlushDispatch, bucket, handlers
  <2>2. CASE inbox' = inbox \o InOrder(flushLeft) /\ flushLeft' = <<>>
    <3>1. EventsOf(flushLeft) \subseteq Coalesced
      BY DEF InLine, Sorted
    <3>2. Line' = Line
      BY <2>1, <2>2, <3>1, LineShown DEF Inv
    <3>3. EventsOf(flushLeft') = {}
      BY <2>2, EmptyItems
    <3>4. Sorted'
      BY <2>1, <3>3, SortedKept DEF InLine
    <3>5. QED
      BY <2>1, <3>2, <3>4 DEF InLine
  <2>3. CASE UNCHANGED <<inbox, flushLeft>>
    BY <2>1, <2>3, InLineKept
  <2>4. QED
    BY <1>4, <2>2, <2>3 DEF FlushDispatch
<1>5. CASE FlushLog
  <2>1. FlushReturns /\ UNCHANGED <<inbox, pending, arrivals>> /\ flushLeft = <<>>
    BY <1>1, <1>5 DEF FlushLog, durable, Inv, Shape, Flushing
  <2>2. QED
    BY <1>2, <2>1, InLineKept
<1>6. CASE FlushLogFailed
  <2>1. UNCHANGED <<inbox, arrivals>>
    BY <1>6 DEF FlushLogFailed, durable
  <2>2. CASE UNCHANGED <<bucket, flushLeft, handlers>>
    BY <2>1, <2>2, InLineKept DEF bucket, handlers
  <2>3. ASSUME ~GivesUp(flushLeft),
               NEW n \in {flushLeft[i].attempts + 1 : i \in DOMAIN flushLeft},
               pending' = Requeued(flushLeft, pending, n), FlushReturns
        PROVE  InLine'
    <3>1. n \in 0..MaxAttempts
      BY <1>1, <2>3, ItemsOf, ReceiverAssumption DEF GivesUp
    <3>2. EventsOf(pending') = EventsOf(flushLeft) \cup EventsOf(pending)
      BY <1>1, <2>3, <3>1, RequeuedItems
    <3>3. Line' = Line
      BY <1>2, <2>1, <2>3, <3>1, LineRequeued DEF Inv
    <3>4. EventsOf(flushLeft') = {}
      BY <1>2, <2>3, EmptyItems
    <3>5. Sorted'
      BY <1>2, <2>3, <3>2, <3>4, SortedKept DEF InLine
    <3>6. QED
      BY <2>1, <3>3, <3>5 DEF InLine
  <2>4. QED
    BY <1>1, <1>6, <2>2, <2>3 DEF FlushLogFailed
<1>7. CASE FlushForget
  <2> DEFINE e == Head(flushLeft).ev
  <2>1. /\ flushLeft # <<>> /\ UNCHANGED <<inbox, pending>>
        /\ arrivals' = Kept(arrivals, Events \ {e})
        /\ \/ Len(flushLeft) = 1 /\ FlushReturns
           \/ flushLeft' = Tail(flushLeft) /\ UNCHANGED handlers
    BY <1>1, <1>7 DEF FlushForget, Inv, Shape, Flushing
  <2>2. flushLeft' = Tail(flushLeft)
    <3>1. CASE Len(flushLeft) = 1 /\ FlushReturns
      <4>1. Tail(flushLeft) \in Seq(Item) /\ Len(Tail(flushLeft)) = 0
        BY <1>1, <2>1, <3>1, HeadTailProperties
      <4>2. Tail(flushLeft) = <<>>
        BY <4>1, EmptySeq
      <4>3. QED
        BY <1>2, <3>1, <4>2
    <3>2. QED
      BY <2>1, <3>1
  <2>3. \A h \in Handlers : pc'[h] \in Past => pc[h] \in Past /\ ev'[h] = ev[h]
    BY <1>2, <2>1 DEF handlers
  <2>4. Line' = Kept(Line, Events \ {e})
    BY <2>1, <2>2, LineForgotten DEF Inv
  <2>5. EventsOf(flushLeft') \subseteq EventsOf(flushLeft)
    BY <1>1, <2>1, <2>2, TailItems
  <2>6. Sorted'
    BY <2>1, <2>3, <2>5, SortedKept DEF InLine
  <2>7. QED
    BY <2>1, <2>4, <2>6 DEF InLine
<1>8. QED
  BY <1>3, <1>4, <1>5, <1>6, <1>7 DEF FlushStep

(* Up to the end of the first stop; a crash empties the line behind what    *)
(* was shown.                                                               *)
BeforeDown == stops = 0 \/ (stops = 1 /\ phase = "stopping")

Order ==
    /\ stops = 0 => phase = "up"
    /\ BeforeDown => Ownership /\ InLine

LEMMA OrderStep ==
    ASSUME CallsReturn, Inv, Order, [Next]_vars
    PROVE  Order'
<1> USE DEF Order, BeforeDown
<1>1. \/ UNCHANGED <<phase, stops>>
      \/ BeginDisconnect \/ FinishDisconnect \/ Connect \/ Crash
  <2>1. ASSUME NEW h \in Handlers, HandlerStep(h) PROVE UNCHANGED <<phase, stops>>
    BY <2>1 DEF HandlerStep, GetHandle, HasSeen, MarkSeen, AlreadySeen,
                ResolveIngressPayload, DispatchEvent, ForgetSeen, Retire,
                RemoveSecretArtifact, LogEvent, Reply, budget
  <2>2. CASE FlushStep
    BY <2>2 DEF FlushStep, FlushResolve, FlushDispatch, FlushLog, FlushLogFailed,
                FlushForget, budget
  <2>3. CASE TimerFires \/ UNCHANGED vars
             \/ \E h \in Handlers : CancelHandler(h) \/ \E e \in Events : Send(h, e)
    BY <2>3 DEF TimerFires, CancelHandler, Send, vars, budget
  <2>4. QED
    BY <2>1, <2>2, <2>3 DEF Next
<1>2. stops \in Nat /\ stops' \in Nat
  <2>1. BeginDisconnect => stops' = stops + 1
    BY DEF BeginDisconnect
  <2>2. FinishDisconnect \/ Connect \/ Crash => stops' = stops
    BY DEF FinishDisconnect, Connect, Crash, budget
  <2>3. QED
    BY <1>1, <2>1, <2>2 DEF Inv, TypeOK
<1>3. BeginDisconnect => stops' = stops + 1 /\ phase = "up" /\ phase' = "stopping"
  BY DEF BeginDisconnect
<1>4. FinishDisconnect => stops' = stops /\ phase = "stopping" /\ phase' = "down"
  BY DEF FinishDisconnect, budget
<1>5. Connect => stops' = stops /\ phase = "down" /\ phase' = "up"
  BY DEF Connect, FreshAdapter, budget
<1>6. Crash => stops' = stops /\ phase' = "up"
  BY DEF Crash, FreshAdapter
<1>7. stops' = 0 => phase' = "up"
  BY <1>1, <1>2, <1>3, <1>4, <1>5, <1>6
<1>8. ASSUME BeforeDown'
      PROVE  BeforeDown /\ phase # "down" /\ ~FinishDisconnect /\ ~Connect
  BY <1>1, <1>2, <1>3, <1>4, <1>5, <1>6, <1>8
<1>9. ASSUME BeforeDown'
      PROVE  Ownership'
  BY <1>8, <1>9, OwnershipStep DEF DInv
<1>10. ASSUME BeforeDown'
       PROVE  InLine'
  <2> USE DEF Past
  <2>1. InLine /\ Ownership /\ phase # "down" /\ ~FinishDisconnect /\ ~Connect
    BY <1>8, <1>10
  <2>2. ASSUME NEW h \in Handlers, NEW e \in Events, Send(h, e)
        PROVE  InLine'
    <3>1. /\ UNCHANGED <<inbox, pending, flushLeft, arrivals>>
          /\ \A g \in Handlers : pc'[g] \in Past => pc[g] \in Past /\ ev'[g] = ev[g]
      BY <2>2 DEF Send, durable, bucket, flush, Inv, TypeOK
    <3>2. QED
      BY <2>1, <3>1, InLineKept
  <2>3. CASE TimerFires
    <3>1. /\ UNCHANGED <<inbox, arrivals, pc, ev>>
          /\ LeaveTimer \/ (~FlushBlocked /\ BeginFlush(TimerTask))
      BY <2>3 DEF TimerFires, durable, handlers
    <3>2. QED
      BY <2>1, <3>1, PoppingInLine
  <2>4. CASE UNCHANGED vars \/ BeginDisconnect
    <3>1. UNCHANGED <<inbox, pending, flushLeft, arrivals, pc, ev>>
      BY <2>4 DEF vars, BeginDisconnect, durable, bucket, flush, handlers
    <3>2. QED
      BY <2>1, <3>1, InLineKept
  <2>5. \A h \in Handlers : ~CancelHandler(h)
    BY DEF CallsReturn, CancelHandler
  <2>6. CASE Crash
    <3>1. /\ flushLeft' = <<>> /\ pending' = <<>> /\ inbox' = inbox
          /\ arrivals' = Kept(inbox, Coalesced)
          /\ \A h \in Handlers : pc'[h] = "idle"
      BY <2>6 DEF Crash, FreshAdapter, durable, Coalesced
    <3>2. PICK a \in Seq(Events) : a = Kept(inbox, Coalesced)
      BY LineTypes DEF Inv
    <3>3. Line' = (a \o <<>>) \o <<>>
      BY <3>1, <3>2, InOrderEmpty DEF Line
    <3>4. a \o <<>> = a
      BY ConcatEmptySeq
    <3>5. EventsOf(flushLeft') = {} /\ EventsOf(pending') = {}
      BY <3>1, EmptyItems
    <3>6. Sorted'
      BY <3>1, <3>5 DEF Sorted
    <3>7. QED
      BY <3>1, <3>2, <3>3, <3>4, <3>6 DEF InLine
  <2>7. QED
    BY <2>1, <2>2, <2>3, <2>4, <2>5, <2>6, OrderHandler, OrderFlush DEF Next
<1>11. QED
  BY <1>7, <1>9, <1>10

(* While registry calls return and no handler is cancelled, no routine      *)
(* event is lost, repeated or overtaken by another between its arrival and  *)
(* the conversation: through concurrent requests, failed, re-queued and     *)
(* given-up digests, crashes, and up to the end of the first stop.          *)
THEOREM RoutineKeepsItsOrder ==
    ASSUME CallsReturn
    PROVE  Spec => []RoutineInOrder
<1>1. Init => Order
  <2> SUFFICES ASSUME Init PROVE Order
    OBVIOUS
  <2>1. /\ stops = 0 /\ phase = "up" /\ inbox = <<>> /\ flushLeft = <<>>
        /\ pending = <<>> /\ arrivals = <<>> /\ \A h \in Handlers : pc[h] = "idle"
    BY DEF Init
  <2>2. Ownership
    BY InitDInv DEF DInv
  <2>3. EventsOf(flushLeft) = {} /\ EventsOf(pending) = {}
    BY <2>1, EmptyItems
  <2>4. Sorted
    BY <2>1, <2>3 DEF Sorted, Past
  <2>5. Line = (<<>> \o <<>>) \o <<>>
    BY <2>1, KeptEmpty, InOrderEmpty DEF Line
  <2>6. <<>> \o <<>> = <<>>
    BY EmptySeq, ConcatEmptySeq
  <2>7. QED
    BY <2>1, <2>2, <2>4, <2>5, <2>6 DEF Order, InLine
<1>2. Inv /\ Order /\ [Next]_vars => Order'
  BY OrderStep
<1>3. Order => RoutineInOrder
  BY DEF Order, BeforeDown, InLine, Line, Coalesced, RoutineInOrder
<1>4. QED
  BY <1>1, <1>2, <1>3, InvAlways, PTL DEF Spec

=============================================================================
