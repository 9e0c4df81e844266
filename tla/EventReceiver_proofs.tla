------------------------ MODULE EventReceiver_proofs ------------------------
(***************************************************************************)
(* Theorems about EventReceiver for every set of events and handlers and    *)
(* every limit on attempts, with registry faults, stops and crashes: its    *)
(* type invariant, the timer that covers the bucket, and the single flush.  *)
(***************************************************************************)
EXTENDS EventReceiver, SequenceTheorems, WellFoundedInduction, TLAPS

-----------------------------------------------------------------------------
(* Batches: what the operators on items do to the events in them.           *)

(* No event occurs twice in a batch.                                        *)
Distinct(items) == \A i, j \in DOMAIN items : items[i].ev = items[j].ev => i = j

LEMMA ItemsOf ==
    ASSUME NEW items \in Seq(Item)
    PROVE  /\ DOMAIN items = 1..Len(items) /\ Len(items) \in Nat
           /\ \A i \in DOMAIN items : items[i].ev \in Events
           /\ \A i \in DOMAIN items : items[i].attempts \in 0..MaxAttempts
           /\ EventsOf(items) \subseteq Events
<1>1. DOMAIN items = 1..Len(items) /\ Len(items) \in Nat
  BY LenProperties
<1>2. \A i \in DOMAIN items : items[i] \in Item
  BY <1>1, ElementOfSeq
<1>3. QED
  BY <1>1, <1>2 DEF EventsOf, Item

LEMMA ConcatItems ==
    ASSUME NEW s \in Seq(Item), NEW t \in Seq(Item)
    PROVE  /\ s \o t \in Seq(Item)
           /\ Len(s \o t) = Len(s) + Len(t)
           /\ \A i \in 1 .. Len(s) + Len(t) :
                 (s \o t)[i] = IF i <= Len(s) THEN s[i] ELSE t[i - Len(s)]
BY ConcatProperties

LEMMA EmptyItems == <<>> \in Seq(Item) /\ EventsOf(<<>>) = {} /\ Distinct(<<>>)
<1>1. <<>> \in Seq(Item) /\ DOMAIN <<>> = {}
  BY EmptySeq
<1>2. QED
  BY <1>1 DEF EventsOf, Distinct

LEMMA NonEmptyItems ==
    ASSUME NEW s \in Seq(Item), Len(s) # 0
    PROVE  s # <<>>
OBVIOUS

(* The order in which a digest shows its events.                            *)
LEMMA InOrderItems ==
    ASSUME NEW items \in Seq(Item)
    PROVE  /\ InOrder(items) \in Seq(Events)
           /\ Len(InOrder(items)) = Len(items)
           /\ \A i \in 1..Len(items) : InOrder(items)[i] = items[i].ev
<1>1. InOrder(items) \in [1..Len(items) -> Events]
  BY ItemsOf DEF InOrder
<1>2. QED
  BY <1>1, ItemsOf DEF InOrder

(* A re-queued batch keeps its events, in front of the ones queued since.   *)
LEMMA RequeuedItems ==
    ASSUME NEW batch \in Seq(Item), NEW queued \in Seq(Item),
           NEW n \in 0..MaxAttempts
    PROVE  /\ Requeued(batch, queued, n) \in Seq(Item)
           /\ EventsOf(Requeued(batch, queued, n)) = EventsOf(batch) \cup EventsOf(queued)
           /\ batch # <<>> => Requeued(batch, queued, n) # <<>>
           /\ Distinct(batch) /\ Distinct(queued)
              /\ EventsOf(batch) \cap EventsOf(queued) = {}
                => Distinct(Requeued(batch, queued, n))
<1> DEFINE retried == [i \in DOMAIN batch |-> [ev |-> batch[i].ev, attempts |-> n]]
           all == retried \o queued
<1>1. retried \in [1..Len(batch) -> Item]
  BY ItemsOf DEF Item
<1>2. /\ retried \in Seq(Item) /\ Len(retried) = Len(batch)
      /\ \A i \in 1..Len(batch) : retried[i].ev = batch[i].ev
  BY <1>1, ItemsOf
<1>3. Requeued(batch, queued, n) = all
  BY DEF Requeued
<1> HIDE DEF retried
<1>4. /\ all \in Seq(Item) /\ Len(all) = Len(batch) + Len(queued)
      /\ \A i \in 1 .. Len(batch) + Len(queued) :
            all[i] = IF i <= Len(batch) THEN retried[i] ELSE queued[i - Len(batch)]
  <2>1. /\ retried \o queued \in Seq(Item)
        /\ Len(retried \o queued) = Len(retried) + Len(queued)
        /\ \A i \in 1 .. Len(retried) + Len(queued) : (retried \o queued)[i] =
               IF i <= Len(retried) THEN retried[i] ELSE queued[i - Len(retried)]
    BY <1>2, ConcatItems
  <2>2. QED
    BY <2>1, <1>2
<1> HIDE DEF all
<1>5. DOMAIN all = 1..(Len(batch) + Len(queued))
  BY <1>4, ItemsOf
<1>6. DOMAIN batch = 1..Len(batch) /\ DOMAIN queued = 1..Len(queued)
      /\ Len(batch) \in Nat /\ Len(queued) \in Nat
  BY ItemsOf
<1>7. \A i \in 1..Len(batch) : i \in DOMAIN all /\ all[i].ev = batch[i].ev
  BY <1>2, <1>4, <1>5, <1>6
<1>8. \A i \in 1..Len(queued) :
         Len(batch) + i \in DOMAIN all /\ all[Len(batch) + i].ev = queued[i].ev
  BY <1>4, <1>5, <1>6
<1>9. \A i \in DOMAIN all :
         \/ i \in DOMAIN batch /\ all[i].ev = batch[i].ev
         \/ i - Len(batch) \in DOMAIN queued /\ all[i].ev = queued[i - Len(batch)].ev
  BY <1>2, <1>4, <1>5, <1>6
<1>10. EventsOf(all) = EventsOf(batch) \cup EventsOf(queued)
  BY <1>6, <1>7, <1>8, <1>9 DEF EventsOf
<1>11. batch # <<>> => all # <<>>
  BY <1>4, <1>6, EmptySeq
<1>12. ASSUME Distinct(batch), Distinct(queued),
              EventsOf(batch) \cap EventsOf(queued) = {},
              NEW i \in DOMAIN all, NEW j \in DOMAIN all, all[i].ev = all[j].ev
       PROVE  i = j
  <2>1. CASE i \in DOMAIN batch /\ all[i].ev = batch[i].ev
             /\ j \in DOMAIN batch /\ all[j].ev = batch[j].ev
    BY <1>12, <2>1 DEF Distinct
  <2>2. CASE i \in DOMAIN batch /\ all[i].ev = batch[i].ev
             /\ j - Len(batch) \in DOMAIN queued /\ all[j].ev = queued[j - Len(batch)].ev
    BY <1>12, <2>2 DEF EventsOf
  <2>3. CASE i - Len(batch) \in DOMAIN queued /\ all[i].ev = queued[i - Len(batch)].ev
             /\ j \in DOMAIN batch /\ all[j].ev = batch[j].ev
    BY <1>12, <2>3 DEF EventsOf
  <2>4. CASE i - Len(batch) \in DOMAIN queued /\ all[i].ev = queued[i - Len(batch)].ev
             /\ j - Len(batch) \in DOMAIN queued /\ all[j].ev = queued[j - Len(batch)].ev
    <3>1. i - Len(batch) = j - Len(batch)
      BY <1>12, <2>4 DEF Distinct
    <3>2. QED
      BY <3>1, <1>5, <1>6, <1>12
  <2>5. QED
    BY <1>9, <2>1, <2>2, <2>3, <2>4, <1>12
<1>13. QED
  BY <1>3, <1>4, <1>10, <1>11, <1>12 DEF Distinct

(* Forgetting the head of a batch leaves the others.                        *)
LEMMA TailItems ==
    ASSUME NEW items \in Seq(Item), items # <<>>
    PROVE  /\ Head(items) \in Item /\ Head(items).ev \in EventsOf(items)
           /\ Tail(items) \in Seq(Item)
           /\ Len(items) # 1 => Tail(items) # <<>>
           /\ EventsOf(Tail(items)) \subseteq EventsOf(items)
           /\ Distinct(items) => /\ Distinct(Tail(items))
                                 /\ Head(items).ev \notin EventsOf(Tail(items))
<1>1. /\ Head(items) \in Item /\ Tail(items) \in Seq(Item)
      /\ Len(Tail(items)) = Len(items) - 1
      /\ \A i \in 1 .. Len(Tail(items)) : Tail(items)[i] = items[i + 1]
  BY HeadTailProperties
<1>2. /\ DOMAIN items = 1..Len(items) /\ Len(items) \in Nat \ {0}
      /\ DOMAIN Tail(items) = 1..(Len(items) - 1)
  BY <1>1, ItemsOf, EmptySeq
<1>3. Head(items) = items[1] /\ 1 \in DOMAIN items
  BY <1>2
<1>4. \A i \in DOMAIN Tail(items) :
         i + 1 \in DOMAIN items /\ i + 1 # 1 /\ Tail(items)[i].ev = items[i + 1].ev
  BY <1>1, <1>2
<1>5. Len(items) # 1 => Tail(items) # <<>>
  <2>1. Len(items) # 1 => Len(Tail(items)) # 0
    BY <1>1, <1>2
  <2>2. QED
    BY <2>1, <1>1, NonEmptyItems
<1>6. ASSUME Distinct(items)
      PROVE  Distinct(Tail(items)) /\ Head(items).ev \notin EventsOf(Tail(items))
  <2>1. Head(items).ev \notin EventsOf(Tail(items))
    BY <1>3, <1>4, <1>6 DEF Distinct, EventsOf
  <2>2. ASSUME NEW i \in DOMAIN Tail(items), NEW j \in DOMAIN Tail(items),
               Tail(items)[i].ev = Tail(items)[j].ev
        PROVE  i = j
    <3>1. i + 1 = j + 1
      BY <1>4, <1>6, <2>2 DEF Distinct
    <3>2. QED
      BY <3>1, <1>2, <2>2
  <2>3. QED
    BY <2>1, <2>2 DEF Distinct
<1>7. QED
  BY <1>1, <1>3, <1>4, <1>5, <1>6 DEF EventsOf

(* A new item at the end of the bucket.                                     *)
LEMMA AppendItem ==
    ASSUME NEW items \in Seq(Item), NEW e \in Events
    PROVE  LET more == Append(items, [ev |-> e, attempts |-> 0]) IN
           /\ more \in Seq(Item) /\ more # <<>>
           /\ EventsOf(more) = EventsOf(items) \cup {e}
           /\ Distinct(items) /\ e \notin EventsOf(items) => Distinct(more)
<1> DEFINE item == [ev |-> e, attempts |-> 0]
           more == Append(items, item)
<1>1. item \in Item /\ item.ev = e
  BY ReceiverAssumption DEF Item
<1> HIDE DEF item
<1>2. /\ more \in Seq(Item) /\ Len(more) = Len(items) + 1
      /\ \A i \in 1..Len(items) : more[i] = items[i]
      /\ more[Len(items) + 1] = item
  BY <1>1, AppendProperties
<1> HIDE DEF more
<1>3. /\ DOMAIN more = 1..(Len(items) + 1) /\ DOMAIN items = 1..Len(items)
      /\ Len(items) \in Nat
  BY <1>2, ItemsOf
<1>4. more # <<>>
  BY <1>2, <1>3, EmptySeq
<1>5. \A i \in DOMAIN more : \/ i \in DOMAIN items /\ more[i].ev = items[i].ev
                             \/ i = Len(items) + 1 /\ more[i].ev = e
  BY <1>1, <1>2, <1>3
<1>6. \A i \in DOMAIN items : i \in DOMAIN more /\ more[i].ev = items[i].ev
  BY <1>2, <1>3
<1>7. Len(items) + 1 \in DOMAIN more /\ more[Len(items) + 1].ev = e
  BY <1>1, <1>2, <1>3
<1>8. EventsOf(more) = EventsOf(items) \cup {e}
  BY <1>5, <1>6, <1>7 DEF EventsOf
<1>9. Distinct(items) /\ e \notin EventsOf(items) => Distinct(more)
  BY <1>5 DEF Distinct, EventsOf
<1>10. QED
  BY <1>2, <1>4, <1>8, <1>9 DEF more, item

-----------------------------------------------------------------------------
(* The conversation: what showing an event or a batch does to the inbox.    *)

Members(s) == {s[i] : i \in DOMAIN s}

Unrepeated(s) == \A i, j \in DOMAIN s : s[i] = s[j] => i = j

LEMMA ShowOne ==
    ASSUME NEW s \in Seq(Events), NEW e \in Events
    PROVE  /\ Append(s, e) \in Seq(Events)
           /\ Members(Append(s, e)) = Members(s) \cup {e}
           /\ Unrepeated(s) /\ e \notin Members(s) => Unrepeated(Append(s, e))
<1> DEFINE t == Append(s, e)
<1>1. /\ t \in Seq(Events) /\ Len(t) = Len(s) + 1
      /\ \A i \in 1..Len(s) : t[i] = s[i]
      /\ t[Len(s) + 1] = e
  BY AppendProperties
<1> HIDE DEF t
<1>2. /\ DOMAIN t = 1..(Len(s) + 1) /\ DOMAIN s = 1..Len(s) /\ Len(s) \in Nat
  BY <1>1, LenProperties
<1>3. \A i \in DOMAIN t : \/ i \in DOMAIN s /\ t[i] = s[i]
                          \/ i = Len(s) + 1 /\ t[i] = e
  BY <1>1, <1>2
<1>4. \A i \in DOMAIN s : i \in DOMAIN t /\ t[i] = s[i]
  BY <1>1, <1>2
<1>5. Len(s) + 1 \in DOMAIN t /\ t[Len(s) + 1] = e
  BY <1>1, <1>2
<1>6. Members(t) = Members(s) \cup {e}
  BY <1>3, <1>4, <1>5 DEF Members
<1>7. Unrepeated(s) /\ e \notin Members(s) => Unrepeated(t)
  BY <1>3 DEF Unrepeated, Members
<1>8. QED
  BY <1>1, <1>6, <1>7 DEF t

LEMMA ShowBatch ==
    ASSUME NEW s \in Seq(Events), NEW items \in Seq(Item)
    PROVE  /\ s \o InOrder(items) \in Seq(Events)
           /\ Members(s \o InOrder(items)) = Members(s) \cup EventsOf(items)
           /\ Unrepeated(s) /\ Distinct(items) /\ Members(s) \cap EventsOf(items) = {}
                => Unrepeated(s \o InOrder(items))
<1> DEFINE b == InOrder(items)
           t == s \o b
<1>1. /\ b \in Seq(Events) /\ Len(b) = Len(items)
      /\ \A i \in 1..Len(items) : b[i] = items[i].ev
  BY InOrderItems
<1> HIDE DEF b
<1>2. /\ t \in Seq(Events) /\ Len(t) = Len(s) + Len(b)
      /\ \A i \in 1 .. Len(s) + Len(b) :
            t[i] = IF i <= Len(s) THEN s[i] ELSE b[i - Len(s)]
  BY <1>1, ConcatProperties
<1> HIDE DEF t
<1>3. /\ DOMAIN t = 1..(Len(s) + Len(items))
      /\ DOMAIN s = 1..Len(s) /\ Len(s) \in Nat
      /\ DOMAIN items = 1..Len(items) /\ Len(items) \in Nat
  BY <1>1, <1>2, LenProperties
<1>4. \A i \in DOMAIN t :
         \/ i \in DOMAIN s /\ t[i] = s[i]
         \/ i - Len(s) \in DOMAIN items /\ t[i] = items[i - Len(s)].ev
  BY <1>1, <1>2, <1>3
<1>5. \A i \in DOMAIN s : i \in DOMAIN t /\ t[i] = s[i]
  BY <1>1, <1>2, <1>3
<1>6. \A i \in DOMAIN items : Len(s) + i \in DOMAIN t /\ t[Len(s) + i] = items[i].ev
  BY <1>1, <1>2, <1>3
<1>7. Members(t) = Members(s) \cup EventsOf(items)
  BY <1>3, <1>4, <1>5, <1>6 DEF Members, EventsOf
<1>8. ASSUME Unrepeated(s), Distinct(items), Members(s) \cap EventsOf(items) = {},
             NEW i \in DOMAIN t, NEW j \in DOMAIN t, t[i] = t[j]
      PROVE  i = j
  <2>1. CASE i \in DOMAIN s /\ t[i] = s[i] /\ j \in DOMAIN s /\ t[j] = s[j]
    BY <1>8, <2>1 DEF Unrepeated
  <2>2. CASE i \in DOMAIN s /\ t[i] = s[i]
             /\ j - Len(s) \in DOMAIN items /\ t[j] = items[j - Len(s)].ev
    BY <1>8, <2>2 DEF Members, EventsOf
  <2>3. CASE i - Len(s) \in DOMAIN items /\ t[i] = items[i - Len(s)].ev
             /\ j \in DOMAIN s /\ t[j] = s[j]
    BY <1>8, <2>3 DEF Members, EventsOf
  <2>4. CASE i - Len(s) \in DOMAIN items /\ t[i] = items[i - Len(s)].ev
             /\ j - Len(s) \in DOMAIN items /\ t[j] = items[j - Len(s)].ev
    <3>1. i - Len(s) = j - Len(s)
      BY <1>8, <2>4 DEF Distinct
    <3>2. QED
      BY <3>1, <1>3, <1>8
  <2>5. QED
    BY <1>4, <1>8, <2>1, <2>2, <2>3, <2>4
<1>9. QED
  BY <1>2, <1>7, <1>8 DEF b, t, Unrepeated

-----------------------------------------------------------------------------
(* The shape of a reachable state: types, who flushes, what is flushed.     *)

Flushing == {"resolve", "dispatch", "log_failed", "forget"}

Shape ==
    /\ SingleFlight
    /\ TimerCoversBucket
    /\ \A h \in Handlers : pc[h] # "idle" => ev[h] \in Events
    /\ flushAt \in Flushing <=> flushLeft # <<>>
    /\ phase = "down" => pending = <<>> /\ \A h \in Handlers : pc[h] = "idle"

Inv == TypeOK /\ Shape

(* Where a handler is responsible for its event: marked, not settled yet.   *)
Holding == {"resolve", "flush", "dispatch", "forget"}

-----------------------------------------------------------------------------
LEMMA InitInv == Init => Inv
BY ReceiverAssumption, EmptySeq
   DEF Init, Inv, TypeOK, Shape, SingleFlight, TimerCoversBucket, Flushing,
       HandlerLabel

(* The steps of a handler that leave the buffers alone.                     *)
LEMMA HandlerStepInv ==
    ASSUME Inv, NEW h \in Handlers,
           \/ GetHandle(h) \/ HasSeen(h) \/ MarkSeen(h) \/ AlreadySeen(h)
           \/ DispatchEvent(h) \/ ForgetSeen(h) \/ Retire(h)
           \/ RemoveSecretArtifact(h) \/ LogEvent(h) \/ Reply(h)
    PROVE  Inv'
<1> USE ReceiverAssumption
    DEF Inv, TypeOK, Shape, SingleFlight, TimerCoversBucket, Flushing,
        HandlerLabel, Goto, Decide, RegistryRaises,
        durable, bucket, flush, handlers, budget
<1>1. CASE GetHandle(h)
  BY <1>1 DEF GetHandle
<1>2. CASE HasSeen(h)
  BY <1>2 DEF HasSeen
<1>3. CASE MarkSeen(h)
  BY <1>3 DEF MarkSeen
<1>4. CASE AlreadySeen(h)
  BY <1>4 DEF AlreadySeen
<1>5. CASE DispatchEvent(h)
  <2>1. ev[h] \in Events /\ Append(inbox, ev[h]) \in Seq(Events)
    <3>1. inbox \in Seq(Events) /\ ev[h] \in Events
      BY <1>5 DEF DispatchEvent
    <3>2. QED
      BY <3>1, ShowOne
  <2>2. inbox' \in Seq(Events)
    BY <1>5, <2>1 DEF DispatchEvent
  <2>3. PICK l \in {"retire", "log", "forget"} : pc' = [pc EXCEPT ![h] = l]
    BY <1>5 DEF DispatchEvent
  <2>4. /\ answer' = answer \/ answer' = [answer EXCEPT ![h] = "accepted"]
        /\ UNCHANGED <<seen, enabled, artifact, phase, bucket, flush, ev, budget>>
        /\ pc[h] = "dispatch"
    BY <1>5 DEF DispatchEvent
  <2>5. TypeOK'
    BY <2>2, <2>3, <2>4
  <2>6. Shape'
    BY <2>3, <2>4
  <2>7. QED
    BY <2>5, <2>6
<1>6. CASE ForgetSeen(h)
  BY <1>6 DEF ForgetSeen
<1>7. CASE Retire(h)
  BY <1>7 DEF Retire
<1>8. CASE RemoveSecretArtifact(h)
  BY <1>8 DEF RemoveSecretArtifact
<1>9. CASE LogEvent(h)
  BY <1>9 DEF LogEvent
<1>10. CASE Reply(h)
  BY <1>10 DEF Reply
<1>11. QED
  BY <1>1, <1>2, <1>3, <1>4, <1>5, <1>6, <1>7, <1>8, <1>9, <1>10

(* The three ways from the stored payload: a flush, the bucket, dispatch.   *)
LEMMA ResolveIngressPayloadInv ==
    ASSUME Inv, NEW h \in Handlers, ResolveIngressPayload(h)
    PROVE  Inv'
<1> USE ReceiverAssumption
    DEF Inv, TypeOK, Shape, SingleFlight, TimerCoversBucket, Flushing,
        HandlerLabel, Goto, Decide, RegistryRaises,
        durable, bucket, flush, handlers, budget, ResolveIngressPayload
<1>1. CASE PriorityFlush(h)
  <2>1. CASE FlushBlocked
    BY <1>1, <2>1 DEF PriorityFlush, FlushBlocked, LeaveTimer, Rescheduled
  <2>2. CASE ~FlushBlocked
    BY <1>1, <2>2 DEF PriorityFlush, FlushBlocked, BeginFlush
  <2>3. QED
    BY <2>1, <2>2
<1>2. CASE QueueCoalescedEvent(h)
  <2>1. ev[h] \in Events /\ pending \in Seq(Item)
    OBVIOUS
  <2>2. pending' \in Seq(Item) /\ pending' # <<>>
    BY <1>2, <2>1, AppendItem DEF QueueCoalescedEvent
  <2>3. /\ timer' = "armed"
        /\ pc' = [pc EXCEPT ![h] = "log"] /\ answer' = [answer EXCEPT ![h] = "queued"]
        /\ UNCHANGED <<durable, phase, inflight, flush, ev, budget>>
    BY <1>2 DEF QueueCoalescedEvent
  <2>4. QED
    BY <2>2, <2>3
<1>3. CASE /\ ~(HasPendingCoalesced /\ ev[h] \in Priority)
           /\ ~ShouldCoalesce(ev[h])
           /\ Goto(h, "dispatch")
           /\ UNCHANGED <<bucket, flush, arrivals>>
  BY <1>3
<1>4. CASE RegistryRaises(h) /\ UNCHANGED <<bucket, flush, arrivals>>
  BY <1>4
<1>5. QED
  BY <1>1, <1>2, <1>3, <1>4

LEMMA TimerFiresInv ==
    ASSUME Inv, TimerFires
    PROVE  Inv'
<1> USE ReceiverAssumption
    DEF Inv, TypeOK, Shape, SingleFlight, TimerCoversBucket, Flushing,
        HandlerLabel, durable, bucket, flush, handlers, budget
<1>1. CASE FlushBlocked
  BY <1>1 DEF TimerFires, FlushBlocked, LeaveTimer, Rescheduled
<1>2. CASE ~FlushBlocked
  BY <1>2 DEF TimerFires, FlushBlocked, BeginFlush
<1>3. QED
  BY <1>1, <1>2

(* However a flush ends, its task is gone and no handler awaits it.         *)
LEMMA FlushEnds ==
    ASSUME Inv, flushAt # "none", FlushReturns \/ FlushRaises
    PROVE  /\ flushBy' = None /\ flushAt' = "none" /\ flushLeft' = <<>>
           /\ ev' = ev
           /\ pc' \in [Handlers -> HandlerLabel]
           /\ answer' \in [Handlers ->
                {"none", "rejected", "duplicate", "queued", "accepted", "error"}]
           /\ \A h \in Handlers : pc'[h] # "flush" /\ (pc'[h] = "idle" <=> pc[h] = "idle")
           /\ \A h \in Handlers : pc'[h] \in Holding => pc[h] \in Holding
<1> USE ReceiverAssumption
    DEF Inv, TypeOK, Shape, SingleFlight, HandlerLabel, Goto, Decide,
        FlushReturns, FlushRaises, handlers, Holding
<1>1. CASE flushBy = TimerTask
  BY <1>1
<1>2. CASE flushBy \in Handlers
  <2>1. PICK l \in {"dispatch", "reply"} : pc' = [pc EXCEPT ![flushBy] = l]
    BY <1>2
  <2>2. ev' = ev /\ (answer' = answer \/ answer' = [answer EXCEPT ![flushBy] = "error"])
    BY <1>2
  <2>3. flushBy' = None /\ flushAt' = "none" /\ flushLeft' = <<>>
    OBVIOUS
  <2>4. pc[flushBy] = "flush"
    BY <1>2
  <2>5. QED
    BY <1>2, <2>1, <2>2, <2>3, <2>4
<1>3. QED
  BY <1>1, <1>2

(* A flush that ends leaves a good state, whatever it did to the buffers,   *)
(* as long as it leaves a timer with the bucket.                            *)
LEMMA FlushEndsInv ==
    ASSUME Inv, flushAt # "none", FlushReturns \/ FlushRaises,
           seen' \subseteq Events, inbox' \in Seq(Events),
           pending' \in Seq(Item), inflight' \in Seq(Item),
           timer' \in {"none", "armed"}, TimerCoversBucket',
           phase = "down" => pending' = <<>>,
           UNCHANGED <<enabled, artifact, phase, budget>>
    PROVE  Inv'
<1>1. /\ flushBy' = None /\ flushAt' = "none" /\ flushLeft' = <<>>
      /\ ev' = ev
      /\ pc' \in [Handlers -> HandlerLabel]
      /\ answer' \in [Handlers ->
            {"none", "rejected", "duplicate", "queued", "accepted", "error"}]
      /\ \A h \in Handlers : pc'[h] # "flush" /\ (pc'[h] = "idle" <=> pc[h] = "idle")
  BY FlushEnds
<1>2. flushLeft' \in Seq(Item)
  BY <1>1, EmptySeq
<1>3. TypeOK'
  BY <1>1, <1>2 DEF Inv, TypeOK, budget, HandlerLabel
<1>4. SingleFlight'
  BY <1>1, ReceiverAssumption DEF SingleFlight
<1>5. /\ \A h \in Handlers : pc'[h] # "idle" => ev'[h] \in Events
      /\ phase' = "down" => pending' = <<>> /\ \A h \in Handlers : pc'[h] = "idle"
  BY <1>1 DEF Inv, Shape
<1>6. QED
  BY <1>1, <1>3, <1>4, <1>5 DEF Inv, Shape, Flushing

(* A flush moves on, or ends and lets its handler go.                       *)
LEMMA FlushStepInv ==
    ASSUME Inv, FlushStep
    PROVE  Inv'
<1> USE ReceiverAssumption
    DEF Inv, TypeOK, Shape, SingleFlight, TimerCoversBucket, Flushing,
        HandlerLabel, durable, bucket, flush, handlers, budget
<1>1. CASE FlushResolve
  <2>1. CASE flushAt' = "dispatch" /\ UNCHANGED <<flushBy, flushLeft, handlers>>
    BY <1>1, <2>1 DEF FlushResolve
  <2>2. CASE FlushRaises
    BY <1>1, <2>2, FlushEndsInv DEF FlushResolve
  <2>3. QED
    BY <1>1, <2>1, <2>2 DEF FlushResolve
<1>2. CASE FlushDispatch
  <2>1. inbox \in Seq(Events) /\ flushLeft \in Seq(Item)
    OBVIOUS
  <2>2. inbox \o InOrder(flushLeft) \in Seq(Events)
    BY <2>1, ShowBatch
  <2>3. inbox' \in Seq(Events)
    BY <1>2, <2>1, <2>2 DEF FlushDispatch
  <2>4. \/ flushLeft' = <<>> /\ flushAt' = "log"
        \/ flushLeft' = flushLeft /\ flushAt' = "log_failed"
    BY <1>2 DEF FlushDispatch
  <2>5. /\ flushAt = "dispatch"
        /\ UNCHANGED <<seen, enabled, artifact, phase, bucket, flushBy, handlers, budget>>
    BY <1>2 DEF FlushDispatch
  <2>6. flushLeft' \in Seq(Item)
    BY <2>1, <2>4, EmptyItems, Zenon
  <2>7. TypeOK'
    BY <2>3, <2>4, <2>5, <2>6
  <2>8. Shape'
    BY <2>4, <2>5
  <2>9. QED
    BY <2>7, <2>8
<1>3. CASE FlushLog
  <2>1. flushAt = "log" /\ (FlushReturns \/ FlushRaises) /\ inflight' = <<>>
        /\ UNCHANGED <<durable, phase, pending, timer, budget>>
    BY <1>3 DEF FlushLog
  <2>2. QED
    BY <2>1, FlushEndsInv, EmptySeq
<1>4. CASE FlushLogFailed
  <2>1. CASE GivesUp(flushLeft) /\ flushAt' = "forget"
             /\ UNCHANGED <<bucket, flushBy, flushLeft, handlers>>
    BY <1>4, <2>1 DEF FlushLogFailed
  <2>2. ASSUME ~GivesUp(flushLeft),
               NEW n \in {flushLeft[i].attempts + 1 : i \in DOMAIN flushLeft},
               pending' = Requeued(flushLeft, pending, n),
               timer' = Rescheduled(pending'), inflight' = <<>>, FlushReturns
        PROVE  Inv'
    <3>1. pending \in Seq(Item) /\ flushLeft \in Seq(Item) /\ flushLeft # <<>>
      BY <1>4 DEF FlushLogFailed
    <3>2. n \in 0..MaxAttempts
      BY <2>2, <3>1, ItemsOf DEF GivesUp
    <3>3. pending' \in Seq(Item) /\ pending' # <<>>
      BY <2>2, <3>1, <3>2, RequeuedItems
    <3>4. timer' = "armed"
      BY <2>2, <3>3 DEF Rescheduled
    <3>5. /\ UNCHANGED <<durable, phase, budget>>
          /\ flushAt = "log_failed" /\ phase = "up"
      BY <1>4, <2>2 DEF FlushLogFailed, GivesUp
    <3>6. QED
      BY <2>2, <3>3, <3>4, <3>5, FlushEndsInv, EmptySeq
  <2>3. CASE FlushRaises /\ inflight' = <<>> /\ UNCHANGED <<pending, timer>>
    <3>1. flushAt = "log_failed" /\ UNCHANGED <<durable, phase, budget>>
      BY <1>4 DEF FlushLogFailed
    <3>2. QED
      BY <2>3, <3>1, FlushEndsInv, EmptySeq
  <2>4. QED
    BY <1>4, <2>1, <2>2, <2>3 DEF FlushLogFailed
<1>5. CASE FlushForget
  <2>1. flushLeft \in Seq(Item) /\ flushLeft # <<>> /\ flushAt = "forget"
        /\ seen' \subseteq Events
        /\ UNCHANGED <<enabled, artifact, inbox, phase, pending, timer, budget>>
    BY <1>5 DEF FlushForget
  <2>2. CASE inflight' = <<>> /\ (FlushReturns \/ FlushRaises)
    BY <2>1, <2>2, FlushEndsInv, EmptySeq
  <2>3. CASE Len(flushLeft) # 1 /\ flushLeft' = Tail(flushLeft)
             /\ UNCHANGED <<inflight, flushBy, flushAt, handlers>>
    <3>1. flushLeft' \in Seq(Item) /\ flushLeft' # <<>>
      BY <2>1, <2>3, TailItems
    <3>2. QED
      BY <2>1, <2>3, <3>1
  <2>4. QED
    BY <1>5, <2>2, <2>3 DEF FlushForget
<1>6. QED
  BY <1>1, <1>2, <1>3, <1>4, <1>5 DEF FlushStep

(* Stopping and dying.                                                      *)
LEMMA LifeInv ==
    ASSUME Inv, \/ \E h \in Handlers : CancelHandler(h)
                \/ BeginDisconnect \/ FinishDisconnect \/ Connect \/ Crash
    PROVE  Inv'
<1> USE ReceiverAssumption, EmptySeq
    DEF Inv, TypeOK, Shape, SingleFlight, TimerCoversBucket, Flushing,
        HandlerLabel, durable, bucket, flush, handlers, budget
<1>1. ASSUME NEW h \in Handlers, CancelHandler(h)
      PROVE  Inv'
  BY <1>1 DEF CancelHandler
<1>2. CASE BeginDisconnect
  BY <1>2 DEF BeginDisconnect
<1>3. CASE FinishDisconnect
  BY <1>3 DEF FinishDisconnect
<1>4. CASE Connect
  BY <1>4 DEF Connect, FreshAdapter
<1>5. CASE Crash
  BY <1>5 DEF Crash, FreshAdapter
<1>6. QED
  BY <1>1, <1>2, <1>3, <1>4, <1>5

LEMMA InvStep == Inv /\ [Next]_vars => Inv'
<1> SUFFICES ASSUME Inv, [Next]_vars PROVE Inv'
  OBVIOUS
<1>1. ASSUME NEW h \in Handlers, NEW e \in Events, Send(h, e)
      PROVE  Inv'
  BY <1>1, ReceiverAssumption
     DEF Send, Inv, TypeOK, Shape, SingleFlight, TimerCoversBucket, Flushing,
         HandlerLabel, durable, bucket, flush
<1>2. ASSUME NEW h \in Handlers, HandlerStep(h)
      PROVE  Inv'
  BY <1>2, HandlerStepInv, ResolveIngressPayloadInv DEF HandlerStep
<1>3. CASE UNCHANGED vars
  BY <1>3
     DEF vars, Inv, TypeOK, Shape, SingleFlight, TimerCoversBucket, Flushing,
         HandlerLabel, durable, bucket, flush, handlers, budget
<1>4. QED
  BY <1>1, <1>2, <1>3, FlushStepInv, TimerFiresInv, LifeInv DEF Next

LEMMA InvAlways == Spec => []Inv
BY InitInv, InvStep, PTL DEF Spec

(* Every variable keeps its type, and no item of a batch is ever tried more *)
(* often than MaxAttempts allows.                                           *)
THEOREM TypeCorrect == Spec => []TypeOK
<1>1. Inv => TypeOK
  BY DEF Inv
<1>2. QED
  BY <1>1, InvAlways, PTL

(* The debounce bucket has a live timer exactly while it holds events, in   *)
(* every interleaving of flushes, failures, requests, stops and crashes.    *)
THEOREM BucketHasTimer == Spec => []TimerCoversBucket
<1>1. Inv => TimerCoversBucket
  BY DEF Inv, Shape
<1>2. QED
  BY <1>1, InvAlways, PTL

(* Flushes of the bucket never overlap, and a handler waits for a flush     *)
(* only while the flush it began is at work.                                *)
THEOREM OneFlush == Spec => []SingleFlight
<1>1. Inv => SingleFlight
  BY DEF Inv, Shape
<1>2. QED
  BY <1>1, InvAlways, PTL

-----------------------------------------------------------------------------
(* Retirement.  A handler is at it only when its own event is a terminal    *)
(* one that was shown, and removes the secret only of a disabled listener.  *)
Retirement ==
    /\ RetiredAfterDelivery
    /\ \A h \in Handlers : pc[h] \in {"retire", "unlink"} =>
          ev[h] \in Terminal /\ ev[h] \in Shown
    /\ \A h \in Handlers : pc[h] = "unlink" => ~enabled

LEMMA ShownIsMembers == Shown = Members(inbox) /\ Shown' = Members(inbox')
BY DEF Shown, Members

(* The conversation forgets nothing: no step takes an event out of it.      *)
LEMMA ShownGrows ==
    ASSUME Inv, [Next]_vars
    PROVE  Shown \subseteq Shown'
<1> USE ShownIsMembers
<1>1. inbox \in Seq(Events) /\ flushLeft \in Seq(Item)
  BY DEF Inv, TypeOK
<1>2. ASSUME NEW h \in Handlers, DispatchEvent(h)
      PROVE  Shown \subseteq Shown'
  <2>1. ev[h] \in Events
    BY <1>2 DEF Inv, Shape, DispatchEvent
  <2>2. CASE inbox' = Append(inbox, ev[h])
    BY <1>1, <2>1, <2>2, ShowOne
  <2>3. QED
    BY <1>2, <2>2 DEF DispatchEvent
<1>3. CASE FlushDispatch
  <2>1. CASE inbox' = inbox \o InOrder(flushLeft)
    BY <1>1, <2>1, ShowBatch
  <2>2. QED
    BY <1>3, <2>1 DEF FlushDispatch
<1>4. ASSUME NEW h \in Handlers, HandlerStep(h), ~DispatchEvent(h)
      PROVE  inbox' = inbox
  BY <1>4 DEF HandlerStep, GetHandle, HasSeen, MarkSeen, AlreadySeen,
              ResolveIngressPayload, ForgetSeen, Retire, RemoveSecretArtifact,
              LogEvent, Reply, durable
<1>5. ASSUME FlushStep, ~FlushDispatch
      PROVE  inbox' = inbox
  BY <1>5 DEF FlushStep, FlushResolve, FlushLog, FlushLogFailed, FlushForget, durable
<1>6. ASSUME \/ \E h \in Handlers : CancelHandler(h) \/ \E e \in Events : Send(h, e)
             \/ TimerFires \/ BeginDisconnect \/ FinishDisconnect \/ Connect \/ Crash
             \/ UNCHANGED vars
      PROVE  inbox' = inbox
  BY <1>6 DEF CancelHandler, Send, TimerFires, BeginDisconnect, FinishDisconnect,
              Connect, Crash, FreshAdapter, vars, durable
<1>7. QED
  BY <1>2, <1>3, <1>4, <1>5, <1>6 DEF Next

(* A step that retires nothing and lets no handler begin to.                *)
LEMMA RetirementKept ==
    ASSUME Retirement, Shown \subseteq Shown', UNCHANGED <<enabled, artifact>>,
           \A h \in Handlers : pc'[h] \in {"retire", "unlink"} =>
              pc'[h] = pc[h] /\ ev'[h] = ev[h]
    PROVE  Retirement'
BY DEF Retirement, RetiredAfterDelivery

LEMMA RetirementHandler ==
    ASSUME Inv, Retirement, Shown \subseteq Shown', NEW h \in Handlers, HandlerStep(h)
    PROVE  Retirement'
<1> USE DEF Goto, Decide, RegistryRaises
<1>1. pc \in [Handlers -> HandlerLabel] /\ inbox \in Seq(Events)
  BY DEF Inv, TypeOK
<1>2. ASSUME UNCHANGED <<enabled, artifact>>,
             \E l \in HandlerLabel \ {"retire", "unlink"} : pc' = [pc EXCEPT ![h] = l],
             \A g \in Handlers : g # h => ev'[g] = ev[g]
      PROVE  Retirement'
  <2>1. \A g \in Handlers : pc'[g] \in {"retire", "unlink"} =>
           g # h /\ pc'[g] = pc[g] /\ ev'[g] = ev[g]
    BY <1>1, <1>2
  <2>2. QED
    BY <1>2, <2>1, RetirementKept
<1>3. CASE DispatchEvent(h)
  <2>1. CASE Goto(h, "forget")
    BY <1>2, <1>3, <2>1 DEF DispatchEvent, HandlerLabel
  <2>2. CASE ev[h] \notin Terminal /\ Decide(h, "log", "accepted")
    BY <1>2, <1>3, <2>2 DEF DispatchEvent, HandlerLabel
  <2>3. CASE ev[h] \in Terminal /\ Decide(h, "retire", "accepted")
             /\ inbox' = Append(inbox, ev[h])
    <3>1. ev[h] \in Events /\ UNCHANGED <<enabled, artifact>>
      BY <1>3, ReceiverAssumption, <2>3 DEF DispatchEvent
    <3>2. ev[h] \in Shown'
      BY <1>1, <2>3, <3>1, ShowOne, ShownIsMembers
    <3>3. \A g \in Handlers : /\ ev'[g] = ev[g]
                              /\ g # h => pc'[g] = pc[g]
                              /\ pc'[h] = "retire"
      BY <1>1, <2>3
    <3>4. QED
      BY <2>3, <3>1, <3>2, <3>3 DEF Retirement, RetiredAfterDelivery
  <2>4. QED
    BY <1>3, <2>1, <2>2, <2>3 DEF DispatchEvent
<1>4. CASE Retire(h)
  <2>1. pc[h] = "retire" /\ UNCHANGED <<artifact, ev>>
    BY <1>4 DEF Retire
  <2>2. CASE enabled' = FALSE /\ Goto(h, "unlink")
    <3>1. \A g \in Handlers : g # h => pc'[g] = pc[g]
      BY <1>1, <2>2
    <3>2. ev[h] \in Terminal /\ ev[h] \in Shown'
      BY <2>1 DEF Retirement
    <3>3. QED
      BY <2>1, <2>2, <3>1, <3>2 DEF Retirement, RetiredAfterDelivery
  <2>3. CASE RegistryRaises(h) /\ UNCHANGED enabled
    BY <1>2, <2>1, <2>3 DEF HandlerLabel
  <2>4. QED
    BY <1>4, <2>2, <2>3 DEF Retire
<1>5. CASE RemoveSecretArtifact(h)
  <2>1. /\ pc[h] = "unlink" /\ pc' = [pc EXCEPT ![h] = "log"]
        /\ UNCHANGED <<enabled, ev>>
    BY <1>5 DEF RemoveSecretArtifact
  <2>2. ~enabled'
    BY <2>1 DEF Retirement
  <2>3. \A g \in Handlers : pc'[g] \in {"retire", "unlink"} => pc'[g] = pc[g]
    BY <1>1, <2>1
  <2>4. QED
    BY <2>1, <2>2, <2>3 DEF Retirement, RetiredAfterDelivery
<1>6. CASE ResolveIngressPayload(h)
  <2>1. \E l \in {"dispatch", "flush", "log", "reply"} : pc' = [pc EXCEPT ![h] = l]
        /\ ev' = ev /\ UNCHANGED <<enabled, artifact>>
    BY <1>6 DEF ResolveIngressPayload, PriorityFlush, QueueCoalescedEvent, durable
  <2>2. QED
    BY <1>2, <2>1 DEF HandlerLabel
<1>7. CASE Reply(h)
  BY <1>2, <1>7 DEF Reply, HandlerLabel, durable, Inv, TypeOK
<1>8. CASE \/ GetHandle(h) \/ HasSeen(h) \/ MarkSeen(h) \/ AlreadySeen(h)
           \/ ForgetSeen(h) \/ LogEvent(h)
  <2>1. UNCHANGED <<enabled, artifact>>
    BY <1>8 DEF GetHandle, HasSeen, MarkSeen, AlreadySeen, ForgetSeen, LogEvent, durable
  <2>2. \E l \in {"has_seen", "log", "mark_seen", "reply", "resolve", "already_seen"} :
           pc' = [pc EXCEPT ![h] = l] /\ ev' = ev
    BY <1>8 DEF GetHandle, HasSeen, MarkSeen, AlreadySeen, ForgetSeen, LogEvent
  <2>3. QED
    BY <1>2, <2>1, <2>2 DEF HandlerLabel
<1>9. QED
  BY <1>3, <1>4, <1>5, <1>6, <1>7, <1>8 DEF HandlerStep

LEMMA RetirementStep ==
    ASSUME Inv, Retirement, [Next]_vars
    PROVE  Retirement'
<1>1. Shown \subseteq Shown'
  BY ShownGrows
<1>2. ASSUME UNCHANGED <<enabled, artifact, handlers>>
      PROVE  Retirement'
  BY <1>1, <1>2, RetirementKept DEF handlers
<1>3. ASSUME UNCHANGED <<enabled, artifact>>, flushAt # "none",
             FlushReturns \/ FlushRaises
      PROVE  Retirement'
  <2>1. CASE flushBy = TimerTask
    BY <1>2, <1>3, <2>1 DEF FlushReturns, FlushRaises
  <2>2. CASE flushBy # TimerTask
    <3>1. \E l \in {"dispatch", "reply"} : pc' = [pc EXCEPT ![flushBy] = l] /\ ev' = ev
      BY <1>3, <2>2 DEF FlushReturns, FlushRaises, Goto, Decide
    <3>2. pc \in [Handlers -> HandlerLabel]
      BY DEF Inv, TypeOK
    <3>3. QED
      BY <1>1, <1>3, <3>1, <3>2, RetirementKept
  <2>3. QED
    BY <2>1, <2>2
<1>4. ASSUME NEW h \in Handlers, NEW e \in Events, Send(h, e)
      PROVE  Retirement'
  BY <1>1, <1>4, RetirementKept DEF Send, durable, Inv, TypeOK
<1>5. CASE FlushStep
  <2>1. flushAt # "none" /\ UNCHANGED <<enabled, artifact>>
    BY <1>5 DEF FlushStep, FlushResolve, FlushDispatch, FlushLog, FlushLogFailed,
                FlushForget, durable
  <2>2. UNCHANGED handlers \/ FlushReturns \/ FlushRaises
    BY <1>5 DEF FlushStep, FlushResolve, FlushDispatch, FlushLog, FlushLogFailed,
                FlushForget
  <2>3. QED
    BY <1>2, <1>3, <2>1, <2>2
<1>6. ASSUME NEW h \in Handlers, CancelHandler(h)
      PROVE  Retirement'
  BY <1>1, <1>6, RetirementKept DEF CancelHandler, durable, Inv, TypeOK
<1>7. CASE Connect \/ Crash
  BY <1>1, <1>7, RetirementKept DEF Connect, Crash, FreshAdapter, durable
<1>8. CASE TimerFires \/ BeginDisconnect \/ FinishDisconnect \/ UNCHANGED vars
  BY <1>2, <1>8 DEF TimerFires, BeginDisconnect, FinishDisconnect, vars, durable
<1>9. QED
  BY <1>1, <1>4, <1>5, <1>6, <1>7, <1>8, RetirementHandler DEF Next

(* A listener is disabled only after a terminal event of its own was shown, *)
(* and its secret file is removed only after that, with any request, fault, *)
(* stop or crash in between.                                                *)
THEOREM RetiredAfterShown == Spec => []RetiredAfterDelivery
<1>1. Init => Retirement
  BY DEF Init, Retirement, RetiredAfterDelivery
<1>2. Inv /\ Retirement /\ [Next]_vars => Retirement'
  BY RetirementStep
<1>3. Retirement => RetiredAfterDelivery
  BY DEF Retirement
<1>4. QED
  BY <1>1, <1>2, <1>3, InvAlways, PTL DEF Spec

-----------------------------------------------------------------------------
(* Induction, stated for sets: the library's rules take an operator.        *)

(* A nonempty set of naturals has a least element.                          *)
LEMMA LeastNumber ==
    ASSUME NEW S \in SUBSET Nat, S # {}
    PROVE  \E n \in S : \A m \in S : n <= m
<1>1. IsWellFoundedOn(OpToRel(<, Nat), Nat)
  BY NatLessThanWellFounded, Zenon
<1>2. \E n \in S : \A m \in S : ~(<<m, n>> \in OpToRel(<, Nat))
  BY <1>1, WFMin, Zenon
<1>3. \A m, n \in Nat : m < n => <<m, n>> \in OpToRel(<, Nat)
  BY Zenon DEF OpToRel
<1> DEFINE R == OpToRel(<, Nat)
<1>4. /\ \E n \in S : \A m \in S : ~(<<m, n>> \in R)
      /\ \A m, n \in Nat : m < n => <<m, n>> \in R
  BY <1>2, <1>3, Zenon
<1> HIDE DEF R
<1>5. PICK n \in S : \A m \in S : ~(<<m, n>> \in R)
  BY <1>4, Zenon
<1>6. ASSUME NEW m \in S PROVE n <= m
  <2>1. m \in Nat /\ n \in Nat
    OBVIOUS
  <2>2. ~(<<m, n>> \in R)
    BY <1>5, Zenon
  <2>3. ~(m < n)
    BY <1>4, <2>1, <2>2, Zenon
  <2>4. QED
    BY <2>1, <2>3, SMT
<1>7. QED
  BY <1>6

(* A set of sequences is all of them if it has the empty one and with each  *)
(* of its own every sequence that is one longer.                            *)
LEMMA BuiltByAppend ==
    ASSUME NEW T, NEW Q \in SUBSET Seq(T), <<>> \in Q,
           \A s \in Q : \A x \in T : Append(s, x) \in Q
    PROVE  Q = Seq(T)
<1> SUFFICES ASSUME NEW w \in Seq(T), w \notin Q PROVE FALSE
  OBVIOUS
<1> DEFINE Bad == {n \in Nat : \E s \in Seq(T) : s \notin Q /\ Len(s) = n}
<1>1. Bad \in SUBSET Nat /\ Len(w) \in Bad
  BY LenProperties
<1>2. PICK n \in Bad : \A m \in Bad : n <= m
  BY <1>1, LeastNumber
<1>3. PICK s \in Seq(T) : s \notin Q /\ Len(s) = n
  BY <1>2
<1>4. s # <<>>
  BY <1>3
<1>5. PICK t \in Seq(T), x \in T : s = Append(t, x)
  BY <1>3, <1>4, SequenceEmptyOrAppend
<1>6. Len(t) \in Nat /\ Len(s) = Len(t) + 1
  BY <1>5, AppendProperties, LenProperties
<1>7. ~(n <= Len(t))
  BY <1>3, <1>6
<1>8. Len(t) \notin Bad
  BY <1>2, <1>7
<1>9. t \in Q
  BY <1>5, <1>6, <1>8
<1>10. QED
  BY <1>3, <1>5, <1>9

-----------------------------------------------------------------------------
(* The order of events: what Kept keeps.                                    *)

Keeping(f, n, s, S) ==
    f = [m \in 0..n |-> IF m = 0 THEN <<>>
                        ELSE IF s[m] \in S THEN Append(f[m - 1], s[m]) ELSE f[m - 1]]

(* The recursion of Kept has a solution, and only one.                      *)
LEMMA KeepingExists ==
    ASSUME NEW s, NEW S, NEW n \in Nat
    PROVE  \E f : Keeping(f, n, s, S)
<1> DEFINE Bad == {m \in Nat : ~ \E f : Keeping(f, m, s, S)}
<1> SUFFICES ASSUME Bad # {} PROVE FALSE
  OBVIOUS
<1>1. PICK m \in Bad : \A k \in Bad : m <= k
  BY LeastNumber
<1>2. Keeping([k \in 0..0 |-> <<>>], 0, s, S)
  BY DEF Keeping
<1>3. m # 0
  BY <1>1, <1>2
<1>4. m \in Nat /\ m - 1 \in Nat /\ m - 1 \notin Bad
  BY <1>1, <1>3
<1>5. PICK f : Keeping(f, m - 1, s, S)
  BY <1>4
<1> DEFINE last == IF s[m] \in S THEN Append(f[m - 1], s[m]) ELSE f[m - 1]
           g == [k \in 0..m |-> IF k = m THEN last ELSE f[k]]
<1>6. \A k \in 0..m - 1 :
         f[k] = IF k = 0 THEN <<>>
                ELSE IF s[k] \in S THEN Append(f[k - 1], s[k]) ELSE f[k - 1]
  BY <1>4, <1>5 DEF Keeping
<1>7. \A k \in 0..m :
         g[k] = IF k = 0 THEN <<>>
                ELSE IF s[k] \in S THEN Append(g[k - 1], s[k]) ELSE g[k - 1]
  <2> TAKE k \in 0..m
  <2>1. CASE k = m
    BY <1>3, <1>4, <2>1
  <2>2. CASE k # m
    <3>1. k \in 0..m - 1 /\ (k # 0 => k - 1 \in 0..m /\ k - 1 # m)
      BY <1>4, <2>2
    <3>2. g[k] = f[k] /\ (k # 0 => g[k - 1] = f[k - 1])
      BY <1>4, <2>2, <3>1
    <3>3. QED
      BY <1>6, <3>1, <3>2
  <2>3. QED
    BY <2>1, <2>2
<1> HIDE DEF last
<1>8. DOMAIN g = 0..m /\ g = [k \in 0..m |-> g[k]]
  OBVIOUS
<1> HIDE DEF g
<1>9. Keeping(g, m, s, S)
  BY <1>7, <1>8 DEF Keeping
<1>10. QED
  BY <1>1, <1>9

(* Two solutions agree as far as their sequences do.                        *)
LEMMA KeepingUnique ==
    ASSUME NEW s, NEW t, NEW S, NEW m \in Nat, NEW n \in Nat, n <= m,
           \A i \in 1..n : s[i] = t[i],
           NEW f, Keeping(f, n, s, S), NEW g, Keeping(g, m, t, S)
    PROVE  f[n] = g[n]
<1> DEFINE Bad == {k \in 0..n : f[k] # g[k]}
<1> SUFFICES ASSUME Bad # {} PROVE FALSE
  OBVIOUS
<1>0. Bad \in SUBSET Nat
  OBVIOUS
<1>1. PICK k \in Bad : \A j \in Bad : k <= j
  BY <1>0, LeastNumber
<1>a. k \in 0..n /\ k \in 0..m
  OBVIOUS
<1>b. /\ f = [j \in 0..n |-> IF j = 0 THEN <<>>
                ELSE IF s[j] \in S THEN Append(f[j - 1], s[j]) ELSE f[j - 1]]
      /\ g = [j \in 0..m |-> IF j = 0 THEN <<>>
                ELSE IF t[j] \in S THEN Append(g[j - 1], t[j]) ELSE g[j - 1]]
  BY DEF Keeping
<1>2. /\ f[k] = IF k = 0 THEN <<>>
                ELSE IF s[k] \in S THEN Append(f[k - 1], s[k]) ELSE f[k - 1]
      /\ g[k] = IF k = 0 THEN <<>>
                ELSE IF t[k] \in S THEN Append(g[k - 1], t[k]) ELSE g[k - 1]
  BY <1>a, <1>b, Zenon
<1>3. k # 0
  BY <1>1, <1>2
<1>4. k - 1 \in 0..n /\ k - 1 \notin Bad /\ k \in 1..n
  BY <1>1, <1>3
<1>5. QED
  BY <1>1, <1>2, <1>3, <1>4

(* Kept is what the solution says of the whole sequence.                    *)
LEMMA KeptIs ==
    ASSUME NEW s, NEW S, Len(s) \in Nat
    PROVE  \E f : Keeping(f, Len(s), s, S) /\ Kept(s, S) = f[Len(s)]
<1> DEFINE kept[n \in 0..Len(s)] ==
              IF n = 0 THEN <<>>
              ELSE IF s[n] \in S THEN Append(kept[n - 1], s[n]) ELSE kept[n - 1]
<1>1. PICK f : Keeping(f, Len(s), s, S)
  BY KeepingExists
<1>2. kept = [n \in 0..Len(s) |-> IF n = 0 THEN <<>>
              ELSE IF s[n] \in S THEN Append(kept[n - 1], s[n]) ELSE kept[n - 1]]
  BY <1>1 DEF Keeping
<1>3. Kept(s, S) = kept[Len(s)]
  BY DEF Kept
<1> HIDE DEF kept
<1>4. QED
  BY <1>2, <1>3 DEF Keeping

(* What Kept does: to nothing, to one event more, to a sequence of events,  *)
(* to two of them.                                                          *)
LEMMA KeptEmpty ==
    ASSUME NEW S
    PROVE  Kept(<<>>, S) = <<>>
<1>1. Len(<<>>) = 0 
  OBVIOUS
<1>2. PICK f : Keeping(f, 0, <<>>, S) /\ Kept(<<>>, S) = f[0]
  BY <1>1, KeptIs
<1>3. QED
  BY <1>2 DEF Keeping

LEMMA KeptAppend ==
    ASSUME NEW T, NEW s \in Seq(T), NEW x \in T, NEW S
    PROVE  Kept(Append(s, x), S) = IF x \in S THEN Append(Kept(s, S), x) ELSE Kept(s, S)
<1> DEFINE t == Append(s, x)
<1>1. /\ Len(s) \in Nat /\ Len(t) = Len(s) + 1 /\ t[Len(s) + 1] = x
      /\ \A i \in 1..Len(s) : s[i] = t[i]
  BY AppendProperties, LenProperties
<1> HIDE DEF t
<1>2. PICK f : Keeping(f, Len(s), s, S) /\ Kept(s, S) = f[Len(s)]
  BY <1>1, KeptIs
<1>3. PICK g : Keeping(g, Len(t), t, S) /\ Kept(t, S) = g[Len(t)]
  BY <1>1, KeptIs
<1>4. f[Len(s)] = g[Len(s)]
  BY <1>1, <1>2, <1>3, KeepingUnique
<1>5. g[Len(s) + 1] = IF x \in S THEN Append(g[Len(s)], x) ELSE g[Len(s)]
  <2>1. /\ Len(s) + 1 \in 0..Len(t) /\ Len(s) + 1 # 0
        /\ (Len(s) + 1) - 1 = Len(s)
    BY <1>1
  <2>2. g = [j \in 0..Len(t) |-> IF j = 0 THEN <<>>
                ELSE IF t[j] \in S THEN Append(g[j - 1], t[j]) ELSE g[j - 1]]
    BY <1>3 DEF Keeping
  <2>3. QED
    BY <1>1, <2>1, <2>2
<1>6. QED
  BY <1>1, <1>2, <1>3, <1>4, <1>5 DEF t

LEMMA KeptIsSeq ==
    ASSUME NEW T, NEW s \in Seq(T), NEW S
    PROVE  Kept(s, S) \in Seq(T)
<1> DEFINE Q == {t \in Seq(T) : Kept(t, S) \in Seq(T)}
<1>1. <<>> \in Q
  BY KeptEmpty, EmptySeq
<1>2. ASSUME NEW t \in Q, NEW x \in T
      PROVE  Append(t, x) \in Q
  <2>1. t \in Seq(T) /\ Kept(t, S) \in Seq(T)
    OBVIOUS
  <2>2. Kept(Append(t, x), S) = IF x \in S THEN Append(Kept(t, S), x) ELSE Kept(t, S)
    BY <2>1, KeptAppend
  <2>3. Append(t, x) \in Seq(T) /\ Append(Kept(t, S), x) \in Seq(T)
    BY <2>1, AppendProperties
  <2>4. QED
    BY <2>1, <2>2, <2>3
<1>3. Q = Seq(T)
  <2> HIDE DEF Q
  <2>1. Q \in SUBSET Seq(T)
    BY DEF Q
  <2>2. QED
    BY <1>1, <1>2, <2>1, BuiltByAppend
<1>4. QED
  BY <1>3

LEMMA AppendAfter ==
    ASSUME NEW T, NEW s \in Seq(T), NEW t \in Seq(T), NEW x \in T
    PROVE  s \o Append(t, x) = Append(s \o t, x)
<1>1. s \o t \in Seq(T) /\ <<x>> \in Seq(T)
  BY ConcatProperties
<1>2. Append(t, x) = t \o <<x>> /\ Append(s \o t, x) = (s \o t) \o <<x>>
  BY <1>1, AppendIsConcat
<1>3. (s \o t) \o <<x>> = s \o (t \o <<x>>)
  BY <1>1, ConcatAssociative
<1>4. QED
  BY <1>2, <1>3

LEMMA KeptConcat ==
    ASSUME NEW T, NEW s \in Seq(T), NEW t \in Seq(T), NEW S
    PROVE  Kept(s \o t, S) = Kept(s, S) \o Kept(t, S)
<1> DEFINE Q == {u \in Seq(T) : Kept(s \o u, S) = Kept(s, S) \o Kept(u, S)}
<1>1. <<>> \in Q
  BY KeptEmpty, KeptIsSeq, ConcatEmptySeq, EmptySeq
<1>2. ASSUME NEW u \in Seq(T), NEW x \in T,
             Kept(s \o u, S) = Kept(s, S) \o Kept(u, S)
      PROVE  Kept(s \o Append(u, x), S) = Kept(s, S) \o Kept(Append(u, x), S)
  <2> HIDE DEF Q
  <2>1. PICK v \in Seq(T) : v = s \o u
    BY ConcatProperties
  <2>2. s \o Append(u, x) = Append(v, x)
    BY <2>1, AppendAfter
  <2>3. /\ Kept(Append(v, x), S) = IF x \in S THEN Append(Kept(v, S), x) ELSE Kept(v, S)
        /\ Kept(Append(u, x), S) = IF x \in S THEN Append(Kept(u, S), x) ELSE Kept(u, S)
    BY KeptAppend
  <2>4. PICK a \in Seq(T), b \in Seq(T) : a = Kept(s, S) /\ b = Kept(u, S)
    BY KeptIsSeq
  <2>5. a \o Append(b, x) = Append(a \o b, x)
    BY AppendAfter
  <2>6. Kept(v, S) = a \o b
    BY <1>2, <2>1, <2>4
  <2>7. QED
    BY <2>2, <2>3, <2>4, <2>5, <2>6
<1>3. ASSUME NEW u \in Q, NEW x \in T
      PROVE  Append(u, x) \in Q
  BY <1>2, AppendProperties
<1>4. Q = Seq(T)
  <2> HIDE DEF Q
  <2>1. Q \in SUBSET Seq(T)
    BY DEF Q
  <2>2. QED
    BY <1>1, <1>3, <2>1, BuiltByAppend
<1>5. QED
  BY <1>4

(* What is all in S is kept as it is.                                       *)
LEMMA KeptAll ==
    ASSUME NEW T, NEW s \in Seq(T), NEW S, \A i \in 1..Len(s) : s[i] \in S
    PROVE  Kept(s, S) = s
<1> DEFINE Q == {u \in Seq(T) : (\A i \in 1..Len(u) : u[i] \in S) => Kept(u, S) = u}
<1>1. <<>> \in Q
  BY KeptEmpty, EmptySeq
<1>2. ASSUME NEW u \in Q, NEW x \in T
      PROVE  Append(u, x) \in Q
  <2> DEFINE v == Append(u, x)
  <2>1. /\ v \in Seq(T) /\ Len(v) = Len(u) + 1 /\ Len(u) \in Nat
        /\ \A i \in 1..Len(u) : v[i] = u[i]
        /\ v[Len(u) + 1] = x
    BY AppendProperties, LenProperties
  <2>2. Kept(v, S) = IF x \in S THEN Append(Kept(u, S), x) ELSE Kept(u, S)
    BY KeptAppend
  <2> SUFFICES ASSUME \A i \in 1..Len(v) : v[i] \in S PROVE Kept(v, S) = v
    BY <2>1
  <2> HIDE DEF v
  <2>3. x \in S /\ \A i \in 1..Len(u) : u[i] \in S
    BY <2>1
  <2>4. Kept(u, S) = u
    BY <2>3
  <2>5. QED
    BY <2>2, <2>3, <2>4 DEF v
<1>3. Q = Seq(T)
  <2> HIDE DEF Q
  <2>1. Q \in SUBSET Seq(T)
    BY DEF Q
  <2>2. QED
    BY <1>1, <1>2, <2>1, BuiltByAppend
<1>4. QED
  BY <1>3

=============================================================================
