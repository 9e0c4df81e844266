---------------------------- MODULE EventReceiver ----------------------------
(***************************************************************************)
(* The HTTP event receiver of src/async_threads/adapter.py, for one         *)
(* listener (thread key) and the events its producer may send.              *)
(*                                                                          *)
(* Request handlers, the debounce timer's task and a priority event's flush *)
(* run on one asyncio loop.  Between two awaits a task runs alone, so every *)
(* action below is the code from one await to the next; every await on the  *)
(* registry (a thread, then a resumption) is a place where another task may *)
(* run, an exception may be raised, or the process may die.                 *)
(***************************************************************************)
EXTENDS Naturals, Sequences, FiniteSets

CONSTANTS
    Events,       \* event ids of the listener's producer
    Routine,      \* events _is_routine_event accepts ("started", "progress")
    Priority,     \* events _is_priority_event accepts
    Terminal,     \* events that end an auto-retire listener's work
    Admitted,     \* events whose signature, producer and type pass the checks
    Handlers,     \* concurrent requests the receiver is serving
    TimerTask,    \* the task of _flush_coalesced_after
    None,         \* no event, no task
    MaxAttempts,  \* re-queues of a failed digest; 3 in the code
    MaxRequests,  \* bound: requests sent in a behaviour
    MaxCrashes,   \* bound: process crashes
    MaxStops,     \* bound: graceful disconnects
    DbFaults,     \* may a registry call raise (locked or full database)?
    GraceExpires  \* may a graceful stop cancel a handler still at work?

ASSUME ReceiverAssumption ==
    /\ Routine \subseteq Events /\ Priority \subseteq Events
    /\ Terminal \subseteq Events /\ Admitted \subseteq Events
    /\ None \notin Events /\ None \notin Handlers
    /\ TimerTask \notin Handlers /\ TimerTask # None
    /\ MaxAttempts \in Nat \ {0}
    /\ MaxRequests \in Nat /\ MaxCrashes \in Nat /\ MaxStops \in Nat
    /\ DbFaults \in BOOLEAN /\ GraceExpires \in BOOLEAN

VARIABLES
    seen,       \* registry: events with a row in seen_events
    enabled,    \* registry: handles.enabled of the listener
    artifact,   \* disk: the producer-facing secret file exists
    inbox,      \* the conversation: events shown to it, in order
    phase,      \* the adapter: "up", "stopping" (in disconnect), "down"
    pending,    \* _coalesced_events[tk]: the debounce bucket
    inflight,   \* _coalesced_inflight[tk]: the batch being flushed
    timer,      \* _coalesce_tasks[tk]: "armed" while its task sleeps
    flushBy,    \* task inside _flush_coalesced, past its early returns
    flushAt,    \* the await that task is at
    flushLeft,  \* its batch, less what was delivered, re-queued, forgotten
    pc,         \* each handler's next await
    ev,         \* each handler's event
    answer,     \* each handler's response once it is decided
    arrivals,   \* history: routine events in the order they were queued
    requests, crashes, stops

durable  == <<seen, enabled, artifact, inbox>>
bucket   == <<pending, inflight, timer>>
flush    == <<flushBy, flushAt, flushLeft>>
handlers == <<pc, ev, answer>>
budget   == <<requests, crashes, stops>>
vars == <<durable, phase, bucket, flush, handlers, arrivals, budget>>

-----------------------------------------------------------------------------
(* Batches and buckets.                                                     *)

Item == [ev : Events, attempts : 0..MaxAttempts]

EventsOf(items) == {items[i].ev : i \in DOMAIN items}

InOrder(items) == [i \in DOMAIN items |-> items[i].ev]

Shown == {inbox[i] : i \in DOMAIN inbox}

(* What of s is in S, in its order.                                         *)
Kept(s, S) ==
    LET kept[n \in 0..Len(s)] ==
            IF n = 0 THEN <<>>
            ELSE IF s[n] \in S THEN Append(kept[n - 1], s[n]) ELSE kept[n - 1]
    IN  kept[Len(s)]

HasPendingCoalesced == pending # <<>>

(* A retry of a buffered event finds it in either dictionary.               *)
PendingCoalescedContains(e) == e \in EventsOf(pending) \cup EventsOf(inflight)

ShouldCoalesce(e) == e \in Routine \ Priority

(* What _reschedule_coalesced_if_needed leaves in _coalesce_tasks: a live   *)
(* timer whenever the bucket has something to flush.                        *)
RescheduledMut(items) == "none"
Rescheduled(items) == IF items = <<>> THEN "none" ELSE "armed"

(* A failed batch is retried MaxAttempts times, and not while stopping.     *)
GivesUpMut(batch) ==
    phase # "up" \/ \E i \in DOMAIN batch : batch[i].attempts > MaxAttempts
GivesUp(batch) ==
    phase # "up" \/ \E i \in DOMAIN batch : batch[i].attempts >= MaxAttempts

(* The failed batch goes back in front of what was queued meanwhile, all of *)
(* it at the attempt count of its most tried event plus one.                *)
RequeuedMut(batch, queued, n) ==
    queued \o [i \in DOMAIN batch |-> [ev |-> batch[i].ev, attempts |-> n]]
Requeued(batch, queued, n) ==
    [i \in DOMAIN batch |-> [ev |-> batch[i].ev, attempts |-> n]] \o queued

-----------------------------------------------------------------------------
Init ==
    /\ seen = {} /\ enabled = TRUE /\ artifact = TRUE /\ inbox = <<>>
    /\ phase = "up"
    /\ pending = <<>> /\ inflight = <<>> /\ timer = "none"
    /\ flushBy = None /\ flushAt = "none" /\ flushLeft = <<>>
    /\ pc = [h \in Handlers |-> "idle"]
    /\ ev = [h \in Handlers |-> None]
    /\ answer = [h \in Handlers |-> "none"]
    /\ arrivals = <<>>
    /\ requests = 0 /\ crashes = 0 /\ stops = 0

-----------------------------------------------------------------------------
(* A handler moves on: to another await, or to its response.                *)

Goto(h, label) ==
    /\ pc' = [pc EXCEPT ![h] = label]
    /\ UNCHANGED <<ev, answer>>

Decide(h, label, response) ==
    /\ pc' = [pc EXCEPT ![h] = label]
    /\ answer' = [answer EXCEPT ![h] = response]
    /\ UNCHANGED ev

(* The outer `except Exception`: 502, whatever was done before.             *)
RegistryRaises(h) ==
    /\ DbFaults
    /\ Decide(h, "reply", "error")

(* The producer sends an event, for the first time or again.                *)
Send(h, e) ==
    /\ phase = "up" /\ requests < MaxRequests
    /\ pc[h] = "idle"
    /\ pc' = [pc EXCEPT ![h] = "get_handle"]
    /\ ev' = [ev EXCEPT ![h] = e]
    /\ requests' = requests + 1
    /\ UNCHANGED <<durable, phase, bucket, flush, answer, arrivals, crashes, stops>>

GetHandle(h) ==
    /\ pc[h] = "get_handle"
    /\ \/ /\ ~enabled
          /\ Goto(h, "has_seen")
       \/ /\ enabled /\ ev[h] \notin Admitted
          /\ Decide(h, "log", "rejected")
       \/ /\ enabled /\ ev[h] \in Admitted
          /\ Goto(h, "mark_seen")
       \/ RegistryRaises(h)
    /\ UNCHANGED <<durable, phase, bucket, flush, arrivals, budget>>

(* A disabled listener still acknowledges what it has already seen.         *)
HasSeen(h) ==
    /\ pc[h] = "has_seen"
    /\ \/ Decide(h, "log", IF ev[h] \in seen THEN "duplicate" ELSE "rejected")
       \/ RegistryRaises(h)
    /\ UNCHANGED <<durable, phase, bucket, flush, arrivals, budget>>

(* INSERT OR IGNORE into seen_events: only one request gets the event.      *)
MarkSeenMut(h) ==
    /\ pc[h] = "mark_seen"
    /\ \/ /\ seen' = seen \cup {ev[h]}
          /\ Goto(h, "resolve")
       \/ RegistryRaises(h) /\ UNCHANGED seen
    /\ UNCHANGED <<enabled, artifact, inbox, phase, bucket, flush, arrivals, budget>>
MarkSeen(h) ==
    /\ pc[h] = "mark_seen"
    /\ \/ /\ ev[h] \notin seen
          /\ seen' = seen \cup {ev[h]}
          /\ Goto(h, "resolve")
       \/ /\ ev[h] \in seen
          /\ Goto(h, "already_seen") /\ UNCHANGED seen
       \/ RegistryRaises(h) /\ UNCHANGED seen
    /\ UNCHANGED <<enabled, artifact, inbox, phase, bucket, flush, arrivals, budget>>

(* Back on the loop after mark_seen said no: the dictionaries are read now, *)
(* and may have changed since the row was found.                            *)
AlreadySeen(h) ==
    /\ pc[h] = "already_seen"
    /\ IF PendingCoalescedContains(ev[h])
       THEN Decide(h, "reply", "queued")
       ELSE Decide(h, "log", "duplicate")
    /\ UNCHANGED <<durable, phase, bucket, flush, arrivals, budget>>

-----------------------------------------------------------------------------
(* Inside _flush_coalesced.                                                 *)

(* _pop_coalesced and the move to _coalesced_inflight, without an await.    *)
BeginFlush(task) ==
    /\ inflight' = pending /\ pending' = <<>> /\ timer' = "none"
    /\ flushBy' = task /\ flushAt' = "resolve" /\ flushLeft' = pending

(* A flush finds another one at work, or an empty bucket: it only sees to   *)
(* the timer.                                                               *)
FlushBlockedMut == pending = <<>>
FlushBlocked == inflight # <<>> \/ pending = <<>>

LeaveTimer ==
    /\ timer' = Rescheduled(pending)
    /\ UNCHANGED <<pending, inflight, flush>>

(* The debounce delay is over.                                              *)
TimerFires ==
    /\ timer = "armed"
    /\ IF FlushBlocked THEN LeaveTimer ELSE BeginFlush(TimerTask)
    /\ UNCHANGED <<durable, phase, handlers, arrivals, budget>>

(* The flush returns to the handler that awaits it, which then dispatches   *)
(* its own event; the timer's task just ends.                               *)
FlushReturns ==
    /\ flushBy' = None /\ flushAt' = "none" /\ flushLeft' = <<>>
    /\ IF flushBy = TimerTask THEN UNCHANGED handlers ELSE Goto(flushBy, "dispatch")

(* An exception leaves the flush: the handler answers 502 for its own       *)
(* event, without forgetting it; the timer's task logs it and ends.         *)
FlushRaises ==
    /\ DbFaults
    /\ flushBy' = None /\ flushAt' = "none" /\ flushLeft' = <<>>
    /\ IF flushBy = TimerTask
       THEN UNCHANGED handlers
       ELSE Decide(flushBy, "reply", "error")

(* Storing the digest's payload is awaited before the `try`: when it raises *)
(* the batch stays in _coalesced_inflight.                                  *)
FlushResolve ==
    /\ flushAt = "resolve"
    /\ \/ /\ flushAt' = "dispatch"
          /\ UNCHANGED <<flushBy, flushLeft, handlers>>
       \/ FlushRaises
    /\ UNCHANGED <<durable, phase, bucket, arrivals, budget>>

FlushDispatch ==
    /\ flushAt = "dispatch"
    /\ \/ /\ inbox' = inbox \o InOrder(flushLeft)
          /\ flushLeft' = <<>> /\ flushAt' = "log"
       \/ /\ flushAt' = "log_failed"
          /\ UNCHANGED <<inbox, flushLeft>>
    /\ UNCHANGED <<seen, enabled, artifact, phase, bucket, flushBy, handlers, arrivals, budget>>

(* The delivered digest is logged; `finally` drops the batch either way.    *)
FlushLogMut ==
    /\ flushAt = "log"
    /\ FlushReturns
    /\ inflight' = <<>>
    /\ seen' = seen \ EventsOf(inflight)
    /\ UNCHANGED <<enabled, artifact, inbox, phase, pending, timer, arrivals, budget>>
FlushLog ==
    /\ flushAt = "log"
    /\ FlushReturns \/ FlushRaises
    /\ inflight' = <<>>
    /\ UNCHANGED <<durable, phase, pending, timer, arrivals, budget>>

(* The failure is logged, then the batch is re-queued or given up.          *)
FlushLogFailed ==
    /\ flushAt = "log_failed"
    /\ \/ /\ GivesUp(flushLeft)
          /\ flushAt' = "forget"
          /\ UNCHANGED <<bucket, flushBy, flushLeft, handlers>>
       \/ /\ ~GivesUp(flushLeft)
          /\ \E n \in {flushLeft[i].attempts + 1 : i \in DOMAIN flushLeft} :
                /\ \A i \in DOMAIN flushLeft : flushLeft[i].attempts + 1 <= n
                /\ pending' = Requeued(flushLeft, pending, n)
          /\ timer' = Rescheduled(pending')
          /\ inflight' = <<>>
          /\ FlushReturns
       \/ FlushRaises /\ inflight' = <<>> /\ UNCHANGED <<pending, timer>>
    /\ UNCHANGED <<durable, phase, arrivals, budget>>

(* One await per event: forget_seen, so that its producer may retry.        *)
FlushForgetMut ==
    /\ flushAt = "forget"
    /\ inflight' = <<>> /\ FlushReturns
    /\ UNCHANGED <<durable, phase, pending, timer, arrivals, budget>>
FlushForget ==
    /\ flushAt = "forget"
    /\ \/ LET e == Head(flushLeft).ev IN
          /\ seen' = seen \ {e}
          /\ arrivals' = Kept(arrivals, Events \ {e})
          /\ IF Len(flushLeft) = 1
             THEN inflight' = <<>> /\ FlushReturns
             ELSE /\ flushLeft' = Tail(flushLeft)
                  /\ UNCHANGED <<inflight, flushBy, flushAt, handlers>>
       \/ FlushRaises /\ inflight' = <<>> /\ UNCHANGED <<seen, arrivals>>
    /\ UNCHANGED <<enabled, artifact, inbox, phase, pending, timer, budget>>

FlushStep ==
    FlushResolve \/ FlushDispatch \/ FlushLog \/ FlushLogFailed \/ FlushForget

-----------------------------------------------------------------------------
(* The rest of a handler.                                                   *)

(* After the payload is stored the handler takes one of three ways, without *)
(* another await: flush what is pending first, join the bucket, or go on.   *)
PriorityFlush(h) ==
    /\ HasPendingCoalesced /\ ev[h] \in Priority
    /\ IF FlushBlocked
       THEN LeaveTimer /\ Goto(h, "dispatch")
       ELSE BeginFlush(h) /\ Goto(h, "flush")
    /\ UNCHANGED arrivals

QueueCoalescedEvent(h) ==
    /\ ShouldCoalesce(ev[h])
    /\ pending' = Append(pending, [ev |-> ev[h], attempts |-> 0])
    /\ timer' = "armed"
    /\ arrivals' = Append(arrivals, ev[h])
    /\ Decide(h, "log", "queued")
    /\ UNCHANGED <<inflight, flush>>

ResolveIngressPayload(h) ==
    /\ pc[h] = "resolve"
    /\ \/ PriorityFlush(h)
       \/ QueueCoalescedEvent(h)
       \/ /\ ~(HasPendingCoalesced /\ ev[h] \in Priority)
          /\ ~ShouldCoalesce(ev[h])
          /\ Goto(h, "dispatch")
          /\ UNCHANGED <<bucket, flush, arrivals>>
       \/ RegistryRaises(h) /\ UNCHANGED <<bucket, flush, arrivals>>
    /\ UNCHANGED <<durable, phase, budget>>

(* dispatch_event shows the event to the conversation or raises.            *)
DispatchEventMut(h) ==
    /\ pc[h] = "dispatch"
    /\ \/ /\ inbox' = Append(inbox, ev[h])
          /\ Decide(h, IF ev[h] \in Terminal THEN "retire" ELSE "log", "accepted")
       \/ /\ Decide(h, IF ev[h] \in Terminal THEN "retire" ELSE "forget", "accepted")
          /\ UNCHANGED inbox
    /\ UNCHANGED <<seen, enabled, artifact, phase, bucket, flush, arrivals, budget>>
DispatchEvent(h) ==
    /\ pc[h] = "dispatch"
    /\ \/ /\ inbox' = Append(inbox, ev[h])
          /\ Decide(h, IF ev[h] \in Terminal THEN "retire" ELSE "log", "accepted")
       \/ Goto(h, "forget") /\ UNCHANGED inbox
    /\ UNCHANGED <<seen, enabled, artifact, phase, bucket, flush, arrivals, budget>>

(* A failed dispatch clears the marker so that the producer can retry.      *)
ForgetSeen(h) ==
    /\ pc[h] = "forget"
    /\ \/ seen' = seen \ {ev[h]} /\ Decide(h, "log", "error")
       \/ RegistryRaises(h) /\ UNCHANGED seen
    /\ UNCHANGED <<enabled, artifact, inbox, phase, bucket, flush, arrivals, budget>>

(* _apply_lifecycle_after_dispatch: the row first, then the secret file.    *)
RetireMut(h) ==
    /\ pc[h] = "retire"
    /\ Goto(h, "log")
    /\ UNCHANGED <<durable, phase, bucket, flush, arrivals, budget>>
Retire(h) ==
    /\ pc[h] = "retire"
    /\ \/ enabled' = FALSE /\ Goto(h, "unlink")
       \/ RegistryRaises(h) /\ UNCHANGED enabled
    /\ UNCHANGED <<seen, artifact, inbox, phase, bucket, flush, arrivals, budget>>

RemoveSecretArtifact(h) ==
    /\ pc[h] = "unlink"
    /\ artifact' = FALSE
    /\ Goto(h, "log")
    /\ UNCHANGED <<seen, enabled, inbox, phase, bucket, flush, arrivals, budget>>

LogEvent(h) ==
    /\ pc[h] = "log"
    /\ Goto(h, "reply") \/ RegistryRaises(h)
    /\ UNCHANGED <<durable, phase, bucket, flush, arrivals, budget>>

Reply(h) ==
    /\ pc[h] = "reply"
    /\ pc' = [pc EXCEPT ![h] = "idle"]
    /\ ev' = [ev EXCEPT ![h] = None]
    /\ answer' = [answer EXCEPT ![h] = "none"]
    /\ UNCHANGED <<durable, phase, bucket, flush, arrivals, budget>>

HandlerStep(h) ==
    \/ GetHandle(h) \/ HasSeen(h) \/ MarkSeen(h) \/ AlreadySeen(h)
    \/ ResolveIngressPayload(h) \/ DispatchEvent(h) \/ ForgetSeen(h)
    \/ Retire(h) \/ RemoveSecretArtifact(h) \/ LogEvent(h) \/ Reply(h)

-----------------------------------------------------------------------------
(* Stopping, dying and coming back.                                         *)

(* disconnect: no new request is taken; the ones at work are waited for.    *)
BeginDisconnect ==
    /\ phase = "up" /\ stops < MaxStops
    /\ phase' = "stopping" /\ stops' = stops + 1
    /\ UNCHANGED <<durable, bucket, flush, handlers, arrivals, requests, crashes>>

(* The server's grace period is over: a CancelledError ends the handler and *)
(* any flush it awaits.  Past the payload, `finally` drops the batch.       *)
CancelHandler(h) ==
    /\ phase = "stopping" /\ GraceExpires
    /\ pc[h] # "idle"
    /\ pc' = [pc EXCEPT ![h] = "idle"]
    /\ ev' = [ev EXCEPT ![h] = None]
    /\ answer' = [answer EXCEPT ![h] = "none"]
    /\ IF flushBy = h
       THEN /\ inflight' = IF flushAt = "resolve" THEN inflight ELSE <<>>
            /\ flushBy' = None /\ flushAt' = "none" /\ flushLeft' = <<>>
       ELSE UNCHANGED <<inflight, flush>>
    /\ UNCHANGED <<durable, phase, pending, timer, arrivals, budget>>

(* The timer is cancelled and everything buffered is handed back, event by  *)
(* event, until a registry call raises.  A flush the timer's task has begun *)
(* is not cancelled: it popped itself from the tasks.                       *)
(* If a registry error has ended the source runner's task, awaiting it here *)
(* raises before any event is handed back: of the markers that is n = 0.    *)
(* That timers and bucket then stay until the process ends is left out.     *)
FinishDisconnectMut ==
    /\ phase = "stopping"
    /\ \A h \in Handlers : pc[h] = "idle"
    /\ seen' = seen \ EventsOf(inflight)
    /\ phase' = "down"
    /\ pending' = <<>> /\ inflight' = <<>> /\ timer' = "none"
    /\ UNCHANGED <<enabled, artifact, inbox, flush, handlers, arrivals, budget>>
FinishDisconnect ==
    /\ phase = "stopping"
    /\ \A h \in Handlers : pc[h] = "idle"
    /\ LET buffered == pending \o inflight IN
       \E n \in 0..Len(buffered) :
          /\ n = Len(buffered) \/ DbFaults
          /\ seen' = seen \ EventsOf(SubSeq(buffered, 1, n))
    /\ phase' = "down"
    /\ pending' = <<>> /\ inflight' = <<>> /\ timer' = "none"
    /\ UNCHANGED <<enabled, artifact, inbox, flush, handlers, arrivals, budget>>

(* What a new process starts from: the registry, the disk, the conversation.*)
(* A connect without a new process is taken for one: a flush that a timer   *)
(* had begun before the disconnect, and that would run on beside the new    *)
(* server, ends here at the latest.                                         *)
FreshAdapter ==
    /\ phase' = "up"
    /\ pending' = <<>> /\ inflight' = <<>> /\ timer' = "none"
    /\ flushBy' = None /\ flushAt' = "none" /\ flushLeft' = <<>>
    /\ pc' = [h \in Handlers |-> "idle"]
    /\ ev' = [h \in Handlers |-> None]
    /\ answer' = [h \in Handlers |-> "none"]
    /\ arrivals' = Kept(inbox, Routine \ Priority)
    /\ UNCHANGED durable

Connect ==
    /\ phase = "down"
    /\ FreshAdapter
    /\ UNCHANGED budget

(* The process dies at any await and is started again.                      *)
Crash ==
    /\ crashes < MaxCrashes
    /\ crashes' = crashes + 1
    /\ FreshAdapter
    /\ UNCHANGED <<requests, stops>>

-----------------------------------------------------------------------------
Next ==
    \/ \E h \in Handlers : \/ \E e \in Events : Send(h, e)
                           \/ HandlerStep(h)
                           \/ CancelHandler(h)
    \/ FlushStep \/ TimerFires
    \/ BeginDisconnect \/ FinishDisconnect \/ Connect \/ Crash

Spec == Init /\ [][Next]_vars

(* The event loop runs every ready task, a sleep ends, a registry call      *)
(* returns or raises.  No producer has to send; nobody has to crash.        *)
Fairness ==
    /\ \A h \in Handlers : WF_vars(HandlerStep(h))
    /\ WF_vars(FlushStep)
    /\ WF_vars(TimerFires)

FairSpec == Spec /\ Fairness

-----------------------------------------------------------------------------
(* Properties.                                                              *)

HandlerLabel ==
    {"idle", "get_handle", "has_seen", "mark_seen", "already_seen", "resolve",
     "flush", "dispatch", "forget", "retire", "unlink", "log", "reply"}

(* Types, and the attempt count of every buffered item within its limit.    *)
TypeOK ==
    /\ seen \subseteq Events
    /\ enabled \in BOOLEAN /\ artifact \in BOOLEAN
    /\ inbox \in Seq(Events)
    /\ phase \in {"up", "stopping", "down"}
    /\ pending \in Seq(Item) /\ inflight \in Seq(Item) /\ flushLeft \in Seq(Item)
    /\ timer \in {"none", "armed"}
    /\ flushBy \in Handlers \cup {TimerTask, None}
    /\ flushAt \in {"none", "resolve", "dispatch", "log", "log_failed", "forget"}
    /\ pc \in [Handlers -> HandlerLabel]
    /\ ev \in [Handlers -> Events \cup {None}]
    /\ answer \in [Handlers ->
            {"none", "rejected", "duplicate", "queued", "accepted", "error"}]
    /\ requests \in Nat /\ crashes \in Nat /\ stops \in Nat

(* Who is responsible for an event that is marked seen and not shown yet:   *)
(* a handler on its way to dispatch or forget it, the bucket, or a flush.   *)
Holds(h, e) == ev[h] = e /\ pc[h] \in {"resolve", "flush", "dispatch", "forget"}

Carried(e) ==
    \/ \E h \in Handlers : Holds(h, e)
    \/ e \in EventsOf(pending) \cup EventsOf(flushLeft)

(* The debounce bucket is never left without a live timer, nor a timer      *)
(* without a bucket: whatever order flushes, failures and new events come   *)
(* in, queued events have something that will flush them.                   *)
TimerCoversBucket == timer = "armed" <=> pending # <<>>

(* One flush at a time, and the handler that awaits it is the one that      *)
(* began it: no handler waits for a flush nobody is running.                *)
SingleFlight ==
    /\ flushAt = "none" <=> flushBy = None
    /\ flushAt # "none" /\ phase # "down" => inflight # <<>>
    /\ \A h \in Handlers : pc[h] = "flush" <=> flushBy = h

(* No event is shown twice, however often its producer retries it, through  *)
(* handlers, re-queued digests, faults and crashes.                         *)
AtMostOnce ==
    \A i, j \in DOMAIN inbox : inbox[i] = inbox[j] => i = j

(* An event marked seen and not shown is in somebody's hands: a marker that *)
(* nobody answers for would turn every retry into a lost event.             *)
NoSilentLoss == \A e \in seen : e \in Shown \/ Carried(e)

(* Nothing routine is lost, repeated or reordered on its way through the    *)
(* bucket, up to the end of the first disconnect: what was shown, what is   *)
(* being flushed and what waits are, in this order, the routine events in   *)
(* their order of arrival.                                                  *)
RoutineInOrder ==
    stops = 0 \/ (stops = 1 /\ phase = "stopping") =>
        Kept(inbox, Routine \ Priority) \o InOrder(flushLeft) \o InOrder(pending)
            = arrivals

(* A listener is retired only after a terminal event of its own has been    *)
(* shown, and loses its secret file only after it is disabled.              *)
RetiredAfterDelivery ==
    /\ ~enabled => \E e \in Terminal : e \in Shown
    /\ ~artifact => ~enabled

(* A terminal event that was shown retires its listener in the end.         *)
TerminalRetires == \A e \in Terminal : e \in Shown ~> ~enabled

(* A buffered event does not stay buffered: its digest is shown, or it is   *)
(* given up and its producer may retry.                                     *)
Buffered(e) == PendingCoalescedContains(e)
BufferedIsSettled == \A e \in Events : Buffered(e) ~> ~Buffered(e)

-----------------------------------------------------------------------------
(* The contract: a marker is a hold until the event is shown exactly once;  *)
(* an event shown without its marker, or twice, is outside the contract.    *)
ShownOnce(e) ==
    \E i \in DOMAIN inbox : \A j \in DOMAIN inbox : inbox[j] = e <=> j = i

StatusOf(e) ==
    CASE e \notin Shown /\ e \notin seen -> "new"
      [] e \notin Shown /\ e \in seen    -> "held"
      [] e \in seen /\ ShownOnce(e)      -> "done"
      [] OTHER                           -> "broken"

Contract == INSTANCE DeliveryContract WITH status <- [e \in Events |-> StatusOf(e)]

(* The receiver implements the contract, through faults and crashes.        *)
ImplementsContract == Contract!Spec

(* With no fault and no crash it also keeps the contract's fairness: every  *)
(* hold is settled, whatever the timer, the flushes and the retries do.     *)
ContractSettles == Contract!FairSpec

=============================================================================
