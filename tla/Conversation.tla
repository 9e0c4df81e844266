------------------------------ MODULE Conversation ------------------------------
(***************************************************************************)
(* From a marked event to the agent and the workflow's state: dispatch_event*)
(* and what _handle_event does after it, src/async_threads/adapter.py, with *)
(* update_workflow_state_from_event of registry.py.                         *)
(*                                                                          *)
(* All listeners target one session, so that their handlers race with each  *)
(* other, with the session's turns, with the digests of what they debounced *)
(* and with the other connections to the registry.  EventReceiver has the   *)
(* timers, buckets and retries of these digests; here a listener has one    *)
(* queue.  A step ends where the code awaits.                               *)
(***************************************************************************)
EXTENDS WorkflowGates, Sequences

CONSTANTS
    Events,
    Listeners,
    ListenerOf,   \* the listener of an event
    Acked,        \* ack_mode brief or debug
    Direct,       \* policy direct
    FailClosed,   \* fail_closed_without_core_bounds
    Debounced,    \* debounce_seconds > 0, policy agent_queue
    Declared,     \* listeners that name terminal event types
    EndsOn,       \* terminal_stages of a listener's lifecycle
    AutoRetire, Shared,  \* auto_retire_on_terminal, shared_listener
    Payloads,     \* per listener: what its events may bring to a workflow
    Handlers, None,
    MaxRequests,  \* bound: requests accepted
    MaxUserTurns, \* bound: turns the user starts
    MaxCrashes

(* What a request brings besides its id: what normalize_workflow_event makes*)
(* of it; whether its type is one of those that end a listener's work; the  *)
(* stage the lifecycle reads, which looks in other places than the workflow *)
(* and needs none; whether the event is routine and has no priority.        *)
Stage == Stages \cup TerminalStages \cup {""}
Payload == [workflow : Event, final : BOOLEAN, heard : Stage, routine : BOOLEAN]

ASSUME ConversationAssumption ==
    /\ ListenerOf \in [Events -> Listeners]
    /\ Acked \subseteq Listeners /\ Direct \subseteq Listeners
    /\ FailClosed \subseteq Listeners /\ Declared \subseteq Listeners
    /\ Debounced \subseteq Listeners \ Direct
    /\ EndsOn \in [Listeners -> SUBSET (Stage \ {""})]
    /\ AutoRetire \subseteq Listeners /\ Shared \subseteq Listeners
    /\ Payloads \in [Listeners -> SUBSET Payload] /\ None \notin Events \cup Handlers
    /\ MaxRequests \in Nat /\ MaxUserTurns \in Nat /\ MaxCrashes \in Nat

VARIABLES
    at, ev,      \* each handler: its next step, its event
    saw,         \* each handler: the session was active when it looked
    copy,        \* each handler: the workflow state it read
    seen,        \* seen_events
    enabled,     \* listeners
    ended,       \* listeners with a terminal event in event_log
    row,         \* workflow_state, one workflow per listener
    writer,      \* the handler that holds the write transaction
    queue,       \* per listener: events for a digest, those in flight first
    turn,        \* the session has an active turn
    pending,     \* messages merged for the session's next turn
    shown,       \* events the agent, or the chat, was shown, in order
    brought,     \* events with the payload they came with
    recorded,    \* history: commits per listener, in order
    failed,      \* history: events that were lost, or recorded or answered in error
    requests, userTurns, crashes

handlers == <<at, ev, saw, copy>>
session  == <<turn, pending, shown>>
workflow == <<row, writer, recorded, failed>>
budget   == <<requests, userTurns, crashes>>
vars == <<handlers, seen, enabled, ended, queue, session, workflow, brought, budget>>

NoWorkflow == [stage |-> "", artifact |-> NoArtifact, candidate |-> "none",
               kind |-> "", status |-> "unknown"]
NoPayload == [workflow |-> NoWorkflow, final |-> FALSE, heard |-> "", routine |-> FALSE]

Init ==
    /\ at = [h \in Handlers |-> "idle"] /\ ev = [h \in Handlers |-> None]
    /\ saw = [h \in Handlers |-> FALSE] /\ copy = [h \in Handlers |-> NoState]
    /\ seen = {} /\ enabled = Listeners /\ ended = {}
    /\ row = [l \in Listeners |-> NoState] /\ writer = None
    /\ queue = [l \in Listeners |-> <<>>]
    /\ turn = FALSE /\ pending = <<>> /\ shown = <<>>
    /\ brought = [e \in Events |-> NoPayload]
    /\ recorded = [l \in Listeners |-> <<>>] /\ failed = {}
    /\ requests = 0 /\ userTurns = 0 /\ crashes = 0

(* normalize_listen_request: direct delivery has no ack notice.             *)
Acks(l) == l \in Acked \ Direct

Of(h) == ListenerOf[ev[h]]
Workflow(e) == brought[e].workflow
Goes(h, label) == at' = [at EXCEPT ![h] = label]

(* The handler's event is marked, by this handler.                          *)
AtWork(h) == at[h] \notin {"idle", "mark"}

(* _should_coalesce                                                         *)
Coalesces(e) == ListenerOf[e] \in Debounced /\ brought[e].routine

Queued(e) == LET q == queue[ListenerOf[e]] IN \E i \in DOMAIN q : q[i] = e

(* The handler is over, and with it what it knew.                           *)
Ends(h) == Goes(h, "idle") /\ ev' = [ev EXCEPT ![h] = None]

-----------------------------------------------------------------------------
(* The handler reads the listener's row and goes on with it, whatever       *)
(* becomes of the listener meanwhile.                                       *)
GetHandle(h, e) ==
    /\ at[h] = "idle" /\ requests < MaxRequests
    /\ ListenerOf[e] \in enabled
    /\ ev' = [ev EXCEPT ![h] = e]
    /\ Goes(h, "mark") /\ requests' = requests + 1
    /\ UNCHANGED <<saw, copy, seen, enabled, ended, queue, session, workflow, brought,
                   userTurns, crashes>>

(* A scope or a type that does not fit, a duplicate, a registry that raises.*)
Refuse(h) ==
    /\ at[h] = "mark"
    /\ Ends(h)
    /\ UNCHANGED <<saw, copy, seen, enabled, ended, queue, session, workflow, brought,
                   budget>>

(* mark_seen of a new event; one that comes again brings the same.          *)
MarkSeen(h) ==
    /\ at[h] = "mark" /\ ev[h] \notin seen
    /\ seen' = seen \cup {ev[h]}
    /\ \E p \in Payloads[Of(h)] : /\ brought[ev[h]] \in {NoPayload, p}
                                 /\ brought' = [brought EXCEPT ![ev[h]] = p]
    /\ Goes(h, "dispatch")
    /\ UNCHANGED <<ev, saw, copy, enabled, ended, queue, session, workflow, budget>>

(* _resolve_ingress_payload raises, or the flush that an event of priority  *)
(* begins: 502 for an event that stays marked.                              *)
ResolveRaises(h) ==
    /\ at[h] = "dispatch"
    /\ failed' = failed \cup {ev[h]}
    /\ Ends(h)
    /\ UNCHANGED <<saw, copy, seen, enabled, ended, queue, session, row, writer, recorded,
                   brought, budget>>

(* _queue_coalesced_event: the event waits for a digest, and the workflow's *)
(* state is recorded at once.                                               *)
QueueEvent(h) ==
    /\ at[h] = "dispatch" /\ Coalesces(ev[h])
    /\ queue' = [queue EXCEPT ![Of(h)] = Append(@, ev[h])]
    /\ Goes(h, "record")
    /\ UNCHANGED <<ev, saw, copy, seen, enabled, ended, session, workflow, brought, budget>>

(* The session's own handling of a message: a turn of its own, or the next  *)
(* one after the turn that is active.                                       *)
HandleMessage(message) ==
    IF turn
    THEN pending' = pending \o message /\ UNCHANGED <<turn, shown>>
    ELSE turn' = TRUE /\ shown' = shown \o message /\ UNCHANGED pending

MergePending(message) == pending' = pending \o message /\ UNCHANGED <<turn, shown>>

(* What follows the ack notice: a message to an active session is merged for*)
(* its next turn; any other is handed over.                                 *)
Hand(message, active) ==
    IF active THEN MergePending(message) ELSE HandleMessage(message)

Deliver(h, active) == Hand(<<ev[h]>>, active) /\ Goes(h, "record")

(* dispatch_event raises: no gateway, no adapter, no bounds where the       *)
(* listener insists on them, a send or a handle_message that failed.        *)
DispatchRaisesMut(h) ==
    /\ at[h] \in {"dispatch", "deliver"} /\ ~Coalesces(ev[h])
    /\ saw' = [saw EXCEPT ![h] = FALSE]
    /\ Goes(h, "record")
    /\ UNCHANGED <<ev, copy, seen, enabled, ended, queue, session, workflow, brought, budget>>
DispatchRaises(h) ==
    /\ at[h] \in {"dispatch", "deliver"} /\ ~Coalesces(ev[h])
    /\ saw' = [saw EXCEPT ![h] = FALSE]
    /\ Goes(h, "forget")
    /\ UNCHANGED <<ev, copy, seen, enabled, ended, queue, session, workflow, brought, budget>>

(* With direct delivery the event goes to the chat.                         *)
DirectSend(h) ==
    /\ at[h] = "dispatch" /\ Of(h) \in Direct /\ ~Coalesces(ev[h])
    /\ shown' = Append(shown, ev[h])
    /\ Goes(h, "record")
    /\ UNCHANGED <<ev, saw, copy, seen, enabled, ended, queue, turn, pending, workflow, brought,
                   budget>>

(* Without an ack notice nothing is awaited between the look at the session *)
(* and the delivery.                                                        *)
DispatchMut(h) ==
    /\ at[h] = "dispatch" /\ Of(h) \notin Direct \cup FailClosed /\ ~Coalesces(ev[h])
    /\ saw' = [saw EXCEPT ![h] = turn]
    /\ Goes(h, "deliver")
    /\ UNCHANGED <<ev, copy, seen, enabled, ended, queue, session, workflow, brought, budget>>
Dispatch(h) ==
    /\ at[h] = "dispatch" /\ Of(h) \notin Direct \cup FailClosed /\ ~Coalesces(ev[h])
    /\ IF Acks(Of(h))
       THEN /\ saw' = [saw EXCEPT ![h] = turn]
            /\ Goes(h, "deliver") /\ UNCHANGED session
       ELSE Deliver(h, turn) /\ UNCHANGED saw
    /\ UNCHANGED <<ev, copy, seen, enabled, ended, queue, workflow, brought, budget>>

(* The ack notice was sent, or was not: the event is delivered either way.  *)
DeliverAfterAck(h) ==
    /\ at[h] = "deliver"
    /\ Deliver(h, saw[h])
    /\ saw' = [saw EXCEPT ![h] = FALSE]
    /\ UNCHANGED <<ev, copy, seen, enabled, ended, queue, workflow, brought, budget>>

(* forget_seen, and the producer is told to come again.                     *)
ForgetSeen(h) ==
    /\ at[h] = "forget"
    /\ seen' = seen \ {ev[h]}
    /\ Ends(h)
    /\ UNCHANGED <<saw, copy, enabled, ended, queue, session, workflow, brought, budget>>

-----------------------------------------------------------------------------
(* _flush_coalesced: the first events of a queue make one message, in a task*)
(* of the timer's or in the handler of an event with priority.  The session *)
(* may have begun or ended a turn while an ack notice was awaited.          *)
FlushDigest(l) ==
    \E n \in 1..Len(queue[l]) :
        /\ l \notin FailClosed
        /\ \E active \in IF Acks(l) THEN BOOLEAN ELSE {turn} :
              Hand(SubSeq(queue[l], 1, n), active)
        /\ queue' = [queue EXCEPT ![l] = SubSeq(@, n + 1, Len(@))]
        /\ UNCHANGED <<handlers, seen, enabled, ended, workflow, brought, budget>>

(* A digest that failed too often, or met a stop or an error: its events are*)
(* forgotten one after another, as far as that goes, and those left behind  *)
(* are lost.  That a stop gives back a batch which its flush goes on to show*)
(* is for EventReceiver to tell.                                            *)
GiveUp(l) ==
    \E n \in 1..Len(queue[l]) : \E m \in 0..n :
        /\ queue' = [queue EXCEPT ![l] = SubSeq(@, n + 1, Len(@))]
        /\ seen' = seen \ {queue[l][i] : i \in 1..m}
        /\ failed' = failed \cup {queue[l][i] : i \in m + 1..n}
        /\ UNCHANGED <<handlers, enabled, ended, session, row, writer, recorded, brought,
                       budget>>

-----------------------------------------------------------------------------
(* update_workflow_state_from_event: one immediate transaction, which reads *)
(* the row once it has the lock.                                            *)
BeginImmediateMut(h) ==
    /\ at[h] = "record" /\ Workflow(ev[h]) # NoWorkflow
    /\ writer' = h
    /\ copy' = [copy EXCEPT ![h] = row[Of(h)]]
    /\ Goes(h, "write")
    /\ UNCHANGED <<ev, saw, seen, enabled, ended, queue, session, row, recorded, failed,
                   brought, budget>>
BeginImmediate(h) ==
    /\ at[h] = "record" /\ Workflow(ev[h]) # NoWorkflow /\ writer = None
    /\ writer' = h
    /\ copy' = [copy EXCEPT ![h] = row[Of(h)]]
    /\ Goes(h, "write")
    /\ UNCHANGED <<ev, saw, seen, enabled, ended, queue, session, row, recorded, failed,
                   brought, budget>>

WriteRow(h) ==
    /\ at[h] = "write"
    /\ row' = [row EXCEPT ![Of(h)] = Apply(copy[h], Workflow(ev[h]))]
    /\ recorded' = [recorded EXCEPT ![Of(h)] = Append(@, ev[h])]
    /\ writer' = None /\ copy' = [copy EXCEPT ![h] = NoState]
    /\ Goes(h, "lifecycle")
    /\ UNCHANGED <<ev, saw, seen, enabled, ended, queue, session, failed, brought, budget>>

(* An event without a workflow; a recording that failed was only a          *)
(* diagnosis, and the event stays delivered.                                *)
NothingToRecord(h) ==
    /\ at[h] = "record" /\ Workflow(ev[h]) = NoWorkflow
    /\ Goes(h, "lifecycle")
    /\ UNCHANGED <<ev, saw, copy, seen, enabled, ended, queue, session, workflow, brought, budget>>

RecordingFailsMut(h) ==
    /\ at[h] \in {"record", "write"} /\ Workflow(ev[h]) # NoWorkflow
    /\ writer' = IF writer = h THEN None ELSE writer
    /\ failed' = failed \cup {ev[h]} /\ copy' = [copy EXCEPT ![h] = NoState]
    /\ Goes(h, "forget")
    /\ UNCHANGED <<ev, saw, seen, enabled, ended, queue, session, row, recorded, brought,
                   budget>>
RecordingFails(h) ==
    /\ at[h] \in {"record", "write"} /\ Workflow(ev[h]) # NoWorkflow
    /\ writer' = IF writer = h THEN None ELSE writer
    /\ failed' = failed \cup {ev[h]} /\ copy' = [copy EXCEPT ![h] = NoState]
    /\ Goes(h, "lifecycle")
    /\ UNCHANGED <<ev, saw, seen, enabled, ended, queue, session, row, recorded, brought,
                   budget>>

(* is_terminal_event, by the type or by the stage.                          *)
IsTerminal(e) ==
    \/ brought[e].final /\ ListenerOf[e] \in Declared
    \/ brought[e].heard \in EndsOn[ListenerOf[e]]

(* The lifecycle is asked about events that were dispatched on their own.   *)
Concludes(e) == IsTerminal(e) /\ ~Coalesces(e)

TerminalAction(l) ==
    CASE l \in Shared -> "shared_listener_kept_enabled"
      [] l \in AutoRetire \ Shared -> "auto_retired"
      [] OTHER -> "warn_only"

Retires(e) == Concludes(e) /\ TerminalAction(ListenerOf[e]) = "auto_retired"

(* _apply_lifecycle_after_dispatch: only a retirement awaits the registry.  *)
(* The secret's removal is in ListenerLifecycle.                            *)
Lifecycle(h) ==
    /\ at[h] = "lifecycle" /\ Retires(ev[h])
    /\ enabled' = enabled \ {Of(h)}
    /\ Goes(h, "log")
    /\ UNCHANGED <<ev, saw, copy, seen, ended, queue, session, workflow, brought, budget>>

(* log_event, with what the lifecycle made of the event, and the reply.     *)
LogEventMut(h) ==
    /\ \/ at[h] = "log"
       \/ at[h] = "lifecycle" /\ ~Retires(ev[h])
    /\ ended' = IF Retires(ev[h]) THEN ended \cup {Of(h)} ELSE ended
    /\ Ends(h)
    /\ UNCHANGED <<saw, copy, seen, enabled, queue, session, workflow, brought, budget>>
LogEvent(h) ==
    /\ \/ at[h] = "log"
       \/ at[h] = "lifecycle" /\ ~Retires(ev[h])
    /\ ended' = IF Concludes(ev[h]) THEN ended \cup {Of(h)} ELSE ended
    /\ Ends(h)
    /\ UNCHANGED <<saw, copy, seen, enabled, queue, session, workflow, brought, budget>>

(* Disabling the listener or logging raises: 502 for an event that was      *)
(* shown, and that stays marked.                                            *)
ReplyFails(h) ==
    /\ at[h] \in {"lifecycle", "log"}
    /\ failed' = failed \cup {ev[h]}
    /\ Ends(h)
    /\ UNCHANGED <<saw, copy, seen, enabled, ended, queue, session, row, writer, recorded,
                   brought, budget>>

(* What is shown of a listener whose work has ended, by the tools beside    *)
(* each listener, and by /ath lifecycle and /ath status as a list.          *)
StaleEnabled(l) ==
    /\ l \in ended \cap enabled
    /\ TerminalAction(l) \in {"warn_only", "shared_listener_kept_enabled"}

StaleTerminal == {l \in enabled : StaleEnabled(l)}

-----------------------------------------------------------------------------
(* The gateway's session: the user begins a turn; at the end of one, the    *)
(* messages merged meanwhile make the next.                                 *)
UserTurn ==
    /\ ~turn /\ userTurns < MaxUserTurns
    /\ turn' = TRUE /\ userTurns' = userTurns + 1
    /\ UNCHANGED <<handlers, seen, enabled, ended, queue, pending, shown, workflow, brought,
                   requests, crashes>>

TurnEnds ==
    /\ turn
    /\ turn' = (pending # <<>>)
    /\ shown' = shown \o pending /\ pending' = <<>>
    /\ UNCHANGED <<handlers, seen, enabled, ended, queue, workflow, brought, budget>>

(* The process dies: requests, queues, turns and merged messages are gone,  *)
(* and a transaction is rolled back.                                        *)
Crash ==
    /\ crashes < MaxCrashes /\ crashes' = crashes + 1
    /\ at' = [h \in Handlers |-> "idle"]
    /\ turn' = FALSE /\ pending' = <<>> /\ writer' = None
    /\ queue' = [l \in Listeners |-> <<>>]
    /\ failed' = failed \cup {pending[i] : i \in DOMAIN pending}
                        \cup {e \in Events : Queued(e)}
                        \cup {ev[h] : h \in {g \in Handlers : AtWork(g)}}
    /\ ev' = [h \in Handlers |-> None] /\ saw' = [h \in Handlers |-> FALSE]
    /\ copy' = [h \in Handlers |-> NoState]
    /\ UNCHANGED <<seen, enabled, ended, shown, row, recorded, brought, requests,
                   userTurns>>

Progress(h) ==
    \/ MarkSeen(h) \/ QueueEvent(h) \/ DirectSend(h) \/ Dispatch(h)
    \/ DeliverAfterAck(h) \/ ForgetSeen(h)
    \/ BeginImmediate(h) \/ WriteRow(h) \/ NothingToRecord(h)
    \/ Lifecycle(h) \/ LogEvent(h)

Next ==
    \/ \E h \in Handlers :
          \/ \E e \in Events : GetHandle(h, e)
          \/ Refuse(h)
          \/ Progress(h)
          \/ ResolveRaises(h)
          \/ DispatchRaises(h)
          \/ RecordingFails(h)
          \/ ReplyFails(h)
    \/ \E l \in Listeners : FlushDigest(l) \/ GiveUp(l)
    \/ UserTurn \/ TurnEnds \/ Crash

Spec == Init /\ [][Next]_vars

-----------------------------------------------------------------------------
(* Properties.                                                              *)

Label == {"idle", "mark", "dispatch", "deliver", "forget", "record", "write",
          "lifecycle", "log"}

TypeOK ==
    /\ at \in [Handlers -> Label] /\ ev \in [Handlers -> Events \cup {None}]
    /\ \A h \in Handlers : at[h] # "idle" => ev[h] \in Events
    /\ saw \in [Handlers -> BOOLEAN] /\ copy \in [Handlers -> State]
    /\ seen \subseteq Events /\ enabled \subseteq Listeners
    /\ row \in [Listeners -> State]
    /\ writer \in Handlers \cup {None}
    /\ \A h \in Handlers : at[h] = "write" <=> writer = h
    /\ queue \in [Listeners -> Seq(Events)]
    /\ turn \in BOOLEAN /\ pending \in Seq(Events) /\ shown \in Seq(Events)
    /\ ended \subseteq Listeners /\ brought \in [Events -> Payload]
    /\ recorded \in [Listeners -> Seq(Events)]
    /\ failed \subseteq Events

Reached == shown \o pending

(* No event reaches the agent twice: a failure after the delivery, in the   *)
(* recording or in what follows it, never has the producer send it again.   *)
ReachesOnce ==
    \A i, j \in DOMAIN Reached : Reached[i] = Reached[j] => i = j

(* A message merged for the session's next turn has a turn before it, whose *)
(* end shows it, unless an ack notice was awaited in between.               *)
UnackedHasATurn ==
    \A i \in DOMAIN pending : ~Acks(ListenerOf[pending[i]]) => turn

(* The workflow's state is what the recorded events make of it one after    *)
(* another, whichever requests brought them at the same time.               *)
NothingOverwritten ==
    \A l \in Listeners :
        LET after[n \in 0..Len(recorded[l])] ==
                IF n = 0 THEN NoState
                ELSE Apply(after[n - 1], Workflow(recorded[l][n]))
        IN  row[l] = after[Len(recorded[l])]

(* The state tells only of events that reached the agent, and of all of     *)
(* them whose requests are over, but for those a failure took.  An event    *)
(* that is debounced counts when it is queued: the state may tell of it     *)
(* before its digest is shown, and when it was given back to its producer.  *)
Waits(e) ==
    /\ Coalesces(e)
    /\ \/ Queued(e) \/ e \notin seen
       \/ \E h \in Handlers : at[h] = "dispatch" /\ ev[h] = e
RecordedReached ==
    /\ \A l \in Listeners : \A i \in DOMAIN recorded[l] :
          \/ recorded[l][i] \in failed \/ Waits(recorded[l][i])
          \/ \E j \in DOMAIN Reached : Reached[j] = recorded[l][i]
    /\ \A j \in DOMAIN Reached :
          LET e == Reached[j] IN
          \/ e \in failed \/ Workflow(e) = NoWorkflow
          \/ \E h \in Handlers : at[h] \in {"record", "write"} /\ ev[h] = e
          \/ \E i \in DOMAIN recorded[ListenerOf[e]] : recorded[ListenerOf[e]][i] = e

(* Evidence that counts as passed is evidence for the artifact the workflow *)
(* is at, where the policy says that it goes stale, or came for no artifact *)
(* before the workflow's first, which makes nothing stale.                  *)
Current(s) ==
    \A k \in Staleable :
        s.evidence[k].status = "passed" => s.evidence[k].artifact \in {NoArtifact, s.artifact}
PassedIsCurrent == \A l \in Listeners : Current(row[l])

(* In serial mode one gate at most is active, and all before it are passed. *)
OneAfterAnother(s) ==
    Serial => \A g \in Active(s) : \A h \in Gates(s) \ {g} :
                  /\ h \notin Active(s)
                  /\ Rank[h] < Rank[g] => GateState(s, h) = "passed"
SerialGates == \A l \in Listeners : OneAfterAnother(row[l])

(* A retired listener has shown the agent the terminal event that retired   *)
(* it.  The workflow has come to its end with it if it takes the event's    *)
(* stage for one, which a lifecycle's own stages and types need not be,     *)
(* unless the state could not be recorded, or the event brought evidence    *)
(* that passed and is stale when it comes.                                  *)
ReachedSet == {Reached[i] : i \in DOMAIN Reached}
MayBeStale(w) == w.kind \in Staleable /\ w.status = "passed"
RetiredIsOver ==
    \A l \in Listeners \ enabled :
        \E e \in ReachedSet \cup failed :
            /\ ListenerOf[e] = l /\ Concludes(e)
            /\ Workflow(e).stage \in TerminalStages =>
                  \/ row[l].stage \in TerminalStages
                  \/ e \in failed \/ MayBeStale(Workflow(e))

(* A listener that stays enabled after a terminal event is shown as stale,  *)
(* and one that retires by itself does not stay enabled, once the event's   *)
(* request is over and unless its reply failed.  A terminal event in a      *)
(* digest does neither.                                                     *)
KeptIsListed ==
    \A e \in ReachedSet \ failed :
        /\ Concludes(e) /\ ListenerOf[e] \in enabled
        /\ \A h \in Handlers : AtWork(h) => ev[h] # e
        => ListenerOf[e] \in StaleTerminal

(* No event reopens a workflow that was released or cancelled.              *)
TerminalSticks ==
    [][\A l \in Listeners : row[l].stage \in TerminalStages
                            => row'[l].stage \in TerminalStages]_vars

=============================================================================
