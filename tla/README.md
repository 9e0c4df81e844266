# Verification of hermes-plugin-async-threads

TLA+ models of the plugin's receiver, its source-binding runner, the lives of its
listeners, what an event does to a conversation and to a workflow, the rows the
registry keeps, and how a tool call finds its conversation and a listener of it:
checked with TLC on small instances and, for the properties
that matter most, proved with TLAPS for every value of the constants.

Paths are relative to the repository (`src/async_threads/adapter.py` is the
package's `adapter.py`).

## 1. The system

A *listener* (a row of `async_thread_handles`, named by its thread key) lets an
outside producer send signed events into a conversation.  The *receiver* is an
aiohttp server inside the gateway's process.  A *source binding* makes the plugin
its own producer: a runner in the same process reads a kanban board's
`task_events`, and posts what is material to the receiver.

| component | code | state it keeps | operations |
|---|---|---|---|
| Event receiver | `adapter.py` | per listener: the debounce bucket `_coalesced_events`, the batch in flight `_coalesced_inflight`, the timer `_coalesce_tasks`; `_running` | `_handle_event`, `dispatch_event`, `_queue_coalesced_event`, `_flush_coalesced`, `connect`, `disconnect` |
| Runner loop | `adapter.py` | `_source_binding_runner_task`, and the thread a pass runs in | `_source_binding_runner_loop`, `_run_source_bindings_once` |
| Source-binding runner | `source_runner.py` | none of its own; a pass has a batch and a place in it | `run_source_binding_once`, `source_binding_runner_status` |
| Emitter | `emitter.py` | none | `emit_event`, `classify_receiver_response` |
| Registry | `registry.py` | SQLite: `async_thread_handles`, `seen_events`, `event_log`, `event_payloads`, `workflow_state`, `source_bindings`, `source_binding_outbox` | one transaction per method; `AsyncThreadRegistryAsync` runs each in a worker thread |
| Lifecycle | `lifecycle.py`, `listeners.py`, `finalizers.py` | none; act on the registry and on secret files | `is_terminal_event`, `terminal_action`, `create_listener`, `retire_listener` |
| Secret artifacts | `secrets.py` | `secret.txt` and `contract.json` per listener | write, describe, remove |
| Workflows | `workflows.py` | none; a function of stored state, event and policy | `apply_workflow_transition`, `compute_gates` |
| Kanban, filters | `kanban.py`, `source_filters.py` | none | `read_kanban_task_events`, `transform_kanban_task_event`, `source_binding_event_types` |
| Ingress digest | `ingress_digest.py` | none | policy resolution and digest rendering |
| Commands, tools | `commands.py`, `tools.py` | none | the owner's operations on the registry |
| Origin resolution | `origin.py` | `OriginIndex`: what was remembered of commands, in memory | `resolve_current_origin`, `remember_gateway_origin` |
| Text | `rendering.py`, `privacy.py`, `handoffs.py`, `continuation.py`, `profile_lane.py`, `routing.py` | none | formatting, redaction, lookup |

How they interact:

* A request handler, the timer tasks and a handler's own flush share the buckets
  on one asyncio loop: they interleave at awaits, and every registry call is an
  await (a thread, then a resumption).  The registry is shared with the runner's
  thread, with commands and with tools; every method is its own transaction.
* The runner calls the receiver over HTTP, in the same process: it needs the loop
  it runs beside to answer.
* The receiver calls the gateway (`target_adapter.handle_message`), which shows an
  event to the conversation or raises.
* `disconnect` stops the server, cancels the runner's task and the timers, and
  hands back what is buffered, unless the runner's task is dead (section 3).
* A tool call runs in a thread beside the gateway.  It looks its conversation up in
  the gateway's session store, in `sessions.json`, in the plugin's index and in the
  context of its task, and then searches the registry for an equivalent listener.

What is hard here: an event is marked before it is handled, so every path on
which the handling fails has to unmark it; buckets, timers and flushes run
through one another; the registry survives a crash and the buckets do not; the
runner retries over a receiver that may have acted; and the cursor is moved by
code that may run twice.  The list, at its lines, is `hazards` in `PROJECT.json`.

What makes each component correct:

* receiver: an event is shown at most once; a marked event is in somebody's
  hands until it is shown or given back; a bucket always has a timer; routine
  events keep their order; a listener is retired by its own terminal event only;
* runner: the cursor passes only what is settled, a settled row stays settled,
  rows are shown in order, and every row is worked off as long as the loop lives;
* dispatch: an event reaches the agent at most once, and what is merged for the
  next turn has a turn before it;
* workflows: the stored state is made of the events that reached the agent, one
  after another, and of debounced events from the moment they are queued; passed
  evidence is for the current artifact; gates open in their order; a workflow that
  ended stays ended; a listener that retired by itself has shown a terminal event of
  its own;
* listener lives: the secret file holds the row's secret, is empty only while it is
  being written or after its writer died in between, and stays gone when the listener
  is retired;
* registry rows: a replay stays out for as long as its marker is kept, a pointer
  leads to its payload until that expires, nobody prunes another owner's rows;
* origin: a call gets the conversation it was told, or its task's, and never another
  one; the listener it returns is of that conversation, and it makes no second one;
* filters and policies: a binding that passes the compatibility check sends only
  what the listener allows; a policy is never mixed from several owners' layers.

## 2. Modules

| module | what it is |
|---|---|
| `DeliveryContract` | the abstract receiver: an event is `new`, `held`, `done` |
| `EventReceiver` | the receiver for one listener, await by await |
| `SourceRunner` | the runner, its outbox and cursor, registry call by registry call |
| `ListenerLifecycle` | rows and secret files under commands, tools, finalizers and terminal events |
| `WorkflowGates` | `apply_workflow_transition` and `compute_gates`, as functions |
| `Conversation` | from the marker to the agent, the workflow's state and the lifecycle, for several listeners on one session, with a queue for each that debounces |
| `Policies` | source filters, the compatibility check, the transform's verdict and the digest policy, as functions |
| `Registry` | markers, payloads, log and bindings under requests, owners and pruning |
| `Origin` | tool calls that look for their conversation and a listener of it, beside the gateway's sessions |
| `MC...` | the instances for TLC: verdicts, payloads, configurations, symmetry |
| `..._proofs` | the theorems of section 4 |

How they fit together:

* `SourceRunner` INSTANCEs `DeliveryContract` as the receiver it talks to, and
  `EventReceiver` is shown to implement the same contract: what is checked of the
  runner holds with any receiver that keeps it.
* `Conversation` EXTENDS `WorkflowGates` and puts its functions into the
  transaction that calls them; it takes up where `EventReceiver` says `dispatch` or
  `queue`.  It keeps one queue per debouncing listener: timers, buckets, re-queues
  and retries are `EventReceiver`'s, the session and the workflow are its own.
* `Registry` EXTENDS `Policies` and calls its functions where the receiver, the
  runner and the commands do; a request there is a few steps, as `EventReceiver`
  has its details, and a pass over the board is one, as `SourceRunner` has them.
* `Origin` is what precedes a creation in `ListenerLifecycle`, where all listeners are
  equivalent: it says which ones are.
* `ListenerLifecycle` has the files and the row of `EventReceiver`'s `Retire` and
  `RemoveSecretArtifact`, against every other operation on them.

### EventReceiver

| model | code |
|---|---|
| `seen`, `enabled` | rows of `seen_events`, `handles.enabled` |
| `artifact` | the secret file |
| `inbox` | events the conversation has been shown, in order |
| `pending`, `inflight`, `timer` | `_coalesced_events[tk]`, `_coalesced_inflight[tk]`, `_coalesce_tasks[tk]` |
| `flushBy`, `flushAt`, `flushLeft` | the task inside `_flush_coalesced`, the await it is at, what its batch still owes |
| `pc`, `ev`, `answer` | each request handler: its next await, its event, its response |
| `phase` | `_running` and what `disconnect` has done |
| `arrivals` | history: routine events in the order they were queued |

An action is the code from one await to the next.  `GetHandle`, `HasSeen`,
`MarkSeen`, `AlreadySeen`, `ResolveIngressPayload`, `DispatchEvent`, `ForgetSeen`,
`Retire`, `RemoveSecretArtifact`, `LogEvent`, `Reply` are `_handle_event` in its
order; `FlushResolve`, `FlushDispatch`, `FlushLog`, `FlushLogFailed`,
`FlushForget` are `_flush_coalesced`.  Every registry call has a disjunct in
which it raises (`DbFaults`), and the exception goes where the code's `try`
blocks send it.

`AlreadySeen` is a step of its own since the row is read in a thread and the
buckets after the resumption.  `FlushRaises` distinguishes the handler that
awaits the flush (502 for its own event) from the timer's task (logged).

Abstractions (`Conversation` has what is left out here of the session and the
workflow, `Registry` what is of payloads and bindings): one listener; a payload is its event id; the checks of signature,
producer and type are one set, `Admitted` (a rejected event is logged in one case
and not in the other); the store of the payload and the lookup of its binding
are one await; `record_workflow_state`, which catches its own errors, is left
out and is in `Conversation`; what `dispatch_event` reports (`delivered`, `accepted`, `queued` behind an
active session) is one outcome, `accepted`.  A reconnect starts from a fresh
adapter, as after a restart of the process: a timer's flush that was begun before the
disconnect, and may live on in the code, ends there at the latest.  A disconnect that finds the
runner's task dead raises before it hands back anything; here that is the disconnect
that hands back none of the markers (`n = 0`), and that it keeps timers and buckets is
left out.

### SourceRunner

| model | code |
|---|---|
| `upstream` | the highest row in `task_events` |
| `cursor`, `outbox` | `cursor_json.last_event_id`, `source_binding_outbox.status` |
| `active`, `usable`, `key` | the binding's status, the listener's `enabled` and `secret` |
| `status`, `handling` | the receiver, by its contract, and the events a handler works on |
| `at`, `row`, `last`, `held`, `outcome` | each pass: next step, row, end of batch, secret read, result of its row |
| `orphans` | passes whose adapter was disconnected: their threads run on |
| `looping` | the adapter's `_source_binding_runner_task` lives |

`BeginPass`, `CheckCompatibility`, `ReadEvents`, `UpsertOutbox`, `GetHandle`,
`EmitEvent`, `MarkOutbox`, `CompareCursor`, `WriteCursor` are
`run_source_binding_once` in its order.  `CompareCursor` and `WriteCursor` are two
steps because Python's `sqlite3` begins its transaction at the UPDATE: the SELECT
of `advance_source_binding_cursor` is outside of it.  `OwnerActs` is a pause or
resume of the binding or of the listener, or a rotation, between any two steps.
`Reconnect` leaves a pass to its thread, which is what cancelling a task that
awaits `asyncio.to_thread` does.  `PassRaises` is what the loop catches inside of a
pass; `ListRaises` is `list_source_bindings`, which it calls outside of its `try`: the
task ends, and a connect or a new process starts another.  `ReceiverFails` takes the
marker back, or keeps it, as the receiver does when the failure comes before the
dispatch or when `forget_seen` fails.

Abstractions: one binding; a row's event is never a routine one for the receiver
(`kanban.task.` events the transform emits are completed, blocked, gave_up,
crashed, timed_out, ready_for_review); what the transform makes of a row is the
constant `Verdict`; a listener that is missing, disabled or another producer's is
one case, `usable`.  The runner's branch for an unknown action cannot be
reached: `transform_kanban_task_event` returns one of the three it handles.

### ListenerLifecycle

| model | code |
|---|---|
| `rows` | a listener's `enabled`, and its `secret` as a version |
| `dir`, `secretFile`, `contractFile` | the emitter directory; the version in `secret.txt`, `Torn` while it is truncated; `contract.json` |
| `op`, `at`, `key`, `copy` | each actor: its operation, next step, listener, and the row it read |
| `rounds` | tools describe the listener they return, which writes the files again |
| `linked` | the descriptor an actor writes to still has the name `secret.txt` |
| `torn` | history: files that a writer has left empty when it died |
| `alone`, `settled` | history: whether others were at the listener meanwhile, and what the last operation that had it to itself left behind |

Every registry call and every system call on the files is a step.  `Begin` starts
one of eleven operations (`AllOps`); `FirstStep`, `AfterRead` and `AfterDisable` are
what each of them makes of the row.  `OpenRaises` is `os.open` in a directory that
another operation removed.  `Dies` ends an operation anywhere: the process, a
registry call that raised, or a write that did, after `os.open` has truncated the file
(no space on the device).

Abstractions: all listeners are equivalent for `_find_equivalent_listener`, which
ignores debounce and workflow policy in the code as well; names of files and
modes are left out; `revoke` is `set_enabled`.

### WorkflowGates and Conversation

| model | code |
|---|---|
| `at`, `ev`, `saw`, `copy` | each request: next await, event, whether the session was active, the row read in its transaction |
| `seen`, `enabled`, `ended` | markers; listeners; listeners with a terminal event in `event_log` |
| `row`, `writer` | `workflow_state`, and who holds the immediate transaction |
| `queue` | per listener: what waits for a digest, the batch in flight first |
| `turn`, `pending`, `shown` | the session: active, merged messages, what was shown |
| `brought`, `recorded`, `failed` | history: each event's payload, the commits per listener, the events that were lost, or recorded or answered in error |

`GetHandle` reads the listener's row, `Refuse` is every early return and duplicate,
`MarkSeen` the marker, `ResolveRaises` the 502 that keeps it.  `DispatchRaises`,
`DirectSend`, `Dispatch`, `DeliverAfterAck` are the ways through `dispatch_event`;
`QueueEvent` is `_queue_coalesced_event`, which records the workflow's state of an event
that nobody has seen yet; `FlushDigest` shows the first events of a queue in one message,
`GiveUp` forgets them, and loses those it does not get to (a stop that gives back a
batch its flush goes on to show is `EventReceiver`'s, and not among them).  `BeginImmediate`,
`WriteRow`, `NothingToRecord`, `RecordingFails` are `_record_workflow_state`, for events
dispatched and events queued; `Lifecycle`, `LogEvent`, `ReplyFails` are what follows.
`HandleMessage`, `UserTurn` and `TurnEnds` are the gateway's session (external): a message
that arrives during a turn waits for its end.

A workflow's state is its stage, its artifact (the fingerprint), whether its
candidate is ready, and per kind of evidence a status and the artifact it is for.
`Apply` is `apply_workflow_transition`, with its stale evidence; `GateState` and
`Active` are `compute_gates`.  Texts that only display are left out.  The payload of
an event says what `normalize_workflow_event` makes of it (`workflow`), whether its type
ends a listener's work (`final`, which counts where the listener declares such types, or
leaves the default), which stage the lifecycle reads in it (`heard`), and whether it is
routine.  The two stages are two fields since the code reads them in different places and
has different sets of terminal ones: `TerminalStages` for the workflow, and `EndsOn`, any set
per listener, for its lifecycle.  `Concludes` is asked of directly dispatched events only,
as in the code.

Abstractions: one workflow per listener; the tables of stages and statuses are
those that behave alike; a refused request and a duplicate change nothing here.

### Policies and Registry

| model | code |
|---|---|
| `config` | what the owners configured: allowed types, filter, and the digest policy of the three layers; chosen in the beginning |
| `bound`, `outbox` | bindings (status, filter, whether the listener is the same producer's), and which events they sent |
| `seen`, `log`, `payloads` | the tables, with times in ticks and owners |
| `at`, `id`, `lis`, `since`, `via`, `kept` | each request: next await, event, listener, marking, binding found, payload row |
| `accepted`, `pointed`, `resolved`, `refused` | history the properties look at |

`CreateBinding`, `SetBindingStatus`, `SetEnabled`, `Prune` are the owner's; `EmitFromBoard`
is a pass over one board event, `Post` any other producer's request; `MarkSeen`,
`FindBinding`, `StorePayload`, `Show`, `DispatchFails` are the request.  `PayloadsFor`,
`PayloadShown` and `EventsFor` are what an owner is told.

`Normalize`, `Override` and `Resolve` are the digest policy as it is read, stored and
merged; `Kept` says what a stored layer looks like, which `Override` gives.

Abstractions: all listeners are one producer's, since ids are shared within a
producer only; a payload is its owner, event, mode and expiry; a configuration does
not change in a run, a binding's status and a listener's `enabled` do.  `MaxFlight`
bounds how long a request takes, in the ticks of retention: days in the code.

### Origin

| model | code |
|---|---|
| `sessionStore`, `file` | the gateway's SessionStore, `sessions.json` (external) |
| `offers` | whether a host passes its store, and whether that has `lookup_by_session_id` |
| `bySid`, `byKey` | `OriginIndex` |
| `handles` | enabled and disabled listeners: key, source, parent chat |
| `at`, `sid`, `key`, `explicit`, `env`, `found`, `answer` | each tool call: next lookup, what it was told or has in its context, the `OriginResolution`, the listener it returns |
| `home`, `alone` | history: the key a session id was handed out for; whether a listener came up since a call has listed them |

`LookupStore`, `LookupFile`, `LookupIndex` (with the fall-back to the context) are
`resolve_current_origin` in its order; `FindEquivalent` and `CreateListener` are
`ath_create_listener_tool`, two transactions.  `GivesCommand` is `remember_gateway_origin`,
which every `/ath` command begins with.  `Restart` loads the file and empties the index.

Abstractions: a source is a chat (platform, chat and thread in one) and a user;
`build_session_key` is the constant `KeyOf`; a session id belongs to one key for ever;
sessions without an origin, which every lookup passes over, are left out; what a host
tells a call, or a task has in its context, is a session that exists or has existed,
and a context agrees with itself; all calls ask for the same producer and policies.

## 3. Properties and runs

Receiver (`r1`, `r2` routine, `f1` terminal and priority, `x1` not admitted):

| run | instance | shows |
|---|---|---|
| `receiver_safety` | 3 handlers, 4 requests, 2 re-queues, 1 graceful stop and reconnect | `NoSilentLoss`, `RoutineInOrder`, `RetiredAfterDelivery` |
| `receiver_live` | 2 handlers, 4 requests, fairness | `ContractSettles`: every hold is settled; `TerminalRetires` |
| `receiver_faults` | 4 requests, registry faults, 1 crash | `ImplementsContract`: steps of the contract only; `AtMostOnce` |
| `receiver_stop` | 3 requests, registry faults, 1 crash, 1 stop that cancels handlers | `TimerCoversBucket`, `SingleFlight`, `TypeOK` |

Runner (4 rows, or 3; the second is suppressed, every third coalesced, the others
emitted; batches of 2):

| run | instance | shows |
|---|---|---|
| `source_safety` | 3 faults, 1 crash, 2 acts of the owner | `CursorCovered`, `TakenOrGivenUp`, `ShownInOrder`, `SettledForGood`, `TypeOK` |
| `source_live` | 2 faults, 1 crash, 1 reconnect, slow replies, fairness | `CatchesUp` |

The rest:

| run | instance | shows |
|---|---|---|
| `lifecycle` | 2 listeners, 2 actors, 4 operations of any of the 11 kinds, 1 death | `NoTornSecret`, `WrittenIsCurrent`, `RetiredStaysGone`, `TypeOK` |
| `conversation` | 4 events of 3 listeners (one debounced, without acks and with four payloads, one of them routine; one with acks; one direct and shared), 2 handlers, 3 requests, 1 user turn, 1 crash, any failure and any digest; 2 kinds of evidence in serial order, 2 artifacts; a stage `canceled` that ends the listener and not the workflow | `ReachesOnce`, `UnackedHasATurn`, `NothingOverwritten`, `RecordedReached`, `PassedIsCurrent`, `SerialGates`, `RetiredIsOver`, `KeptIsListed`, `TerminalSticks`, `TypeOK` |
| `origin` | 4 sources (a channel, a thread, a post without a user in it, the terminal), 2 session ids, 2 calls of which one at a time resolves, 1 command or retirement, 1 restart | `NamedSession`, `AnsweredIsHere`, `OnePerConversation`, `TypeOK` |
| `registry` | 2 owners, 2 listeners, 1 binding, 1 event id, 2 handlers, 3 requests, 2 ticks, 1 change, filters and policies of `AllConfigs` | `AcceptedOnceInWindow`, `PointerResolves`, `MostSpecificWins`, `ReadyIsAccepted`, `OthersKeep`, `TypeOK` |

`lifecycle` and `origin` have 1.9 million states, `registry` 1.7, `conversation` 1.5.

Bounds.  A race of the receiver needs at most three tasks of which one may be the
timer's: two handlers and the timer, or three handlers with a flush among them.
Four requests let an event be sent, retried while it is buffered or after it was
given back, beside another event and a priority one.  Two re-queues
stand for the code's three: the second one is where a count can go wrong in both
directions.  Batches of 2 over 4 rows have a full batch, a partial one, an empty
one, and a resumption in the middle of each.  One crash suffices for every
property that is broken or kept by one, as recovery starts from the registry
alone, and each pass after it is the same code; faults are spent on the same row
or on two.
Two actors at two listeners meet in every pair of operations, and four operations
let two more follow on what they left.  Three requests of which two overlap let
two events update one row at once and a third meet the result.  In `registry` a
marker set at 0 is in its retention at 1 and out of it at 2; payloads expire at 1
(raw) or 2; one event id is enough, since ids never meet, and two listeners are, as
an id is accepted, refused or pruned for the one or the other.  In `origin` two ids let
a session be reset under a call that was told the old one; a listener of the first
call, or of the command, is there when the second call searches, and two calls are
between search and insert at once; lookups of two calls do not affect each other,
hence one resolves at a time.

Fairness.  `EventReceiver`: a task that can run is run (`HandlerStep`,
`FlushStep`) and a sleep ends (`TimerFires`): the asyncio loop.  Nothing is assumed of
producers, of the outcome of a dispatch, of faults and of crashes: the bounds
on re-queues and on faults, the code's and the model's, make retries end.
`SourceRunner`: the loop, while it lives, wakes up and a thread runs (`PassStep`), the
receiver finishes what it works on (`ReceiverShows` or `ReceiverFails`), which is what
`receiver_live` shows of it.  Nothing is assumed to revive a dead loop: `BeginPass` needs
`looping`, and `CatchesUp` says that a row is worked off or the loop is found dead, again
from every later state, so that after a reconnect the row is due once more.  A paused binding has no
pass to begin; `source_live` has no owner's act, so that `active` and `usable` stay as they are.

`ListenerLifecycle`, `Conversation`, `Registry` and `Origin` have safety properties only:
what must end well there is what `receiver_live` and `source_live` check.

### What the code does not keep

Each of these runs ends in a counterexample to what a document or a docstring
says; `findings` in `PROJECT.json` quotes the line.

| run | what happens |
|---|---|
| `receiver_flush_wedged` | a registry error while the digest is stored leaves the batch in `_coalesced_inflight`: the listener never flushes again |
| `source_two_passes` | a pass left behind by `disconnect` writes an older cursor over a newer one |

Seen while modelling, and described without a run of their own:

* The session's turn ends while the ack notice is awaited: the event is merged for a
  next turn that nothing starts, and answered `queued` (docs/EVENT_CONTRACT.md:212
  speaks of an active session).  `UnackedHasATurn` is about listeners without a notice.
* Two calls that ask for a listener at once both find none and make two.
* The context of a task has no parent chat: a listener made in a thread where the key
  was unknown is not found again from a session that knows the parent, and the next
  call makes another.  Hence the exception for threads in `OnePerConversation`.
* `list_source_bindings` is called outside of the pass's `try` (adapter.py:253) and the loop
  has no handler of its own (adapter.py:245): a registry error there ends the runner's task,
  where a comment at adapter.py:270 wants it kept alive.  No binding is worked off
  until the next connect, and nothing but the task's own exception tells of it.
* `disconnect` awaits the runner's task and catches its cancellation only (adapter.py:220):
  if the task was dead, its error is raised again, and what is buffered is not handed back.
* The workflow's state of a debounced event is recorded when it is queued
  (adapter.py:664, which tests/test_adapter.py:1344 asks for): the agent may read a state made of
  events it has not seen, and the state keeps them when their digest fails and they are
  given back, and takes them in once more when they come again.  Hence `Waits` in
  `RecordedReached`.
* The lifecycle's terminal stages are `released`, `cancelled`, `canceled` or the listener's own
  (lifecycle.py:16, 81), read from `stage` or `workflowStage` of the event or its
  `payload` (lifecycle.py:99); the workflow's are `released` and `cancelled` (workflows.py:29),
  read from elsewhere (workflows.py:95).  A listener may retire while its workflow stays open, and a workflow may end
  with its listener enabled and not shown as stale.  `RetiredIsOver` therefore
  speaks of the workflow only where the workflow reads a terminal stage in the event.
* A write of `secret.txt` that dies or raises after `os.open` has truncated it
  (secrets.py:153) leaves it empty until the next operation on it.
* A registry error between the marker and the dispatch answers 502 and keeps the
  marker, so that the retry the 502 asks for (docs/EVENT_CONTRACT.md:217) is a
  `duplicate` of nothing.
* `disconnect` gives back a batch that a timer's flush goes on to deliver, after a
  reconnect too; the producer's retry shows it again.
* A listener disabled during a pass costs an event: its row becomes `error`, which
  later passes step over (docs/BRIDGE_RECIPES.md:251 does not list `error`).
* A crash between marker and dispatch: the next pass is answered `duplicate` and
  settles an event that was never shown.
* A retry that overlaps the first request is answered `duplicate` before the event is
  shown, and the first dispatch may still fail.
* A terminal event that is routine as well is shown in a digest, which retires nobody,
  and is not listed as stale.  `RetiredIsOver`, `KeptIsListed` and `TerminalRetires` are about
  events dispatched on their own.
* `forget_seen` deletes the marker of an id, whoever set it: with `prune --seen-days 0`
  in the middle of a request, its failure takes another request's marker.
* `store_event_payload` keeps the row of an earlier delivery, with that one's mode and
  expiry; `get_event_payload` shows a payload that has expired until it is pruned.
* `set_source_binding_status` makes a retired binding active again.
* A filter whose kinds all normalise to nothing (source_filters.py:50) resolves to no
  types: the check calls the binding ready, and the listener may refuse what it
  sends.  `ReadyIsAccepted` is about filters that name a type.
* An empty `terminal_event_types`, which the command and the tool always pass, takes the
  place of the default patterns that docs/BRIDGE_RECIPES.md:292 promises; hence
  `Declared`.
* Evidence that came stale with a terminal stage retires the listener, and its
  workflow's stage stays as it was; `RetiredIsOver` says so.  The run has no such event:
  the exception is for the theorem.
* In serial mode a later gate that needs a candidate counts as passed by its evidence
  alone, though the candidate is not ready.
* `_coalesce_enabled_for` ignores `enabled` where kinds are given.
* An inspection or a handoff that read its row before a retirement writes the secret
  files again after it (docs/SECURITY.md:18 says that inspection does not); a
  retirement does not remove what a handoff wrote beside them.
* Two rotations at once may leave the older secret in the file, and a resumption does not
  write the files back.  The next operation that is left alone mends both, which is
  what `WrittenIsCurrent` and `RetiredStaysGone` say: they are about operations that
  nobody overlaps, after any history of those that did.

For these reasons some passing runs leave a cause out, and say so: `NoSilentLoss`
needs a registry that answers, handlers that end within the grace of a disconnect
and a process that does not crash; `RoutineInOrder` needs the first two (crashes are
allowed, and proved), up to the end of the first disconnect, which starts a new
history; `AtMostOnce` needs no disconnect that ends with a batch in flight (crashes
and faults are allowed, and proved);
`CatchesUp` needs a loop that lives; `NoTornSecret` leaves out the file of the writer that
died, and no other; `TakenOrGivenUp` and `ShownInOrder` need replies within the emit's timeout; they and the
cursor need passes that do not overlap; `AcceptedOnceInWindow` needs requests that
end within the retention of markers (`MaxFlight <= SeenDays`).

## 4. Proofs

All for arbitrary constants, that is, any events, handlers, rows, verdicts, batch
limit and bounds, from the `ASSUME`s of the modules alone unless said.

| theorem | statement | assumption |
|---|---|---|
| `EventReceiver_proofs`: `TypeCorrect`, `BucketHasTimer`, `OneFlush`, `RetiredAfterShown` | `Spec => []TypeOK`, `[]TimerCoversBucket`, `[]SingleFlight`, `[]RetiredAfterDelivery` | none |
| `OnlyAStoppedFlushRepeats` | `Spec /\ CleanStops => []AtMostOnce` | `CleanStops`: no disconnect ends with a batch in flight |
| `ReceiverImplementsContract` | `Spec /\ CleanStops => ImplementsContract` | `CleanStops` |
| `ShownAtMostOnce`, `ContractWithoutStops` | `Spec => []AtMostOnce`, `ImplementsContract` | `NeverStopped`: no graceful disconnect |
| `NothingLostSilently` | `Spec => []NoSilentLoss` | `Answering`: registry calls return, handlers end within the grace, no crash |
| `RoutineKeepsItsOrder` | `Spec => []RoutineInOrder` | `CallsReturn`: `Answering`, and crashes |
| `RunnerTyped` | `Spec => []TypeOK` | none |
| `CursorIsCovered`, `CursorMovesForward` | `Spec => []CursorCovered`, `CursorMonotone` | `NoOverlap`: no reconnect, or one pass at a time |
| `SettledStaysSettled` | `Spec => SettledForGood` | `NoOverlap` |
| `NoRowIsDropped`, `RowsAreShownInOrder` | `Spec => []TakenOrGivenUp`, `[]ShownInOrder` | `NoOverlap` and `InTime`: no late reply |
| `Conversation_proofs`: `TypesHold`, `PassedStaysCurrent`, `GatesOpenInOrder`, `TerminalStays`, `NothingIsOverwritten` | `Spec => []TypeOK`, `[]PassedIsCurrent`, `[]SerialGates`, `TerminalSticks`, `[]NothingOverwritten` | none |
| `Conversation_delivery_proofs`: `ReachedOnce`, `MergedHaveTurn`, `RecordsAndReach`, `KeptAreListed`, `RetiredAreOver` | `Spec => []ReachesOnce`, `[]UnackedHasATurn`, `[]RecordedReached`, `[]KeptIsListed`, `[]RetiredIsOver` | none |
| `Registry_proofs`: `TypesHold`, `ReplayRefused`, `PointersLead`, `PoliciesNotMixed`, `ReadyHolds`, `PruneKeepsOthers` | `Spec => []TypeOK`, `[]AcceptedOnceInWindow`, `[]PointerResolves`, `[]MostSpecificWins`, `[]ReadyIsAccepted`, `OthersKeep` | none |
| `Origin_proofs`: `ResolvedIsRoutable`, `ResolvesItsSession`, `AnswersFromHere`, `MakesNoSecond` | `Spec => []TypeOK`, `[]NamedSession`, `[]AnsweredIsHere`, `OnePerConversation` | none |
| `ListenerLifecycle_proofs`: `TypesHold`, `TornIsFilled`, `WrittenStaysCurrent`, `RetiredGone` | `Spec => []TypeOK`, `[]NoTornSecret`, `[]WrittenIsCurrent`, `[]RetiredStaysGone` | none |

The assumptions are needed.  Without `NoOverlap`, `source_two_passes` is the
counterexample, and a pass left at work undoes `CursorCovered`, `TakenOrGivenUp` and
`ShownInOrder` as well; it is the overlap that does it and not the reconnect, which
`NoOverlap` allows as long as passes take turns.  Without `InTime` a pass finds its row a
duplicate of a request that is still at work and then fails.  A stop that gives back a
batch in flight shows it a second time (section 3), and by `OnlyAStoppedFlushRepeats`
and `ReceiverImplementsContract` that is all that breaks the contract.  A crash or a
call that raises leaves markers that nobody answers for; a flush that raises, or a
handler cancelled in the middle of one, drops a batch out of the line.

*Receiver.*  `TypeOK` alone is not inductive where it matters: that a buffered
item's count stays within `MaxAttempts` needs that a flush's batch is the one in
flight, and that an empty flush cannot be at an await.  The first proof module
strengthens it by what each await of a flush knows of the batch, and by who
waits for whom.  The second one adds who *holds* an event: a handler on its way to
dispatch or to forget it, a place in the bucket, a place in the batch.  Its
invariant says that an event has at most one holder, is marked while it has one,
and is not shown yet.  At-most-once follows, since only a holder shows an event; and
so does the refinement, since a holder's steps are the contract's `Deliver` and
`HandBack`, and `MarkSeen` makes a holder only of what was not marked.  A crash
drops holders, never markers.  A disconnect that finds no batch in flight keeps all
that.

Nothing is lost (`Cared`): every mark is of an event that was shown or has a holder.
The markers that a disconnect takes back are those of the bucket and the batch in
flight, which are all there are, since it waits for the handlers.

The order of routine events is an equation of sequences (`InLine`): what was shown of
them, then the batch, then the bucket, is what arrived.  A step moves a boundary of
this line, or takes one event out of it and of the arrivals (a failed digest that
hands its events back), or puts the batch in front of the bucket again.  `Kept`, the
shown ones that were buffered, is a recursive function: its laws (`KeptAppend`,
`KeptConcat`, `KeptAll`) are proved by the least number at which a solution of its
equation could fail to exist or to agree with another (`LeastNumber`).  `Sorted`
says that no routine event gets past the bucket.

Retirement (`Retirement`): a handler is at `retire` or `unlink` only with a terminal
event that was shown, since it gets there from its dispatch and nothing is taken
out of the conversation.

*Runner.*  `CursorCovered` is strengthened by `Fits`, what a pass knows of its row:
it is the one after the cursor; it is pending until it is marked and settled
from then on; and a pass that is about to mark has a result.  With one pass at a
time the cursor's comparison is always true and its write moves it by one
settled row.  For what the receiver does with the rows (`SInv`), a handler at work
has the one pass that waits for it (`AtWork`), hence none is while a pass takes a
step; what the outbox says of a row, and what a pass is about to write into it, is so
(`Truthful`); and the receiver knows of no row but those up to the one after the
cursor (`Behind`).  `ShownInOrder` follows: a row that was shown has only settled
rows before it.  The types need none of this, only that a pass is inside
what it has read (`Stands`).

*Conversation.*  Both invariants are about who holds what.  For the workflow, a
request that has begun its transaction is the only one, and its `copy` is the row:
with that every step applies one event to a row or leaves it, and the
properties are facts about `Apply` and `compute_gates` (`ApplyCurrent`,
`ApplyTerminal`, `OneGateAtATime`).  `NothingOverwritten` compares the row with a
recursive function of the recorded events: the invariant (`Made`) says that some
solution of its equation ends in the row, a write extends the solution by one, and
solutions are unique (`MakingMore`, `MakingUnique`); a recorded event brings what it
brought when it was recorded, for a request that comes again brings the same.  For delivery,
a request at work holds its event's marker alone (`Held`), up to the moment it
dispatches or queues the event.  What was shown, what is merged and what is queued have no
event in common (`Once`, `Line`, `Reach`), so that a digest shows only what is new.  From there on a
request knows that its event was shown, waits or was lost (`Placed`), what it still has
to record (`Recs`), to log (`Logged`) and to conclude (`Over`).  The steps are few kinds
(`Way`, `StepWays`): one that only moves a request on, one that shows, marks, queues or
returns an event, a digest that shows the front of a queue or gives it up, the session's
own, and a crash.  `RetiredAreOver` has no
assumption on the two sets of stages: it says of an event what the code makes of it.

*Registry.*  A marker set by a request that is at work has that request's time
(`Marked`), and no two requests work on one id (`Alone`): so the marker a failure
takes back is its own.  That rests on `Flight`: a request is not older than
`MaxFlight`, hence not than `SeenDays`, and a prune in the middle of it spares its
marker.  `Guarded` then says that what was accepted is past its retention or still
marked.  The policy is a case distinction on the forms a stored layer can have
(`KeptForms`).

*ListenerLifecycle.*  `Apart` says that an actor that is alone is the only one at its
listener; `Course` says how far its operation has come, for every step of it; and
`Settled` what a listener that nobody is at was left with.  An actor that joins
ends the others' solitude, so that no step of it can disturb a `Course`.  An empty file
has an actor that is about to fill it, or is in `torn`, where only `Dies` puts it, and
only the file that this actor had truncated (`LeavesTorn`).

*Origin.*  Wherever a conversation is written down, its key is its source's (`Exact`,
`Kept`, `Indexed`) and its session id was handed out for that key, so that every lookup
gives the asked conversation or none (`Gives`): then it makes no difference which of
them answered.  `SameChatIsSameOrigin` is the converse for listeners; `Alone` says that
a search that found none still would, as long as no listener came up.

Only model-checked: liveness under fairness (`ContractSettles`, `TerminalRetires`,
`CatchesUp`), which is out of the prover's reach; and the two runs that end in a
counterexample.  Every invariant and every other action property that a passing run checks is
a theorem.  Induction over data is possible where it can be said of sets: the library's
induction theorems take an operator as a parameter, which the provers do not
instantiate, but its theorem that the order of the naturals is well-founded gives a
least number of any set of them (`LeastNumber`).

## 5. Plan

Done, in this order: `DeliveryContract` and `EventReceiver`; `SourceRunner`; their
proofs; `ListenerLifecycle`; `WorkflowGates` with `Conversation`; `Policies` with
`Registry` (filters, compatibility, digest policy, retention); `Origin`; their proofs; the
proofs of what is lost, reordered, dropped or overwritten (section 4).

Left:

1. `Bridge`: the runner with the receiver of `EventReceiver` in place of its contract,
   for what needs both (a marker kept after a registry error, and a pass that
   believes it).
2. With it, `NoSilentLoss` and `TakenOrGivenUp` for the two together.

Not modelled: rendering and redaction, the texts of handoffs, the routing shim,
profile lanes and the plugin's registration (pure functions on strings, or no
state of their own); argument parsing of commands and tools; HMAC and JSON (their outcome
is a constant); the gateway itself (external: it shows an event, holds it for the
next turn, or raises).  Of the continuation policy only `fail_closed_without_core_bounds`
matters here, as a dispatch that raises; the rest is passed on.
