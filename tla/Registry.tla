-------------------------------- MODULE Registry --------------------------------
(***************************************************************************)
(* The rows that outlive an event and who may remove or read them:          *)
(* src/async_threads/registry.py, with the commands and tools that bind a   *)
(* source, look rows up and prune them, and the receiver's use of them.     *)
(*                                                                          *)
(* Every listener here has the same producer, as every owner's Kanban       *)
(* listener has, so that their events share one space of ids.  Listener     *)
(* home[b] is what binding b feeds.  Time is counted in ticks; a request is *)
(* over, or its process dead, MaxFlight ticks after it was marked.          *)
(***************************************************************************)
EXTENDS Policies, FiniteSets

CONSTANTS
    Owners, Listeners, Bindings, Ids, Handlers, None,
    OwnerOf,     \* the owner of a listener
    Home,        \* the listener of a binding
    Configs,     \* what the owners configured
    SeenDays, LogDays,  \* retention of markers and of the event log
    MaxFlight,   \* bound: ticks a request is in flight
    MaxTime, MaxRequests, MaxChanges  \* bounds: ticks, requests, changes of status

ASSUME RegistryAssumption ==
    /\ OwnerOf \in [Listeners -> Owners] /\ Home \in [Bindings -> Listeners]
    /\ SeenDays \in Nat /\ LogDays \in Nat /\ MaxTime \in Nat /\ MaxRequests \in Nat
    /\ MaxChanges \in Nat
    /\ MaxFlight \in Nat /\ MaxFlight <= SeenDays
    /\ None \notin Ids \cup Listeners \cup (Listeners \X Nat)
    /\ \A c \in Configs :
          /\ c.filter \in Filter /\ c.global \in Layer
          /\ Kept(c.listener) /\ Kept(c.binding)

VARIABLES
    now,
    config,    \* the global layer, and per listener and binding its own
    enabled,   \* listeners
    bound,     \* source_bindings: status, filter, producer
    outbox,    \* source_binding_outbox: a binding and the event's id
    seen,      \* seen_events: per id, the listener and the time, or None
    log,       \* event_log: listener and time
    payloads,  \* event_payloads
    at, id, lis, since,  \* each handler: next step, event, listener, marking
    via,       \* each handler: the binding it found, or None
    kept,      \* each handler: the payload row it points to, or None
    accepted,  \* history: markings that were not taken back
    pointed,   \* history: pointers shown
    resolved,  \* history: every policy that was applied is the expected one
    refused,   \* history: bindings that had an event refused for its type
    requests, changes

handlers == <<at, id, lis, since, via, kept>>
history == <<accepted, pointed, resolved, refused>>
sources == <<enabled, bound, outbox>>
budget == <<requests, changes>>
vars == <<now, config, sources, seen, log, payloads, handlers, history, budget>>

NoBinding == [status |-> "none", filter |-> [types |-> {}, kinds |-> {}],
              sameProducer |-> TRUE]

Init ==
    /\ now = 0 /\ config \in Configs
    /\ enabled = Listeners /\ bound = [b \in Bindings |-> NoBinding]
    /\ outbox = {} /\ seen = [i \in Ids |-> None] /\ log = {} /\ payloads = {}
    /\ at = [h \in Handlers |-> "idle"] /\ id = [h \in Handlers |-> None]
    /\ lis = [h \in Handlers |-> None] /\ since = [h \in Handlers |-> 0]
    /\ via = [h \in Handlers |-> None] /\ kept = [h \in Handlers |-> None]
    /\ accepted = {} /\ pointed = {} /\ resolved = TRUE /\ refused = {}
    /\ requests = 0 /\ changes = 0

Goes(h, label) == at' = [at EXCEPT ![h] = label]
Ends(h) ==
    /\ Goes(h, "idle")
    /\ id' = [id EXCEPT ![h] = None] /\ lis' = [lis EXCEPT ![h] = None]
    /\ since' = [since EXCEPT ![h] = 0]
    /\ via' = [via EXCEPT ![h] = None] /\ kept' = [kept EXCEPT ![h] = None]

-----------------------------------------------------------------------------
(* The owner binds a source, and pauses, resumes or retires it; the status  *)
(* is set whatever it was before.                                           *)
NewBinding(same) ==
    [status |-> "active", filter |-> config.filter, sameProducer |-> same]

CreateBinding(b, same) ==
    /\ bound[b] = NoBinding
    /\ bound' = [bound EXCEPT ![b] = NewBinding(same)]
    /\ UNCHANGED <<now, config, enabled, outbox, seen, log, payloads, handlers,
                   history, budget>>

SetBindingStatus(b, status) ==
    /\ bound[b] # NoBinding
    /\ changes < MaxChanges /\ changes' = changes + 1
    /\ bound' = [bound EXCEPT ![b].status = status]
    /\ UNCHANGED <<now, config, enabled, outbox, seen, log, payloads, handlers,
                   history, requests>>

(* The listener is paused or resumed.                                       *)
SetEnabled(l) ==
    /\ changes < MaxChanges /\ changes' = changes + 1
    /\ enabled' = (enabled \ {l}) \cup ({l} \ enabled)
    /\ UNCHANGED <<now, config, bound, outbox, seen, log, payloads, handlers,
                   history, requests>>

(* dry_run_kanban_source_binding: the kinds of task events a pass would     *)
(* send; none while the compatibility check finds fault.                    *)
WouldEmit(b) ==
    {k \in MaterialKinds \cup NoisyKinds :
        /\ Compatibility(bound[b], Home[b] \in enabled, config.allowed) = "ok"
        /\ Verdict(k, bound[b].filter, {}) = "would_emit"}

(* A pass over one event of the board: the compatibility check and the      *)
(* verdict, which are the dry run's, the outbox row, and a request to the   *)
(* listener.  The pass itself is SourceRunner's.                            *)
EmitFromBoard(h, b, i, kind) ==
    LET l == Home[b] IN
    /\ at[h] = "idle" /\ requests < MaxRequests
    /\ kind \in WouldEmit(b)
    /\ outbox' = outbox \cup {<<b, i>>}
    /\ requests' = requests + 1
    /\ IF ListenerTakes(config.allowed, TypeOfKind[kind])
       THEN /\ Goes(h, "mark") /\ id' = [id EXCEPT ![h] = i]
            /\ lis' = [lis EXCEPT ![h] = l] /\ since' = [since EXCEPT ![h] = now]
            /\ UNCHANGED <<log, refused>>
       ELSE /\ log' = log \cup {<<l, now>>} /\ refused' = refused \cup {b}
            /\ UNCHANGED <<at, id, lis, since>>
    /\ UNCHANGED <<now, config, enabled, bound, seen, payloads, via, kept, accepted,
                   pointed, resolved, changes>>

(* Another program of the producer, or a retry of the runner's.             *)
Post(h, l, i) ==
    /\ at[h] = "idle" /\ requests < MaxRequests /\ l \in enabled
    /\ requests' = requests + 1
    /\ Goes(h, "mark") /\ id' = [id EXCEPT ![h] = i]
    /\ lis' = [lis EXCEPT ![h] = l] /\ since' = [since EXCEPT ![h] = now]
    /\ UNCHANGED <<now, config, sources, seen, log, payloads, via, kept, history, changes>>

(* mark_seen: the marker is the id's, whichever listener has it.            *)
MarkSeen(h) ==
    /\ at[h] = "mark"
    /\ IF seen[id[h]] = None
       THEN /\ seen' = [seen EXCEPT ![id[h]] = <<lis[h], now>>]
            /\ accepted' = accepted \cup {<<id[h], now>>}
            /\ since' = [since EXCEPT ![h] = now]
            /\ Goes(h, "find")
            /\ UNCHANGED <<log, id, lis, via, kept>>
       ELSE /\ log' = log \cup {<<lis[h], now>>}
            /\ Ends(h) /\ UNCHANGED <<seen, accepted>>
    /\ UNCHANGED <<now, config, sources, payloads, pointed, resolved, refused, budget>>

(* find_source_binding_for_event                                            *)
FindBinding(h) ==
    /\ at[h] = "find"
    /\ LET found == {b \in Bindings : /\ <<b, id[h]>> \in outbox
                                      /\ Home[b] = lis[h] /\ bound[b].sameProducer
                                      /\ bound[b].status = "active"} IN
       IF found = {}
       THEN via' = [via EXCEPT ![h] = None]
       ELSE \E b \in found : via' = [via EXCEPT ![h] = b]
    /\ Goes(h, "store")
    /\ UNCHANGED <<now, config, sources, seen, log, payloads, id, lis, since, kept,
                   history, budget>>

(* resolve_ingress_digest_policy and store_event_payload: a row that exists *)
(* for the event stays as it is.                                            *)
BindingLayer(h) == IF via[h] = None THEN NoLayer ELSE config.binding
Policy(h) == Resolve(config.global, config.listener, BindingLayer(h))
RowsOf(l, i) == {p \in payloads : p.listener = l /\ p.id = i}

StorePayloadMut(h) ==
    /\ at[h] = "store"
    /\ resolved' = (resolved /\ Policy(h) =
                       MostSpecific(config.global, config.listener, BindingLayer(h)))
    /\ LET new == [owner |-> OwnerOf[lis[h]], listener |-> lis[h], id |-> id[h],
                   mode |-> Policy(h).store, expires |-> now + Policy(h).retention] IN
       IF ~Stores(Policy(h))
       THEN UNCHANGED payloads /\ kept' = [kept EXCEPT ![h] = None]
       ELSE /\ payloads' = payloads \cup {new}
            /\ kept' = [kept EXCEPT ![h] = IF RowsOf(lis[h], id[h]) = {} THEN new
                                           ELSE CHOOSE p \in RowsOf(lis[h], id[h]) : TRUE]
    /\ Goes(h, "dispatch")
    /\ UNCHANGED <<now, config, sources, seen, log, id, lis, since, via, accepted,
                   pointed, refused, budget>>
StorePayload(h) ==
    /\ at[h] = "store"
    /\ resolved' = (resolved /\ Policy(h) =
                       MostSpecific(config.global, config.listener, BindingLayer(h)))
    /\ LET new == [owner |-> OwnerOf[lis[h]], listener |-> lis[h], id |-> id[h],
                   mode |-> Policy(h).store, expires |-> now + Policy(h).retention] IN
       IF ~Stores(Policy(h))
       THEN UNCHANGED payloads /\ kept' = [kept EXCEPT ![h] = None]
       ELSE /\ payloads' = IF RowsOf(lis[h], id[h]) = {} THEN payloads \cup {new}
                           ELSE payloads
            /\ kept' = [kept EXCEPT ![h] = IF RowsOf(lis[h], id[h]) = {} THEN new
                                           ELSE CHOOSE p \in RowsOf(lis[h], id[h]) : TRUE]
    /\ Goes(h, "dispatch")
    /\ UNCHANGED <<now, config, sources, seen, log, id, lis, since, via, accepted,
                   pointed, refused, budget>>

(* The event is shown, with a pointer to its payload when there is one.     *)
Show(h) ==
    /\ at[h] = "dispatch"
    /\ pointed' = IF kept[h] = None THEN pointed ELSE pointed \cup {kept[h]}
    /\ log' = log \cup {<<lis[h], now>>}
    /\ Ends(h)
    /\ UNCHANGED <<now, config, sources, seen, payloads, accepted, resolved, refused,
                   budget>>

(* The dispatch failed: the marker goes, the payload stays.                 *)
DispatchFails(h) ==
    /\ at[h] = "dispatch"
    /\ seen' = [seen EXCEPT ![id[h]] = None]
    /\ accepted' = accepted \ {<<id[h], since[h]>>}
    /\ log' = log \cup {<<lis[h], now>>}
    /\ Ends(h)
    /\ UNCHANGED <<now, config, sources, payloads, pointed, resolved, refused, budget>>

(* prune_old_rows of one owner, in one transaction.                         *)
OldMarkers(o) == {i \in Ids : /\ seen[i] # None /\ OwnerOf[seen[i][1]] = o
                              /\ seen[i][2] + SeenDays < now}
OldPayloads(o) == {p \in payloads : p.owner = o /\ p.expires < now}

PruneMut(o) ==
    /\ seen' = [i \in Ids |-> IF i \in OldMarkers(o) THEN None ELSE seen[i]]
    /\ payloads' = payloads \ OldPayloads(o)
    /\ log' = {r \in log : ~ (r[2] + LogDays < now)}
    /\ UNCHANGED <<now, config, sources, handlers, history, budget>>
PruneSwapped(o) ==
    /\ seen' = [i \in Ids |->
                  IF seen[i] # None /\ OwnerOf[seen[i][1]] = o
                     /\ seen[i][2] + LogDays < now
                  THEN None ELSE seen[i]]
    /\ payloads' = payloads \ OldPayloads(o)
    /\ log' = {r \in log : ~ (OwnerOf[r[1]] = o /\ r[2] + SeenDays < now)}
    /\ UNCHANGED <<now, config, sources, handlers, history, budget>>
PruneEarly(o) ==
    /\ seen' = [i \in Ids |-> IF i \in OldMarkers(o) THEN None ELSE seen[i]]
    /\ payloads' = {p \in payloads : p.owner # o \/ p.expires > now}
    /\ log' = {r \in log : ~ (OwnerOf[r[1]] = o /\ r[2] + LogDays < now)}
    /\ UNCHANGED <<now, config, sources, handlers, history, budget>>
Prune(o) ==
    /\ seen' = [i \in Ids |-> IF i \in OldMarkers(o) THEN None ELSE seen[i]]
    /\ payloads' = payloads \ OldPayloads(o)
    /\ log' = {r \in log : ~ (OwnerOf[r[1]] = o /\ r[2] + LogDays < now)}
    /\ UNCHANGED <<now, config, sources, handlers, history, budget>>

Tick ==
    /\ now < MaxTime /\ now' = now + 1
    /\ \A h \in Handlers : at[h] # "idle" => now' <= since[h] + MaxFlight
    /\ UNCHANGED <<config, sources, seen, log, payloads, handlers, history, budget>>

Next ==
    \/ \E b \in Bindings : \/ \E same \in BOOLEAN : CreateBinding(b, same)
                           \/ \E s \in {"active", "paused", "retired"} :
                                 SetBindingStatus(b, s)
    \/ \E l \in Listeners : SetEnabled(l)
    \/ \E h \in Handlers :
          \/ \E b \in Bindings, i \in Ids, k \in MaterialKinds \cup NoisyKinds :
                EmitFromBoard(h, b, i, k)
          \/ \E l \in Listeners, i \in Ids : Post(h, l, i)
          \/ MarkSeen(h) \/ FindBinding(h) \/ StorePayload(h)
          \/ Show(h) \/ DispatchFails(h)
    \/ \E o \in Owners : Prune(o)
    \/ Tick

Spec == Init /\ [][Next]_vars

-----------------------------------------------------------------------------
(* What an owner is told: get_event_payload, by event or by pointer; the    *)
(* same as a command shows it, raw only where it was stored raw; the recent *)
(* events.                                                                  *)
PayloadsFor(o, i) == {p \in payloads : p.owner = o /\ p.id = i}
PayloadShown(o, i, raw) == {p \in PayloadsFor(o, i) : raw => p.mode = "raw_local"}
EventsFor(o) == {r \in log : OwnerOf[r[1]] = o}

(* Properties.                                                              *)

PayloadRow == [owner : Owners, listener : Listeners, id : Ids,
               mode : {"redacted", "raw_local"}, expires : Nat]

(* Types, and one payload row for an event of a listener.                   *)
TypeOK ==
    /\ now \in 0..MaxTime /\ enabled \subseteq Listeners
    /\ outbox \subseteq Bindings \X Ids
    /\ seen \in [Ids -> (Listeners \X (0..MaxTime)) \cup {None}]
    /\ log \subseteq Listeners \X (0..MaxTime)
    /\ payloads \subseteq PayloadRow
    /\ \A p, q \in payloads : p.listener = q.listener /\ p.id = q.id => p = q
    /\ \A h \in Handlers : at[h] # "idle" =>
          id[h] \in Ids /\ lis[h] \in Listeners /\ since[h] \in 0..now

(* An event is not accepted again within the retention of its marker,       *)
(* whoever prunes and whatever request is still at work on it, unless its   *)
(* dispatch failed.                                                         *)
AcceptedOnceInWindow ==
    \A a, b \in accepted : a # b /\ a[1] = b[1] /\ a[2] <= b[2] => a[2] + SeenDays < b[2]

(* A pointer the agent was shown leads to the payload it was shown with as  *)
(* long as that payload's own retention lasts.                              *)
PointerResolves ==
    \A p \in pointed : now <= p.expires =>
        p \in PayloadShown(p.owner, p.id, p.mode = "raw_local")

(* The merged policy is the most specific layer's: what an owner stored for *)
(* a binding or a listener is never mixed with what others left.            *)
MostSpecificWins == resolved

(* A binding whose filter names any event type at all, and which the check  *)
(* calls ready, never sends its listener an event of a type it refuses.     *)
ReadyIsAccepted == \A b \in refused : BindingTypes(bound[b].filter) = {}

(* Pruning one owner's rows takes nothing of another's away: neither        *)
(* protection against replays nor events nor payloads.                      *)
OthersKeep ==
    [][\A o \in Owners : Prune(o) =>
          \A other \in Owners \ {o} :
             /\ EventsFor(other) \subseteq EventsFor(other)'
             /\ \A i \in Ids : /\ PayloadsFor(other, i) \subseteq PayloadsFor(other, i)'
                               /\ (seen[i] # None /\ OwnerOf[seen[i][1]] = other)
                                    => seen'[i] = seen[i]]_vars

=============================================================================
