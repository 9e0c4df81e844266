---------------------------- MODULE SourceRunner -----------------------------
(***************************************************************************)
(* The source-binding runner of src/async_threads/source_runner.py and the  *)
(* outbox and cursor it keeps in the registry, for one kanban binding.      *)
(*                                                                          *)
(* A pass walks the upstream rows after the cursor; each of its registry    *)
(* calls is a step of its own, and so is its HTTP call to the receiver,     *)
(* which runs in the same process.  The receiver is the one of              *)
(* DeliveryContract: it takes a row's event on, and shows it or gives it    *)
(* back.  Passes never overlap while one adapter lives; disconnecting the   *)
(* adapter cancels the task that waits for a pass but not the thread the    *)
(* pass runs in.                                                            *)
(***************************************************************************)
EXTENDS Naturals, FiniteSets

CONSTANTS
    MaxRow,         \* bound: upstream rows in a behaviour
    Verdict,        \* what transform_kanban_task_event makes of each row
    Limit,          \* rows read by one pass
    Passes,         \* threads that may be running a pass
    MaxFaults,      \* bound: transient failures
    MaxCrashes,     \* bound: process crashes
    MaxReconnects,  \* bound: the adapter is disconnected and connected again
    MaxAdmin,       \* bound: pauses, resumes and rotations by the owner
    SlowReplies     \* may the receiver take longer than the emit timeout?

Row == 1..MaxRow

ASSUME RunnerAssumption ==
    /\ MaxRow \in Nat /\ Limit \in Nat \ {0}
    /\ Verdict \in [Row -> {"would_emit", "suppressed", "would_coalesce"}]
    /\ MaxFaults \in Nat /\ MaxCrashes \in Nat /\ MaxReconnects \in Nat
    /\ MaxAdmin \in Nat /\ SlowReplies \in BOOLEAN

VARIABLES
    upstream,  \* rows 1..upstream are in task_events
    cursor,    \* the binding's last_event_id
    outbox,    \* status of each row in source_binding_outbox
    active,    \* the binding's status is "active"
    usable,    \* the listener is enabled
    key,       \* the listener's secret, by its version
    status,    \* what the receiver has done with each row's event
    handling,  \* rows whose request a receiver handler is working on
    at,        \* each pass: its next step
    row,       \* each pass: the row it is at
    last,      \* each pass: the last row it has read
    held,      \* each pass: the secret it signs with
    outcome,   \* each pass: what it has found out about its row
    orphans,   \* passes whose adapter was disconnected
    looping,   \* the adapter's runner task lives
    faults, crashes, reconnects, admin

registry == <<cursor, outbox>>
owner    == <<active, usable, key>>
receiver == <<status, handling>>
passes   == <<at, row, last, held, outcome>>
loop     == <<orphans, looping>>
budget   == <<faults, crashes, reconnects, admin>>
vars == <<upstream, registry, owner, receiver, passes, loop, budget>>

R == INSTANCE DeliveryContract WITH Events <- Row

-----------------------------------------------------------------------------
(* An outbox row in one of these is never sent again.                       *)
TerminalSafeMut ==
    {"succeeded", "duplicate", "suppressed", "coalesced", "error", "pending"}
TerminalSafe == {"succeeded", "duplicate", "suppressed", "coalesced", "error"}

(* "rejected" is an answer that is no use retrying, "unavailable" a         *)
(* listener found missing, disabled or another producer's before the call.  *)
Outcome == {"none", "prior", "suppressed", "coalesced", "succeeded", "duplicate",
            "retryable", "rejected", "unavailable"}

MarkedMut(o) == IF o = "retryable" THEN "pending" ELSE o
Marked(o) ==
    CASE o = "retryable"                    -> "pending"
      [] o \in {"rejected", "unavailable"} -> "error"
      [] OTHER                              -> o

AdvancesMut(o) == o # "unavailable"
Advances(o) == o \notin {"retryable", "unavailable"}

Stops(o) == o \in {"retryable", "rejected", "unavailable"}

Fault == faults < MaxFaults /\ faults' = faults + 1

-----------------------------------------------------------------------------
Init ==
    /\ upstream = 0 /\ cursor = 0 /\ outbox = [r \in Row |-> "none"]
    /\ active = TRUE /\ usable = TRUE /\ key = 0
    /\ R!Init /\ handling = {}
    /\ at = [p \in Passes |-> "idle"]
    /\ row = [p \in Passes |-> 0] /\ last = [p \in Passes |-> 0]
    /\ held = [p \in Passes |-> 0] /\ outcome = [p \in Passes |-> "none"]
    /\ orphans = {} /\ looping = TRUE
    /\ faults = 0 /\ crashes = 0 /\ reconnects = 0 /\ admin = 0

-----------------------------------------------------------------------------
(* Around the runner: the board, the owner, the receiver's handlers.        *)

UpstreamAppends ==
    /\ upstream < MaxRow
    /\ upstream' = upstream + 1
    /\ UNCHANGED <<registry, owner, receiver, passes, loop, budget>>

(* set_source_binding_status, set_enabled, rotate_secret.                   *)
OwnerActs ==
    /\ admin < MaxAdmin /\ admin' = admin + 1
    /\ \/ active' = ~active /\ UNCHANGED <<usable, key>>
       \/ usable' = ~usable /\ UNCHANGED <<active, key>>
       \/ key' = key + 1 /\ UNCHANGED <<active, usable>>
    /\ UNCHANGED <<upstream, registry, receiver, passes, loop, faults,
                   crashes, reconnects>>

(* The handler at work on r answers the pass that waits for it, if any.     *)
Answers(r, o) ==
    /\ outcome' = [p \in Passes |->
          IF at[p] = "waiting" /\ row[p] = r THEN o ELSE outcome[p]]
    /\ at' = [p \in Passes |->
          IF at[p] = "waiting" /\ row[p] = r THEN "mark" ELSE at[p]]
    /\ UNCHANGED <<row, last, held>>

ReceiverShows(r) ==
    /\ r \in handling
    /\ R!Deliver({r}) /\ handling' = handling \ {r}
    /\ \/ Answers(r, "succeeded") /\ UNCHANGED faults
       \/ Answers(r, "retryable") /\ Fault  \* the reply is lost
    /\ UNCHANGED <<upstream, registry, owner, loop, crashes, reconnects, admin>>

(* The marker is taken back, or kept: when the failure comes between the    *)
(* marker and the dispatch, or when taking it back fails too.               *)
ReceiverFails(r) ==
    /\ r \in handling /\ handling' = handling \ {r}
    /\ R!Release(r) \/ UNCHANGED status
    /\ Answers(r, "retryable") /\ Fault
    /\ UNCHANGED <<upstream, registry, owner, loop, crashes, reconnects, admin>>

-----------------------------------------------------------------------------
(* A pass of run_source_binding_once.                                       *)

Goes(p, label) == at' = [at EXCEPT ![p] = label]

Ends(p) ==
    /\ at' = [at EXCEPT ![p] = "idle"]
    /\ outcome' = [outcome EXCEPT ![p] = "none"]
    /\ row' = [row EXCEPT ![p] = 0] /\ last' = [last EXCEPT ![p] = 0]
    /\ held' = [held EXCEPT ![p] = 0]

Finds(p, o, label) ==
    /\ outcome' = [outcome EXCEPT ![p] = o]
    /\ Goes(p, label)
    /\ UNCHANGED <<row, last, held>>

(* The loop is between two passes; those of an earlier adapter may go on.   *)
Between == looping /\ \A q \in Passes : at[q] # "idle" => q \in orphans

(* The loop lists active bindings, each with its cursor, and waits for the  *)
(* pass it starts before it starts another.                                 *)
BeginPass(p) ==
    /\ at[p] = "idle" /\ active /\ Between
    /\ Goes(p, "compat")
    /\ row' = [row EXCEPT ![p] = cursor + 1]
    /\ orphans' = orphans \ {p}
    /\ UNCHANGED <<upstream, registry, owner, receiver, last, held, outcome,
                   looping, budget>>

(* The list is read outside of what the loop catches: when it raises, the   *)
(* runner's task ends, and only the next connect starts another.            *)
ListRaises ==
    /\ Between /\ Fault
    /\ looping' = FALSE
    /\ UNCHANGED <<upstream, registry, owner, receiver, passes, orphans, crashes,
                   reconnects, admin>>

CheckCompatibility(p) ==
    /\ at[p] = "compat"
    /\ IF usable
       THEN Goes(p, "read") /\ UNCHANGED <<row, last, held, outcome>>
       ELSE Ends(p)
    /\ UNCHANGED <<upstream, registry, owner, receiver, loop, budget>>

Batch(p) == {r \in Row : row[p] <= r /\ r <= upstream /\ r < row[p] + Limit}

ReadEvents(p) ==
    /\ at[p] = "read"
    /\ \/ /\ Batch(p) = {}
          /\ Ends(p)
       \/ \E r \in Batch(p) :
             /\ \A q \in Batch(p) : q <= r
             /\ last' = [last EXCEPT ![p] = r]
             /\ Goes(p, "row") /\ UNCHANGED <<row, held, outcome>>
    /\ UNCHANGED <<upstream, registry, owner, receiver, loop, budget>>

(* transform, then upsert_source_binding_outbox: the row is there before    *)
(* anything is sent, and what an earlier pass has settled stays settled.    *)
UpsertOutboxReopens(p) ==
    /\ at[p] = "row"
    /\ outbox' = [outbox EXCEPT ![row[p]] = "pending"]
    /\ CASE Verdict[row[p]] = "suppressed"     -> Finds(p, "suppressed", "mark")
         [] Verdict[row[p]] = "would_coalesce" -> Finds(p, "coalesced", "mark")
         [] Verdict[row[p]] = "would_emit"     -> Finds(p, "none", "handle")
    /\ UNCHANGED <<upstream, cursor, owner, receiver, loop, budget>>
UpsertOutboxSkips(p) ==
    /\ at[p] = "row"
    /\ IF outbox[row[p]] \in TerminalSafe
       THEN /\ IF row[p] = last[p] THEN Ends(p)
               ELSE /\ row' = [row EXCEPT ![p] = row[p] + 1]
                    /\ UNCHANGED <<at, last, held, outcome>>
            /\ UNCHANGED outbox
       ELSE /\ outbox' = [outbox EXCEPT ![row[p]] = "pending"]
            /\ CASE Verdict[row[p]] = "suppressed"     -> Finds(p, "suppressed", "mark")
                 [] Verdict[row[p]] = "would_coalesce" -> Finds(p, "coalesced", "mark")
                 [] Verdict[row[p]] = "would_emit"     -> Finds(p, "none", "handle")
    /\ UNCHANGED <<upstream, cursor, owner, receiver, loop, budget>>
UpsertOutbox(p) ==
    /\ at[p] = "row"
    /\ IF outbox[row[p]] \in TerminalSafe
       THEN Finds(p, "prior", "advance") /\ UNCHANGED outbox
       ELSE /\ outbox' = [outbox EXCEPT ![row[p]] = "pending"]
            /\ CASE Verdict[row[p]] = "suppressed"     -> Finds(p, "suppressed", "mark")
                 [] Verdict[row[p]] = "would_coalesce" -> Finds(p, "coalesced", "mark")
                 [] Verdict[row[p]] = "would_emit"     -> Finds(p, "none", "handle")
    /\ UNCHANGED <<upstream, cursor, owner, receiver, loop, budget>>

GetHandle(p) ==
    /\ at[p] = "handle"
    /\ IF usable
       THEN /\ held' = [held EXCEPT ![p] = key]
            /\ Goes(p, "emit") /\ UNCHANGED <<row, last, outcome>>
       ELSE Finds(p, "unavailable", "mark")
    /\ UNCHANGED <<upstream, registry, owner, receiver, loop, budget>>

(* The receiver checks the signature, then whether the listener is enabled, *)
(* then its marker for the event.                                           *)
EmitEvent(p) ==
    /\ at[p] = "emit"
    /\ \/ /\ held[p] # key \/ (~usable /\ status[row[p]] = "new")
          /\ Finds(p, "rejected", "mark")
          /\ UNCHANGED <<receiver, faults>>
       \/ /\ held[p] = key /\ status[row[p]] # "new"
          /\ Finds(p, "duplicate", "mark")
          /\ UNCHANGED <<receiver, faults>>
       \/ /\ held[p] = key /\ usable
          /\ R!Accept(row[p]) /\ handling' = handling \cup {row[p]}
          /\ Finds(p, "none", "waiting")
          /\ UNCHANGED faults
       \/ Fault /\ Finds(p, "retryable", "mark") /\ UNCHANGED receiver
    /\ UNCHANGED <<upstream, registry, owner, loop, crashes, reconnects, admin>>

(* The emit's timeout is over while the handler is still at work.           *)
TimesOut(p) ==
    /\ at[p] = "waiting" /\ SlowReplies
    /\ Fault /\ Finds(p, "retryable", "mark")
    /\ UNCHANGED <<upstream, registry, owner, receiver, loop, crashes,
                   reconnects, admin>>

MarkOutbox(p) ==
    /\ at[p] = "mark"
    /\ outbox' = [outbox EXCEPT ![row[p]] = Marked(outcome[p])]
    /\ IF Advances(outcome[p])
       THEN Goes(p, "advance") /\ UNCHANGED <<row, last, held, outcome>>
       ELSE Ends(p)
    /\ UNCHANGED <<upstream, cursor, owner, receiver, loop, budget>>

(* On to the next row, unless the pass has to stop or has no more.          *)
NextRow(p) ==
    IF Stops(outcome[p]) \/ row[p] = last[p]
    THEN Ends(p)
    ELSE /\ row' = [row EXCEPT ![p] = row[p] + 1]
         /\ outcome' = [outcome EXCEPT ![p] = "none"]
         /\ Goes(p, "row") /\ UNCHANGED <<last, held>>

(* advance_source_binding_cursor: the cursor is compared outside of the     *)
(* transaction that writes it.                                              *)
CompareCursor(p) ==
    /\ at[p] = "advance"
    /\ IF row[p] <= cursor
       THEN NextRow(p)
       ELSE Goes(p, "write") /\ UNCHANGED <<row, last, held, outcome>>
    /\ UNCHANGED <<upstream, registry, owner, receiver, loop, budget>>

WriteCursor(p) ==
    /\ at[p] = "write"
    /\ cursor' = row[p]
    /\ NextRow(p)
    /\ UNCHANGED <<upstream, outbox, owner, receiver, loop, budget>>

(* A registry call or the read of the board raises inside of a pass: the    *)
(* loop catches it and goes on without this pass.                           *)
PassRaises(p) ==
    /\ at[p] \notin {"idle", "waiting", "emit"}
    /\ Fault /\ Ends(p)
    /\ UNCHANGED <<upstream, registry, owner, receiver, loop, crashes,
                   reconnects, admin>>

PassStep(p) ==
    \/ BeginPass(p) \/ CheckCompatibility(p) \/ ReadEvents(p) \/ UpsertOutbox(p)
    \/ GetHandle(p) \/ EmitEvent(p) \/ MarkOutbox(p)
    \/ CompareCursor(p) \/ WriteCursor(p)

-----------------------------------------------------------------------------
(* The adapter is disconnected, and connected again: a pass at work goes on *)
(* in its thread, unknown to the new loop.                                  *)
Reconnect ==
    /\ reconnects < MaxReconnects /\ reconnects' = reconnects + 1
    /\ orphans' = {p \in Passes : at[p] # "idle"} /\ looping' = TRUE
    /\ UNCHANGED <<upstream, registry, owner, receiver, passes, faults, crashes, admin>>

(* The process dies, the receiver's handlers with it: what the receiver has *)
(* marked and not shown stays marked.                                       *)
Crash ==
    /\ crashes < MaxCrashes /\ crashes' = crashes + 1
    /\ handling' = {} /\ orphans' = {} /\ looping' = TRUE
    /\ at' = [p \in Passes |-> "idle"]
    /\ row' = [p \in Passes |-> 0] /\ last' = [p \in Passes |-> 0]
    /\ held' = [p \in Passes |-> 0] /\ outcome' = [p \in Passes |-> "none"]
    /\ UNCHANGED <<upstream, registry, owner, status, faults, reconnects, admin>>

Next ==
    \/ UpstreamAppends \/ OwnerActs
    \/ \E r \in Row : ReceiverShows(r) \/ ReceiverFails(r)
    \/ \E p \in Passes : PassStep(p) \/ TimesOut(p) \/ PassRaises(p)
    \/ ListRaises \/ Reconnect \/ Crash

Spec == Init /\ [][Next]_vars

(* The loop, while it lives, wakes up every interval, a thread that may run *)
(* runs, and the receiver finishes what it works on.                        *)
Fairness ==
    /\ \A p \in Passes : WF_vars(PassStep(p))
    /\ \A r \in Row : WF_vars(ReceiverShows(r) \/ ReceiverFails(r))

FairSpec == Spec /\ Fairness

-----------------------------------------------------------------------------
(* Properties.                                                              *)

PassTypes ==
    /\ at \in [Passes -> {"idle", "compat", "read", "row", "handle", "emit",
                          "waiting", "mark", "advance", "write"}]
    /\ row \in [Passes -> 0..MaxRow + 1] /\ last \in [Passes -> 0..MaxRow]
    /\ held \in [Passes -> Nat] /\ outcome \in [Passes -> Outcome]

(* Types, and passes inside what they have read.                            *)
TypeOK ==
    /\ upstream \in 0..MaxRow /\ cursor \in 0..MaxRow
    /\ outbox \in [Row -> TerminalSafe \cup {"none", "pending"}]
    /\ active \in BOOLEAN /\ usable \in BOOLEAN /\ key \in Nat
    /\ status \in [Row -> {"new", "held", "done"}]
    /\ handling \subseteq Row
    /\ PassTypes
    /\ orphans \subseteq Passes /\ looping \in BOOLEAN
    /\ faults \in Nat /\ crashes \in Nat /\ reconnects \in Nat /\ admin \in Nat

(* The cursor leaves no row behind that is not settled in the outbox,       *)
(* wherever passes stop, raise or die.                                      *)
CursorCovered == \A r \in Row : r <= cursor => outbox[r] \in TerminalSafe

(* What the cursor has passed is never moved back and never reopened.       *)
SettledForGood ==
    [][/\ cursor' >= cursor
       /\ \A r \in Row : outbox[r] \in TerminalSafe => outbox'[r] = outbox[r]]_vars

(* A row behind the cursor was suppressed, coalesced, taken on by the       *)
(* receiver, or given up as an error: none is dropped between the read and  *)
(* the emit.                                                                *)
TakenOrGivenUp ==
    \A r \in Row : r <= cursor /\ Verdict[r] = "would_emit"
        => status[r] # "new" \/ outbox[r] = "error"

(* The receiver died, or failed, between its marker and its dispatch of the *)
(* row, and kept the marker.                                                *)
LostInReceiver(r) == status[r] = "held" /\ r \notin handling

(* While no reply is late, the conversation sees upstream rows in their     *)
(* order, however often they are retried: a row is shown only after every   *)
(* material row before it was shown, was given up, or was lost in the       *)
(* receiver.                                                                *)
ShownInOrder ==
    \A q, r \in Row :
        q < r /\ Verdict[q] = "would_emit" /\ status[r] = "done"
            => status[q] = "done" \/ outbox[q] = "error" \/ LostInReceiver(q)

(* Every upstream row of a binding its owner leaves alone is worked off in  *)
(* the end, whatever raises inside of passes, times out, dies or is         *)
(* disconnected, unless the list of bindings raised: then the loop is dead. *)
CatchesUp == \A r \in Row : upstream >= r ~> cursor >= r \/ ~looping

(* The cursor only moves forward.                                           *)
CursorMonotone == [][cursor' >= cursor]_vars

=============================================================================
