------------------------- MODULE SourceRunner_proofs -------------------------
(***************************************************************************)
(* Theorems about SourceRunner for every number of rows, every verdict on   *)
(* them and every batch limit, with faults, crashes and an owner who may    *)
(* do anything at any time.  As long as passes do not overlap, the cursor   *)
(* leaves no unsettled row behind and what is settled stays settled; if     *)
(* replies are in time too, no row is dropped and rows are shown in order.  *)
(***************************************************************************)
EXTENDS SourceRunner, TLAPS

USE DEF loop

(* Passes do not overlap: the adapter is not disconnected, or each pass     *)
(* ends before the next one begins.                                         *)
NoOverlap == MaxReconnects = 0 \/ \A p, q \in Passes : p = q

Looping == {"row", "handle", "emit", "waiting", "mark", "advance", "write"}

Open == {"handle", "emit", "waiting", "mark"}

Labels == Looping \cup {"idle", "compat", "read"}

(* A pass is at the row after the cursor; while it works on that row the    *)
(* outbox holds it as pending, and once it moves the cursor there the row   *)
(* is settled.                                                              *)
Fits(p) ==
    /\ at[p] # "idle" => row[p] = cursor + 1
    /\ at[p] \in Looping => row[p] \in Row /\ row[p] <= last[p]
    /\ at[p] \in Open => outbox[row[p]] = "pending"
    /\ at[p] \in {"advance", "write"} => outbox[row[p]] \in TerminalSafe
    /\ at[p] = "mark" => outcome[p] \notin {"none", "prior"}

Walk ==
    /\ MaxReconnects = 0 => orphans = {}
    /\ \A p, q \in Passes : at[p] # "idle" /\ at[q] # "idle" => p = q
    /\ \A p \in Passes : Fits(p)

RInv == TypeOK /\ CursorCovered /\ Walk

-----------------------------------------------------------------------------
LEMMA InitRInv == Init => RInv
BY RunnerAssumption
   DEF Init, RInv, TypeOK, PassTypes, CursorCovered, Walk, Fits, Row, Looping, Open, Outcome,
       R!Init

(* What a pass marks its row with.                                          *)
LEMMA MarkedStatus ==
    ASSUME NEW o \in Outcome, o \notin {"none", "prior"}
    PROVE  /\ Marked(o) \in TerminalSafe \cup {"none", "pending"}
           /\ Advances(o) => Marked(o) \in TerminalSafe
<1>1. CASE o = "retryable"
  BY <1>1 DEF Marked, Advances
<1>2. CASE o \in {"rejected", "unavailable"}
  <2>1. Marked(o) = "error"
    BY <1>2 DEF Marked
  <2>2. QED
    BY <2>1 DEF TerminalSafe
<1>3. CASE o \in {"suppressed", "coalesced", "succeeded", "duplicate"}
  <2>1. Marked(o) = o
    BY <1>3 DEF Marked
  <2>2. QED
    BY <1>3, <2>1 DEF TerminalSafe
<1>4. QED
  BY <1>1, <1>2, <1>3 DEF Outcome

(* How a pass moves keeps its variables in their types.                     *)
LEMMA GoesTypes ==
    ASSUME PassTypes, NEW p \in Passes, NEW l \in Labels, Goes(p, l),
           UNCHANGED <<last, held, outcome>>,
           row' = row \/ \E r \in 0..MaxRow + 1 : row' = [row EXCEPT ![p] = r]
    PROVE  PassTypes'
BY DEF PassTypes, Goes, Labels, Looping

LEMMA FindsTypes ==
    ASSUME PassTypes, NEW p \in Passes, NEW l \in Labels, NEW o \in Outcome,
           Finds(p, o, l)
    PROVE  PassTypes'
BY DEF PassTypes, Goes, Finds, Labels, Looping

LEMMA EndsTypes ==
    ASSUME PassTypes, NEW p \in Passes, Ends(p)
    PROVE  PassTypes'
<1>1. /\ at' \in [Passes -> Labels] /\ outcome' \in [Passes -> Outcome]
  BY DEF PassTypes, Ends, Labels, Looping, Outcome
<1>2. 0 \in 0..MaxRow /\ 0 \in 0..MaxRow + 1 /\ 0 \in Nat
  BY RunnerAssumption
<1>3. /\ row' \in [Passes -> 0..MaxRow + 1] /\ last' \in [Passes -> 0..MaxRow]
      /\ held' \in [Passes -> Nat]
  BY <1>2 DEF PassTypes, Ends
<1>4. QED
  BY <1>1, <1>3 DEF PassTypes, Labels, Looping

(* When only one pass moves, the others are idle and stay so.               *)
LEMMA OnlyOneMoves ==
    ASSUME RInv, NEW p \in Passes, TypeOK', CursorCovered', Fits(p)',
           at[p] # "idle" \/ \A q \in Passes : at[q] = "idle",
           \A q \in Passes : q # p => at'[q] = at[q],
           orphans' \subseteq orphans
    PROVE  RInv'
<1>1. \A q \in Passes : q # p => at'[q] = "idle"
  BY DEF RInv, Walk
<1>2. \A q \in Passes : q # p => Fits(q)'
  BY <1>1 DEF Fits, Looping, Open
<1>3. QED
  BY <1>1, <1>2 DEF RInv, Walk

-----------------------------------------------------------------------------
(* The board, the owner and the receiver's handlers.                        *)
LEMMA OwnerRInv ==
    ASSUME RInv, UpstreamAppends \/ OwnerActs
    PROVE  RInv'
<1>1. /\ upstream' \in 0..MaxRow /\ admin' \in Nat /\ key' \in Nat
  BY RunnerAssumption DEF UpstreamAppends, OwnerActs, RInv, TypeOK, owner, budget
<1>2. active' \in BOOLEAN /\ usable' \in BOOLEAN
  BY Zenon DEF UpstreamAppends, OwnerActs, RInv, TypeOK, owner
<1>3. UNCHANGED <<registry, receiver, passes, loop, faults, crashes, reconnects>>
  BY DEF UpstreamAppends, OwnerActs, budget
<1>4. TypeOK'
  BY <1>1, <1>2, <1>3
     DEF RInv, TypeOK, PassTypes, registry, receiver, passes
<1>5. CursorCovered' /\ Walk'
  BY <1>3 DEF RInv, CursorCovered, Walk, Fits, registry, passes
<1>6. QED
  BY <1>4, <1>5 DEF RInv

LEMMA ReceiverRInv ==
    ASSUME RInv, NEW r \in Row, ReceiverShows(r) \/ ReceiverFails(r)
    PROVE  RInv'
<1>1. /\ \E o \in {"succeeded", "retryable"} : Answers(r, o)
      /\ UNCHANGED <<upstream, registry, owner, loop, crashes, reconnects, admin>>
  BY DEF ReceiverShows, ReceiverFails
<1>2. status' \in [Row -> {"new", "held", "done"}] /\ handling' \subseteq Row
      /\ faults' \in Nat
  BY DEF ReceiverShows, ReceiverFails, R!Deliver, R!Release, R!HandBack, Fault, RInv, TypeOK
<1>3. /\ at' \in [Passes -> Labels] /\ outcome' \in [Passes -> Outcome]
      /\ UNCHANGED <<row, last, held>>
      /\ \A p \in Passes : \/ at'[p] = at[p] /\ outcome'[p] = outcome[p]
                           \/ /\ at[p] = "waiting" /\ at'[p] = "mark"
                              /\ outcome'[p] \in {"succeeded", "retryable"}
  BY <1>1 DEF Answers, RInv, TypeOK, PassTypes, Labels, Looping, Outcome
<1>4. PassTypes'
  BY <1>3 DEF RInv, TypeOK, PassTypes, Labels, Looping
<1>5. TypeOK'
  BY <1>1, <1>2, <1>4 DEF RInv, TypeOK, registry, owner
<1>6. CursorCovered'
  BY <1>1 DEF RInv, CursorCovered, registry
<1>7. \A p \in Passes : Fits(p)'
  BY <1>1, <1>3 DEF RInv, Walk, Fits, Looping, Open, registry
<1>8. QED
  BY <1>1, <1>3, <1>5, <1>6, <1>7 DEF RInv, Walk

(* A pass that finds its way or its answer, and leaves the registry alone.  *)
LEMMA FindingRInv ==
    ASSUME RInv, NEW p \in Passes, PassTypes',
           UNCHANGED <<upstream, registry, owner, looping, crashes, reconnects, admin>>,
           orphans' \subseteq orphans, faults' \in Nat,
           status' \in [Row -> {"new", "held", "done"}], handling' \subseteq Row,
           at[p] # "idle" \/ \A q \in Passes : at[q] = "idle",
           \A q \in Passes : q # p => at'[q] = at[q],
           Fits(p)'
    PROVE  RInv'
<1>1. TypeOK'
  BY DEF RInv, TypeOK, registry, owner
<1>2. CursorCovered'
  BY DEF RInv, CursorCovered, registry
<1>3. QED
  BY <1>1, <1>2, OnlyOneMoves

LEMMA PassRInv ==
    ASSUME NoOverlap, RInv, NEW p \in Passes, PassStep(p) \/ TimesOut(p) \/ PassRaises(p)
    PROVE  RInv'
<1>0. /\ Fits(p) /\ PassTypes /\ orphans \subseteq Passes
      /\ cursor \in 0..MaxRow /\ upstream \in 0..MaxRow /\ MaxRow \in Nat
      /\ outbox \in [Row -> TerminalSafe \cup {"none", "pending"}]
      /\ status \in [Row -> {"new", "held", "done"}] /\ handling \subseteq Row
      /\ key \in Nat /\ faults \in Nat
      /\ at[p] \in Labels
      /\ at[p] # "idle" => \A q \in Passes : q # p => at[q] = "idle"
  BY RunnerAssumption DEF RInv, Walk, TypeOK, PassTypes, Labels, Looping
<1>1. CASE BeginPass(p)
  <2>1. /\ Goes(p, "compat") /\ row' = [row EXCEPT ![p] = cursor + 1]
        /\ UNCHANGED <<upstream, registry, owner, receiver, last, held, outcome,
                       looping, budget>>
        /\ orphans' \subseteq orphans /\ \A q \in Passes : at[q] = "idle"
    BY <1>0, <1>1, NoOverlap DEF BeginPass, Between, NoOverlap, RInv, Walk
  <2>2. PassTypes'
    <3>1. cursor + 1 \in 0..MaxRow + 1 /\ "compat" \in Labels
      BY <1>0 DEF Labels
    <3>2. QED
      BY <1>0, <2>1, <3>1, GoesTypes
  <2>3. Fits(p)'
    BY <1>0, <2>1 DEF Fits, Goes, PassTypes, registry, Looping, Open
  <2>4. QED
    BY <1>0, <2>1, <2>2, <2>3, FindingRInv DEF Goes, receiver, budget, PassTypes
<1>2. CASE Ends(p) /\ at[p] # "idle"
           /\ UNCHANGED <<upstream, registry, owner, receiver, loop, crashes,
                          reconnects, admin>>
           /\ faults' \in Nat
  <2>1. PassTypes'
    BY <1>0, <1>2, EndsTypes
  <2>2. Fits(p)' /\ \A q \in Passes : q # p => at'[q] = at[q]
    BY <1>0, <1>2 DEF Fits, Ends, PassTypes, Looping, Open
  <2>3. QED
    BY <1>0, <1>2, <2>1, <2>2, FindingRInv DEF receiver
<1>3. ASSUME NEW l \in Labels \ {"idle", "advance", "write", "mark"}, Goes(p, l),
             at[p] # "idle",
             l \in Looping => row[p] \in Row /\ row[p] <= last'[p],
             l \in Open => at[p] \in Open \/ outbox[row[p]] = "pending",
             PassTypes',
             UNCHANGED <<upstream, registry, owner, loop, crashes, reconnects, admin, row>>,
             faults' \in Nat, status' \in [Row -> {"new", "held", "done"}],
             handling' \subseteq Row
      PROVE  RInv'
  <2>1. at'[p] = l /\ \A q \in Passes : q # p => at'[q] = at[q]
    BY <1>0, <1>3 DEF Goes, PassTypes
  <2>2. Fits(p)'
    BY <1>0, <1>3, <2>1 DEF Fits, registry
  <2>3. QED
    BY <1>0, <1>3, <2>1, <2>2, FindingRInv
<1>4. ASSUME NEW o \in Outcome \ {"none", "prior"}, Finds(p, o, "mark"), at[p] \in Open,
             UNCHANGED <<upstream, registry, owner, loop, crashes, reconnects, admin>>,
             faults' \in Nat, status' \in [Row -> {"new", "held", "done"}],
             handling' \subseteq Row
      PROVE  RInv'
  <2>1. PassTypes'
    <3>1. "mark" \in Labels
      BY DEF Labels, Looping
    <3>2. QED
      BY <1>0, <1>4, <3>1, FindsTypes
  <2>2. /\ at'[p] = "mark" /\ outcome'[p] = o /\ row' = row /\ last' = last
        /\ \A q \in Passes : q # p => at'[q] = at[q]
    BY <1>0, <1>4 DEF Finds, Goes, PassTypes
  <2>3. Fits(p)'
    BY <1>0, <1>4, <2>2 DEF Fits, registry, Looping, Open
  <2>4. at[p] # "idle"
    BY <1>4 DEF Open
  <2>5. QED
    BY <1>0, <1>4, <2>1, <2>2, <2>3, <2>4, FindingRInv
<1>5. CASE CheckCompatibility(p)
  <2>1. CASE Goes(p, "read") /\ UNCHANGED <<row, last, held, outcome>>
    <3>1. "read" \in Labels \ {"idle", "advance", "write", "mark"}
          /\ "read" \notin Looping /\ "read" \notin Open
      BY DEF Labels, Looping, Open
    <3>2. PassTypes'
      BY <1>0, <2>1, <3>1, GoesTypes
    <3>3. QED
      BY <1>0, <1>3, <1>5, <2>1, <3>1, <3>2 DEF CheckCompatibility, receiver, budget
  <2>2. CASE Ends(p)
    BY <1>0, <1>2, <1>5, <2>2 DEF CheckCompatibility, budget
  <2>3. QED
    BY <1>5, <2>1, <2>2 DEF CheckCompatibility
<1>6. CASE ReadEvents(p)
  <2>1. CASE Ends(p)
    BY <1>0, <1>2, <1>6, <2>1 DEF ReadEvents, budget
  <2>2. ASSUME NEW r \in Batch(p), last' = [last EXCEPT ![p] = r], Goes(p, "row"),
               UNCHANGED <<row, held, outcome>>
        PROVE  RInv'
    <3>1. "row" \in Labels \ {"idle", "advance", "write", "mark"} /\ "row" \notin Open
          /\ at[p] = "read"
      BY <1>6 DEF Labels, Looping, Open, ReadEvents
    <3>2. r \in Row /\ row[p] <= r /\ last'[p] = r
      BY <1>0, <2>2 DEF Batch, PassTypes
    <3>3. row[p] \in Row
      BY <1>0, <3>1, <3>2 DEF Fits, Row
    <3>4. PassTypes'
      BY <1>0, <2>2, <3>1, <3>2 DEF PassTypes, Goes, Labels, Looping, Row
    <3>5. QED
      BY <1>0, <1>3, <1>6, <2>2, <3>1, <3>2, <3>3, <3>4 DEF ReadEvents, receiver, budget
  <2>3. QED
    BY <1>6, <2>1, <2>2 DEF ReadEvents
<1>7. CASE GetHandle(p)
  <2>1. at[p] = "handle" /\ row[p] \in Row /\ row[p] <= last[p]
        /\ outbox[row[p]] = "pending"
    BY <1>0, <1>7 DEF GetHandle, Fits, Looping, Open
  <2>2. CASE held' = [held EXCEPT ![p] = key] /\ Goes(p, "emit")
             /\ UNCHANGED <<row, last, outcome>>
    <3>1. "emit" \in Labels \ {"idle", "advance", "write", "mark"}
      BY DEF Labels, Looping
    <3>2. PassTypes'
      BY <1>0, <2>2 DEF PassTypes, Goes
    <3>3. QED
      BY <1>0, <1>3, <1>7, <2>1, <2>2, <3>1, <3>2 DEF GetHandle, receiver, budget
  <2>3. CASE Finds(p, "unavailable", "mark")
    <3>1. "unavailable" \in Outcome \ {"none", "prior"} /\ at[p] \in Open
      BY <2>1 DEF Outcome, Open
    <3>2. QED
      BY <1>0, <1>4, <1>7, <2>3, <3>1 DEF GetHandle, receiver, budget
  <2>4. QED
    BY <1>7, <2>2, <2>3 DEF GetHandle
<1>8. CASE EmitEvent(p)
  <2>1. at[p] = "emit" /\ row[p] \in Row /\ row[p] <= last[p]
        /\ outbox[row[p]] = "pending" /\ at[p] \in Open
        /\ UNCHANGED <<upstream, registry, owner, loop, crashes, reconnects, admin>>
    BY <1>0, <1>8 DEF EmitEvent, Fits, Looping, Open
  <2>2. ASSUME NEW o \in {"rejected", "duplicate", "retryable"}, Finds(p, o, "mark"),
               UNCHANGED receiver, faults' = faults \/ Fault
        PROVE  RInv'
    <3>1. o \in Outcome \ {"none", "prior"} /\ faults' \in Nat
      BY <1>0, <2>2 DEF Outcome, Fault
    <3>2. QED
      BY <1>0, <1>4, <2>1, <2>2, <3>1 DEF receiver
  <2>3. CASE R!Accept(row[p]) /\ handling' = handling \cup {row[p]}
             /\ Finds(p, "none", "waiting") /\ UNCHANGED faults
    <3>1. "waiting" \in Labels \ {"idle", "advance", "write", "mark"} /\ "none" \in Outcome
      BY DEF Labels, Looping, Outcome
    <3>2. PassTypes'
      BY <1>0, <2>3, <3>1, FindsTypes
    <3>3. status' \in [Row -> {"new", "held", "done"}] /\ handling' \subseteq Row
      BY <1>0, <2>1, <2>3 DEF R!Accept
    <3>4. Goes(p, "waiting") /\ UNCHANGED <<row, last>>
      BY <2>3 DEF Finds
    <3>5. QED
      BY <1>0, <1>3, <2>1, <2>3, <3>1, <3>2, <3>3, <3>4
  <2>4. QED
    BY <1>8, <2>2, <2>3 DEF EmitEvent
<1>9. CASE TimesOut(p)
  <2>1. "retryable" \in Outcome \ {"none", "prior"} /\ at[p] \in Open /\ faults' \in Nat
    BY <1>0, <1>9 DEF TimesOut, Outcome, Open, Fault
  <2>2. QED
    BY <1>0, <1>4, <1>9, <2>1 DEF TimesOut, receiver
<1>10. CASE PassRaises(p)
  <2>1. faults' \in Nat
    BY <1>0, <1>10 DEF PassRaises, Fault
  <2>2. QED
    BY <1>0, <1>2, <1>10, <2>1 DEF PassRaises
<1>11. CASE UpsertOutbox(p)
  <2>1. /\ at[p] = "row" /\ row[p] \in Row /\ row[p] <= last[p] /\ row[p] = cursor + 1
        /\ UNCHANGED <<upstream, cursor, owner, receiver, loop, budget>>
    BY <1>0, <1>11 DEF UpsertOutbox, Fits, Looping
  <2>2. ASSUME NEW l \in {"advance", "mark", "handle"}, NEW o \in Outcome, Finds(p, o, l),
               outbox' \in [Row -> TerminalSafe \cup {"none", "pending"}],
               \A r \in Row : r # row[p] => outbox'[r] = outbox[r],
               l = "advance" => outbox'[row[p]] \in TerminalSafe,
               l # "advance" => outbox'[row[p]] = "pending",
               l = "mark" => o \notin {"none", "prior"}
        PROVE  RInv'
    <3>1. PassTypes'
      <4>1. l \in Labels
        BY DEF Labels, Looping
      <4>2. QED
        BY <1>0, <2>2, <4>1, FindsTypes
    <3>2. /\ at'[p] = l /\ outcome'[p] = o /\ row' = row /\ last' = last
          /\ \A q \in Passes : q # p => at'[q] = at[q]
      BY <1>0, <2>2 DEF Finds, Goes, PassTypes
    <3>3. Fits(p)'
      BY <1>0, <2>1, <2>2, <3>2 DEF Fits, Looping, Open
    <3>4. TypeOK'
      BY <2>1, <2>2, <3>1 DEF RInv, TypeOK, owner, receiver, budget
    <3>5. CursorCovered'
      BY <1>0, <2>1, <2>2 DEF RInv, CursorCovered, Row
    <3>6. QED
      BY <1>0, <2>1, <3>2, <3>3, <3>4, <3>5, OnlyOneMoves DEF budget
  <2>3. CASE outbox[row[p]] \in TerminalSafe
    <3>1. Finds(p, "prior", "advance") /\ UNCHANGED outbox /\ "prior" \in Outcome
      BY <1>11, <2>3 DEF UpsertOutbox, Outcome
    <3>2. QED
      BY <1>0, <2>2, <2>3, <3>1
  <2>4. CASE outbox[row[p]] \notin TerminalSafe
    <3>1. outbox' = [outbox EXCEPT ![row[p]] = "pending"]
      BY <1>11, <2>4 DEF UpsertOutbox
    <3>2. /\ outbox' \in [Row -> TerminalSafe \cup {"none", "pending"}]
          /\ \A r \in Row : r # row[p] => outbox'[r] = outbox[r]
          /\ outbox'[row[p]] = "pending"
      BY <1>0, <2>1, <3>1
    <3>3. Verdict[row[p]] \in {"would_emit", "suppressed", "would_coalesce"}
      BY <2>1, RunnerAssumption
    <3>4. \/ Finds(p, "suppressed", "mark")
          \/ Finds(p, "coalesced", "mark")
          \/ Finds(p, "none", "handle")
      <4>1. CASE Verdict[row[p]] = "suppressed"
        BY <1>11, <2>4, <4>1 DEF UpsertOutbox
      <4>2. CASE Verdict[row[p]] = "would_coalesce"
        BY <1>11, <2>4, <4>2 DEF UpsertOutbox
      <4>3. CASE Verdict[row[p]] = "would_emit"
        BY <1>11, <2>4, <4>3 DEF UpsertOutbox
      <4>4. QED
        BY <3>3, <4>1, <4>2, <4>3
    <3>5. "suppressed" \in Outcome /\ "coalesced" \in Outcome /\ "none" \in Outcome
      BY DEF Outcome
    <3>6. CASE Finds(p, "suppressed", "mark")
      BY <2>2, <3>2, <3>5, <3>6
    <3>7. CASE Finds(p, "coalesced", "mark")
      BY <2>2, <3>2, <3>5, <3>7
    <3>8. CASE Finds(p, "none", "handle")
      BY <2>2, <3>2, <3>5, <3>8
    <3>9. QED
      BY <3>4, <3>6, <3>7, <3>8
  <2>5. QED
    BY <2>3, <2>4
<1>12. CASE MarkOutbox(p)
  <2>1. /\ at[p] = "mark" /\ row[p] \in Row /\ row[p] <= last[p] /\ row[p] = cursor + 1
        /\ outcome[p] \in Outcome /\ outcome[p] \notin {"none", "prior"}
        /\ outbox' = [outbox EXCEPT ![row[p]] = Marked(outcome[p])]
        /\ UNCHANGED <<upstream, cursor, owner, receiver, loop, budget>>
    BY <1>0, <1>12 DEF MarkOutbox, Fits, Looping, PassTypes
  <2>2. /\ Marked(outcome[p]) \in TerminalSafe \cup {"none", "pending"}
        /\ Advances(outcome[p]) => Marked(outcome[p]) \in TerminalSafe
    BY <2>1, MarkedStatus
  <2>3. /\ outbox' \in [Row -> TerminalSafe \cup {"none", "pending"}]
        /\ \A r \in Row : r # row[p] => outbox'[r] = outbox[r]
        /\ outbox'[row[p]] = Marked(outcome[p])
    BY <1>0, <2>1, <2>2
  <2>4. CursorCovered'
    BY <1>0, <2>1, <2>3 DEF RInv, CursorCovered, Row
  <2>5. ASSUME PassTypes', Fits(p)', \A q \in Passes : q # p => at'[q] = at[q]
        PROVE  RInv'
    <3>1. TypeOK'
      BY <2>1, <2>3, <2>5 DEF RInv, TypeOK, owner, receiver, budget
    <3>2. QED
      BY <1>0, <2>1, <2>4, <2>5, <3>1, OnlyOneMoves DEF budget
  <2>6. CASE Advances(outcome[p])
    <3>1. Goes(p, "advance") /\ UNCHANGED <<row, last, held, outcome>>
          /\ "advance" \in Labels
      BY <1>12, <2>6 DEF MarkOutbox, Labels, Looping
    <3>2. PassTypes'
      BY <1>0, <3>1, GoesTypes
    <3>3. at'[p] = "advance" /\ \A q \in Passes : q # p => at'[q] = at[q]
      BY <1>0, <3>1 DEF Goes, PassTypes
    <3>4. Fits(p)'
      BY <2>1, <2>2, <2>3, <2>6, <3>1, <3>3 DEF Fits, Looping, Open
    <3>5. QED
      BY <2>5, <3>2, <3>3, <3>4
  <2>7. CASE ~Advances(outcome[p])
    <3>1. Ends(p)
      BY <1>12, <2>7 DEF MarkOutbox
    <3>2. PassTypes'
      BY <1>0, <3>1, EndsTypes
    <3>3. at'[p] = "idle" /\ \A q \in Passes : q # p => at'[q] = at[q]
      BY <1>0, <3>1 DEF Ends, PassTypes
    <3>4. Fits(p)'
      BY <3>3 DEF Fits, Looping, Open
    <3>5. QED
      BY <2>5, <3>2, <3>3, <3>4
  <2>8. QED
    BY <2>6, <2>7
<1>13. CASE CompareCursor(p)
  <2>1. /\ at[p] = "advance" /\ row[p] \in Row /\ row[p] <= last[p] /\ row[p] = cursor + 1
        /\ outbox[row[p]] \in TerminalSafe
        /\ UNCHANGED <<upstream, registry, owner, receiver, loop, budget>>
    BY <1>0, <1>13 DEF CompareCursor, Fits, Looping
  <2>2. ~(row[p] <= cursor)
    BY <1>0, <2>1
  <2>3. Goes(p, "write") /\ UNCHANGED <<row, last, held, outcome>> /\ "write" \in Labels
    BY <1>13, <2>2 DEF CompareCursor, Labels, Looping
  <2>4. PassTypes'
    BY <1>0, <2>3, GoesTypes
  <2>5. at'[p] = "write" /\ \A q \in Passes : q # p => at'[q] = at[q]
    BY <1>0, <2>3 DEF Goes, PassTypes
  <2>6. Fits(p)'
    BY <2>1, <2>3, <2>5 DEF Fits, Looping, Open, registry
  <2>7. QED
    BY <1>0, <2>1, <2>4, <2>5, <2>6, FindingRInv DEF receiver, budget
<1>14. CASE WriteCursor(p)
  <2>1. /\ at[p] = "write" /\ row[p] \in Row /\ row[p] <= last[p] /\ row[p] = cursor + 1
        /\ last[p] \in 0..MaxRow
        /\ outbox[row[p]] \in TerminalSafe /\ cursor' = row[p] /\ NextRow(p)
        /\ UNCHANGED <<upstream, outbox, owner, receiver, loop, budget>>
    BY <1>0, <1>14 DEF WriteCursor, Fits, Looping, PassTypes
  <2>2. cursor' \in 0..MaxRow /\ row[p] \in 1..MaxRow
    BY <1>0, <2>1 DEF Row
  <2>3. CursorCovered'
    BY <1>0, <2>1, <2>2 DEF RInv, CursorCovered, Row
  <2>4. ASSUME PassTypes', Fits(p)', \A q \in Passes : q # p => at'[q] = at[q]
        PROVE  RInv'
    <3>1. TypeOK'
      BY <2>1, <2>2, <2>4 DEF RInv, TypeOK, owner, receiver, budget
    <3>2. QED
      BY <1>0, <2>1, <2>3, <2>4, <3>1, OnlyOneMoves DEF budget
  <2>5. CASE Stops(outcome[p]) \/ row[p] = last[p]
    <3>1. Ends(p)
      BY <2>1, <2>5 DEF NextRow
    <3>2. PassTypes'
      BY <1>0, <3>1, EndsTypes
    <3>3. at'[p] = "idle" /\ \A q \in Passes : q # p => at'[q] = at[q]
      BY <1>0, <3>1 DEF Ends, PassTypes
    <3>4. Fits(p)'
      BY <3>3 DEF Fits, Looping, Open
    <3>5. QED
      BY <2>4, <3>2, <3>3, <3>4
  <2>6. CASE ~(Stops(outcome[p]) \/ row[p] = last[p])
    <3>1. /\ row' = [row EXCEPT ![p] = row[p] + 1]
          /\ outcome' = [outcome EXCEPT ![p] = "none"]
          /\ at' = [at EXCEPT ![p] = "row"] /\ UNCHANGED <<last, held>>
      BY <2>1, <2>6 DEF NextRow, Goes
    <3>2. row[p] + 1 \in Row /\ row[p] + 1 \in 0..MaxRow + 1 /\ row[p] + 1 <= last[p]
      BY <1>0, <2>1, <2>2, <2>6 DEF Row
    <3>3. PassTypes'
      BY <1>0, <3>1, <3>2 DEF PassTypes, Outcome
    <3>4. /\ at'[p] = "row" /\ row'[p] = row[p] + 1
          /\ \A q \in Passes : q # p => at'[q] = at[q]
      BY <1>0, <3>1 DEF PassTypes
    <3>5. Fits(p)'
      BY <2>1, <3>1, <3>2, <3>4 DEF Fits, Looping, Open
    <3>6. QED
      BY <2>4, <3>3, <3>4, <3>5
  <2>7. QED
    BY <2>5, <2>6
<1>15. QED
  BY <1>1, <1>5, <1>6, <1>7, <1>8, <1>9, <1>10, <1>11, <1>12, <1>13, <1>14
     DEF PassStep

(* The loop that dies leaves a typed state.                                 *)
LEMMA ListRaisesTypes ==
    ASSUME TypeOK, ListRaises
    PROVE  looping' \in BOOLEAN /\ faults' \in Nat
<1>1. looping' \in BOOLEAN
  BY Zenon DEF ListRaises
<1>2. faults' \in Nat
  BY DEF ListRaises, Fault, TypeOK
<1>3. QED
  BY <1>1, <1>2

LEMMA RInvStep ==
    ASSUME NoOverlap, RInv, [Next]_vars
    PROVE  RInv'
<1> USE RunnerAssumption
<1>1. CASE Reconnect
  <2>1. /\ reconnects' \in Nat /\ orphans' \subseteq Passes /\ MaxReconnects # 0
        /\ looping' \in BOOLEAN
        /\ UNCHANGED <<upstream, registry, owner, receiver, passes, faults, crashes, admin>>
    BY <1>1 DEF Reconnect, RInv, TypeOK
  <2>2. TypeOK' /\ CursorCovered' /\ Walk'
    BY <2>1 DEF RInv, TypeOK, PassTypes, CursorCovered, Walk, Fits, registry, owner, receiver,
               passes
  <2>3. QED
    BY <2>2 DEF RInv
<1>2. CASE Crash
  <2>1. PassTypes' /\ \A p \in Passes : at'[p] = "idle"
    BY <1>2 DEF Crash, PassTypes, Outcome
  <2>2. /\ crashes' \in Nat /\ handling' = {} /\ orphans' = {} /\ looping' \in BOOLEAN
        /\ UNCHANGED <<upstream, registry, owner, status, faults, reconnects, admin>>
    BY <1>2 DEF Crash, RInv, TypeOK
  <2>3. TypeOK' /\ CursorCovered'
    BY <2>1, <2>2 DEF RInv, TypeOK, CursorCovered, registry, owner
  <2>4. Walk'
    BY <2>1, <2>2 DEF RInv, Walk, Fits, Looping, Open
  <2>5. QED
    BY <2>3, <2>4 DEF RInv
<1>3. CASE UNCHANGED vars
  BY <1>3 DEF vars, RInv, TypeOK, PassTypes, CursorCovered, Walk, Fits, registry, owner,
              receiver, passes, budget
<1>4. CASE ListRaises
  <2>1. looping' \in BOOLEAN /\ faults' \in Nat
    BY <1>4, ListRaisesTypes DEF RInv
  <2>2. UNCHANGED <<upstream, registry, owner, receiver, passes, orphans, crashes,
                    reconnects, admin>>
    BY <1>4 DEF ListRaises
  <2>3. QED
    BY <2>1, <2>2 DEF RInv, TypeOK, PassTypes, CursorCovered, Walk, Fits, registry,
                      owner, receiver, passes
<1>5. QED
  BY <1>1, <1>2, <1>3, <1>4, OwnerRInv, ReceiverRInv, PassRInv DEF Next

LEMMA RInvAlways ==
    ASSUME NoOverlap
    PROVE  Spec => []RInv
<1>1. RInv /\ [Next]_vars => RInv'
  BY RInvStep
<1>2. QED
  BY <1>1, InitRInv, PTL DEF Spec

(* The cursor leaves no row behind that is not settled in the outbox,       *)
(* wherever passes stop, raise or die, for any batch limit.                 *)
THEOREM CursorIsCovered ==
    ASSUME NoOverlap
    PROVE  Spec => []CursorCovered
<1>1. RInv => CursorCovered
  BY DEF RInv
<1>2. QED
  BY <1>1, RInvAlways, PTL

(* A step either leaves the registry alone, moves the cursor one row on, or *)
(* writes the row of a pass that has not settled it yet.                    *)
LEMMA StepKeepsSettled ==
    ASSUME NoOverlap, RInv, Next
    PROVE  /\ cursor' >= cursor
           /\ \A r \in Row : outbox[r] \in TerminalSafe => outbox'[r] = outbox[r]
<1>0. /\ cursor \in 0..MaxRow /\ outbox \in [Row -> TerminalSafe \cup {"none", "pending"}]
      /\ MaxRow \in Nat /\ "pending" \notin TerminalSafe
  BY RunnerAssumption DEF RInv, TypeOK, TerminalSafe
<1>1. CASE UNCHANGED registry
  BY <1>0, <1>1 DEF registry
<1>2. ASSUME NEW p \in Passes, UpsertOutbox(p)
      PROVE  /\ cursor' >= cursor
             /\ \A r \in Row : outbox[r] \in TerminalSafe => outbox'[r] = outbox[r]
  <2>1. CASE outbox[row[p]] \in TerminalSafe
    BY <1>0, <1>2, <2>1 DEF UpsertOutbox
  <2>2. CASE outbox[row[p]] \notin TerminalSafe
    <3>1. outbox' = [outbox EXCEPT ![row[p]] = "pending"] /\ cursor' = cursor
      BY <1>2, <2>2 DEF UpsertOutbox
    <3>2. QED
      BY <1>0, <2>2, <3>1
  <2>3. QED
    BY <2>1, <2>2
<1>3. ASSUME NEW p \in Passes, MarkOutbox(p)
      PROVE  /\ cursor' >= cursor
             /\ \A r \in Row : outbox[r] \in TerminalSafe => outbox'[r] = outbox[r]
  <2>1. /\ outbox[row[p]] = "pending" /\ cursor' = cursor
        /\ outbox' = [outbox EXCEPT ![row[p]] = Marked(outcome[p])]
    BY <1>3 DEF MarkOutbox, RInv, Walk, Fits, Open
  <2>2. QED
    BY <1>0, <2>1
<1>4. ASSUME NEW p \in Passes, WriteCursor(p)
      PROVE  /\ cursor' >= cursor
             /\ \A r \in Row : outbox[r] \in TerminalSafe => outbox'[r] = outbox[r]
  <2>1. row[p] = cursor + 1 /\ cursor' = row[p] /\ outbox' = outbox
    BY <1>4 DEF WriteCursor, RInv, Walk, Fits
  <2>2. QED
    BY <1>0, <2>1
<1>5. ASSUME NEW p \in Passes, PassStep(p) \/ TimesOut(p) \/ PassRaises(p),
             ~UpsertOutbox(p), ~MarkOutbox(p), ~WriteCursor(p)
      PROVE  UNCHANGED registry
  BY <1>5 DEF PassStep, TimesOut, PassRaises, BeginPass, CheckCompatibility, ReadEvents,
              GetHandle, EmitEvent, CompareCursor
<1>6. ASSUME UpstreamAppends \/ OwnerActs \/ ListRaises \/ Reconnect \/ Crash
      PROVE  UNCHANGED registry
  BY <1>6 DEF UpstreamAppends, OwnerActs, ListRaises, Reconnect, Crash
<1>7. ASSUME NEW r \in Row, ReceiverShows(r) \/ ReceiverFails(r)
      PROVE  UNCHANGED registry
  BY <1>7 DEF ReceiverShows, ReceiverFails
<1>8. QED
  BY <1>1, <1>2, <1>3, <1>4, <1>5, <1>6, <1>7 DEF Next

(* What the cursor has passed is never moved back and never reopened, in    *)
(* whatever order passes, faults, crashes and the owner act, while passes   *)
(* do not overlap.                                                          *)
THEOREM SettledStaysSettled ==
    ASSUME NoOverlap
    PROVE  Spec => SettledForGood
<1>1. RInv /\ [Next]_vars
        => [/\ cursor' >= cursor
            /\ \A r \in Row : outbox[r] \in TerminalSafe => outbox'[r] = outbox[r]]_vars
  BY StepKeepsSettled
<1>2. QED
  BY <1>1, RInvAlways, PTL DEF Spec, SettledForGood

-----------------------------------------------------------------------------
(* Types need no such assumption: whatever other passes do, a pass at work  *)
(* is at one of the rows it has read, and has found something out before it *)
(* marks its row.                                                           *)
Stands(p) ==
    /\ at[p] # "idle" => row[p] # 0
    /\ at[p] \in Looping => row[p] \in Row /\ row[p] <= last[p]
    /\ at[p] = "mark" => outcome[p] \notin {"none", "prior"}

Seated == PassTypes /\ \A p \in Passes : Stands(p)

LEMMA EndsSeated ==
    ASSUME Seated, NEW p \in Passes, Ends(p)
    PROVE  Seated'
<1>1. PassTypes'
  BY EndsTypes DEF Seated
<1>2. \A q \in Passes : Stands(q)'
  BY DEF Seated, Stands, Ends, PassTypes, Looping
<1>3. QED
  BY <1>1, <1>2 DEF Seated

LEMMA FindsSeated ==
    ASSUME Seated, NEW p \in Passes, NEW l \in Labels, NEW o \in Outcome, Finds(p, o, l), at[p] # "idle",
           l \in Looping => at[p] \in Looping,
           l = "mark" => o \notin {"none", "prior"}
    PROVE  Seated'
<1>1. PassTypes'
  BY FindsTypes DEF Seated
<1>2. \A q \in Passes : Stands(q)'
  BY DEF Seated, Stands, Finds, Goes, PassTypes
<1>3. QED
  BY <1>1, <1>2 DEF Seated

LEMMA GoesSeated ==
    ASSUME Seated, NEW p \in Passes, NEW l \in Labels \ {"mark"}, Goes(p, l), at[p] # "idle",
           UNCHANGED <<row, last, held, outcome>>,
           l \in Looping => at[p] \in Looping
    PROVE  Seated'
<1>1. PassTypes'
  BY GoesTypes DEF Seated
<1>2. \A q \in Passes : Stands(q)'
  BY DEF Seated, Stands, Goes, PassTypes
<1>3. QED
  BY <1>1, <1>2 DEF Seated

LEMMA NextRowSeated ==
    ASSUME Seated, NEW p \in Passes, NextRow(p), at[p] \in {"advance", "write"}
    PROVE  Seated'
<1>1. CASE Ends(p)
  BY <1>1, EndsSeated
<1>2. CASE ~Ends(p)
  <2>1. /\ row' = [row EXCEPT ![p] = row[p] + 1] /\ row[p] # last[p]
        /\ outcome' = [outcome EXCEPT ![p] = "none"]
        /\ at' = [at EXCEPT ![p] = "row"] /\ UNCHANGED <<last, held>>
    BY <1>2 DEF NextRow, Goes
  <2>2. row[p] \in 1..MaxRow /\ row[p] <= last[p] /\ last[p] \in 0..MaxRow /\ MaxRow \in Nat
    BY RunnerAssumption DEF Seated, Stands, Looping, Row, PassTypes
  <2>3. row[p] + 1 \in 1..MaxRow /\ row[p] + 1 \in 0..MaxRow + 1 /\ row[p] + 1 <= last[p]
    BY <2>1, <2>2
  <2>4. PassTypes'
    BY <2>1, <2>3 DEF Seated, PassTypes, Outcome
  <2>5. \A q \in Passes : Stands(q)'
    BY <2>1, <2>3 DEF Seated, Stands, PassTypes, Row
  <2>6. QED
    BY <2>4, <2>5 DEF Seated
<1>3. QED
  BY <1>1, <1>2

(* A step of a pass touches neither the owner's variables nor the budget of *)
(* reconnects, and writes well-typed rows.                                  *)
LEMMA PassTyped ==
    ASSUME TypeOK, Seated, NEW p \in Passes, PassStep(p) \/ TimesOut(p) \/ PassRaises(p)
    PROVE  TypeOK' /\ Seated'
<1>0. /\ cursor \in 0..MaxRow /\ upstream \in 0..MaxRow /\ MaxRow \in Nat
      /\ outbox \in [Row -> TerminalSafe \cup {"none", "pending"}]
      /\ status \in [Row -> {"new", "held", "done"}] /\ handling \subseteq Row
      /\ key \in Nat /\ faults \in Nat /\ at[p] \in Labels /\ PassTypes
      /\ (at[p] \in Looping => row[p] \in Row /\ row[p] <= last[p] /\ last[p] \in 0..MaxRow)
  BY RunnerAssumption DEF TypeOK, PassTypes, Labels, Looping, Seated, Stands
<1>1. CASE BeginPass(p)
  <2>1. /\ Goes(p, "compat") /\ row' = [row EXCEPT ![p] = cursor + 1]
        /\ cursor + 1 \in 0..MaxRow + 1 /\ orphans' \subseteq Passes
        /\ UNCHANGED <<upstream, registry, owner, receiver, last, held, outcome,
                       looping, budget>>
    BY <1>0, <1>1 DEF BeginPass, TypeOK
  <2>2. PassTypes'
    BY <1>0, <2>1, GoesTypes DEF Labels
  <2>3. \A q \in Passes : Stands(q)'
    BY <1>0, <2>1 DEF Seated, Stands, Goes, PassTypes, Looping
  <2>4. QED
    BY <2>1, <2>2, <2>3 DEF TypeOK, Seated, registry, owner, receiver, budget
<1>2. CASE /\ Seated' /\ faults' \in Nat
           /\ UNCHANGED <<upstream, registry, owner, receiver, loop, crashes,
                          reconnects, admin>>
  BY <1>2 DEF TypeOK, Seated, registry, owner, receiver
<1>3. CASE CheckCompatibility(p)
  <2>1. CASE Ends(p)
    BY <1>0, <1>2, <1>3, <2>1, EndsSeated DEF CheckCompatibility, budget
  <2>2. CASE Goes(p, "read") /\ UNCHANGED <<row, last, held, outcome>>
    <3>1. "read" \in Labels \ {"mark"} /\ "read" \notin Looping
      BY DEF Labels, Looping
    <3>2. QED
      BY <1>0, <1>2, <1>3, <2>2, <3>1, GoesSeated DEF CheckCompatibility, budget
  <2>3. QED
    BY <1>3, <2>1, <2>2 DEF CheckCompatibility
<1>4. CASE ReadEvents(p)
  <2>1. CASE Ends(p)
    BY <1>0, <1>2, <1>4, <2>1, EndsSeated DEF ReadEvents, budget
  <2>2. CASE ~Ends(p)
    <3>1. PICK r \in Batch(p) : /\ last' = [last EXCEPT ![p] = r] /\ Goes(p, "row")
                                /\ UNCHANGED <<row, held, outcome>>
      BY <1>4, <2>2 DEF ReadEvents
    <3>2. r \in 1..MaxRow /\ r \in 0..MaxRow /\ row[p] <= r
      BY <1>0, <3>1 DEF Batch, Row
    <3>3. row[p] \in 1..MaxRow
      <4>1. row[p] # 0 /\ row[p] \in 0..MaxRow + 1
        BY <1>0, <1>4 DEF ReadEvents, Seated, Stands, PassTypes
      <4>2. QED
        BY <1>0, <3>2, <4>1
    <3>4. PassTypes'
      BY <1>0, <3>1, <3>2 DEF PassTypes, Goes
    <3>5. \A q \in Passes : Stands(q)'
      BY <1>0, <3>1, <3>2, <3>3 DEF Seated, Stands, Goes, PassTypes, Row
    <3>6. QED
      BY <1>0, <1>2, <1>4, <3>4, <3>5 DEF Seated, ReadEvents, budget
  <2>3. QED
    BY <2>1, <2>2
<1>5. CASE GetHandle(p)
  <2>1. CASE Finds(p, "unavailable", "mark")
    <3>1. "mark" \in Labels /\ "unavailable" \in Outcome /\ at[p] \in Looping
          /\ at[p] # "idle"
      BY <1>5 DEF Labels, Looping, Outcome, GetHandle
    <3>2. QED
      BY <1>0, <1>2, <1>5, <2>1, <3>1, FindsSeated DEF GetHandle, budget
  <2>2. CASE ~Finds(p, "unavailable", "mark")
    <3>1. /\ held' = [held EXCEPT ![p] = key] /\ Goes(p, "emit") /\ at[p] = "handle"
          /\ UNCHANGED <<row, last, outcome>>
      BY <1>5, <2>2 DEF GetHandle
    <3>2. PassTypes'
      BY <1>0, <3>1 DEF PassTypes, Goes
    <3>3. \A q \in Passes : Stands(q)'
      BY <3>1 DEF Seated, Stands, Goes, PassTypes, Looping
    <3>4. QED
      BY <1>0, <1>2, <1>5, <3>2, <3>3 DEF Seated, GetHandle, budget
  <2>3. QED
    BY <2>1, <2>2
<1>6. CASE EmitEvent(p) \/ TimesOut(p)
  <2>1. /\ \E o \in {"rejected", "duplicate", "retryable"} : Finds(p, o, "mark")
           \/ Finds(p, "none", "waiting")
        /\ at[p] \in {"emit", "waiting"} /\ faults' \in Nat
        /\ status' \in [Row -> {"new", "held", "done"}] /\ handling' \subseteq Row
        /\ UNCHANGED <<upstream, registry, owner, loop, crashes, reconnects, admin>>
    BY <1>0, <1>6 DEF EmitEvent, TimesOut, Fault, receiver, R!Accept, Looping
  <2>2. Seated'
    <3>1. /\ {"mark", "waiting"} \subseteq Labels /\ at[p] \in Looping /\ at[p] # "idle"
          /\ {"rejected", "duplicate", "retryable", "none"} \subseteq Outcome
      BY <2>1 DEF Labels, Looping, Outcome
    <3>2. QED
      BY <2>1, <3>1, FindsSeated
  <2>3. QED
    BY <2>1, <2>2 DEF TypeOK, Seated, registry, owner
<1>7. CASE UpsertOutbox(p)
  <2>1. /\ at[p] = "row" /\ at[p] \in Looping
        /\ UNCHANGED <<upstream, cursor, owner, receiver, loop, budget>>
    BY <1>7 DEF UpsertOutbox, Looping
  <2>2. outbox' \in [Row -> TerminalSafe \cup {"none", "pending"}]
    BY <1>0, <1>7 DEF UpsertOutbox
  <2>3. Verdict[row[p]] \in {"would_emit", "suppressed", "would_coalesce"}
    BY <1>0, <2>1, RunnerAssumption
  <2>4. \/ Finds(p, "prior", "advance")
        \/ Finds(p, "suppressed", "mark")
        \/ Finds(p, "coalesced", "mark")
        \/ Finds(p, "none", "handle")
    <3>1. CASE outbox[row[p]] \in TerminalSafe
      BY <1>7, <3>1 DEF UpsertOutbox
    <3>2. CASE outbox[row[p]] \notin TerminalSafe
      <4>1. CASE Verdict[row[p]] = "suppressed"
        BY <1>7, <3>2, <4>1 DEF UpsertOutbox
      <4>2. CASE Verdict[row[p]] = "would_coalesce"
        BY <1>7, <3>2, <4>2 DEF UpsertOutbox
      <4>3. CASE Verdict[row[p]] = "would_emit"
        BY <1>7, <3>2, <4>3 DEF UpsertOutbox
      <4>4. QED
        BY <2>3, <4>1, <4>2, <4>3
    <3>3. QED
      BY <3>1, <3>2
  <2>5. /\ {"prior", "suppressed", "coalesced", "none"} \subseteq Outcome
        /\ {"advance", "mark", "handle"} \subseteq Labels
    BY DEF Outcome, Labels, Looping
  <2>6. Seated'
    BY <2>1, <2>4, <2>5, FindsSeated
  <2>7. QED
    BY <2>1, <2>2, <2>6 DEF TypeOK, Seated, owner, receiver, budget
<1>8. CASE MarkOutbox(p)
  <2>1. /\ at[p] = "mark" /\ at[p] \in Looping
        /\ outcome[p] \in Outcome /\ outcome[p] \notin {"none", "prior"}
        /\ outbox' = [outbox EXCEPT ![row[p]] = Marked(outcome[p])]
        /\ UNCHANGED <<upstream, cursor, owner, receiver, loop, budget>>
    BY <1>0, <1>8 DEF MarkOutbox, Seated, Stands, PassTypes, Looping
  <2>2. outbox' \in [Row -> TerminalSafe \cup {"none", "pending"}]
    <3>1. Marked(outcome[p]) \in TerminalSafe \cup {"none", "pending"}
      BY <2>1, MarkedStatus
    <3>2. QED
      BY <1>0, <2>1, <3>1
  <2>3. Ends(p) \/ (Goes(p, "advance") /\ UNCHANGED <<row, last, held, outcome>>)
    BY <1>8 DEF MarkOutbox
  <2>4. "advance" \in Labels \ {"mark"}
    BY DEF Labels, Looping
  <2>5. Seated'
    BY <2>1, <2>3, <2>4, EndsSeated, GoesSeated
  <2>6. QED
    BY <2>1, <2>2, <2>5 DEF TypeOK, Seated, owner, receiver, budget
<1>9. CASE CompareCursor(p)
  <2>1. at[p] = "advance" /\ at[p] \in Looping /\ "write" \in Labels \ {"mark"}
    BY <1>9 DEF CompareCursor, Looping, Labels
  <2>2. NextRow(p) \/ (Goes(p, "write") /\ UNCHANGED <<row, last, held, outcome>>)
    BY <1>9 DEF CompareCursor
  <2>3. Seated'
    BY <2>1, <2>2, NextRowSeated, GoesSeated
  <2>4. QED
    BY <1>0, <1>2, <1>9, <2>3 DEF CompareCursor, budget
<1>10. CASE WriteCursor(p)
  <2>1. at[p] = "write" /\ cursor' \in 0..MaxRow /\ NextRow(p)
        /\ UNCHANGED <<upstream, outbox, owner, receiver, loop, budget>>
    BY <1>0, <1>10 DEF WriteCursor, Looping, Row
  <2>2. Seated'
    BY <2>1, NextRowSeated
  <2>3. QED
    BY <2>1, <2>2 DEF TypeOK, Seated, owner, receiver, budget
<1>11. CASE PassRaises(p)
  BY <1>0, <1>2, <1>11, EndsSeated DEF PassRaises, Fault
<1>12. QED
  BY <1>1, <1>3, <1>4, <1>5, <1>6, <1>7, <1>8, <1>9, <1>10, <1>11 DEF PassStep

LEMMA TypedStep ==
    ASSUME TypeOK, Seated, [Next]_vars
    PROVE  TypeOK' /\ Seated'
<1>1. CASE UpstreamAppends \/ OwnerActs
  <2>1. /\ upstream' \in 0..MaxRow /\ admin' \in Nat /\ key' \in Nat
    BY <1>1, RunnerAssumption DEF UpstreamAppends, OwnerActs, TypeOK, owner, budget
  <2>2. active' \in BOOLEAN /\ usable' \in BOOLEAN
    BY <1>1, Zenon DEF UpstreamAppends, OwnerActs, TypeOK, owner
  <2>3. UNCHANGED <<registry, receiver, passes, loop, faults, crashes, reconnects>>
    BY <1>1 DEF UpstreamAppends, OwnerActs, budget
  <2>4. QED
    BY <2>1, <2>2, <2>3
       DEF TypeOK, Seated, Stands, PassTypes, registry, receiver, passes
<1>2. ASSUME NEW r \in Row, ReceiverShows(r) \/ ReceiverFails(r)
      PROVE  TypeOK' /\ Seated'
  <2>1. /\ \E o \in {"succeeded", "retryable"} : Answers(r, o)
        /\ UNCHANGED <<upstream, registry, owner, loop, crashes, reconnects, admin>>
    BY <1>2 DEF ReceiverShows, ReceiverFails
  <2>2. status' \in [Row -> {"new", "held", "done"}] /\ handling' \subseteq Row
        /\ faults' \in Nat
    BY <1>2 DEF ReceiverShows, ReceiverFails, R!Deliver, R!Release, R!HandBack, Fault, TypeOK
  <2>3. PassTypes' /\ \A p \in Passes : Stands(p)'
    BY <2>1 DEF Answers, Seated, Stands, PassTypes, Looping, Outcome
  <2>4. QED
    BY <2>1, <2>2, <2>3 DEF TypeOK, Seated, registry, owner
<1>3. CASE Reconnect
  BY <1>3 DEF Reconnect, TypeOK, Seated, Stands, PassTypes, registry, owner, receiver, passes
<1>4. CASE Crash
  <2>1. PassTypes' /\ \A p \in Passes : at'[p] = "idle"
    BY <1>4, RunnerAssumption DEF Crash, PassTypes, Outcome
  <2>2. crashes' \in Nat
    BY <1>4 DEF Crash, TypeOK
  <2>3. QED
    BY <1>4, <2>1, <2>2 DEF Crash, TypeOK, Seated, Stands, Looping, registry, owner
<1>5. CASE UNCHANGED vars
  BY <1>5 DEF vars, TypeOK, Seated, Stands, PassTypes, registry, owner, receiver, passes,
              budget
<1>6. CASE ListRaises
  <2>1. looping' \in BOOLEAN /\ faults' \in Nat
    BY <1>6, ListRaisesTypes
  <2>2. UNCHANGED <<upstream, registry, owner, receiver, passes, orphans, crashes,
                    reconnects, admin>>
    BY <1>6 DEF ListRaises
  <2>3. QED
    BY <2>1, <2>2 DEF TypeOK, Seated, Stands, PassTypes, registry, owner, receiver, passes
<1>7. QED
  BY <1>1, <1>2, <1>3, <1>4, <1>5, <1>6, PassTyped DEF Next

(* The runner stays inside its types and inside the rows it has read,       *)
(* however passes overlap, raise, time out and die.                         *)
THEOREM RunnerTyped == Spec => []TypeOK
<1>1. Init => TypeOK /\ Seated
  BY RunnerAssumption
     DEF Init, TypeOK, Seated, Stands, PassTypes, Row, Looping, Outcome, R!Init
<1>2. TypeOK /\ Seated /\ [Next]_vars => (TypeOK /\ Seated)'
  BY TypedStep
<1>3. QED
  BY <1>1, <1>2, PTL DEF Spec

-----------------------------------------------------------------------------
(* What the outbox says of a row is so.  A late reply would undo it: a pass *)
(* that does not wait for its handler finds its row a duplicate, and the    *)
(* handler then fails and hands the row back.                               *)
InTime == SlowReplies = FALSE

Sent(r, o) ==
    /\ o \in {"succeeded", "duplicate"} => status[r] # "new"
    /\ o \in {"suppressed", "coalesced"} => Verdict[r] # "would_emit"

Truthful ==
    /\ \A r \in Row : Sent(r, outbox[r])
    /\ \A p \in Passes : at[p] = "mark" => Sent(row[p], outcome[p])

(* A handler at work has a pass that waits for it, and holds the row.       *)
AtWork ==
    \A r \in handling : status[r] = "held" /\ \E p \in Passes : at[p] = "waiting" /\ row[p] = r

(* The receiver knows of no row but those behind the cursor and the next.   *)
Behind == \A r \in Row : status[r] # "new" => r <= cursor + 1

SInv == RInv /\ Truthful /\ AtWork /\ Behind

LEMMA InitSInv == Init => SInv
<1>1. Init => Truthful /\ AtWork /\ Behind
  BY DEF Init, Truthful, Sent, AtWork, Behind, R!Init
<1>2. QED
  BY <1>1, InitRInv DEF SInv

(* A row that is marked keeps what its outcome says.                        *)
LEMMA MarkedSent ==
    ASSUME NEW r \in Row, NEW o \in Outcome, Sent(r, o)
    PROVE  Sent(r, Marked(o))
<1>1. CASE o = "retryable"
  BY <1>1 DEF Sent, Marked
<1>2. CASE o \in {"rejected", "unavailable"}
  <2>1. Marked(o) = "error"
    BY <1>2 DEF Marked
  <2>2. QED
    BY <2>1 DEF Sent
<1>3. CASE o \notin {"retryable", "rejected", "unavailable"}
  <2>1. Marked(o) = o
    BY <1>3 DEF Marked
  <2>2. QED
    BY <2>1
<1>4. QED
  BY <1>1, <1>2, <1>3

(* The receiver's handler answers the one pass that waits for it.           *)
LEMMA ReceiverSInv ==
    ASSUME SInv, NEW r \in Row, ReceiverShows(r) \/ ReceiverFails(r)
    PROVE  Truthful' /\ AtWork' /\ Behind'
<1>0. /\ r \in handling /\ handling' = handling \ {r}
      /\ UNCHANGED <<outbox, cursor, row>>
      /\ status \in [Row -> {"new", "held", "done"}]
      /\ at \in [Passes -> Labels] /\ row \in [Passes -> 0..MaxRow + 1]
      /\ \A q \in Row : q # r => status'[q] = status[q]
  BY DEF ReceiverShows, ReceiverFails, Answers, R!Deliver, R!Release, R!HandBack, registry,
         SInv, RInv, TypeOK, PassTypes, Labels, Looping
<1>1. PICK p \in Passes : at[p] = "waiting" /\ row[p] = r
  BY <1>0 DEF SInv, AtWork
<1>2. /\ \A q \in Passes : q # p => at[q] = "idle"
      /\ outbox[r] = "pending" /\ status[r] = "held"
  BY <1>0, <1>1 DEF SInv, RInv, Walk, Fits, Open, AtWork
<1>3. handling' = {}
  BY <1>0, <1>1, <1>2 DEF SInv, AtWork
<1>4. /\ \A q \in Passes : q # p => at'[q] = "idle"
      /\ \/ status'[r] = "done" /\ outcome'[p] \in {"succeeded", "retryable"}
         \/ status'[r] \in {"new", "held"} /\ outcome'[p] = "retryable"
  <2>1. CASE ReceiverShows(r)
    BY <1>0, <1>1, <1>2, <2>1 DEF ReceiverShows, Answers, R!Deliver
  <2>2. CASE ReceiverFails(r)
    BY <1>0, <1>1, <1>2, <2>2 DEF ReceiverFails, Answers, R!Release, R!HandBack
  <2>3. QED
    BY <2>1, <2>2
<1>5. \A q \in Row : Sent(q, outbox[q])'
  BY <1>0, <1>2 DEF SInv, Truthful, Sent
<1>6. \A q \in Passes : at'[q] = "mark" => Sent(row[q], outcome[q])'
  BY <1>0, <1>1, <1>4 DEF Sent
<1>7. Behind'
  BY <1>0, <1>2 DEF SInv, Behind
<1>8. QED
  BY <1>3, <1>5, <1>6, <1>7 DEF Truthful, AtWork

(* No handler is at work while a pass takes a step.                         *)
LEMMA NoneAtWork ==
    ASSUME NoOverlap, SInv, NEW p \in Passes, PassStep(p) \/ PassRaises(p)
    PROVE  /\ handling = {} /\ at[p] # "waiting"
           /\ \A q \in Passes : q # p => at[q] = "idle"
<1>1. at[p] # "waiting" /\ (at[p] = "idle" => BeginPass(p))
  BY DEF PassStep, PassRaises, BeginPass, CheckCompatibility, ReadEvents, UpsertOutbox,
         GetHandle, EmitEvent, MarkOutbox, CompareCursor, WriteCursor
<1>2. \A q \in Passes : q # p => at[q] = "idle"
  BY <1>1, NoOverlap DEF BeginPass, Between, NoOverlap, SInv, RInv, Walk
<1>3. QED
  BY <1>1, <1>2 DEF SInv, AtWork

(* What a pass finds out of its row, and marks it with.                     *)
LEMMA PassTruthful ==
    ASSUME NoOverlap, SInv, NEW p \in Passes, PassStep(p) \/ PassRaises(p)
    PROVE  Truthful' /\ \A r \in Row : status[r] # "new" => status'[r] = status[r]
<1>0. /\ outbox \in [Row -> TerminalSafe \cup {"none", "pending"}]
      /\ status \in [Row -> {"new", "held", "done"}] /\ PassTypes
      /\ (at[p] \in Looping => row[p] \in Row)
      /\ \A q \in Passes : q # p => at[q] = "idle"
      /\ \A r \in Row : Sent(r, outbox[r])
      /\ (at[p] = "mark" => Sent(row[p], outcome[p]))
  BY NoneAtWork DEF SInv, RInv, Walk, Fits, TypeOK, Truthful
<1>1. ASSUME UNCHANGED <<status, outbox>>, at' \in [Passes -> Labels],
             \A q \in Passes : q # p => at'[q] = at[q],
             at'[p] = "mark" => Sent(row[p], outcome[p])'
      PROVE  Truthful' /\ \A r \in Row : status[r] # "new" => status'[r] = status[r]
  BY <1>0, <1>1 DEF Truthful, Sent
<1>2. CASE BeginPass(p) \/ CheckCompatibility(p) \/ ReadEvents(p) \/ CompareCursor(p)
           \/ WriteCursor(p) \/ PassRaises(p)
  <2>1. UNCHANGED <<status, outbox>>
    BY <1>2 DEF BeginPass, CheckCompatibility, ReadEvents, CompareCursor, WriteCursor,
                PassRaises, registry, receiver
  <2>2. \E l \in {"idle", "compat", "read", "row", "write"} : at' = [at EXCEPT ![p] = l]
    BY <1>2 DEF BeginPass, CheckCompatibility, ReadEvents, CompareCursor, WriteCursor,
                PassRaises, NextRow, Ends, Goes
  <2>3. QED
    BY <1>0, <1>1, <2>1, <2>2 DEF PassTypes, Labels, Looping
<1>3. CASE GetHandle(p)
  <2>1. UNCHANGED <<status, outbox>> /\ at[p] = "handle"
    BY <1>3 DEF GetHandle, registry, receiver
  <2>2. \/ at' = [at EXCEPT ![p] = "emit"]
        \/ /\ at' = [at EXCEPT ![p] = "mark"]
           /\ outcome' = [outcome EXCEPT ![p] = "unavailable"]
    BY <1>3 DEF GetHandle, Finds, Goes
  <2>3. QED
    BY <1>0, <1>1, <2>1, <2>2 DEF PassTypes, Labels, Looping, Sent
<1>4. CASE EmitEvent(p)
  <2>1. at[p] = "emit" /\ outbox' = outbox /\ row[p] \in Row
    BY <1>0, <1>4 DEF EmitEvent, registry, Looping
  <2>2. CASE /\ R!Accept(row[p]) /\ Finds(p, "none", "waiting")
    <3>1. /\ status' = [status EXCEPT ![row[p]] = "held"] /\ status[row[p]] = "new"
          /\ at' = [at EXCEPT ![p] = "waiting"]
      BY <2>2 DEF R!Accept, Finds, Goes
    <3>2. \A r \in Row : status'[r] # "new" \/ status'[r] = status[r]
      BY <1>0, <2>1, <3>1
    <3>3. \A r \in Row : Sent(r, outbox[r])'
      BY <1>0, <2>1, <3>2 DEF Sent
    <3>4. \A q \in Passes : at'[q] # "mark"
      BY <1>0, <3>1 DEF PassTypes
    <3>5. QED
      BY <1>0, <3>1, <3>3, <3>4 DEF Truthful
  <2>3. CASE UNCHANGED receiver /\ \E o \in {"rejected", "duplicate", "retryable"} :
                /\ Finds(p, o, "mark") /\ (o = "duplicate" => status[row[p]] # "new")
    <3>1. PICK o \in {"rejected", "duplicate", "retryable"} :
             /\ at' = [at EXCEPT ![p] = "mark"] /\ outcome' = [outcome EXCEPT ![p] = o]
             /\ row' = row /\ (o = "duplicate" => status[row[p]] # "new")
      BY <2>3 DEF Finds, Goes
    <3>2. status' = status
      BY <2>3 DEF receiver
    <3>3. QED
      BY <1>0, <1>1, <2>1, <3>1, <3>2 DEF PassTypes, Labels, Looping, Sent
  <2>4. QED
    BY <1>4, <2>2, <2>3 DEF EmitEvent
<1>5. CASE UpsertOutbox(p)
  <2>1. /\ at[p] = "row" /\ status' = status /\ row[p] \in Row
    BY <1>0, <1>5 DEF UpsertOutbox, receiver, Looping
  <2>2. outbox' = outbox \/ outbox' = [outbox EXCEPT ![row[p]] = "pending"]
    BY <1>5 DEF UpsertOutbox
  <2>3. \A r \in Row : Sent(r, outbox[r])'
    BY <1>0, <2>1, <2>2 DEF Sent
  <2>4. Verdict[row[p]] \in {"would_emit", "suppressed", "would_coalesce"}
    BY <2>1, RunnerAssumption
  <2>5. \/ \E l \in {"advance", "handle"}, o \in Outcome : Finds(p, o, l)
        \/ /\ Verdict[row[p]] # "would_emit"
           /\ Finds(p, "suppressed", "mark") \/ Finds(p, "coalesced", "mark")
    <3>1. CASE outbox[row[p]] \in TerminalSafe
      BY <1>5, <3>1 DEF UpsertOutbox, Outcome
    <3>2. CASE outbox[row[p]] \notin TerminalSafe
      <4>1. CASE Verdict[row[p]] = "suppressed"
        BY <1>5, <3>2, <4>1 DEF UpsertOutbox
      <4>2. CASE Verdict[row[p]] = "would_coalesce"
        BY <1>5, <3>2, <4>2 DEF UpsertOutbox
      <4>3. CASE Verdict[row[p]] = "would_emit"
        BY <1>5, <3>2, <4>3 DEF UpsertOutbox, Outcome
      <4>4. QED
        BY <2>4, <4>1, <4>2, <4>3
    <3>3. QED
      BY <3>1, <3>2
  <2>6. \A q \in Passes : at'[q] = "mark" => Sent(row[q], outcome[q])'
    BY <1>0, <2>5 DEF Finds, Goes, PassTypes, Sent
  <2>7. QED
    BY <2>1, <2>3, <2>6 DEF Truthful
<1>6. CASE MarkOutbox(p)
  <2>1. /\ at[p] = "mark" /\ status' = status /\ row[p] \in Row /\ outcome[p] \in Outcome
        /\ outbox' = [outbox EXCEPT ![row[p]] = Marked(outcome[p])]
    BY <1>0, <1>6 DEF MarkOutbox, receiver, Looping, PassTypes
  <2>2. Sent(row[p], Marked(outcome[p]))
    BY <1>0, <2>1, MarkedSent
  <2>3. \A r \in Row : Sent(r, outbox'[r])
    <3> TAKE r \in Row
    <3>1. outbox'[r] = IF r = row[p] THEN Marked(outcome[p]) ELSE outbox[r]
      BY <1>0, <2>1
    <3>2. QED
      BY <1>0, <2>2, <3>1
  <2>4. \E l \in {"idle", "advance"} : at' = [at EXCEPT ![p] = l]
    BY <1>6 DEF MarkOutbox, Ends, Goes
  <2>5. \A q \in Passes : at'[q] # "mark"
    BY <1>0, <2>4 DEF PassTypes
  <2>6. QED
    BY <2>1, <2>3, <2>5 DEF Truthful, Sent
<1>7. QED
  BY <1>2, <1>3, <1>4, <1>5, <1>6 DEF PassStep

LEMMA PassSInv ==
    ASSUME NoOverlap, SInv, NEW p \in Passes, PassStep(p) \/ PassRaises(p)
    PROVE  Truthful' /\ AtWork' /\ Behind'
<1>0. /\ status \in [Row -> {"new", "held", "done"}] /\ PassTypes /\ handling = {}
      /\ cursor \in 0..MaxRow /\ MaxRow \in Nat /\ cursor' >= cursor /\ cursor' \in 0..MaxRow
  <2>1. Next
    BY DEF Next
  <2>2. RInv' /\ cursor' >= cursor
    BY <2>1, RInvStep, StepKeepsSettled DEF SInv
  <2>3. QED
    BY <2>2, NoneAtWork, RunnerAssumption DEF SInv, RInv, TypeOK
<1>1. CASE EmitEvent(p) /\ ~UNCHANGED receiver
  <2>1. /\ status' = [status EXCEPT ![row[p]] = "held"] /\ handling' = {row[p]}
        /\ at' = [at EXCEPT ![p] = "waiting"] /\ row' = row /\ cursor' = cursor
        /\ at[p] = "emit"
    BY <1>0, <1>1 DEF EmitEvent, R!Accept, Finds, Goes, registry
  <2>2. row[p] \in Row /\ row[p] = cursor + 1
    BY <2>1 DEF SInv, RInv, Walk, Fits, Looping
  <2>3. AtWork'
    BY <1>0, <2>1, <2>2 DEF AtWork, PassTypes
  <2>4. Behind'
    BY <1>0, <2>1, <2>2 DEF SInv, Behind, Row
  <2>5. QED
    BY <2>3, <2>4, PassTruthful
<1>2. CASE UNCHANGED receiver
  <2>1. AtWork' /\ status' = status
    BY <1>0, <1>2 DEF receiver, AtWork
  <2>2. Behind'
    <3> SUFFICES ASSUME NEW r \in Row, status[r] # "new"
        PROVE  r <= cursor' + 1
      BY <2>1 DEF Behind
    <3>1. r \in 1..MaxRow /\ r <= cursor + 1
      BY DEF SInv, Behind, Row
    <3>2. cursor \in Nat /\ cursor' \in Nat /\ r \in Nat /\ cursor <= cursor'
      BY <1>0, <3>1
    <3>3. \A a, b, c \in Nat : a <= b + 1 /\ b <= c => a <= c + 1
      OBVIOUS
    <3>4. QED
      BY <3>1, <3>2, <3>3
  <2>3. QED
    BY <2>1, <2>2, PassTruthful
<1>3. ~EmitEvent(p) => UNCHANGED receiver
  BY DEF PassStep, PassRaises, BeginPass, CheckCompatibility, ReadEvents, UpsertOutbox,
         GetHandle, MarkOutbox, CompareCursor, WriteCursor
<1>4. QED
  BY <1>1, <1>2, <1>3

LEMMA SInvStep ==
    ASSUME NoOverlap, InTime, SInv, [Next]_vars
    PROVE  SInv'
<1>1. RInv'
  BY RInvStep DEF SInv
<1>2. \A p \in Passes : ~TimesOut(p)
  BY InTime DEF InTime, TimesOut
<1>3. CASE Crash
  <2>1. Truthful' /\ AtWork' /\ Behind'
    BY <1>3 DEF Crash, SInv, Truthful, Sent, AtWork, Behind, registry
  <2>2. QED
    BY <1>1, <2>1 DEF SInv
<1>4. CASE UpstreamAppends \/ OwnerActs \/ ListRaises \/ Reconnect \/ UNCHANGED vars
  <2>1. UNCHANGED <<registry, receiver, passes>>
    BY <1>4 DEF UpstreamAppends, OwnerActs, ListRaises, Reconnect, vars
  <2>2. Truthful' /\ AtWork' /\ Behind'
    BY <2>1 DEF SInv, Truthful, Sent, AtWork, Behind, registry, receiver, passes
  <2>3. QED
    BY <1>1, <2>2 DEF SInv
<1>5. ASSUME NEW r \in Row, ReceiverShows(r) \/ ReceiverFails(r)
      PROVE  SInv'
  BY <1>1, <1>5, ReceiverSInv DEF SInv
<1>6. ASSUME NEW p \in Passes, PassStep(p) \/ PassRaises(p)
      PROVE  SInv'
  BY <1>1, <1>6, PassSInv DEF SInv
<1>7. QED
  BY <1>2, <1>3, <1>4, <1>5, <1>6 DEF Next

LEMMA SInvAlways ==
    ASSUME NoOverlap, InTime
    PROVE  Spec => []SInv
<1>1. SInv /\ [Next]_vars => SInv'
  BY SInvStep
<1>2. QED
  BY <1>1, InitSInv, PTL DEF Spec

LEMMA NoneDropped ==
    ASSUME SInv
    PROVE  TakenOrGivenUp
<1> SUFFICES ASSUME NEW r \in Row, r <= cursor, Verdict[r] = "would_emit"
    PROVE  status[r] # "new" \/ outbox[r] = "error"
  BY DEF TakenOrGivenUp
<1>1. outbox[r] \in TerminalSafe /\ Sent(r, outbox[r])
  BY DEF SInv, RInv, CursorCovered, Truthful
<1>2. QED
  BY <1>1 DEF TerminalSafe, Sent

(* No material row is dropped between its read and its emit: what the       *)
(* cursor has passed was taken on by the receiver or given up as an error,  *)
(* with any faults, lost replies, crashes and changes by the owner.         *)
THEOREM NoRowIsDropped ==
    ASSUME NoOverlap, InTime
    PROVE  Spec => []TakenOrGivenUp
<1>1. SInv => TakenOrGivenUp
  BY NoneDropped
<1>2. QED
  BY <1>1, SInvAlways, PTL

(* The conversation sees the board's rows in their order: a row that is     *)
(* shown has every material row before it shown, given up or lost with the  *)
(* receiver, however often rows are retried.                                *)
THEOREM RowsAreShownInOrder ==
    ASSUME NoOverlap, InTime
    PROVE  Spec => []ShownInOrder
<1>1. ASSUME SInv PROVE ShownInOrder
  <2> SUFFICES ASSUME NEW q \in Row, NEW r \in Row, q < r, Verdict[q] = "would_emit",
                      status[r] = "done"
      PROVE  status[q] = "done" \/ outbox[q] = "error" \/ LostInReceiver(q)
    BY DEF ShownInOrder
  <2>1. cursor \in 0..MaxRow /\ MaxRow \in Nat /\ status \in [Row -> {"new", "held", "done"}]
    BY <1>1, RunnerAssumption DEF SInv, RInv, TypeOK
  <2>2. r <= cursor + 1
    BY <1>1 DEF SInv, Behind
  <2>3. q <= cursor
    BY <2>1, <2>2 DEF Row
  <2>4. status[q] # "new" \/ outbox[q] = "error"
    BY <1>1, <2>3, NoneDropped DEF TakenOrGivenUp
  <2>5. q \notin handling
    <3> SUFFICES ASSUME q \in handling PROVE FALSE
      OBVIOUS
    <3>1. PICK p \in Passes : at[p] = "waiting" /\ row[p] = q
      BY <1>1 DEF SInv, AtWork
    <3>2. q = cursor + 1
      BY <1>1, <3>1 DEF SInv, RInv, Walk, Fits
    <3>3. QED
      BY <2>1, <2>3, <3>2
  <2>6. QED
    BY <2>1, <2>4, <2>5 DEF LostInReceiver
<1>2. SInv => ShownInOrder
  BY <1>1
<1>3. QED
  BY <1>2, SInvAlways, PTL

(* Then the cursor only moves forward: what moves it back is a pass that a  *)
(* disconnect left at work, and nothing else.                               *)
THEOREM CursorMovesForward ==
    ASSUME NoOverlap
    PROVE  Spec => CursorMonotone
<1>1. RInv /\ [Next]_vars => [cursor' >= cursor]_vars
  BY StepKeepsSettled
<1>2. QED
  BY <1>1, RInvAlways, PTL DEF Spec, CursorMonotone

=============================================================================
