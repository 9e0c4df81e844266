--------------------------- MODULE Conversation_proofs ---------------------------
(***************************************************************************)
(* Theorems about Conversation for any events, listeners, handlers, gates   *)
(* and payloads, with failures, crashes and turns at any time: its types,   *)
(* what a workflow's state never does, and that no update of it is lost.    *)
(* Conversation_delivery_proofs goes on with what reaches the agent.        *)
(***************************************************************************)
EXTENDS Conversation, SequenceTheorems, WellFoundedInduction, TLAPS

(* What an event makes of a state is a state.                               *)
LEMMA EvidenceTypes ==
    ASSUME NEW s \in State, NEW e \in Event
    PROVE  MergedEvidence(s, e) \in [Kinds -> Evidence]
<1>1. ASSUME NEW k \in Kinds
      PROVE  MarkStale(s, e)[k] \in Evidence
  <2>1. s.evidence[k] \in Evidence
    BY <1>1 DEF State
  <2>2. [s.evidence[k] EXCEPT !.status = "stale"] \in Evidence
    BY <2>1 DEF Evidence, Status
  <2>3. QED
    BY <1>1, <2>1, <2>2 DEF MarkStale
<1>2. ASSUME NEW k \in Kinds
      PROVE  [status |-> IF StaleIncoming(s, e) THEN "stale" ELSE e.status,
              artifact |-> Or(e.artifact, NoArtifact, s.artifact)] \in Evidence
  BY DEF Evidence, Status, Or, State, Event
<1>3. QED
  BY <1>1, <1>2 DEF MergedEvidence

(* What an event makes of the whole state is a state.                       *)
LEMMA ApplyTypes ==
    ASSUME NEW s \in State, NEW e \in Event
    PROVE  Apply(s, e) \in State
<1>1. NextStage(s, e) \in Stages \cup TerminalStages \cup {""}
  BY DEF NextStage, Or, State, Event
<1>2. NextArtifact(s, e) \in Artifacts \cup {NoArtifact}
  BY DEF NextArtifact, Or, State, Event
<1>3. Or(e.candidate, "none", s.candidate) \in {"none", "forming", "ready"}
  BY DEF Or, State, Event
<1>4. QED
  BY <1>1, <1>2, <1>3, EvidenceTypes DEF Apply, State

(* Evidence that still counts as passed is for the artifact the state is at.*)
LEMMA ApplyCurrent ==
    ASSUME NEW s \in State, NEW e \in Event, Current(s)
    PROVE  Current(Apply(s, e))
<1> SUFFICES ASSUME NEW k \in Staleable, Apply(s, e).evidence[k].status = "passed"
             PROVE  Apply(s, e).evidence[k].artifact \in {NoArtifact, Apply(s, e).artifact}
  BY DEF Current
<1>0. /\ k \in Kinds /\ NoArtifact \notin Artifacts
      /\ s.artifact \in Artifacts \cup {NoArtifact}
      /\ e.artifact \in Artifacts \cup {NoArtifact}
  BY GatesAssumption DEF State, Event
<1>1. /\ Apply(s, e).evidence[k] = MergedEvidence(s, e)[k]
      /\ Apply(s, e).artifact = NextArtifact(s, e)
  BY DEF Apply
<1>2. CASE k = e.kind
  <2>1. /\ MergedEvidence(s, e)[k].status = IF StaleIncoming(s, e) THEN "stale" ELSE e.status
        /\ MergedEvidence(s, e)[k].artifact = Or(e.artifact, NoArtifact, s.artifact)
    BY <1>0, <1>2 DEF MergedEvidence
  <2>2. ~StaleIncoming(s, e)
    BY <1>1, <2>1
  <2>3. QED
    BY <1>1, <2>1, <2>2 DEF NextArtifact
<1>3. CASE k # e.kind
  <2>1. MergedEvidence(s, e)[k] = MarkStale(s, e)[k]
    BY <1>0, <1>3 DEF MergedEvidence
  <2>2. /\ s.evidence[k].status = "passed" /\ ~ArtifactChanges(s, e)
        /\ MarkStale(s, e)[k] = s.evidence[k]
    <3>1. s.evidence[k] \in Evidence
      BY <1>0 DEF State
    <3>2. CASE ArtifactChanges(s, e) /\ s.evidence[k].status = "passed"
      <4>1. MarkStale(s, e)[k] = [s.evidence[k] EXCEPT !.status = "stale"]
        BY <1>0, <3>2 DEF MarkStale
      <4>2. MarkStale(s, e)[k].status = "stale"
        BY <3>1, <4>1 DEF Evidence
      <4>3. QED
        BY <1>1, <2>1, <4>2
    <3>3. CASE ~(ArtifactChanges(s, e) /\ s.evidence[k].status = "passed")
      <4>1. MarkStale(s, e)[k] = s.evidence[k]
        BY <1>0, <3>3 DEF MarkStale
      <4>2. QED
        BY <1>1, <2>1, <3>3, <4>1
    <3>4. QED
      BY <3>2, <3>3
  <2>3. s.evidence[k].artifact \in {NoArtifact, s.artifact}
    BY <2>2 DEF Current
  <2>4. NextArtifact(s, e) = Or(e.artifact, NoArtifact, s.artifact)
    BY <2>2 DEF NextArtifact, StaleIncoming
  <2>5. QED
    BY <1>0, <1>1, <2>1, <2>2, <2>3, <2>4 DEF Or, ArtifactChanges
<1>4. QED
  BY <1>2, <1>3

(* A terminal stage is left for a terminal stage.                           *)
LEMMA ApplyTerminal ==
    ASSUME NEW s, NEW e, s.stage \in TerminalStages
    PROVE  Apply(s, e).stage \in TerminalStages
<1>1. Apply(s, e).stage = NextStage(s, e)
  BY DEF Apply
<1>2. QED
  BY <1>1 DEF NextStage, Sticks

(* Whatever the evidence, a serial policy has one active gate at most, and  *)
(* all gates before it are passed.                                          *)
LEMMA OneGateAtATime ==
    ASSUME NEW s
    PROVE  OneAfterAnother(s)
<1> SUFFICES ASSUME Serial, NEW g \in Active(s), NEW h \in Gates(s) \ {g}
             PROVE  /\ h \notin Active(s)
                    /\ Rank[h] < Rank[g] => GateState(s, h) = "passed"
  BY DEF OneAfterAnother
<1>1. /\ g \in Gates(s) /\ h \in Gates(s) /\ g \in Kinds /\ h \in Kinds
      /\ GateState(s, g) \in {"pending", "failed", "stale"}
  BY GatesAssumption DEF Active, Gates
<1>2. Rank[g] \in Nat /\ Rank[h] \in Nat /\ Rank[g] # Rank[h]
  BY <1>1, GatesAssumption
<1>3. ~Behind(s, g) /\ GateState(s, g) = OwnState(s, g)
  BY <1>1 DEF GateState
<1>4. CASE Rank[h] < Rank[g]
  <2>1. OwnState(s, h) = "passed"
    BY <1>1, <1>3, <1>4 DEF Behind
  <2>2. s.evidence[h].status = "passed"
    BY <2>1 DEF OwnState
  <2>3. GateState(s, h) = "passed"
    BY <2>1, <2>2 DEF GateState
  <2>4. QED
    BY <2>3 DEF Active
<1>5. CASE Rank[g] < Rank[h]
  <2>1. Behind(s, h)
    BY <1>1, <1>3, <1>5 DEF Behind
  <2>2. GateState(s, h) \in {"passed", "deferred_serial_gate"}
    BY <2>1 DEF GateState
  <2>3. QED
    BY <1>2, <1>5, <2>2 DEF Active
<1>6. QED
  BY <1>2, <1>4, <1>5

-----------------------------------------------------------------------------
(* The types of what a request at work knows.                               *)
LEMMA ListenerTypes ==
    ASSUME TypeOK, NEW h \in Handlers, at[h] # "idle"
    PROVE  /\ ev[h] \in Events /\ Of(h) \in Listeners
           /\ brought[ev[h]] \in Payload /\ Workflow(ev[h]) \in Event
BY ConversationAssumption DEF TypeOK, Of, Workflow, Payload

(* The types hold initially.                                                *)
LEMMA InitTypes == Init => TypeOK
<1>1. NoWorkflow \in Event
  BY DEF NoWorkflow, Event, Status
<1>2. NoPayload \in Payload
  BY <1>1 DEF NoPayload, Payload, Stage
<1>3. NoState \in State
  BY DEF NoState, State, NoEvidence, Evidence
<1>4. None \notin Handlers
  BY ConversationAssumption
<1>5. <<>> \in Seq(Events)
  OBVIOUS
<1>6. Init => /\ recorded \in [Listeners -> Seq(Events)]
              /\ queue \in [Listeners -> Seq(Events)]
  BY <1>5 DEF Init
<1>7. QED
  BY <1>2, <1>3, <1>4, <1>5, <1>6 DEF Init, TypeOK, Label

(* The session's turns and messages.                                        *)
LEMMA HandTypes ==
    ASSUME turn \in BOOLEAN, pending \in Seq(Events), shown \in Seq(Events),
           NEW message \in Seq(Events), NEW active \in BOOLEAN, Hand(message, active)
    PROVE  turn' \in BOOLEAN /\ pending' \in Seq(Events) /\ shown' \in Seq(Events)
<1>1. pending \o message \in Seq(Events) /\ shown \o message \in Seq(Events)
  OBVIOUS
<1>2. CASE MergePending(message)
  BY <1>1, <1>2 DEF MergePending
<1>3. CASE HandleMessage(message) /\ turn
  BY <1>1, <1>3 DEF HandleMessage
<1>4. CASE HandleMessage(message) /\ ~turn
  BY <1>1, <1>4 DEF HandleMessage
<1>5. QED
  BY <1>2, <1>3, <1>4 DEF Hand

(* The front of a queue, and what is behind it.                             *)
LEMMA SplitTypes ==
    ASSUME NEW s \in Seq(Events), NEW n \in 1..Len(s)
    PROVE  SubSeq(s, 1, n) \in Seq(Events) /\ SubSeq(s, n + 1, Len(s)) \in Seq(Events)
<1>1. Len(s) \in Nat /\ \A i \in 1..Len(s) : s[i] \in Events
  OBVIOUS
<1>2. n \in Nat /\ n <= Len(s)
  BY <1>1
<1>3. QED
  BY <1>1, <1>2, SubSeqProperties

(* What a request does up to its dispatch, or its place in a queue, keeps   *)
(* the types.                                                               *)
LEMMA RequestTypes ==
    ASSUME TypeOK, NEW h \in Handlers,
           \/ \E e \in Events : GetHandle(h, e)
           \/ Refuse(h) \/ MarkSeen(h) \/ ResolveRaises(h) \/ QueueEvent(h)
    PROVE  TypeOK'
<1>1. ASSUME NEW e \in Events, GetHandle(h, e)
      PROVE  TypeOK'
  BY <1>1 DEF GetHandle, TypeOK, Goes, Label, session, workflow
<1>2. CASE Refuse(h)
  BY <1>2 DEF Refuse, Ends, TypeOK, Goes, Label, session, workflow
<1>3. CASE MarkSeen(h)
  <2>1. ev[h] \in Events /\ Of(h) \in Listeners
    BY <1>3, ListenerTypes DEF MarkSeen, TypeOK
  <2>2. \A p \in Payloads[Of(h)] : p \in Payload
    BY <2>1, ConversationAssumption
  <2>3. brought' \in [Events -> Payload] /\ seen' \subseteq Events
    BY <1>3, <2>1, <2>2 DEF MarkSeen, TypeOK
  <2>4. QED
    BY <1>3, <2>3 DEF MarkSeen, TypeOK, Goes, Label, session, workflow
<1>4. CASE ResolveRaises(h)
  <2>1. failed' \subseteq Events
    BY <1>4, ListenerTypes DEF ResolveRaises, TypeOK
  <2>2. QED
    BY <1>4, <2>1 DEF ResolveRaises, Ends, TypeOK, Goes, Label, session
<1>5. CASE QueueEvent(h)
  <2>1. queue' \in [Listeners -> Seq(Events)]
    BY <1>5, ListenerTypes DEF QueueEvent, TypeOK
  <2>2. QED
    BY <1>5, <2>1 DEF QueueEvent, TypeOK, Goes, Label, session, workflow
<1>6. QED
  BY <1>1, <1>2, <1>3, <1>4, <1>5

(* So does what dispatch_event may come to.                                 *)
LEMMA DispatchTypes ==
    ASSUME TypeOK, NEW h \in Handlers,
           \/ DispatchRaises(h) \/ DirectSend(h) \/ Dispatch(h) \/ DeliverAfterAck(h)
           \/ ForgetSeen(h)
    PROVE  TypeOK'
<1>1. CASE DispatchRaises(h)
  BY <1>1 DEF DispatchRaises, TypeOK, Goes, Label, session, workflow
<1>2. CASE DirectSend(h)
  <2>1. shown' \in Seq(Events)
    BY <1>2, ListenerTypes DEF DirectSend, TypeOK
  <2>2. QED
    BY <1>2, <2>1 DEF DirectSend, TypeOK, Goes, Label, workflow
<1>3. CASE Dispatch(h)
  <2>0. <<ev[h]>> \in Seq(Events)
    BY <1>3, ListenerTypes DEF Dispatch
  <2>1. turn' \in BOOLEAN /\ pending' \in Seq(Events) /\ shown' \in Seq(Events)
    BY <1>3, <2>0, HandTypes DEF Dispatch, Deliver, TypeOK, session
  <2>2. /\ at' = [at EXCEPT ![h] = "deliver"] \/ at' = [at EXCEPT ![h] = "record"]
        /\ at[h] = "dispatch" /\ saw' \in [Handlers -> BOOLEAN]
    BY <1>3 DEF Dispatch, Deliver, Goes, TypeOK
  <2>3. QED
    BY <1>3, <2>1, <2>2 DEF Dispatch, TypeOK, Label, workflow
<1>4. CASE DeliverAfterAck(h)
  <2>0. <<ev[h]>> \in Seq(Events) /\ saw[h] \in BOOLEAN
    BY <1>4, ListenerTypes DEF DeliverAfterAck, TypeOK
  <2>1. turn' \in BOOLEAN /\ pending' \in Seq(Events) /\ shown' \in Seq(Events)
    BY <1>4, <2>0, HandTypes DEF DeliverAfterAck, Deliver, TypeOK
  <2>2. QED
    BY <1>4, <2>1 DEF DeliverAfterAck, Deliver, TypeOK, Goes, Label, workflow
<1>5. CASE ForgetSeen(h)
  BY <1>5 DEF ForgetSeen, Ends, TypeOK, Goes, Label, session, workflow
<1>6. QED
  BY <1>1, <1>2, <1>3, <1>4, <1>5

(* So does the recording of the workflow's state.                           *)
LEMMA RecordingTypes ==
    ASSUME TypeOK, NEW h \in Handlers,
           BeginImmediate(h) \/ WriteRow(h) \/ NothingToRecord(h) \/ RecordingFails(h)
    PROVE  TypeOK'
<1>0. None \notin Handlers /\ NoState \in State
  BY ConversationAssumption DEF NoState, State, NoEvidence, Evidence
<1>1. CASE BeginImmediate(h)
  <2>1. copy' \in [Handlers -> State]
    BY <1>1, ListenerTypes DEF BeginImmediate, TypeOK
  <2>2. QED
    BY <1>0, <1>1, <2>1 DEF BeginImmediate, TypeOK, Goes, Label, session
<1>2. CASE WriteRow(h)
  <2>1. row' \in [Listeners -> State]
    BY <1>2, ListenerTypes, ApplyTypes DEF WriteRow, TypeOK
  <2>2. recorded' \in [Listeners -> Seq(Events)]
    BY <1>2, ListenerTypes DEF WriteRow, TypeOK
  <2>3. \A g \in Handlers : at'[g] = "write" <=> writer' = g
    BY <1>0, <1>2 DEF WriteRow, TypeOK, Goes
  <2>4. QED
    BY <1>0, <1>2, <2>1, <2>2, <2>3 DEF WriteRow, TypeOK, Goes, Label, session
<1>3. CASE NothingToRecord(h)
  BY <1>3 DEF NothingToRecord, TypeOK, Goes, Label, session, workflow
<1>4. CASE RecordingFails(h)
  <2>1. failed' \subseteq Events
    BY <1>4, ListenerTypes DEF RecordingFails, TypeOK
  <2>2. \A g \in Handlers : at'[g] = "write" <=> writer' = g
    BY <1>0, <1>4 DEF RecordingFails, TypeOK, Goes
  <2>3. QED
    BY <1>0, <1>4, <2>1, <2>2 DEF RecordingFails, TypeOK, Goes, Label, session
<1>5. QED
  BY <1>1, <1>2, <1>3, <1>4

(* So does the end of a request.                                            *)
LEMMA EndTypes ==
    ASSUME TypeOK, NEW h \in Handlers, Lifecycle(h) \/ LogEvent(h) \/ ReplyFails(h)
    PROVE  TypeOK'
<1>1. CASE Lifecycle(h)
  BY <1>1 DEF Lifecycle, TypeOK, Goes, Label, session, workflow
<1>2. CASE LogEvent(h)
  <2>1. ended' \subseteq Listeners /\ at[h] # "write"
    BY <1>2, ListenerTypes DEF LogEvent, TypeOK
  <2>2. QED
    BY <1>2, <2>1 DEF LogEvent, Ends, TypeOK, Goes, Label, session, workflow
<1>3. CASE ReplyFails(h)
  <2>1. failed' \subseteq Events /\ at[h] # "write"
    BY <1>3, ListenerTypes DEF ReplyFails, TypeOK
  <2>2. QED
    BY <1>3, <2>1 DEF ReplyFails, Ends, TypeOK, Goes, Label, session
<1>4. QED
  BY <1>1, <1>2, <1>3

(* So does the end of a digest, shown or not.                               *)
LEMMA DigestTypes ==
    ASSUME TypeOK, NEW l \in Listeners, FlushDigest(l) \/ GiveUp(l)
    PROVE  TypeOK'
<1>0. queue \in [Listeners -> Seq(Events)] /\ queue[l] \in Seq(Events)
  BY DEF TypeOK
<1>1. ASSUME NEW n \in 1..Len(queue[l]),
             queue' = [queue EXCEPT ![l] = SubSeq(@, n + 1, Len(@))]
      PROVE  queue' \in [Listeners -> Seq(Events)]
  <2>1. SubSeq(queue[l], n + 1, Len(queue[l])) \in Seq(Events)
    BY <1>0, SplitTypes
  <2>2. QED
    BY <1>0, <1>1, <2>1
<1>2. CASE FlushDigest(l)
  <2>1. PICK n \in 1..Len(queue[l]) :
           /\ \E active \in IF Acks(l) THEN BOOLEAN ELSE {turn} :
                 Hand(SubSeq(queue[l], 1, n), active)
           /\ queue' = [queue EXCEPT ![l] = SubSeq(@, n + 1, Len(@))]
    BY <1>2 DEF FlushDigest
  <2>2. turn' \in BOOLEAN /\ pending' \in Seq(Events) /\ shown' \in Seq(Events)
    <3>1. SubSeq(queue[l], 1, n) \in Seq(Events)
      BY <1>0, SplitTypes
    <3>2. PICK active \in BOOLEAN : Hand(SubSeq(queue[l], 1, n), active)
      BY <2>1 DEF TypeOK
    <3>3. QED
      BY <3>1, <3>2, HandTypes DEF TypeOK
  <2>3. queue' \in [Listeners -> Seq(Events)]
    BY <1>1, <2>1
  <2>4. QED
    BY <1>2, <2>2, <2>3 DEF FlushDigest, TypeOK, handlers, workflow
<1>3. CASE GiveUp(l)
  <2>1. PICK n \in 1..Len(queue[l]) : \E m \in 0..n :
           /\ queue' = [queue EXCEPT ![l] = SubSeq(@, n + 1, Len(@))]
           /\ seen' = seen \ {queue[l][i] : i \in 1..m}
           /\ failed' = failed \cup {queue[l][i] : i \in m + 1..n}
    BY <1>3 DEF GiveUp
  <2>2. queue' \in [Listeners -> Seq(Events)]
    BY <1>1, <2>1
  <2>3. seen' \subseteq Events /\ failed' \subseteq Events
    <3>1. PICK m \in 0..n : /\ seen' = seen \ {queue[l][i] : i \in 1..m}
                           /\ failed' = failed \cup {queue[l][i] : i \in m + 1..n}
      BY <2>1
    <3>2. Len(queue[l]) \in Nat /\ \A i \in m + 1..n : i \in 1..Len(queue[l])
      BY <1>0
    <3>3. \A i \in m + 1..n : queue[l][i] \in Events
      BY <1>0, <3>2
    <3>4. QED
      BY <3>1, <3>3 DEF TypeOK
  <2>4. QED
    BY <1>3, <2>2, <2>3 DEF GiveUp, TypeOK, handlers, session
<1>4. QED
  BY <1>2, <1>3

(* So do the session's turns and a crash.                                   *)
LEMMA SessionTypes ==
    ASSUME TypeOK, UserTurn \/ TurnEnds \/ Crash
    PROVE  TypeOK'
<1>1. CASE UserTurn
  BY <1>1 DEF UserTurn, TypeOK, handlers, workflow
<1>2. CASE TurnEnds
  <2>1. turn' \in BOOLEAN /\ pending' \in Seq(Events) /\ shown' \in Seq(Events)
    BY <1>2 DEF TurnEnds, TypeOK
  <2>2. QED
    BY <1>2, <2>1 DEF TurnEnds, TypeOK, handlers, workflow
<1>3. CASE Crash
  <2>1. NoState \in State /\ None \notin Handlers
    BY ConversationAssumption DEF NoState, State, NoEvidence, Evidence
  <2>2. \A i \in DOMAIN pending : pending[i] \in Events
    BY DEF TypeOK
  <2>3. failed' \subseteq Events
    <3>1. \A h \in Handlers : AtWork(h) => ev[h] \in Events
      BY DEF TypeOK, AtWork
    <3>2. QED
      BY <1>3, <2>2, <3>1 DEF Crash, TypeOK
  <2>4. pending' \in Seq(Events) /\ queue' \in [Listeners -> Seq(Events)]
    <3>1. <<>> \in Seq(Events)
      OBVIOUS
    <3>2. QED
      BY <1>3, <3>1 DEF Crash
  <2>5. QED
    BY <1>3, <2>1, <2>3, <2>4 DEF Crash, TypeOK, Label
<1>4. QED
  BY <1>1, <1>2, <1>3

(* Every step keeps the types.                                              *)
LEMMA StepTypes == TypeOK /\ [Next]_vars => TypeOK'
<1> SUFFICES ASSUME TypeOK, [Next]_vars
             PROVE  TypeOK'
  OBVIOUS
<1>1. CASE Next
  BY <1>1, RequestTypes, DispatchTypes, RecordingTypes, EndTypes, DigestTypes, SessionTypes
     DEF Next, Progress
<1>2. CASE UNCHANGED vars
  BY <1>2 DEF vars, handlers, session, workflow, budget, TypeOK
<1>3. QED
  BY <1>1, <1>2

(* The type invariant: in particular the one handler that is inside the     *)
(* write transaction is the one that holds its lock.                        *)
THEOREM TypesHold == Spec => []TypeOK
BY InitTypes, StepTypes, PTL DEF Spec

-----------------------------------------------------------------------------
(* The handler in the transaction has read the row as it is.                *)
Unchanged == \A h \in Handlers : at[h] = "write" => copy[h] = row[Of(h)]

RowInv == TypeOK /\ Unchanged /\ PassedIsCurrent

(* What a step may do to the rows: nothing, or apply one event to one.      *)
Applied ==
    \/ row' = row
    \/ \E l \in Listeners, e \in Event : row' = [row EXCEPT ![l] = Apply(row[l], e)]

(* A step changes a row by what one event makes of it, if at all.           *)
LEMMA StepApplies ==
    ASSUME TypeOK, Unchanged, [Next]_vars
    PROVE  Applied
<1>1. ASSUME NEW h \in Handlers, WriteRow(h)
      PROVE  Applied
  <2>1. /\ Of(h) \in Listeners /\ Workflow(ev[h]) \in Event /\ copy[h] = row[Of(h)]
        /\ row' = [row EXCEPT ![Of(h)] = Apply(copy[h], Workflow(ev[h]))]
    BY <1>1, ListenerTypes DEF WriteRow, Unchanged
  <2>2. QED
    BY <2>1 DEF Applied
<1>2. ASSUME NEW h \in Handlers,
             \/ \E e \in Events : GetHandle(h, e)
             \/ Refuse(h) \/ MarkSeen(h) \/ ResolveRaises(h) \/ QueueEvent(h)
      PROVE  row' = row
  BY <1>2 DEF GetHandle, Refuse, MarkSeen, ResolveRaises, QueueEvent, workflow
<1>3. ASSUME NEW h \in Handlers,
             \/ DispatchRaises(h) \/ DirectSend(h) \/ Dispatch(h) \/ DeliverAfterAck(h)
             \/ ForgetSeen(h) \/ BeginImmediate(h) \/ NothingToRecord(h)
             \/ RecordingFails(h) \/ Lifecycle(h) \/ LogEvent(h) \/ ReplyFails(h)
      PROVE  row' = row
  BY <1>3 DEF DispatchRaises, DirectSend, Dispatch, DeliverAfterAck, ForgetSeen,
              BeginImmediate, NothingToRecord, RecordingFails, Lifecycle, LogEvent,
              ReplyFails, workflow
<1>4. ASSUME \/ \E l \in Listeners : FlushDigest(l) \/ GiveUp(l)
             \/ UserTurn \/ TurnEnds \/ Crash
      PROVE  row' = row
  BY <1>4 DEF FlushDigest, GiveUp, UserTurn, TurnEnds, Crash, workflow
<1>5. ASSUME UNCHANGED vars
      PROVE  row' = row
  BY <1>5 DEF vars, workflow
<1>6. QED
  BY <1>1, <1>2, <1>3, <1>4, <1>5 DEF Next, Progress, Applied

(* Only one handler is inside the transaction, so that nobody changes the   *)
(* row another one has read.                                                *)
LEMMA StepUnchanged ==
    ASSUME TypeOK, Unchanged, [Next]_vars
    PROVE  Unchanged'
<1>0. None \notin Handlers
  BY ConversationAssumption
<1> DEFINE Kept == \A h \in Handlers : at'[h] = "write" =>
                       at[h] = "write" /\ copy'[h] = copy[h] /\ ev'[h] = ev[h]
<1>1. ASSUME Kept, row' = row
      PROVE  Unchanged'
  BY <1>1 DEF Unchanged, Of
<1>2. ASSUME NEW h \in Handlers, BeginImmediate(h)
      PROVE  Unchanged'
  <2>1. \A g \in Handlers : at[g] # "write"
    BY <1>0, <1>2 DEF BeginImmediate, TypeOK
  <2>2. copy'[h] = row[Of(h)] /\ row' = row /\ ev' = ev
    BY <1>2 DEF BeginImmediate, TypeOK
  <2>3. \A g \in Handlers : at'[g] = "write" => g = h
    BY <1>2, <2>1 DEF BeginImmediate, TypeOK, Goes
  <2>4. QED
    BY <2>2, <2>3 DEF Unchanged, Of
<1>3. ASSUME NEW h \in Handlers, WriteRow(h)
      PROVE  Unchanged'
  <2>1. \A g \in Handlers : at'[g] # "write"
    BY <1>3 DEF WriteRow, TypeOK, Goes
  <2>2. QED
    BY <2>1 DEF Unchanged
<1>4. ASSUME NEW h \in Handlers,
             \/ \E e \in Events : GetHandle(h, e)
             \/ Refuse(h) \/ MarkSeen(h) \/ ResolveRaises(h) \/ QueueEvent(h)
      PROVE  Kept /\ row' = row
  BY <1>4 DEF GetHandle, Refuse, MarkSeen, ResolveRaises, QueueEvent, TypeOK, Goes, Ends,
              workflow
<1>5. ASSUME NEW h \in Handlers,
             DispatchRaises(h) \/ DirectSend(h) \/ DeliverAfterAck(h) \/ ForgetSeen(h)
      PROVE  Kept /\ row' = row
  BY <1>5 DEF DispatchRaises, DirectSend, Deliver, DeliverAfterAck, ForgetSeen,
              TypeOK, Goes, Ends, workflow
<1>6. ASSUME NEW h \in Handlers, Dispatch(h)
      PROVE  Kept /\ row' = row
  BY <1>6 DEF Dispatch, Deliver, TypeOK, Goes, workflow
<1>7. ASSUME NEW h \in Handlers,
             NothingToRecord(h) \/ Lifecycle(h) \/ LogEvent(h) \/ ReplyFails(h)
      PROVE  Kept /\ row' = row
  BY <1>7 DEF NothingToRecord, Lifecycle, LogEvent, ReplyFails, TypeOK, Goes, Ends,
              workflow
<1>8. ASSUME NEW h \in Handlers, RecordingFails(h)
      PROVE  Kept /\ row' = row
  BY <1>8 DEF RecordingFails, TypeOK, Goes
<1>9. ASSUME \/ \E l \in Listeners : FlushDigest(l) \/ GiveUp(l)
             \/ UserTurn \/ TurnEnds \/ Crash
      PROVE  Kept /\ row' = row
  BY <1>9 DEF FlushDigest, GiveUp, UserTurn, TurnEnds, Crash, TypeOK, handlers, workflow
<1>10. ASSUME UNCHANGED vars
       PROVE  Kept /\ row' = row
  BY <1>10 DEF vars, handlers, workflow
<1>11. QED
  BY <1>1, <1>2, <1>3, <1>4, <1>5, <1>6, <1>7, <1>8, <1>9, <1>10 DEF Next, Progress

(* No step leaves evidence as passed that is for another artifact.          *)
LEMMA StepCurrent ==
    ASSUME TypeOK, Unchanged, PassedIsCurrent, [Next]_vars
    PROVE  PassedIsCurrent'
<1>1. CASE row' = row
  BY <1>1 DEF PassedIsCurrent
<1>2. ASSUME NEW l \in Listeners, NEW e \in Event,
             row' = [row EXCEPT ![l] = Apply(row[l], e)]
      PROVE  PassedIsCurrent'
  <2>1. Current(Apply(row[l], e))
    BY ApplyCurrent DEF PassedIsCurrent, TypeOK
  <2>2. \A k \in Listeners : row'[k] = row[k] \/ row'[k] = Apply(row[l], e)
    BY <1>2 DEF TypeOK
  <2>3. QED
    BY <2>1, <2>2 DEF PassedIsCurrent
<1>3. QED
  BY <1>1, <1>2, StepApplies DEF Applied

(* What is said of rows holds initially.                                    *)
LEMMA InitRows == Init => RowInv
<1>1. Current(NoState)
  BY GatesAssumption DEF Current, NoState, NoEvidence
<1>2. QED
  BY <1>1, InitTypes DEF Init, RowInv, Unchanged, PassedIsCurrent

(* And it holds in every reachable state.                                   *)
LEMMA RowInvAlways == Spec => []RowInv
<1>1. RowInv /\ [Next]_vars => RowInv'
  BY StepTypes, StepUnchanged, StepCurrent DEF RowInv
<1>2. QED
  BY <1>1, InitRows, PTL DEF Spec

(* Evidence that counts as passed is evidence for the artifact its workflow *)
(* is at, in whatever order reviews and artifacts arrive and however many   *)
(* handlers record them at once.                                            *)
THEOREM PassedStaysCurrent == Spec => []PassedIsCurrent
<1>1. RowInv => PassedIsCurrent
  BY DEF RowInv
<1>2. QED
  BY <1>1, RowInvAlways, PTL

(* No event reopens a workflow that was released or cancelled.              *)
THEOREM TerminalStays == Spec => TerminalSticks
<1>1. RowInv /\ [Next]_vars
        => [\A l \in Listeners : row[l].stage \in TerminalStages
                                 => row'[l].stage \in TerminalStages]_vars
  <2> SUFFICES ASSUME RowInv, [Next]_vars, NEW l \in Listeners,
                      row[l].stage \in TerminalStages
               PROVE  row'[l].stage \in TerminalStages
    OBVIOUS
  <2>1. Applied /\ row \in [Listeners -> State]
    BY StepApplies DEF RowInv, TypeOK
  <2>2. row'[l] = row[l] \/ \E e \in Event : row'[l] = Apply(row[l], e)
    BY <2>1 DEF Applied
  <2>3. QED
    BY <2>2, ApplyTerminal
<1>2. QED
  BY <1>1, RowInvAlways, PTL DEF Spec, TerminalSticks

(* In serial mode one gate at most is active, and all gates before it are   *)
(* passed, whatever evidence came and in whatever order.                    *)
THEOREM GatesOpenInOrder == Spec => []SerialGates
<1>1. SerialGates
  BY OneGateAtATime DEF SerialGates
<1>2. QED
  BY <1>1, PTL

-----------------------------------------------------------------------------
(* No update of a workflow is lost: its row is what the recorded events     *)
(* make of it one after another.                                            *)

(* A nonempty set of naturals has a least element.                          *)
LEMMA LeastNumber ==
    ASSUME NEW S \in SUBSET Nat, S # {}
    PROVE  \E n \in S : \A m \in S : n <= m
<1> DEFINE R == OpToRel(<, Nat)
<1>1. IsWellFoundedOn(R, Nat)
  BY NatLessThanWellFounded, Zenon
<1>2. \E n \in S : \A m \in S : ~(<<m, n>> \in R)
  BY <1>1, WFMin, Zenon
<1>3. \A m, n \in Nat : m < n => <<m, n>> \in R
  BY Zenon DEF OpToRel
<1> HIDE DEF R
<1>4. PICK n \in S : \A m \in S : ~(<<m, n>> \in R)
  BY <1>2, Zenon
<1>5. ASSUME NEW m \in S PROVE n <= m
  <2>1. m \in Nat /\ n \in Nat
    OBVIOUS
  <2>2. ~(m < n)
    BY <1>3, <1>4, <2>1, Zenon
  <2>3. QED
    BY <2>1, <2>2, SMT
<1>6. QED
  BY <1>5

(* f tells, for each number up to n, what so many events of s make, if b    *)
(* says what they brought.                                                  *)
Making(f, n, s, b) ==
    f = [m \in 0..n |-> IF m = 0 THEN NoState
                        ELSE Apply(f[m - 1], b[s[m]].workflow)]

(* One event more makes one step more.                                      *)
LEMMA MakingMore ==
    ASSUME NEW n \in Nat, NEW s, NEW t, NEW b, NEW f, Making(f, n, s, b),
           Len(t) = n + 1, \A i \in 1..n : t[i] = s[i]
    PROVE  \E g : Making(g, n + 1, t, b) /\ g[n] = f[n]
<1> DEFINE last == Apply(f[n], b[t[n + 1]].workflow)
           g == [k \in 0..n + 1 |-> IF k = n + 1 THEN last ELSE f[k]]
<1>1. f = [m \in 0..n |-> IF m = 0 THEN NoState
                          ELSE Apply(f[m - 1], b[s[m]].workflow)]
  BY DEF Making
<1>2. \A k \in 0..n : f[k] = IF k = 0 THEN NoState ELSE Apply(f[k - 1], b[s[k]].workflow)
  BY <1>1, Zenon
<1>3. \A k \in 0..n + 1 :
         g[k] = IF k = 0 THEN NoState ELSE Apply(g[k - 1], b[t[k]].workflow)
  <2> TAKE k \in 0..n + 1
  <2>1. CASE k = n + 1
    <3>1. k # 0 /\ k - 1 = n /\ k - 1 \in 0..n + 1 /\ k - 1 # n + 1
      BY <2>1
    <3>2. g[k] = last /\ g[k - 1] = f[n]
      BY <2>1, <3>1
    <3>3. QED
      BY <2>1, <3>1, <3>2
  <2>2. CASE k # n + 1
    <3>1. k \in 0..n /\ (k # 0 => k \in 1..n /\ k - 1 \in 0..n + 1 /\ k - 1 # n + 1)
      BY <2>2
    <3>2. g[k] = f[k] /\ (k # 0 => g[k - 1] = f[k - 1] /\ t[k] = s[k])
      BY <2>2, <3>1
    <3>3. QED
      BY <1>2, <3>1, <3>2
  <2>3. QED
    BY <2>1, <2>2
<1>4. g[n] = f[n] /\ DOMAIN g = 0..n + 1 /\ g = [k \in 0..n + 1 |-> g[k]]
  OBVIOUS
<1> HIDE DEF g
<1>5. Making(g, n + 1, t, b)
  BY <1>3, <1>4 DEF Making
<1>6. QED
  BY <1>4, <1>5

LEMMA MakingLast ==
    ASSUME NEW n \in Nat, NEW s, NEW b, NEW f, Making(f, n + 1, s, b)
    PROVE  f[n + 1] = Apply(f[n], b[s[n + 1]].workflow)
<1>1. n + 1 \in 0..n + 1 /\ n + 1 # 0 /\ (n + 1) - 1 = n
  OBVIOUS
<1>2. f[n + 1] = IF n + 1 = 0 THEN NoState ELSE Apply(f[(n + 1) - 1], b[s[n + 1]].workflow)
  BY <1>1, Zenon DEF Making
<1>3. QED
  BY <1>1, <1>2

(* Only what the recorded events brought matters.                           *)
LEMMA MakingSame ==
    ASSUME NEW n \in Nat, NEW s, NEW b, NEW c, NEW f, Making(f, n, s, b),
           \A i \in 1..n : c[s[i]] = b[s[i]]
    PROVE  Making(f, n, s, c)
<1>1. f = [m \in 0..n |-> IF m = 0 THEN NoState
                          ELSE Apply(f[m - 1], b[s[m]].workflow)]
  BY DEF Making
<1>2. \A m \in 0..n : (IF m = 0 THEN NoState ELSE Apply(f[m - 1], b[s[m]].workflow))
                    = (IF m = 0 THEN NoState ELSE Apply(f[m - 1], c[s[m]].workflow))
  OBVIOUS
<1>3. QED
  BY <1>1, <1>2 DEF Making

LEMMA MakingUnique ==
    ASSUME NEW n \in Nat, NEW s, NEW b,
           NEW f, Making(f, n, s, b), NEW g, Making(g, n, s, b)
    PROVE  f[n] = g[n]
<1> DEFINE Bad == {k \in 0..n : f[k] # g[k]}
<1> SUFFICES ASSUME Bad # {} PROVE FALSE
  OBVIOUS
<1>1. Bad \in SUBSET Nat
  OBVIOUS
<1>2. PICK k \in Bad : \A j \in Bad : k <= j
  BY <1>1, LeastNumber
<1>3. /\ f = [m \in 0..n |-> IF m = 0 THEN NoState
                             ELSE Apply(f[m - 1], b[s[m]].workflow)]
      /\ g = [m \in 0..n |-> IF m = 0 THEN NoState
                             ELSE Apply(g[m - 1], b[s[m]].workflow)]
  BY DEF Making
<1>4. k \in 0..n
  OBVIOUS
<1>5. /\ f[k] = IF k = 0 THEN NoState ELSE Apply(f[k - 1], b[s[k]].workflow)
      /\ g[k] = IF k = 0 THEN NoState ELSE Apply(g[k - 1], b[s[k]].workflow)
  BY <1>3, <1>4, Zenon
<1>6. k # 0
  BY <1>2, <1>5
<1>7. k - 1 \in 0..n /\ k - 1 \notin Bad
  BY <1>2, <1>6
<1>8. QED
  BY <1>2, <1>5, <1>6, <1>7

(* Every row is made of what was recorded, and of nothing that brought no   *)
(* workflow: what a recorded event brought cannot change any more.          *)
Made ==
    \A l \in Listeners :
       \E f : /\ Making(f, Len(recorded[l]), recorded[l], brought)
              /\ row[l] = f[Len(recorded[l])]

Meant ==
    /\ \A h \in Handlers : at[h] = "write" => Workflow(ev[h]) # NoWorkflow
    /\ \A l \in Listeners : \A i \in 1..Len(recorded[l]) :
          Workflow(recorded[l][i]) # NoWorkflow

MadeInv == TypeOK /\ Unchanged /\ Meant /\ Made

LEMMA MadeIsNotOverwritten ==
    ASSUME TypeOK, Made
    PROVE  NothingOverwritten
<1> SUFFICES ASSUME NEW l \in Listeners
    PROVE  LET after[n \in 0..Len(recorded[l])] ==
                   IF n = 0 THEN NoState
                   ELSE Apply(after[n - 1], Workflow(recorded[l][n]))
           IN  row[l] = after[Len(recorded[l])]
  BY DEF NothingOverwritten
<1> DEFINE s == recorded[l]
           after[n \in 0..Len(s)] ==
              IF n = 0 THEN NoState ELSE Apply(after[n - 1], brought[s[n]].workflow)
<1>1. Len(s) \in Nat
  BY DEF TypeOK
<1>2. PICK f : Making(f, Len(s), s, brought) /\ row[l] = f[Len(s)]
  BY DEF Made
<1>3. f = [n \in 0..Len(s) |-> IF n = 0 THEN NoState
                               ELSE Apply(f[n - 1], brought[s[n]].workflow)]
  BY <1>2 DEF Making
<1>4. after = [n \in 0..Len(s) |-> IF n = 0 THEN NoState
                                   ELSE Apply(after[n - 1], brought[s[n]].workflow)]
  BY <1>3
<1> HIDE DEF after
<1>5. Making(after, Len(s), s, brought)
  BY <1>4 DEF Making
<1>6. row[l] = after[Len(s)]
  BY <1>1, <1>2, <1>5, MakingUnique
<1>7. QED
  BY <1>6 DEF after, Workflow

(* A step that records nothing and brings nothing.                          *)
Quiet ==
    /\ UNCHANGED <<row, recorded, brought>>
    /\ \A h \in Handlers : at'[h] = "write" =>
          Workflow(ev'[h]) # NoWorkflow \/ (at[h] = "write" /\ ev'[h] = ev[h])

LEMMA QuietKeeps ==
    ASSUME MadeInv, Quiet
    PROVE  Meant' /\ Made'
<1>1. \A e : Workflow(e)' = Workflow(e)
  BY DEF Quiet, Workflow
<1>2. Meant'
  BY <1>1 DEF MadeInv, Meant, Quiet, Workflow
<1>3. Made'
  BY DEF MadeInv, Made, Quiet
<1>4. QED
  BY <1>2, <1>3

LEMMA MostStepsQuiet ==
    ASSUME MadeInv, [Next]_vars, \A h \in Handlers : ~WriteRow(h) /\ ~MarkSeen(h)
    PROVE  Quiet
<1> USE DEF MadeInv, TypeOK, Goes, Ends
<1>1. ASSUME NEW h \in Handlers, BeginImmediate(h)
      PROVE  Quiet
  BY <1>1 DEF BeginImmediate, Quiet, Workflow
<1>2. ASSUME NEW h \in Handlers,
             DispatchRaises(h) \/ DirectSend(h) \/ DeliverAfterAck(h) \/ ForgetSeen(h)
      PROVE  Quiet
  BY <1>2 DEF DispatchRaises, DirectSend, Deliver, DeliverAfterAck, ForgetSeen, workflow,
              Quiet
<1>3. ASSUME NEW h \in Handlers, Dispatch(h)
      PROVE  Quiet
  BY <1>3 DEF Dispatch, Deliver, workflow, Quiet
<1>4. ASSUME NEW h \in Handlers,
             NothingToRecord(h) \/ Lifecycle(h) \/ LogEvent(h) \/ ReplyFails(h)
      PROVE  Quiet
  BY <1>4 DEF NothingToRecord, Lifecycle, LogEvent, ReplyFails, workflow, Quiet
<1>5. ASSUME NEW h \in Handlers, RecordingFails(h)
      PROVE  Quiet
  BY <1>5 DEF RecordingFails, Quiet
<1>6. ASSUME \/ \E l \in Listeners : FlushDigest(l) \/ GiveUp(l)
             \/ UserTurn \/ TurnEnds \/ Crash \/ UNCHANGED vars
      PROVE  Quiet
  BY <1>6 DEF FlushDigest, GiveUp, UserTurn, TurnEnds, Crash, vars, handlers, workflow,
              Quiet
<1>7. ASSUME NEW h \in Handlers,
             \/ \E e \in Events : GetHandle(h, e)
             \/ Refuse(h) \/ ResolveRaises(h) \/ QueueEvent(h)
      PROVE  Quiet
  BY <1>7 DEF GetHandle, Refuse, ResolveRaises, QueueEvent, workflow, Quiet
<1>8. QED
  BY <1>1, <1>2, <1>3, <1>4, <1>5, <1>6, <1>7 DEF Next, Progress

(* A request that comes again brings the same; one that comes for the first *)
(* time was not recorded.                                                   *)
LEMMA MarkSeenKeepsMade ==
    ASSUME MadeInv, NEW h \in Handlers, MarkSeen(h)
    PROVE  Meant' /\ Made'
<1> DEFINE e == ev[h]
<1>0. PICK p \in Payloads[Of(h)] :
          brought[e] \in {NoPayload, p} /\ brought' = [brought EXCEPT ![e] = p]
  BY Zenon DEF MarkSeen
<1>1. /\ UNCHANGED <<row, recorded>> /\ brought \in [Events -> Payload] /\ e \in Events
      /\ \A g \in Handlers : at'[g] = "write" => at[g] = "write" /\ ev'[g] = ev[g]
      /\ \A g \in Handlers : at[g] = "write" => ev[g] \in Events
      /\ recorded \in [Listeners -> Seq(Events)]
  <2>1. /\ at[h] = "mark" /\ UNCHANGED <<row, recorded, ev>>
        /\ at' = [at EXCEPT ![h] = "dispatch"]
    BY DEF MarkSeen, workflow, Goes
  <2>2. QED
    BY <2>1 DEF MadeInv, TypeOK
<1>2. \A x \in Events : Workflow(x) # NoWorkflow => brought'[x] = brought[x]
  <2> SUFFICES ASSUME NEW x \in Events, Workflow(x) # NoWorkflow
               PROVE  brought'[x] = brought[x]
    OBVIOUS
  <2>1. NoPayload.workflow = NoWorkflow
    BY DEF NoPayload
  <2>2. brought[x] # NoPayload
    BY <2>1 DEF Workflow
  <2>3. CASE x = e
    BY <1>0, <1>1, <2>2, <2>3
  <2>4. CASE x # e
    BY <1>0, <1>1, <2>4
  <2>5. QED
    BY <2>3, <2>4
<1>3. \A l \in Listeners : \A i \in 1..Len(recorded[l]) :
         brought'[recorded[l][i]] = brought[recorded[l][i]]
  <2> TAKE l \in Listeners
  <2> TAKE i \in 1..Len(recorded[l])
  <2>1. recorded[l][i] \in Events /\ Workflow(recorded[l][i]) # NoWorkflow
    BY <1>1 DEF MadeInv, Meant
  <2>2. QED
    BY <1>2, <2>1
<1>4. Meant'
  BY <1>1, <1>2, <1>3 DEF MadeInv, Meant, Workflow
<1>5. Made'
  <2> SUFFICES ASSUME NEW l \in Listeners
      PROVE  \E f : /\ Making(f, Len(recorded[l]), recorded[l], brought')
                    /\ row[l] = f[Len(recorded[l])]
    BY <1>1 DEF Made
  <2>1. PICK f : /\ Making(f, Len(recorded[l]), recorded[l], brought)
                 /\ row[l] = f[Len(recorded[l])]
    BY DEF MadeInv, Made
  <2>2. Len(recorded[l]) \in Nat
    BY <1>1
  <2>3. Making(f, Len(recorded[l]), recorded[l], brought')
    BY <1>3, <2>1, <2>2, MakingSame
  <2>4. QED
    BY <2>1, <2>3
<1>6. QED
  BY <1>4, <1>5

(* The writer applies its event to the row as it is.                        *)
LEMMA WriteRowKeepsMade ==
    ASSUME MadeInv, NEW h \in Handlers, WriteRow(h)
    PROVE  Meant' /\ Made'
<1> DEFINE l == Of(h)
           old == recorded[l]
           new == Append(old, ev[h])
<1>1. /\ l \in Listeners /\ ev[h] \in Events /\ at[h] = "write" /\ copy[h] = row[l]
      /\ row \in [Listeners -> State] /\ recorded \in [Listeners -> Seq(Events)]
      /\ Workflow(ev[h]) # NoWorkflow
  BY ListenerTypes DEF MadeInv, TypeOK, WriteRow, Unchanged, Meant
<1>2. /\ row' = [row EXCEPT ![l] = Apply(row[l], brought[ev[h]].workflow)]
      /\ recorded' = [recorded EXCEPT ![l] = new] /\ brought' = brought
      /\ \A g \in Handlers : at'[g] # "write"
  BY <1>1 DEF WriteRow, Workflow, Goes, MadeInv, TypeOK
<1> HIDE DEF l
<1>3. /\ old \in Seq(Events) /\ Len(old) \in Nat /\ Len(new) = Len(old) + 1
      /\ \A i \in 1..Len(old) : new[i] = old[i]
      /\ new[Len(old) + 1] = ev[h]
  BY <1>1
<1> HIDE DEF old, new
<1>4. /\ recorded'[l] = new /\ row'[l] = Apply(row[l], brought[ev[h]].workflow)
      /\ \A k \in Listeners \ {l} : recorded'[k] = recorded[k] /\ row'[k] = row[k]
  BY <1>1, <1>2
<1>5. Meant'
  <2>1. \A i \in 1..Len(old) : Workflow(old[i]) # NoWorkflow
    BY <1>1 DEF MadeInv, Meant, old
  <2>2. \A i \in 1..Len(new) : Workflow(new[i]) # NoWorkflow
    <3> TAKE i \in 1..Len(new)
    <3>1. i \in 1..Len(old) \/ i = Len(old) + 1
      BY <1>3
    <3>2. QED
      BY <1>1, <1>3, <2>1, <3>1
  <2>3. \A k \in Listeners : \A i \in 1..Len(recorded'[k]) :
           Workflow(recorded'[k][i]) # NoWorkflow
    <3> TAKE k \in Listeners
    <3>1. CASE k = l
      BY <1>4, <2>2, <3>1
    <3>2. CASE k # l
      BY <1>4, <3>2 DEF MadeInv, Meant
    <3>3. QED
      BY <3>1, <3>2
  <2>4. QED
    BY <1>2, <2>3 DEF Meant, Workflow
<1>6. Made'
  <2>1. ASSUME NEW k \in Listeners
        PROVE  \E f : /\ Making(f, Len(recorded'[k]), recorded'[k], brought)
                      /\ row'[k] = f[Len(recorded'[k])]
    <3>1. PICK f : /\ Making(f, Len(recorded[k]), recorded[k], brought)
                   /\ row[k] = f[Len(recorded[k])]
      BY DEF MadeInv, Made
    <3>2. CASE k # l
      BY <1>4, <3>1, <3>2
    <3>3. CASE k = l
      <4>1. Making(f, Len(old), old, brought) /\ row[l] = f[Len(old)]
        BY <3>1, <3>3 DEF old
      <4>2. /\ Len(old) \in Nat /\ Making(f, Len(old), old, brought)
            /\ Len(new) = Len(old) + 1 /\ \A i \in 1..Len(old) : new[i] = old[i]
        BY <1>3, <4>1
      <4>3. PICK g : Making(g, Len(old) + 1, new, brought) /\ g[Len(old)] = f[Len(old)]
        BY <4>2, MakingMore
      <4>4. g[Len(old) + 1] = Apply(g[Len(old)], brought[new[Len(old) + 1]].workflow)
        BY <4>2, <4>3, MakingLast
      <4>5. QED
        BY <1>3, <1>4, <3>3, <4>1, <4>3, <4>4
    <3>4. QED
      BY <3>2, <3>3
  <2>2. QED
    BY <1>2, <2>1 DEF Made
<1>7. QED
  BY <1>5, <1>6

(* The state of every workflow is what its recorded events make of it one   *)
(* after another, in the order of their commits: no update is lost to a     *)
(* request that recorded at the same time, whatever fails and crashes.      *)
THEOREM NothingIsOverwritten == Spec => []NothingOverwritten
<1>1. Init => MadeInv
  <2> SUFFICES ASSUME Init PROVE MadeInv
    OBVIOUS
  <2>1. TypeOK /\ Unchanged
    BY InitRows DEF RowInv
  <2>2. Meant
    BY DEF Init, Meant
  <2>3. \A l \in Listeners : recorded[l] = <<>> /\ row[l] = NoState
    BY DEF Init
  <2> DEFINE f == [m \in 0..0 |-> IF m = 0 THEN NoState ELSE NoState]
  <2>4. f[0] = NoState /\ \A s, b : Making(f, 0, s, b)
    <3>1. f[0] = NoState
      OBVIOUS
    <3>2. ASSUME NEW s, NEW b PROVE Making(f, 0, s, b)
      <4>1. \A m \in 0..0 : (IF m = 0 THEN NoState ELSE NoState)
                = (IF m = 0 THEN NoState ELSE Apply(f[m - 1], b[s[m]].workflow))
        OBVIOUS
      <4>2. QED
        BY <4>1 DEF Making
    <3>3. QED
      BY <3>1, <3>2
  <2> HIDE DEF f
  <2>5. Len(<<>>) = 0
    OBVIOUS
  <2>6. Made
    BY <2>3, <2>4, <2>5 DEF Made
  <2>7. QED
    BY <2>1, <2>2, <2>6 DEF MadeInv
<1>2. MadeInv /\ [Next]_vars => MadeInv'
  <2> SUFFICES ASSUME MadeInv, [Next]_vars PROVE MadeInv'
    OBVIOUS
  <2>1. TypeOK' /\ Unchanged'
    BY StepTypes, StepUnchanged DEF MadeInv
  <2>2. Meant' /\ Made'
    BY MostStepsQuiet, QuietKeeps, MarkSeenKeepsMade, WriteRowKeepsMade
  <2>3. QED
    BY <2>1, <2>2 DEF MadeInv
<1>3. MadeInv => NothingOverwritten
  BY MadeIsNotOverwritten DEF MadeInv
<1>4. QED
  BY <1>1, <1>2, <1>3, PTL DEF Spec

=============================================================================
