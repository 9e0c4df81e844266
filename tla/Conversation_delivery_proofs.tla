---------------------- MODULE Conversation_delivery_proofs ----------------------
(***************************************************************************)
(* Theorems about what Conversation shows: that no event reaches the agent  *)
(* twice, that the workflow's state and the log tell of the events that     *)
(* did, or wait for their digest, and that a merged message has its turn.   *)
(*                                                                          *)
(* A step of a request that neither marks, queues, shows nor gives back its *)
(* event is summed up by Moves and Notes, and each part of the invariant is *)
(* proved for these and for the other kinds of step.                        *)
(***************************************************************************)
EXTENDS Conversation_proofs

-----------------------------------------------------------------------------
(* Sequences without repetitions.                                           *)
Elems(s) == {s[i] : i \in DOMAIN s}
Distinct(s) == \A i, j \in DOMAIN s : s[i] = s[j] => i = j

(* What Append and concatenation make of them.                              *)
LEMMA AppendElems ==
    ASSUME NEW s \in Seq(Events), NEW e \in Events
    PROVE  /\ Elems(Append(s, e)) = Elems(s) \cup {e}
           /\ Distinct(s) /\ e \notin Elems(s) => Distinct(Append(s, e))
<1>1. /\ Len(Append(s, e)) = Len(s) + 1 /\ Len(s) \in Nat
      /\ DOMAIN s = 1..Len(s) /\ DOMAIN Append(s, e) = 1..(Len(s) + 1)
      /\ Append(s, e)[Len(s) + 1] = e
      /\ \A i \in 1..Len(s) : Append(s, e)[i] = s[i]
  OBVIOUS
<1>2. Elems(Append(s, e)) \subseteq Elems(s) \cup {e}
  BY <1>1 DEF Elems
<1>3. Elems(s) \subseteq Elems(Append(s, e))
  BY <1>1 DEF Elems
<1>4. e \in Elems(Append(s, e))
  BY <1>1 DEF Elems
<1>5. Distinct(s) /\ e \notin Elems(s) => Distinct(Append(s, e))
  BY <1>1 DEF Distinct, Elems
<1>6. QED
  BY <1>2, <1>3, <1>4, <1>5

(* What two sequences hold in a row is what both hold.                      *)
LEMMA ConcatElems ==
    ASSUME NEW s \in Seq(Events), NEW t \in Seq(Events)
    PROVE  /\ Elems(s \o t) = Elems(s) \cup Elems(t)
           /\ Distinct(s) /\ Distinct(t) /\ Elems(s) \cap Elems(t) = {} => Distinct(s \o t)
<1>1. /\ Len(s) \in Nat /\ Len(t) \in Nat
      /\ DOMAIN s = 1..Len(s) /\ DOMAIN t = 1..Len(t)
      /\ DOMAIN (s \o t) = 1..(Len(s) + Len(t))
      /\ \A i \in 1..Len(s) : (s \o t)[i] = s[i]
      /\ \A i \in 1..(Len(s) + Len(t)) : i > Len(s) => (s \o t)[i] = t[i - Len(s)]
  OBVIOUS
<1>2. \A i \in 1..Len(t) : (s \o t)[i + Len(s)] = t[i] /\ i + Len(s) \in 1..(Len(s) + Len(t))
  BY <1>1
<1>3. \A i \in 1..(Len(s) + Len(t)) : i > Len(s) => i - Len(s) \in 1..Len(t)
  BY <1>1
<1>4. Elems(s \o t) \subseteq Elems(s) \cup Elems(t)
  BY <1>1, <1>3 DEF Elems
<1>5. Elems(s) \subseteq Elems(s \o t)
  BY <1>1 DEF Elems
<1>6. Elems(t) \subseteq Elems(s \o t)
  <2>1. ASSUME NEW i \in 1..Len(t)
        PROVE  t[i] \in Elems(s \o t)
    <3>1. i + Len(s) \in DOMAIN (s \o t) /\ (s \o t)[i + Len(s)] = t[i]
      BY <1>1, <1>2
    <3>2. QED
      BY <3>1 DEF Elems
  <2>2. QED
    BY <1>1, <2>1 DEF Elems
<1>7. ASSUME Distinct(s), Distinct(t), Elems(s) \cap Elems(t) = {}
      PROVE  Distinct(s \o t)
  <2> SUFFICES ASSUME NEW i \in 1..(Len(s) + Len(t)), NEW j \in 1..(Len(s) + Len(t)),
                      (s \o t)[i] = (s \o t)[j]
               PROVE  i = j
    BY <1>1 DEF Distinct
  <2>0. \A k \in 1..(Len(s) + Len(t)) :
            \/ k \in 1..Len(s) /\ (s \o t)[k] = s[k] /\ s[k] \in Elems(s)
            \/ /\ k - Len(s) \in 1..Len(t) /\ (s \o t)[k] = t[k - Len(s)]
               /\ t[k - Len(s)] \in Elems(t)
    BY <1>1, <1>3 DEF Elems
  <2>1. CASE i \in 1..Len(s) /\ j \in 1..Len(s)
    BY <1>1, <1>7, <2>1 DEF Distinct
  <2>2. CASE i - Len(s) \in 1..Len(t) /\ j - Len(s) \in 1..Len(t)
    <3>1. t[i - Len(s)] = t[j - Len(s)]
      BY <1>1, <2>2
    <3>2. i - Len(s) = j - Len(s)
      BY <1>1, <1>7, <2>2, <3>1 DEF Distinct
    <3>3. QED
      BY <1>1, <3>2
  <2>3. QED
    BY <1>7, <2>0, <2>1, <2>2
<1>8. QED
  BY <1>4, <1>5, <1>6, <1>7

(* How long what is behind a front is.                                      *)
LEMMA RestLength ==
    ASSUME NEW n \in Nat, NEW m \in Nat, n <= m
    PROVE  (IF n + 1 <= m THEN m - (n + 1) + 1 ELSE 0) = m - n
<1>1. CASE n + 1 <= m
  BY <1>1
<1>2. CASE ~(n + 1 <= m)
  BY <1>2
<1>3. QED
  BY <1>1, <1>2

(* The front of a sequence and what is behind it, with the front in two     *)
(* parts.                                                                   *)
Splits(s, n, front, rest) ==
    /\ front \in Seq(Events) /\ rest \in Seq(Events)
    /\ Elems(s) = Elems(front) \cup Elems(rest)
    /\ Distinct(s) => /\ Distinct(front) /\ Distinct(rest)
                      /\ Elems(front) \cap Elems(rest) = {}
    /\ \A m \in 0..n : Elems(front) = {s[i] : i \in 1..m} \cup {s[i] : i \in m + 1..n}
LEMMA SplitElems ==
    ASSUME NEW s \in Seq(Events), NEW n \in 1..Len(s),
           NEW front, front = SubSeq(s, 1, n), NEW rest, rest = SubSeq(s, n + 1, Len(s))
    PROVE  Splits(s, n, front, rest)
<1>1. Len(s) \in Nat /\ n \in Nat /\ n <= Len(s) /\ DOMAIN s = 1..Len(s)
  OBVIOUS
<1>2. \A i \in 1..Len(s) : s[i] \in Events
  OBVIOUS
<1>3. /\ front \in Seq(Events) /\ Len(front) = n /\ \A i \in 1..n : front[i] = s[i]
  BY <1>1, <1>2, SubSeqProperties
<1>4. /\ rest \in Seq(Events) /\ Len(rest) = Len(s) - n
      /\ \A i \in 1..Len(s) - n : rest[i] = s[n + i]
  <2>1. rest \in Seq(Events)
    BY <1>1, SplitTypes
  <2>2. /\ Len(rest) = IF n + 1 <= Len(s) THEN Len(s) - (n + 1) + 1 ELSE 0
        /\ \A i \in 1..Len(s) - (n + 1) + 1 : rest[i] = s[n + 1 + i - 1]
    <3>1. n + 1 \in Int /\ Len(s) \in Int /\ \A i \in n + 1..Len(s) : s[i] \in Events
      BY <1>1, <1>2
    <3>2. QED
      BY <3>1, SubSeqProperties
  <2>3. Len(rest) = Len(s) - n
    <3>1. (IF n + 1 <= Len(s) THEN Len(s) - (n + 1) + 1 ELSE 0) = Len(s) - n
      BY <1>1, RestLength
    <3>2. QED
      BY <2>2, <3>1, Zenon
  <2>4. ASSUME NEW i \in 1..Len(s) - n
        PROVE  rest[i] = s[n + i]
    <3>1. i \in 1..Len(s) - (n + 1) + 1 /\ n + 1 + i - 1 = n + i
      BY <1>1
    <3>2. rest[i] = s[n + 1 + i - 1]
      BY <2>2, <3>1
    <3>3. QED
      BY <3>1, <3>2
  <2>5. QED
    BY <2>1, <2>3, <2>4
<1>5. DOMAIN front = 1..n /\ DOMAIN rest = 1..Len(s) - n
  BY <1>3, <1>4
<1>6. \A i \in 1..Len(s) : i \in 1..n \/ (i - n \in 1..Len(s) - n /\ n + (i - n) = i)
  BY <1>1
<1>7. \A i \in 1..Len(s) - n : n + i \in 1..Len(s) /\ n + i \notin 1..n
  BY <1>1
<1>8. \A i \in 1..n : i \in 1..Len(s)
  BY <1>1
<1>9. Elems(s) = Elems(front) \cup Elems(rest)
  <2>1. Elems(front) \cup Elems(rest) \subseteq Elems(s)
    BY <1>1, <1>3, <1>4, <1>5, <1>7, <1>8 DEF Elems
  <2>2. ASSUME NEW i \in 1..Len(s)
        PROVE  s[i] \in Elems(front) \cup Elems(rest)
    <3>1. CASE i \in 1..n
      BY <1>3, <1>5, <3>1 DEF Elems
    <3>2. CASE i \notin 1..n
      <4>1. i - n \in 1..Len(s) - n /\ n + (i - n) = i
        BY <1>6, <3>2
      <4>2. rest[i - n] = s[i]
        BY <1>4, <4>1
      <4>3. QED
        BY <1>5, <4>1, <4>2 DEF Elems
    <3>3. QED
      BY <3>1, <3>2
  <2>3. QED
    BY <1>1, <2>1, <2>2 DEF Elems
<1>10. ASSUME Distinct(s)
       PROVE  Distinct(front) /\ Distinct(rest) /\ Elems(front) \cap Elems(rest) = {}
  <2>1. Distinct(front)
    BY <1>1, <1>3, <1>5, <1>8, <1>10 DEF Distinct
  <2>2. Distinct(rest)
    <3> SUFFICES ASSUME NEW i \in 1..Len(s) - n, NEW j \in 1..Len(s) - n, rest[i] = rest[j]
                 PROVE  i = j
      BY <1>5 DEF Distinct
    <3>1. n + i \in DOMAIN s /\ n + j \in DOMAIN s /\ s[n + i] = s[n + j]
      BY <1>1, <1>4, <1>7
    <3>2. n + i = n + j
      BY <1>10, <3>1 DEF Distinct
    <3>3. QED
      BY <1>1, <3>2
  <2>3. \A i \in 1..n, j \in 1..Len(s) - n : front[i] # rest[j]
    BY <1>1, <1>3, <1>4, <1>7, <1>8, <1>10 DEF Distinct
  <2>4. ASSUME NEW x \in Elems(front), x \in Elems(rest)
        PROVE  FALSE
    <3>1. PICK i \in 1..n : x = front[i]
      BY <1>5 DEF Elems
    <3>2. PICK j \in 1..Len(s) - n : x = rest[j]
      BY <1>5, <2>4 DEF Elems
    <3>3. QED
      BY <2>3, <3>1, <3>2
  <2>5. QED
    BY <2>1, <2>2, <2>4
<1>11. ASSUME NEW m \in 0..n
       PROVE  Elems(front) = {s[i] : i \in 1..m} \cup {s[i] : i \in m + 1..n}
  <2>1. \A i : i \in 1..n <=> i \in 1..m \/ i \in m + 1..n
    BY <1>1
  <2>2. QED
    BY <1>3, <1>5, <2>1 DEF Elems
<1>12. QED
  BY <1>3, <1>4, <1>9, <1>10, <1>11 DEF Splits

-----------------------------------------------------------------------------
(* The invariant.                                                           *)
Once == Distinct(shown) /\ Distinct(pending) /\ Elems(shown) \cap Elems(pending) = {}
InReach == Elems(shown) \cup Elems(pending)

(* A queue holds events of its listener, once.                              *)
Line ==
    \A l \in Listeners : /\ Distinct(queue[l])
                         /\ \A e \in Elems(queue[l]) : ListenerOf[e] = l
InQueue == {e \in Events : e \in Elems(queue[ListenerOf[e]])}

(* Until its event is queued or dispatched, a request holds its marker,     *)
(* alone.                                                                   *)
Before == {"dispatch", "deliver", "forget"}
After == {"record", "write", "lifecycle", "log"}
Held ==
    /\ \A h \in Handlers : at[h] = "idle" => ev[h] = None
    /\ \A h \in Handlers : at[h] \in Before => ev[h] \in seen
    /\ \A h, g \in Handlers :
          at[h] \in Before /\ at[g] \in Before /\ ev[h] = ev[g] => h = g

(* What has reached the agent, or is queued for it, is marked; a request    *)
(* knows whether its event has.                                             *)
Reach ==
    /\ InReach \cup InQueue \subseteq seen /\ InReach \cap InQueue = {}
    /\ \A e \in InQueue : Coalesces(e)
    /\ \A h \in Handlers : at[h] \in Before => ev[h] \notin InReach \cup InQueue
    /\ \A h \in Handlers : at[h] \in After => ev[h] \in InReach \/ Coalesces(ev[h])

Turns ==
    /\ \A h \in Handlers : at[h] = "deliver" => Acks(Of(h))
    /\ \A e \in Elems(pending) : ~Acks(ListenerOf[e]) => turn

(* What is recorded has reached the agent or waits for its digest, and what *)
(* has reached it, or waits, is recorded or will be.                        *)
Recording(e) == \E h \in Handlers : at[h] \in {"record", "write"} /\ ev[h] = e
Placed(e) == e \in failed \cup InReach \/ Waits(e)
Recs ==
    /\ \A l \in Listeners : \A e \in Elems(recorded[l]) : Placed(e)
    /\ \A h \in Handlers, e \in Events : at[h] \in After /\ ev[h] = e => Placed(e)
    /\ \A e \in InReach \cup InQueue :
          \/ e \in failed \/ Workflow(e) = NoWorkflow \/ Recording(e)
          \/ e \in Elems(recorded[ListenerOf[e]])

(* A terminal event retires its listener or is logged, when its request is  *)
(* over.                                                                    *)
Handled(e) == \E h \in Handlers : AtWork(h) /\ ev[h] = e
Told(e) ==
    /\ ListenerOf[e] \in ended
    /\ Retires(e) => ListenerOf[e] \notin enabled
Logged ==
    /\ \A h \in Handlers, e \in Events : at[h] = "log" /\ ev[h] = e =>
          Retires(e) /\ ListenerOf[e] \notin enabled
    /\ \A e \in InReach \ failed : Concludes(e) /\ ~Handled(e) => Told(e)

(* A workflow comes to its end with the event that says so.                 *)
Concluded(e) ==
    Workflow(e).stage \in TerminalStages =>
       row[ListenerOf[e]].stage \in TerminalStages \/ e \in failed \/ MayBeStale(Workflow(e))
RetiredBy(l, e) ==
    e \in InReach \cup failed /\ ListenerOf[e] = l /\ Concludes(e) /\ Concluded(e)
Over ==
    /\ \A h \in Handlers, e \in Events :
          at[h] \in {"lifecycle", "log"} /\ ev[h] = e => Concluded(e)
    /\ \A l \in Listeners \ enabled : \E e \in Events : RetiredBy(l, e)

Shape ==
    /\ at \in [Handlers -> Label] /\ ev \in [Handlers -> Events \cup {None}]
    /\ \A h \in Handlers : at[h] # "idle" => ev[h] \in Events
    /\ queue \in [Listeners -> Seq(Events)]
    /\ recorded \in [Listeners -> Seq(Events)] /\ failed \subseteq Events
    /\ seen \subseteq Events /\ turn \in BOOLEAN /\ enabled \subseteq Listeners
    /\ brought \in [Events -> Payload] /\ row \in [Listeners -> State]
    /\ shown \in Seq(Events) /\ pending \in Seq(Events)
    /\ None \notin Events /\ ListenerOf \in [Events -> Listeners]

DInv == RowInv /\ Once /\ Line /\ Held /\ Reach /\ Turns /\ Recs /\ Logged /\ Over

(* The types the steps below need, of the whole invariant.                  *)
LEMMA ShapeHolds == DInv => Shape
BY ConversationAssumption DEF DInv, RowInv, TypeOK, Shape

(* It holds initially.                                                      *)
LEMMA InitDInv == Init => DInv
<1> SUFFICES ASSUME Init PROVE DInv
  OBVIOUS
<1>1. shown = <<>> /\ pending = <<>> /\ enabled = Listeners /\ turn = FALSE
      /\ queue = [l \in Listeners |-> <<>>] /\ recorded = [l \in Listeners |-> <<>>]
      /\ \A h \in Handlers : at[h] = "idle" /\ ev[h] = None
  BY DEF Init
<1>2. Elems(<<>>) = {} /\ Distinct(<<>>)
  BY DEF Elems, Distinct
<1>3. InReach = {} /\ Once /\ Line /\ InQueue = {}
  BY <1>1, <1>2, ConversationAssumption DEF InReach, Once, Line, InQueue
<1>4. Held /\ Reach /\ Turns /\ Over /\ Logged
  BY <1>1, <1>2, <1>3 DEF Held, Reach, Turns, Over, Logged, Before, After
<1>5. Recs
  BY <1>1, <1>2, <1>3 DEF Recs, After
<1>6. QED
  BY <1>3, <1>4, <1>5, InitRows DEF DInv

-----------------------------------------------------------------------------
(* The kinds of step.                                                       *)

(* A request's step, as far as the event's way to the agent is concerned.   *)
Moves(h) ==
    /\ UNCHANGED <<seen, queue, brought, turn, pending, shown>>
    /\ \A g \in Handlers \ {h} : at'[g] = at[g] /\ ev'[g] = ev[g]
    /\ at'[h] \in Label /\ (at'[h] = "idle" => ev'[h] = None)
    /\ at'[h] \in Before => at[h] \in Before /\ ev'[h] = ev[h]
    /\ at'[h] \in After => at[h] \in After /\ ev'[h] = ev[h]
    /\ at'[h] = "dispatch" => at[h] = "dispatch"
    /\ at'[h] = "deliver" => at[h] = "deliver" \/ Acks(Of(h))

(* The same step, as far as the registry and the log are concerned.         *)
Notes(h) ==
    /\ failed \subseteq failed' /\ ended \subseteq ended'
    /\ \/ recorded' = recorded
       \/ /\ at[h] = "write"
          /\ recorded' = [recorded EXCEPT ![Of(h)] = Append(recorded[Of(h)], ev[h])]
    /\ \/ enabled' = enabled
       \/ at[h] = "lifecycle" /\ Retires(ev[h]) /\ enabled' = enabled \ {Of(h)}
    /\ at[h] = "dispatch" /\ Coalesces(ev[h]) => ev[h] \in failed'
    /\ at[h] \in {"record", "write"} /\ at'[h] \notin {"record", "write"} =>
          \/ ev[h] \in failed' \/ Workflow(ev[h]) = NoWorkflow
          \/ ev[h] \in Elems(recorded'[Of(h)])
    /\ at'[h] = "lifecycle" => \A e \in Events : e = ev[h] => Concluded(e)'
    /\ at'[h] = "log" => at[h] = "lifecycle" /\ Retires(ev[h]) /\ Of(h) \notin enabled'
    /\ at[h] \in After /\ at'[h] \notin After =>
          \A e \in Events : e = ev[h] /\ Concludes(e) => e \in failed' \/ Told(e)'

LEMMA RequestMoves ==
    ASSUME DInv, NEW h \in Handlers
    PROVE  /\ (\E e \in Events : GetHandle(h, e)) \/ Refuse(h) \/ ResolveRaises(h) => Moves(h)
           /\ DispatchRaises(h) \/ BeginImmediate(h) \/ WriteRow(h) => Moves(h)
           /\ NothingToRecord(h) \/ RecordingFails(h) \/ Lifecycle(h) => Moves(h)
           /\ LogEvent(h) \/ ReplyFails(h) => Moves(h)
           /\ Dispatch(h) /\ Acks(Of(h)) => Moves(h)
<1> USE ShapeHolds DEF Shape, Moves, Before, After, Label, session, Goes, Ends
<1>1. (\E e \in Events : GetHandle(h, e)) => Moves(h)
  BY DEF GetHandle
<1>2. Refuse(h) => Moves(h)
  BY DEF Refuse
<1>3. ResolveRaises(h) => Moves(h)
  BY DEF ResolveRaises
<1>4. DispatchRaises(h) => Moves(h)
  BY DEF DispatchRaises
<1>5. BeginImmediate(h) => Moves(h)
  BY DEF BeginImmediate
<1>6. WriteRow(h) => Moves(h)
  BY DEF WriteRow
<1>7. NothingToRecord(h) => Moves(h)
  BY DEF NothingToRecord
<1>8. RecordingFails(h) => Moves(h)
  BY DEF RecordingFails
<1>9. Lifecycle(h) => Moves(h)
  BY DEF Lifecycle
<1>10. LogEvent(h) => Moves(h)
  BY DEF LogEvent
<1>11. ReplyFails(h) => Moves(h)
  BY DEF ReplyFails
<1>12. Dispatch(h) /\ Acks(Of(h)) => Moves(h)
  BY DEF Dispatch
<1>13. QED
  BY <1>1, <1>2, <1>3, <1>4, <1>5, <1>6, <1>7, <1>8, <1>9, <1>10, <1>11, <1>12

(* A row that has come to its end stays there.                              *)
LEMMA EndsStay ==
    ASSUME DInv, [Next]_vars, NEW l \in Listeners, row[l].stage \in TerminalStages
    PROVE  row'[l].stage \in TerminalStages
<1>1. Applied /\ row \in [Listeners -> State]
  BY StepApplies DEF DInv, RowInv, TypeOK
<1>2. row'[l] = row[l] \/ \E e \in Event : row'[l] = Apply(row[l], e)
  BY <1>1 DEF Applied
<1>3. QED
  BY <1>2, ApplyTerminal

(* A terminal event that is recorded ends its workflow, unless it is stale. *)
LEMMA WriteConcludes ==
    ASSUME DInv, NEW h \in Handlers, WriteRow(h), NEW e \in Events, e = ev[h]
    PROVE  Concluded(e)'
<1> DEFINE s == row[Of(h)]
           w == Workflow(ev[h])
<1>1. /\ ev' = ev /\ brought' = brought /\ Of(h) \in Listeners
      /\ row' = [row EXCEPT ![Of(h)] = Apply(s, w)]
  BY ListenerTypes DEF WriteRow, DInv, RowInv, Unchanged
<1>2. row'[Of(h)] = Apply(s, w)
  BY <1>1, ShapeHolds DEF Shape
<1>3. ASSUME w.stage \in TerminalStages, ~MayBeStale(w)
      PROVE  Apply(s, w).stage \in TerminalStages
  <2>1. ~StaleIncoming(s, w)
    BY <1>3 DEF StaleIncoming, MayBeStale
  <2>2. w.stage # ""
    BY <1>3 DEF TerminalStages
  <2>3. Apply(s, w).stage = IF Sticks(s, w) THEN s.stage ELSE w.stage
    BY <2>1, <2>2 DEF Apply, NextStage, Or
  <2>4. QED
    BY <1>3, <2>3 DEF Sticks
<1>4. QED
  BY <1>1, <1>2, <1>3 DEF Concluded, Workflow, Of

LEMMA RequestNotes ==
    ASSUME DInv, NEW h \in Handlers
    PROVE  /\ (\E e \in Events : GetHandle(h, e)) \/ Refuse(h) \/ ResolveRaises(h) => Notes(h)
           /\ DispatchRaises(h) \/ BeginImmediate(h) \/ WriteRow(h) => Notes(h)
           /\ NothingToRecord(h) \/ RecordingFails(h) \/ Lifecycle(h) => Notes(h)
           /\ LogEvent(h) \/ ReplyFails(h) => Notes(h)
           /\ Dispatch(h) /\ Acks(Of(h)) => Notes(h)
<1> USE ShapeHolds DEF Shape, Notes, After, Label, workflow, Goes, Ends
<1>1. (\E e \in Events : GetHandle(h, e)) => Notes(h)
  BY DEF GetHandle
<1>2. Refuse(h) => Notes(h)
  BY DEF Refuse
<1>3. ResolveRaises(h) => Notes(h)
  BY DEF ResolveRaises
<1>4. DispatchRaises(h) => Notes(h)
  BY DEF DispatchRaises
<1>5. BeginImmediate(h) => Notes(h)
  BY DEF BeginImmediate
<1>6. WriteRow(h) => Notes(h)
  <2> SUFFICES ASSUME WriteRow(h) PROVE Notes(h)
    OBVIOUS
  <2>1. /\ at[h] = "write" /\ at' = [at EXCEPT ![h] = "lifecycle"]
        /\ recorded' = [recorded EXCEPT ![Of(h)] = Append(recorded[Of(h)], ev[h])]
        /\ UNCHANGED <<ended, enabled, failed>>
    BY DEF WriteRow
  <2>2. ev[h] \in Elems(recorded'[Of(h)])
    <3>1. ev[h] \in Events /\ Of(h) \in Listeners
      BY <2>1 DEF Of
    <3>2. recorded'[Of(h)] = Append(recorded[Of(h)], ev[h])
      BY <2>1, <3>1
    <3>3. QED
      BY <3>1, <3>2, AppendElems
  <2>3. \A e \in Events : e = ev[h] => Concluded(e)'
    BY WriteConcludes
  <2>4. QED
    BY <2>1, <2>2, <2>3
<1>7. NothingToRecord(h) => Notes(h)
  <2> SUFFICES ASSUME NothingToRecord(h) PROVE Notes(h)
    OBVIOUS
  <2>1. NoWorkflow.stage = "" /\ "" \notin TerminalStages
    BY DEF NoWorkflow, TerminalStages
  <2>2. \A e \in Events : e = ev[h] => Concluded(e)'
    BY <2>1 DEF NothingToRecord, Concluded, Workflow
  <2>3. QED
    BY <2>2 DEF NothingToRecord
<1>8. RecordingFails(h) => Notes(h)
  <2> SUFFICES ASSUME RecordingFails(h) PROVE Notes(h)
    OBVIOUS
  <2>1. \A e \in Events : e = ev[h] => Concluded(e)'
    BY DEF RecordingFails, Concluded
  <2>2. QED
    BY <2>1 DEF RecordingFails
<1>9. Lifecycle(h) => Notes(h)
  BY DEF Lifecycle
<1>10. LogEvent(h) => Notes(h)
  <2> SUFFICES ASSUME LogEvent(h) PROVE Notes(h)
    OBVIOUS
  <2>1. /\ at' = [at EXCEPT ![h] = "idle"] /\ at[h] \in {"lifecycle", "log"}
        /\ ended' = IF Concludes(ev[h]) THEN ended \cup {Of(h)} ELSE ended
        /\ UNCHANGED <<enabled, failed, recorded, brought>>
    BY DEF LogEvent
  <2>2. Retires(ev[h]) => Of(h) \notin enabled
    BY DEF LogEvent, DInv, Logged, Of
  <2>3. Concludes(ev[h]) => ListenerOf[ev[h]] \in ended'
    BY <2>1 DEF Of
  <2>4. ASSUME NEW e \in Events, e = ev[h], Concludes(e)
        PROVE  Told(e)'
    <3>1. Retires(e)' <=> Retires(e)
      BY <2>1 DEF Retires, Concludes, IsTerminal, Coalesces
    <3>2. QED
      BY <2>1, <2>2, <2>3, <2>4, <3>1 DEF Told, Of
  <2>5. QED
    BY <2>1, <2>4
<1>11. ReplyFails(h) => Notes(h)
  BY DEF ReplyFails
<1>12. Dispatch(h) /\ Acks(Of(h)) => Notes(h)
  BY DEF Dispatch
<1>13. QED
  BY <1>1, <1>2, <1>3, <1>4, <1>5, <1>6, <1>7, <1>8, <1>9, <1>10, <1>11, <1>12

-----------------------------------------------------------------------------
(* What the other steps do to what is shown, queued and marked.             *)

(* How a message adds to the pending slot: it does not, or it is merged and *)
(* there is a turn before it, or was, when the ack notice was awaited.      *)
Adds(batch, l) ==
    \/ Elems(pending') = {}
    \/ Elems(pending') = Elems(pending) /\ (turn => turn')
    \/ /\ Elems(pending') = Elems(pending) \cup batch /\ turn' = turn
       /\ turn \/ Acks(l)
       /\ \A e \in batch : ListenerOf[e] = l

Shows(batch, l) ==
    /\ InReach' = InReach \cup batch /\ Once'
    /\ Adds(batch, l)

Gives(h) ==
    /\ at[h] \in {"dispatch", "deliver"} /\ at' = [at EXCEPT ![h] = "record"]
    /\ UNCHANGED <<ev, seen, enabled, ended, queue, row, recorded, failed, brought>>
    /\ Shows({ev[h]}, Of(h))

Marks(h) ==
    /\ at[h] = "mark" /\ at' = [at EXCEPT ![h] = "dispatch"]
    /\ ev[h] \notin seen /\ seen' = seen \cup {ev[h]}
    /\ UNCHANGED <<ev, enabled, ended, queue, row, recorded, failed, turn, pending, shown>>
    /\ \A e \in Events : brought'[e] = brought[e] \/ (e = ev[h] /\ brought[e] = NoPayload)

Queues(h) ==
    /\ at[h] = "dispatch" /\ Coalesces(ev[h]) /\ at' = [at EXCEPT ![h] = "record"]
    /\ UNCHANGED <<ev, seen, enabled, ended, row, recorded, failed, brought, turn, pending,
                   shown>>
    /\ InQueue' = InQueue \cup {ev[h]} /\ Line'

Returns(h) ==
    /\ at[h] = "forget" /\ at' = [at EXCEPT ![h] = "idle"]
    /\ ev' = [ev EXCEPT ![h] = None] /\ seen' = seen \ {ev[h]}
    /\ UNCHANGED <<enabled, ended, queue, row, recorded, failed, brought, turn, pending,
                   shown>>

Flushes(l, batch) ==
    /\ UNCHANGED <<at, ev, seen, enabled, ended, row, recorded, failed, brought>>
    /\ batch \subseteq InQueue /\ InQueue' = InQueue \ batch /\ Line'
    /\ Shows(batch, l)

GivesUp(back, lost) ==
    /\ UNCHANGED <<at, ev, enabled, ended, row, recorded, brought, turn, pending, shown>>
    /\ back \cup lost \subseteq InQueue /\ InQueue' = InQueue \ (back \cup lost) /\ Line'
    /\ seen' = seen \ back /\ failed' = failed \cup lost

Rests ==
    /\ UNCHANGED <<at, ev, seen, enabled, ended, queue, row, recorded, failed, brought>>
    /\ Shows({}, None)

Dies ==
    /\ UNCHANGED <<seen, enabled, ended, row, recorded, brought>>
    /\ \A h \in Handlers : at'[h] = "idle" /\ ev'[h] = None
    /\ Once' /\ InReach' \subseteq InReach /\ InReach \subseteq InReach' \cup failed'
    /\ Elems(pending') = {}
    /\ Line' /\ InQueue' = {} /\ InQueue \subseteq failed'
    /\ failed \subseteq failed'
    /\ \A h \in Handlers : AtWork(h) => ev[h] \in failed'

(* A message that is new to the agent, handed to its session.               *)
LEMMA HandElems ==
    ASSUME DInv, NEW l \in Listeners, NEW m \in Seq(Events), NEW active \in BOOLEAN,
           Distinct(m), Elems(m) \cap InReach = {}, active => turn \/ Acks(l),
           \A e \in Elems(m) : ListenerOf[e] = l, Hand(m, active)
    PROVE  Shows(Elems(m), l)
<1>0. shown \in Seq(Events) /\ pending \in Seq(Events) /\ Once
  BY ShapeHolds DEF Shape, DInv
<1>1. \/ /\ pending' = pending \o m /\ shown' = shown /\ turn' = turn
         /\ turn \/ Acks(l)
      \/ shown' = shown \o m /\ pending' = pending /\ turn'
  BY DEF Hand, HandleMessage, MergePending
<1>2. CASE pending' = pending \o m /\ shown' = shown /\ turn' = turn /\ (turn \/ Acks(l))
  <2>1. Elems(pending') = Elems(pending) \cup Elems(m) /\ Elems(shown') = Elems(shown)
    BY <1>0, <1>2, ConcatElems
  <2>2. Distinct(pending') /\ Distinct(shown')
    BY <1>0, <1>2, ConcatElems DEF Once, InReach
  <2>3. InReach' = InReach \cup Elems(m) /\ Elems(shown') \cap Elems(pending') = {}
    BY <1>0, <2>1 DEF Once, InReach
  <2>4. QED
    BY <1>2, <2>1, <2>2, <2>3 DEF Shows, Adds, Once
<1>3. CASE shown' = shown \o m /\ pending' = pending /\ turn'
  <2>1. Elems(shown') = Elems(shown) \cup Elems(m) /\ Elems(pending') = Elems(pending)
    BY <1>0, <1>3, ConcatElems
  <2>2. Distinct(pending') /\ Distinct(shown')
    BY <1>0, <1>3, ConcatElems DEF Once, InReach
  <2>3. InReach' = InReach \cup Elems(m) /\ Elems(shown') \cap Elems(pending') = {}
    BY <1>0, <2>1 DEF Once, InReach
  <2>4. QED
    BY <1>3, <2>1, <2>2, <2>3 DEF Shows, Adds, Once
<1>4. QED
  BY <1>1, <1>2, <1>3

(* A message of one event.                                                  *)
LEMMA OneElem == \A e : Elems(<<e>>) = {e} /\ Distinct(<<e>>)
<1> TAKE e
<1>1. DOMAIN <<e>> = {1} /\ <<e>>[1] = e
  OBVIOUS
<1>2. QED
  BY <1>1 DEF Elems, Distinct

(* The delivery of a request's event.                                       *)
LEMMA RequestGives ==
    ASSUME DInv, NEW h \in Handlers
    PROVE  DirectSend(h) \/ DeliverAfterAck(h) \/ (Dispatch(h) /\ ~Acks(Of(h))) => Gives(h)
<1>0. at[h] \in Before => ev[h] \in Events /\ Of(h) \in Listeners /\ ev[h] \notin InReach
  BY ShapeHolds DEF DInv, Reach, Shape, Before, Of
<1>1. ASSUME at[h] \in Before, NEW active \in BOOLEAN, active => turn \/ Acks(Of(h)),
             Hand(<<ev[h]>>, active)
      PROVE  Shows({ev[h]}, Of(h))
  <2>1. Elems(<<ev[h]>>) = {ev[h]} /\ Distinct(<<ev[h]>>) /\ <<ev[h]>> \in Seq(Events)
    BY <1>0, <1>1, OneElem
  <2>2. \A e \in {ev[h]} : ListenerOf[e] = Of(h)
    BY DEF Of
  <2>3. QED
    BY <1>0, <1>1, <2>1, <2>2, HandElems
<1>2. ASSUME DirectSend(h)
      PROVE  Gives(h)
  <2>1. shown \in Seq(Events) /\ ev[h] \in Events /\ ev[h] \notin InReach /\ Once
    BY <1>0, <1>2, ShapeHolds DEF DirectSend, Shape, DInv, Before
  <2>2. shown' = Append(shown, ev[h]) /\ pending' = pending /\ turn' = turn
    BY <1>2 DEF DirectSend
  <2>3. Elems(shown') = Elems(shown) \cup {ev[h]} /\ Distinct(shown')
    BY <2>1, <2>2, AppendElems DEF Once, InReach
  <2>4. Once' /\ InReach' = InReach \cup {ev[h]}
    BY <2>1, <2>2, <2>3 DEF Once, InReach
  <2>5. QED
    BY <1>2, <2>2, <2>4 DEF Gives, Shows, Adds, DirectSend, Goes, workflow
<1>3. ASSUME DeliverAfterAck(h)
      PROVE  Gives(h)
  <2>1. at[h] = "deliver" /\ Acks(Of(h)) /\ saw[h] \in BOOLEAN
    BY <1>3 DEF DeliverAfterAck, DInv, Turns, RowInv, TypeOK
  <2>2. Shows({ev[h]}, Of(h))
    BY <1>1, <1>3, <2>1 DEF DeliverAfterAck, Deliver, Before
  <2>3. QED
    BY <1>3, <2>2 DEF Gives, DeliverAfterAck, Deliver, Goes, workflow
<1>4. ASSUME Dispatch(h), ~Acks(Of(h))
      PROVE  Gives(h)
  <2>1. turn \in BOOLEAN
    BY ShapeHolds DEF Shape
  <2>2. Shows({ev[h]}, Of(h))
    BY <1>1, <1>4, <2>1 DEF Dispatch, Deliver, Before
  <2>3. QED
    BY <1>4, <2>2 DEF Gives, Dispatch, Deliver, Goes, workflow
<1>5. QED
  BY <1>2, <1>3, <1>4

(* The rest of a request's way.                                             *)
LEMMA RequestWays ==
    ASSUME DInv, NEW h \in Handlers
    PROVE  /\ MarkSeen(h) => Marks(h)
           /\ QueueEvent(h) => Queues(h)
           /\ ForgetSeen(h) => Returns(h)
<1>1. ASSUME MarkSeen(h)
      PROVE  Marks(h)
  <2>1. brought \in [Events -> Payload]
    BY ShapeHolds DEF Shape
  <2>2. PICK p \in Payloads[Of(h)] : /\ brought[ev[h]] \in {NoPayload, p}
                                     /\ brought' = [brought EXCEPT ![ev[h]] = p]
    BY <1>1 DEF MarkSeen
  <2>3. \A e \in Events : brought'[e] = brought[e] \/ (e = ev[h] /\ brought[e] = NoPayload)
    BY <2>1, <2>2
  <2>4. QED
    BY <1>1, <2>3 DEF MarkSeen, Marks, Goes, workflow, session
<1>2. ASSUME QueueEvent(h)
      PROVE  Queues(h)
  <2> DEFINE l == Of(h)
  <2>1. /\ at[h] = "dispatch" /\ Coalesces(ev[h]) /\ ev[h] \in Events /\ l \in Listeners
        /\ queue' = [queue EXCEPT ![l] = Append(queue[l], ev[h])]
        /\ ListenerOf[ev[h]] = l /\ ev[h] \notin InQueue
        /\ queue \in [Listeners -> Seq(Events)] /\ ListenerOf \in [Events -> Listeners]
    BY <1>2, ShapeHolds DEF QueueEvent, Shape, Of, DInv, Reach, Before
  <2>2. ev[h] \notin Elems(queue[l])
    BY <2>1 DEF InQueue
  <2>3. /\ Elems(queue'[l]) = Elems(queue[l]) \cup {ev[h]}
        /\ Distinct(queue'[l])
    BY <2>1, <2>2, AppendElems DEF DInv, Line
  <2>4. \A k \in Listeners \ {l} : queue'[k] = queue[k]
    BY <2>1
  <2>5. Line'
    BY <2>1, <2>3, <2>4 DEF DInv, Line
  <2>6. InQueue' = InQueue \cup {ev[h]}
    <3>1. ASSUME NEW e \in Events
          PROVE  e \in Elems(queue'[ListenerOf[e]])
                 <=> e \in Elems(queue[ListenerOf[e]]) \/ e = ev[h]
      <4>1. CASE ListenerOf[e] = l
        BY <2>3, <4>1
      <4>2. CASE ListenerOf[e] # l
        BY <2>1, <2>4, <4>2
      <4>3. QED
        BY <4>1, <4>2
    <3>2. QED
      BY <2>1, <3>1 DEF InQueue
  <2>7. QED
    BY <1>2, <2>1, <2>5, <2>6 DEF QueueEvent, Queues, Goes, workflow, session
<1>3. ASSUME ForgetSeen(h)
      PROVE  Returns(h)
  BY <1>3 DEF ForgetSeen, Returns, Goes, Ends, workflow, session
<1>4. QED
  BY <1>1, <1>2, <1>3

(* The first events of a queue are taken out of it.                         *)
Cuts(l, front) ==
    /\ front \in Seq(Events) /\ Distinct(front) /\ Elems(front) \subseteq InQueue
    /\ \A e \in Elems(front) : ListenerOf[e] = l
    /\ InQueue' = InQueue \ Elems(front) /\ Line'
LEMMA QueueCut ==
    ASSUME DInv, NEW l \in Listeners, NEW n \in 1..Len(queue[l]),
           queue' = [queue EXCEPT ![l] = SubSeq(queue[l], n + 1, Len(queue[l]))],
           NEW front, front = SubSeq(queue[l], 1, n)
    PROVE  /\ Cuts(l, front)
           /\ \A m \in 0..n : Elems(front) = {queue[l][i] : i \in 1..m}
                                             \cup {queue[l][i] : i \in m + 1..n}
<1>0. PICK rest : rest = SubSeq(queue[l], n + 1, Len(queue[l]))
  OBVIOUS
<1>1. /\ queue[l] \in Seq(Events) /\ Distinct(queue[l])
      /\ \A e \in Elems(queue[l]) : ListenerOf[e] = l
      /\ queue \in [Listeners -> Seq(Events)] /\ ListenerOf \in [Events -> Listeners]
  BY ShapeHolds DEF Shape, DInv, Line
<1>s. Splits(queue[l], n, front, rest)
  BY <1>0, <1>1, SplitElems
<1>2. /\ front \in Seq(Events) /\ rest \in Seq(Events) /\ Distinct(front) /\ Distinct(rest)
      /\ Elems(queue[l]) = Elems(front) \cup Elems(rest)
      /\ Elems(front) \cap Elems(rest) = {}
  BY <1>1, <1>s DEF Splits
<1>3. queue'[l] = rest /\ \A k \in Listeners \ {l} : queue'[k] = queue[k]
  BY <1>0, <1>1
<1>4. \A e \in Elems(front) : e \in Events
  BY <1>2 DEF Elems
<1>5. Line'
  BY <1>1, <1>2, <1>3 DEF DInv, Line
<1>6. Elems(front) \subseteq InQueue
  BY <1>1, <1>2, <1>4 DEF InQueue
<1>7. InQueue' = InQueue \ Elems(front)
  <2>1. ASSUME NEW e \in Events
        PROVE  e \in Elems(queue'[ListenerOf[e]])
               <=> e \in Elems(queue[ListenerOf[e]]) /\ e \notin Elems(front)
    <3>1. CASE ListenerOf[e] = l
      BY <1>2, <1>3, <3>1
    <3>2. CASE ListenerOf[e] # l
      BY <1>1, <1>2, <1>3, <3>2
    <3>3. QED
      BY <3>1, <3>2
  <2>2. QED
    BY <2>1 DEF InQueue
<1>8. Cuts(l, front)
  BY <1>1, <1>2, <1>5, <1>6, <1>7 DEF Cuts
<1>9. QED
  BY <1>8, <1>s DEF Splits

(* What a digest makes of a queue.                                          *)
LEMMA DigestWays ==
    ASSUME DInv, NEW l \in Listeners
    PROVE  /\ FlushDigest(l) => \E batch : Flushes(l, batch)
           /\ GiveUp(l) => \E back, lost : GivesUp(back, lost)
<1>1. ASSUME FlushDigest(l)
      PROVE  \E batch : Flushes(l, batch)
  <2>1. PICK n \in 1..Len(queue[l]) :
            /\ \E active \in IF Acks(l) THEN BOOLEAN ELSE {turn} :
                  Hand(SubSeq(queue[l], 1, n), active)
            /\ queue' = [queue EXCEPT ![l] = SubSeq(@, n + 1, Len(@))]
            /\ UNCHANGED <<handlers, seen, enabled, ended, workflow, brought, budget>>
    BY <1>1 DEF FlushDigest
  <2>2. PICK active \in IF Acks(l) THEN BOOLEAN ELSE {turn} :
            Hand(SubSeq(queue[l], 1, n), active)
    BY <2>1
  <2>3. active \in BOOLEAN /\ (active => turn \/ Acks(l))
    BY <2>2, ShapeHolds DEF Shape
  <2>f. PICK front : front = SubSeq(queue[l], 1, n)
    OBVIOUS
  <2>0. queue' = [queue EXCEPT ![l] = SubSeq(queue[l], n + 1, Len(queue[l]))]
    BY <2>1
  <2>c. Cuts(l, front)
    BY <2>0, <2>f, QueueCut, Zenon
  <2>4. /\ front \in Seq(Events) /\ Distinct(front) /\ Elems(front) \subseteq InQueue
        /\ \A e \in Elems(front) : ListenerOf[e] = l
        /\ InQueue' = InQueue \ Elems(front) /\ Line'
    BY <2>c DEF Cuts
  <2>5. Elems(front) \cap InReach = {}
    BY <2>4 DEF DInv, Reach
  <2>6. Hand(front, active)
    BY <2>2, <2>f
  <2>7. Shows(Elems(front), l)
    BY <2>3, <2>4, <2>5, <2>6, HandElems
  <2>8. Flushes(l, Elems(front))
    BY <2>1, <2>4, <2>7 DEF Flushes, handlers, workflow
  <2>9. QED
    BY <2>8
<1>2. ASSUME GiveUp(l)
      PROVE  \E back, lost : GivesUp(back, lost)
  <2>1. PICK n \in 1..Len(queue[l]) : \E m \in 0..n :
            /\ queue' = [queue EXCEPT ![l] = SubSeq(@, n + 1, Len(@))]
            /\ seen' = seen \ {queue[l][i] : i \in 1..m}
            /\ failed' = failed \cup {queue[l][i] : i \in m + 1..n}
            /\ UNCHANGED <<handlers, enabled, ended, session, row, writer, recorded,
                           brought, budget>>
    BY <1>2 DEF GiveUp
  <2>2. PICK m \in 0..n :
            /\ queue' = [queue EXCEPT ![l] = SubSeq(@, n + 1, Len(@))]
            /\ seen' = seen \ {queue[l][i] : i \in 1..m}
            /\ failed' = failed \cup {queue[l][i] : i \in m + 1..n}
            /\ UNCHANGED <<handlers, enabled, ended, session, row, writer, recorded,
                           brought, budget>>
    BY <2>1
  <2>0. queue' = [queue EXCEPT ![l] = SubSeq(queue[l], n + 1, Len(queue[l]))]
    BY <2>2
  <2>f. PICK front : front = SubSeq(queue[l], 1, n)
    OBVIOUS
  <2> DEFINE back == {queue[l][i] : i \in 1..m}
             lost == {queue[l][i] : i \in m + 1..n}
  <2>c. /\ Cuts(l, front)
        /\ \A k \in 0..n : Elems(front) = {queue[l][i] : i \in 1..k}
                                          \cup {queue[l][i] : i \in k + 1..n}
    BY <2>0, <2>f, QueueCut, Zenon
  <2>3. /\ Elems(front) \subseteq InQueue /\ Elems(front) = back \cup lost
        /\ InQueue' = InQueue \ Elems(front) /\ Line'
    BY <2>2, <2>c, Zenon DEF Cuts
  <2>4. seen' = seen \ back /\ failed' = failed \cup lost
    BY <2>2, Zenon
  <2>5. UNCHANGED <<at, ev, enabled, ended, row, recorded, brought, turn, pending, shown>>
    BY <2>2 DEF handlers, session
  <2> HIDE DEF back, lost
  <2>6. GivesUp(back, lost)
    BY <2>3, <2>4, <2>5 DEF GivesUp
  <2>7. QED
    BY <2>6
<1>3. QED
  BY <1>1, <1>2

(* The two ways to say that an event waits for its digest.                  *)
LEMMA QueuedIs == \A e \in Events : Queued(e) <=> e \in InQueue
BY DEF Queued, InQueue, Elems

(* The session's steps, and the end of the process.                         *)
LEMMA SessionWays ==
    ASSUME DInv
    PROVE  /\ UserTurn \/ TurnEnds \/ UNCHANGED vars => Rests
           /\ Crash => Dies
<1>0. shown \in Seq(Events) /\ pending \in Seq(Events) /\ Once
  BY ShapeHolds DEF Shape, DInv
<1>1. Elems(<<>>) = {} /\ Distinct(<<>>)
  BY DEF Elems, Distinct
<1>2. Elems(shown \o pending) = InReach /\ Distinct(shown \o pending)
  BY <1>0, ConcatElems DEF Once, InReach
<1>3. ASSUME UNCHANGED <<shown, pending>>, turn => turn'
      PROVE  Shows({}, None)
  BY <1>0, <1>3 DEF Shows, Adds, Once, InReach
<1>4. UserTurn => Rests
  BY <1>3 DEF UserTurn, Rests, handlers, workflow
<1>5. UNCHANGED vars => Rests
  BY <1>3 DEF vars, Rests, handlers, workflow, session
<1>6. ASSUME TurnEnds
      PROVE  Rests
  <2>1. shown' = shown \o pending /\ pending' = <<>> /\ turn' = (pending # <<>>)
    BY <1>6 DEF TurnEnds
  <2>2. Elems(pending') = {} /\ Distinct(pending')
    BY <1>1, <2>1
  <2>3. Elems(shown') = InReach /\ Distinct(shown')
    BY <1>2, <2>1
  <2>4. Once' /\ InReach' = InReach \cup {}
    BY <2>2, <2>3 DEF Once, InReach
  <2>5. Adds({}, None)
    BY <2>2 DEF Adds
  <2>6. QED
    BY <1>6, <2>4, <2>5 DEF TurnEnds, Rests, Shows, handlers, workflow
<1>7. ASSUME Crash
      PROVE  Dies
  <2>1. shown' = shown /\ pending' = <<>> /\ Elems(pending) \subseteq failed'
    BY <1>7 DEF Crash, Elems
  <2>2. Elems(pending') = {} /\ Distinct(pending')
    BY <1>1, <2>1
  <2>3. /\ Once' /\ InReach' = Elems(shown)
        /\ InReach' \subseteq InReach /\ InReach \subseteq InReach' \cup failed'
    BY <1>0, <2>1, <2>2 DEF Once, InReach
  <2>4. queue' = [l \in Listeners |-> <<>>]
    BY <1>7 DEF Crash
  <2>5. Line' /\ InQueue' = {}
    BY <1>1, <2>4, ShapeHolds DEF Line, InQueue, Shape
  <2>6. InQueue \subseteq failed' /\ \A h \in Handlers : AtWork(h) => ev[h] \in failed'
    <3>1. failed' = failed \cup {pending[i] : i \in DOMAIN pending}
                           \cup {e \in Events : Queued(e)}
                           \cup {ev[h] : h \in {g \in Handlers : AtWork(g)}}
      BY <1>7 DEF Crash
    <3>2. \A e \in InQueue : e \in Events /\ Queued(e)
      BY QueuedIs DEF InQueue
    <3>3. QED
      BY <3>1, <3>2
  <2>7. failed \subseteq failed'
    BY <1>7 DEF Crash
  <2>8. QED
    BY <1>7, <2>2, <2>3, <2>5, <2>6, <2>7 DEF Crash, Dies
<1>8. QED
  BY <1>4, <1>5, <1>6, <1>7

(* Every step is one of these.                                              *)
Way(h) == (Moves(h) /\ Notes(h)) \/ Gives(h) \/ Marks(h) \/ Queues(h) \/ Returns(h)
LEMMA StepWays ==
    ASSUME DInv, [Next]_vars
    PROVE  \/ \E h \in Handlers : Way(h)
           \/ \E l \in Listeners : \E batch : Flushes(l, batch)
           \/ \E back, lost : GivesUp(back, lost)
           \/ Rests \/ Dies
<1>1. ASSUME NEW h \in Handlers,
             \/ \E e \in Events : GetHandle(h, e)
             \/ Refuse(h) \/ ResolveRaises(h) \/ DispatchRaises(h) \/ RecordingFails(h)
             \/ ReplyFails(h) \/ BeginImmediate(h) \/ WriteRow(h) \/ NothingToRecord(h)
             \/ Lifecycle(h) \/ LogEvent(h)
      PROVE  Way(h)
  BY <1>1, RequestMoves, RequestNotes DEF Way
<1>2. ASSUME NEW h \in Handlers, Dispatch(h)
      PROVE  Way(h)
  BY <1>2, RequestMoves, RequestNotes, RequestGives DEF Way
<1>3. ASSUME NEW h \in Handlers,
             DirectSend(h) \/ DeliverAfterAck(h) \/ MarkSeen(h) \/ QueueEvent(h)
             \/ ForgetSeen(h)
      PROVE  Way(h)
  BY <1>3, RequestGives, RequestWays DEF Way
<1>4. ASSUME NEW l \in Listeners, FlushDigest(l) \/ GiveUp(l)
      PROVE  (\E batch : Flushes(l, batch)) \/ (\E back, lost : GivesUp(back, lost))
  BY <1>4, DigestWays
<1>5. UserTurn \/ TurnEnds \/ Crash \/ UNCHANGED vars => Rests \/ Dies
  BY SessionWays
<1>6. QED
  BY <1>1, <1>2, <1>3, <1>4, <1>5 DEF Next, Progress

-----------------------------------------------------------------------------
(* Each part of the invariant is kept by every step.                        *)

(* What is asked of an event depends on what it brought.                    *)
LEMMA SameAnswers ==
    ASSUME NEW e \in Events, brought'[e] = brought[e]
    PROVE  /\ Coalesces(e)' <=> Coalesces(e)
           /\ Concludes(e)' <=> Concludes(e)
           /\ Retires(e)' <=> Retires(e)
           /\ Workflow(e)' = Workflow(e)
           /\ MayBeStale(Workflow(e))' <=> MayBeStale(Workflow(e))
<1>1. Coalesces(e)' <=> Coalesces(e)
  BY DEF Coalesces
<1>2. IsTerminal(e)' <=> IsTerminal(e)
  BY DEF IsTerminal
<1>3. Workflow(e)' = Workflow(e)
  BY DEF Workflow
<1>4. MayBeStale(Workflow(e))' <=> MayBeStale(Workflow(e))
  BY <1>3 DEF MayBeStale
<1>5. Concludes(e)' <=> Concludes(e)
  BY <1>1, <1>2 DEF Concludes
<1>6. Retires(e)' <=> Retires(e)
  BY <1>5 DEF Retires
<1>7. QED
  BY <1>1, <1>3, <1>4, <1>5, <1>6

(* An event that brought nothing yet is no digest's and ends nothing.       *)
LEMMA NothingBrought ==
    ASSUME NEW e \in Events, brought[e] = NoPayload
    PROVE  ~Coalesces(e) /\ ~Concludes(e) /\ ~Retires(e)
<1>1. NoPayload.routine = FALSE /\ NoPayload.final = FALSE /\ NoPayload.heard = ""
  BY DEF NoPayload
<1>2. "" \notin EndsOn[ListenerOf[e]]
  <2>1. ListenerOf[e] \in Listeners /\ EndsOn \in [Listeners -> SUBSET (Stage \ {""})]
    BY ConversationAssumption
  <2>2. QED
    BY <2>1
<1>3. ~Coalesces(e)
  BY <1>1 DEF Coalesces
<1>4. ~IsTerminal(e)
  BY <1>1, <1>2 DEF IsTerminal
<1>5. QED
  BY <1>3, <1>4 DEF Concludes, Retires

(* What an event brought changes only with its marker, so that no event that*)
(* has reached the agent, or waits, becomes another.                        *)
LEMMA BroughtStays ==
    ASSUME DInv, [Next]_vars, NEW e \in Events,
           e \in InReach \cup InQueue \/ Coalesces(e) \/ Concludes(e)
    PROVE  brought'[e] = brought[e]
<1>1. ASSUME NEW h \in Handlers, Marks(h)
      PROVE  brought'[e] = brought[e]
  BY <1>1, NothingBrought DEF Marks, DInv, Reach
<1>2. (\A h \in Handlers : ~Marks(h)) => brought' = brought
  BY StepWays DEF Way, Moves, Gives, Queues, Returns, Flushes, GivesUp, Rests, Dies
<1>3. QED
  BY <1>1, <1>2

(* Nothing that has failed is forgotten to have.                            *)
LEMMA FailedStays ==
    ASSUME DInv, [Next]_vars
    PROVE  failed \subseteq failed'
BY StepWays DEF Way, Notes, Gives, Marks, Queues, Returns, Flushes, GivesUp, Rests, Dies

(* What is shown and merged stays without repetition.                       *)
LEMMA OnceStep ==
    ASSUME DInv, [Next]_vars
    PROVE  Once'
<1>1. UNCHANGED <<shown, pending>> => Once'
  BY DEF DInv, Once
<1>2. Once' \/ UNCHANGED <<shown, pending>>
  BY StepWays DEF Way, Moves, Gives, Marks, Queues, Returns, Flushes, GivesUp, Rests, Dies,
                  Shows
<1>3. QED
  BY <1>1, <1>2

(* And so do the queues.                                                    *)
LEMMA LineStep ==
    ASSUME DInv, [Next]_vars
    PROVE  Line'
<1>1. queue' = queue => Line'
  BY DEF DInv, Line
<1>2. Line' \/ queue' = queue
  BY StepWays DEF Way, Moves, Gives, Marks, Queues, Returns, Flushes, GivesUp, Rests, Dies
<1>3. QED
  BY <1>1, <1>2

(* A marker has one holder.                                                 *)
LEMMA HeldStep ==
    ASSUME DInv, [Next]_vars
    PROVE  Held'
<1> USE ShapeHolds DEF DInv, Shape, Held, Before
<1>1. ASSUME NEW h \in Handlers, Moves(h)
      PROVE  Held'
  BY <1>1 DEF Moves
<1>2. ASSUME NEW h \in Handlers, Gives(h)
      PROVE  Held'
  BY <1>2 DEF Gives
<1>3. ASSUME NEW h \in Handlers, Marks(h)
      PROVE  Held'
  BY <1>3 DEF Marks
<1>4. ASSUME NEW h \in Handlers, Queues(h)
      PROVE  Held'
  BY <1>4 DEF Queues
<1>5. ASSUME NEW h \in Handlers, Returns(h)
      PROVE  Held'
  BY <1>5 DEF Returns
<1>6. ASSUME NEW l \in Listeners, NEW batch, Flushes(l, batch)
      PROVE  Held'
  BY <1>6 DEF Flushes
<1>7. ASSUME NEW back, NEW lost, GivesUp(back, lost)
      PROVE  Held'
  BY <1>7 DEF GivesUp, Reach
<1>8. CASE Rests
  BY <1>8 DEF Rests
<1>9. CASE Dies
  BY <1>9 DEF Dies
<1>10. QED
  BY <1>1, <1>2, <1>3, <1>4, <1>5, <1>6, <1>7, <1>8, <1>9, StepWays DEF Way

(* The sets below hold events, and stay as they are with their sequences.   *)
LEMMA ReachTypes ==
    ASSUME DInv
    PROVE  /\ InReach \subseteq Events /\ InQueue \subseteq Events
           /\ UNCHANGED <<shown, pending>> => InReach' = InReach
           /\ queue' = queue => InQueue' = InQueue
BY ShapeHolds DEF Shape, InReach, InQueue, Elems

(* What has reached the agent stays marked, and out of the queues.          *)
LEMMA ReachStep ==
    ASSUME DInv, [Next]_vars
    PROVE  Reach'
<1> USE ShapeHolds, ReachTypes DEF DInv, Shape, Reach, Before, After
<1>0. \A e \in Events : e \in InReach \cup InQueue \/ Coalesces(e) => brought'[e] = brought[e]
  BY BroughtStays
<1>q. ASSUME InQueue' \subseteq InQueue
      PROVE  \A e \in InQueue' : Coalesces(e)'
  BY <1>0, <1>q DEF Coalesces
<1>1. ASSUME NEW h \in Handlers, Moves(h)
      PROVE  Reach'
  <2>1. InReach' = InReach /\ InQueue' = InQueue /\ UNCHANGED <<seen, brought>>
    BY <1>1 DEF Moves
  <2>2. \A g \in Handlers : /\ at'[g] \in Before => at[g] \in Before /\ ev'[g] = ev[g]
                            /\ at'[g] \in After => at[g] \in After /\ ev'[g] = ev[g]
    BY <1>1 DEF Moves
  <2>3. QED
    BY <1>q, <2>1, <2>2 DEF Coalesces
<1>2. ASSUME NEW h \in Handlers, Gives(h)
      PROVE  Reach'
  <2>1. /\ InReach' = InReach \cup {ev[h]} /\ InQueue' = InQueue
        /\ UNCHANGED <<seen, brought, ev>>
        /\ at' = [at EXCEPT ![h] = "record"] /\ at[h] \in {"dispatch", "deliver"}
    BY <1>2 DEF Gives, Shows
  <2>2. \A g \in Handlers : at'[g] \in Before => at[g] \in Before /\ ev[g] # ev[h]
    BY <2>1 DEF Held
  <2>3. ev[h] \in seen /\ ev[h] \notin InQueue
    BY <2>1 DEF Held
  <2>4. QED
    BY <1>q, <2>1, <2>2, <2>3 DEF Coalesces
<1>3. ASSUME NEW h \in Handlers, Marks(h)
      PROVE  Reach'
  <2>1. /\ InReach' = InReach /\ InQueue' = InQueue /\ ev' = ev
        /\ at' = [at EXCEPT ![h] = "dispatch"] /\ ev[h] \notin seen
        /\ seen' = seen \cup {ev[h]}
    BY <1>3 DEF Marks
  <2>2. \A g \in Handlers : at'[g] \in After => ev'[g] \in InReach' \/ Coalesces(ev[g])'
    BY <1>0, <2>1 DEF Coalesces
  <2>3. QED
    BY <1>q, <2>1, <2>2
<1>4. ASSUME NEW h \in Handlers, Queues(h)
      PROVE  Reach'
  <2>1. /\ InReach' = InReach /\ InQueue' = InQueue \cup {ev[h]}
        /\ UNCHANGED <<seen, brought, ev>>
        /\ at' = [at EXCEPT ![h] = "record"] /\ at[h] = "dispatch" /\ Coalesces(ev[h])
    BY <1>4 DEF Queues
  <2>2. \A g \in Handlers : at'[g] \in Before => at[g] \in Before /\ ev[g] # ev[h]
    BY <2>1 DEF Held
  <2>3. ev[h] \in seen /\ ev[h] \notin InReach
    BY <2>1 DEF Held
  <2>4. QED
    BY <2>1, <2>2, <2>3 DEF Coalesces
<1>5. ASSUME NEW h \in Handlers, Returns(h)
      PROVE  Reach'
  <2>1. /\ InReach' = InReach /\ InQueue' = InQueue /\ brought' = brought
        /\ at[h] = "forget" /\ at' = [at EXCEPT ![h] = "idle"]
        /\ ev' = [ev EXCEPT ![h] = None] /\ seen' = seen \ {ev[h]}
    BY <1>5 DEF Returns
  <2>2. QED
    BY <1>q, <2>1 DEF Coalesces
<1>6. ASSUME NEW l \in Listeners, NEW batch, Flushes(l, batch)
      PROVE  Reach'
  <2>1. /\ InReach' = InReach \cup batch /\ InQueue' = InQueue \ batch
        /\ batch \subseteq InQueue /\ UNCHANGED <<seen, brought, ev, at>>
    BY <1>6 DEF Flushes, Shows
  <2>2. QED
    BY <1>q, <2>1 DEF Coalesces
<1>7. ASSUME NEW back, NEW lost, GivesUp(back, lost)
      PROVE  Reach'
  <2>1. /\ InReach' = InReach /\ InQueue' = InQueue \ (back \cup lost)
        /\ back \cup lost \subseteq InQueue /\ UNCHANGED <<brought, ev, at>>
        /\ seen' = seen \ back
    BY <1>7 DEF GivesUp
  <2>2. QED
    BY <1>q, <2>1 DEF Coalesces
<1>8. CASE Rests
  <2>1. InReach' = InReach /\ InQueue' = InQueue /\ UNCHANGED <<seen, brought, ev, at>>
    BY <1>8 DEF Rests, Shows
  <2>2. QED
    BY <1>q, <2>1 DEF Coalesces
<1>9. CASE Dies
  BY <1>9 DEF Dies
<1>10. QED
  BY <1>1, <1>2, <1>3, <1>4, <1>5, <1>6, <1>7, <1>8, <1>9, StepWays DEF Way

(* A merged message keeps its turn.                                         *)
LEMMA TurnsStep ==
    ASSUME DInv, [Next]_vars
    PROVE  Turns'
<1> USE ShapeHolds DEF DInv, Shape, Turns
<1>a. ASSUME NEW batch, NEW l, Adds(batch, l)
      PROVE  \A e \in Elems(pending') : ~Acks(ListenerOf[e]) => turn'
  BY <1>a DEF Adds
<1>b. UNCHANGED <<turn, pending>> =>
          \A e \in Elems(pending') : ~Acks(ListenerOf[e]) => turn'
  OBVIOUS
<1>1. \A e \in Elems(pending') : ~Acks(ListenerOf[e]) => turn'
  <2>1. \/ UNCHANGED <<turn, pending>>
        \/ (\E batch, l : Adds(batch, l)) \/ Elems(pending') = {}
    BY StepWays DEF Way, Moves, Gives, Marks, Queues, Returns, Flushes, GivesUp, Rests,
                    Dies, Shows
  <2>2. QED
    BY <1>a, <1>b, <2>1
<1>2. ASSUME NEW g \in Handlers, at'[g] = "deliver"
      PROVE  Acks(Of(g)')
  <2>1. ASSUME NEW h \in Handlers, Way(h)
        PROVE  Acks(ListenerOf[ev'[g]])
    <3>1. CASE Moves(h)
      BY <1>2, <3>1 DEF Moves, Before, Of
    <3>2. CASE ~Moves(h)
      BY <1>2, <2>1, <3>2 DEF Way, Gives, Marks, Queues, Returns, Of
    <3>3. QED
      BY <3>1, <3>2
  <2>2. (\E h \in Handlers : Way(h)) \/ UNCHANGED <<at, ev>>
    BY <1>2, StepWays DEF Flushes, GivesUp, Rests, Dies
  <2>3. Acks(ListenerOf[ev'[g]])
    BY <1>2, <2>1, <2>2 DEF Of
  <2>4. QED
    BY <2>3 DEF Of
<1>3. \A g \in Handlers : at'[g] = "deliver" => Acks(Of(g)')
  BY <1>2
<1>4. QED
  BY <1>1, <1>3 DEF Acks

(* What has a place keeps one: given back, it waits for its producer.       *)
LEMMA PlacedStays ==
    ASSUME DInv, [Next]_vars, NEW e \in Events, Placed(e)
    PROVE  Placed(e)'
<1> DEFINE InLine == \/ e \in InQueue' \/ e \notin seen'
                     \/ \E h \in Handlers : at'[h] = "dispatch" /\ ev'[h] = e
           Done == e \in failed' \cup InReach' \/ InLine
<1>1. failed \subseteq failed' /\ InReach \subseteq InReach' \cup failed'
  BY FailedStays, StepWays, ReachTypes DEF Way, Moves, Gives, Marks, Queues, Returns,
     Flushes, GivesUp, Rests, Dies, Shows
<1>2. ASSUME e \in InQueue
      PROVE  Done
  BY <1>2, StepWays, ReachTypes DEF Way, Moves, Gives, Marks, Queues, Returns, Flushes,
     GivesUp, Rests, Dies, Shows
<1>3. ASSUME e \notin seen
      PROVE  Done
  <2>1. CASE seen' \subseteq seen
    BY <1>3, <2>1
  <2>2. CASE \E h \in Handlers : Marks(h)
    <3>1. PICK h \in Handlers : Marks(h)
      BY <2>2
    <3>2. seen' = seen \cup {ev[h]} /\ at'[h] = "dispatch" /\ ev'[h] = ev[h]
      BY <3>1, ShapeHolds DEF Marks, Shape
    <3>3. QED
      BY <1>3, <3>2
  <2>3. QED
    BY <2>1, <2>2, StepWays DEF Way, Moves, Gives, Queues, Returns, Flushes, GivesUp, Rests,
       Dies
<1>4. ASSUME NEW g \in Handlers, at[g] = "dispatch", ev[g] = e, Coalesces(e)
      PROVE  Done
  <2>1. ASSUME NEW h \in Handlers, Moves(h), Notes(h)
        PROVE  Done
    BY <1>4, <2>1 DEF Moves, Notes
  <2>2. ASSUME NEW h \in Handlers, Gives(h)
        PROVE  Done
    BY <1>4, <2>2, ShapeHolds DEF Gives, Shows, Shape
  <2>3. ASSUME NEW h \in Handlers, Marks(h)
        PROVE  Done
    BY <1>4, <2>3, ShapeHolds DEF Marks, Shape
  <2>4. ASSUME NEW h \in Handlers, Queues(h)
        PROVE  Done
    BY <1>4, <2>4, ShapeHolds DEF Queues, Shape
  <2>5. ASSUME NEW h \in Handlers, Returns(h)
        PROVE  Done
    BY <1>4, <2>5, ShapeHolds DEF Returns, Shape
  <2>6. (\E l \in Listeners : \E batch : Flushes(l, batch))
        \/ (\E back, lost : GivesUp(back, lost)) \/ Rests => Done
    BY <1>4 DEF Flushes, GivesUp, Rests
  <2>7. Dies => Done
    BY <1>4 DEF Dies, AtWork
  <2>8. QED
    BY <2>1, <2>2, <2>3, <2>4, <2>5, <2>6, <2>7, StepWays DEF Way
<1> HIDE DEF InLine
<1>5. Done \/ e \in failed' \cup InReach'
  BY <1>1, <1>2, <1>3, <1>4, QueuedIs DEF Placed, Waits
<1>6. Coalesces(e) => Coalesces(e)'
  BY BroughtStays, SameAnswers
<1>7. InLine /\ Coalesces(e)' => Waits(e)'
  BY DEF InLine, Waits, Queued, InQueue, Elems
<1>8. e \in failed' \cup InReach' => Placed(e)'
  BY DEF Placed
<1>9. Coalesces(e) \/ e \in failed' \cup InReach'
  BY <1>1 DEF Placed, Waits
<1>10. Waits(e)' => Placed(e)'
  BY DEF Placed
<1>11. QED
  BY <1>5, <1>6, <1>7, <1>8, <1>9, <1>10

(* What is recorded stays recorded, and what joins it was being recorded.   *)
LEMMA RecordedGrows ==
    ASSUME DInv, [Next]_vars, NEW l \in Listeners
    PROVE  /\ Elems(recorded[l]) \subseteq Elems(recorded'[l])
           /\ \A e \in Elems(recorded'[l]) \ Elems(recorded[l]) :
                 e \in Events /\ \E h \in Handlers : at[h] = "write" /\ ev[h] = e
<1>1. ASSUME NEW h \in Handlers, Notes(h)
      PROVE  \/ recorded'[l] = recorded[l]
             \/ at[h] = "write" /\ recorded'[l] = Append(recorded[l], ev[h])
  BY <1>1, ShapeHolds DEF Notes, Shape
<1>2. \/ recorded'[l] = recorded[l]
      \/ \E h \in Handlers : at[h] = "write" /\ recorded'[l] = Append(recorded[l], ev[h])
  BY <1>1, StepWays DEF Way, Gives, Marks, Queues, Returns, Flushes, GivesUp, Rests, Dies
<1>3. ASSUME NEW h \in Handlers, at[h] = "write", recorded'[l] = Append(recorded[l], ev[h])
      PROVE  ev[h] \in Events /\ Elems(recorded'[l]) = Elems(recorded[l]) \cup {ev[h]}
  <2>1. ev[h] \in Events /\ recorded[l] \in Seq(Events)
    BY <1>3, ShapeHolds DEF Shape
  <2>2. QED
    BY <1>3, <2>1, AppendElems
<1>4. QED
  BY <1>2, <1>3

(* The log of what was recorded and what has reached the agent agree.       *)
LEMMA RecsStep ==
    ASSUME DInv, [Next]_vars
    PROVE  Recs'
<1> USE ShapeHolds DEF Shape
<1>1. ASSUME NEW l \in Listeners, NEW e \in Elems(recorded'[l])
      PROVE  Placed(e)'
  <2>1. CASE e \in Elems(recorded[l])
    <3>1. Placed(e) /\ e \in Events
      BY <2>1 DEF DInv, Recs, Elems
    <3>2. QED
      BY <3>1, PlacedStays
  <2>2. CASE e \notin Elems(recorded[l])
    <3>1. e \in Events /\ Placed(e)
      BY <1>1, <2>2, RecordedGrows DEF DInv, Recs, After
    <3>2. QED
      BY <3>1, PlacedStays
  <2>3. QED
    BY <2>1, <2>2
<1>2. ASSUME NEW g \in Handlers, NEW e \in Events, at'[g] \in After, ev'[g] = e
      PROVE  Placed(e)'
  <2>1. CASE at[g] \in After /\ ev[g] = e
    BY <2>1, PlacedStays DEF DInv, Recs
  <2>2. CASE e \in InReach'
    BY <2>2 DEF Placed
  <2>3. CASE e \in InQueue' /\ Coalesces(e)'
    BY <2>3 DEF Placed, Waits, InQueue, Queued, Elems
  <2>4. ASSUME NEW h \in Handlers, Way(h)
        PROVE  \/ at[g] \in After /\ ev[g] = e
               \/ e \in InReach' \/ (e \in InQueue' /\ Coalesces(e))
    <3>1. CASE Moves(h)
      BY <1>2, <3>1 DEF Moves
    <3>2. CASE Gives(h)
      BY <1>2, <3>2 DEF Gives, Shows
    <3>3. CASE Marks(h)
      BY <1>2, <3>3 DEF Marks, After
    <3>4. CASE Queues(h)
      BY <1>2, <3>4 DEF Queues
    <3>5. CASE Returns(h)
      BY <1>2, <3>5 DEF Returns, After
    <3>6. QED
      BY <2>4, <3>1, <3>2, <3>3, <3>4, <3>5 DEF Way
  <2>5. (\E h \in Handlers : Way(h)) \/ (at[g] \in After /\ ev[g] = e)
    BY <1>2, StepWays DEF Flushes, GivesUp, Rests, Dies, After
  <2>6. Coalesces(e) => Coalesces(e)'
    BY BroughtStays, SameAnswers
  <2>7. QED
    BY <2>1, <2>2, <2>3, <2>4, <2>5, <2>6
<1>3. ASSUME NEW e \in InReach' \cup InQueue'
      PROVE  \/ e \in failed' \/ Workflow(e)' = NoWorkflow \/ Recording(e)'
             \/ e \in Elems(recorded'[ListenerOf[e]])
  <2>0. failed \subseteq failed'
    BY FailedStays
  <2>1. ASSUME e \notin InReach \cup InQueue
        PROVE  Recording(e)'
    <3>1. ASSUME NEW h \in Handlers, Gives(h) \/ Queues(h)
          PROVE  e = ev[h] /\ at'[h] \in {"record", "write"} /\ ev'[h] = ev[h]
      BY <1>3, <2>1, <3>1, ReachTypes DEF Gives, Queues, Shows
    <3>2. ASSUME \A h \in Handlers : ~Gives(h) /\ ~Queues(h)
          PROVE  FALSE
      BY <1>3, <2>1, <3>2, StepWays, ReachTypes DEF Way, Moves, Marks, Returns, Flushes,
         GivesUp, Rests, Dies, Shows
    <3>3. QED
      BY <3>1, <3>2 DEF Recording
  <2>2. ASSUME e \in InReach \cup InQueue
        PROVE  e \in Events /\ Workflow(e)' = Workflow(e)
    BY <2>2, BroughtStays, SameAnswers, ReachTypes
  <2>3. ASSUME e \in InReach \cup InQueue, NEW g \in Handlers,
               at[g] \in {"record", "write"}, ev[g] = e
        PROVE  \/ e \in failed' \/ Workflow(e) = NoWorkflow \/ Recording(e)'
               \/ e \in Elems(recorded'[ListenerOf[e]])
    <3>1. ASSUME NEW h \in Handlers, Moves(h), Notes(h)
          PROVE  \/ e \in failed' \/ Workflow(e) = NoWorkflow \/ Recording(e)'
                 \/ e \in Elems(recorded'[ListenerOf[e]])
      BY <2>3, <3>1 DEF Moves, Notes, Of, Recording, After
    <3>2. ASSUME NEW h \in Handlers, Gives(h) \/ Marks(h) \/ Queues(h) \/ Returns(h)
          PROVE  Recording(e)'
      BY <2>3, <3>2 DEF Gives, Marks, Queues, Returns, Recording
    <3>3. (\E l \in Listeners : \E batch : Flushes(l, batch))
          \/ (\E back, lost : GivesUp(back, lost)) \/ Rests => Recording(e)'
      BY <2>3 DEF Flushes, GivesUp, Rests, Recording
    <3>4. Dies => e \in failed'
      BY <2>3 DEF Dies, AtWork
    <3>5. QED
      BY <3>1, <3>2, <3>3, <3>4, StepWays DEF Way
  <2>4. ASSUME e \in InReach \cup InQueue
        PROVE  ListenerOf[e] \in Listeners
    BY <2>2, <2>4
  <2>5. e \in InReach \cup InQueue =>
            \/ e \in failed \/ Workflow(e) = NoWorkflow \/ Recording(e)
            \/ e \in Elems(recorded[ListenerOf[e]])
    BY DEF DInv, Recs
  <2>6. QED
    BY <2>0, <2>1, <2>2, <2>3, <2>4, <2>5, RecordedGrows DEF Recording
<1>4. QED
  BY <1>1, <1>2, <1>3 DEF Recs

(* A listener is only ever added to those whose work has ended, and taken   *)
(* out of the enabled ones by a request that retires it.                    *)
LEMMA RetiresOnly ==
    ASSUME DInv, [Next]_vars
    PROVE  /\ ended \subseteq ended' /\ enabled' \subseteq enabled
           /\ \A l \in enabled \ enabled' : \E h \in Handlers :
                 at[h] = "lifecycle" /\ Retires(ev[h]) /\ l = Of(h)
BY StepWays DEF Way, Notes, Gives, Marks, Queues, Returns, Flushes, GivesUp, Rests, Dies

(* A terminal event is told of.                                             *)
LEMMA LoggedStep ==
    ASSUME DInv, [Next]_vars
    PROVE  Logged'
<1> USE ShapeHolds DEF Shape
<1>1. ASSUME NEW g \in Handlers, NEW e \in Events, at'[g] = "log", ev'[g] = e
      PROVE  Retires(e)' /\ ListenerOf[e] \notin enabled'
  <2>1. ASSUME NEW h \in Handlers, Moves(h), Notes(h)
        PROVE  Retires(e) /\ ListenerOf[e] \notin enabled'
    <3>1. CASE g = h
      BY <1>1, <2>1, <3>1 DEF Moves, Notes, After, Of
    <3>2. CASE g # h
      BY <1>1, <2>1, <3>2, RetiresOnly DEF Moves, DInv, Logged
    <3>3. QED
      BY <3>1, <3>2
  <2>2. ASSUME NEW h \in Handlers, Gives(h) \/ Marks(h) \/ Queues(h) \/ Returns(h)
        PROVE  Retires(e) /\ ListenerOf[e] \notin enabled'
    BY <1>1, <2>2, RetiresOnly DEF Gives, Marks, Queues, Returns, DInv, Logged
  <2>3. (\E l \in Listeners : \E batch : Flushes(l, batch))
        \/ (\E back, lost : GivesUp(back, lost)) \/ Rests
            => Retires(e) /\ ListenerOf[e] \notin enabled'
    BY <1>1, RetiresOnly DEF Flushes, GivesUp, Rests, DInv, Logged
  <2>4. ~Dies
    BY <1>1 DEF Dies
  <2>5. Retires(e) /\ ListenerOf[e] \notin enabled'
    BY <2>1, <2>2, <2>3, <2>4, StepWays DEF Way
  <2>6. Retires(e)'
    BY <2>5, BroughtStays, SameAnswers DEF Retires
  <2>7. QED
    BY <2>5, <2>6
<1>2. ASSUME NEW e \in InReach' \ failed', Concludes(e)', ~Handled(e)'
      PROVE  Told(e)'
  <2>1. e \in InReach
    <3>1. ASSUME NEW h \in Handlers, Gives(h)
          PROVE  e # ev[h]
      BY <1>2, <3>1 DEF Gives, Handled, AtWork
    <3>2. ASSUME NEW l \in Listeners, NEW batch, Flushes(l, batch)
          PROVE  e \notin batch
      <4>1. e \in batch => e \in InQueue /\ e \in Events /\ Coalesces(e)
        BY <3>2, ReachTypes DEF Flushes, DInv, Reach
      <4>2. e \in batch => Coalesces(e)'
        BY <4>1, BroughtStays, SameAnswers
      <4>3. Concludes(e)' => ~Coalesces(e)'
        BY DEF Concludes
      <4>4. QED
        BY <1>2, <4>2, <4>3
    <3>3. QED
      BY <1>2, <3>1, <3>2, StepWays, ReachTypes DEF Way, Moves, Gives, Marks, Queues,
         Returns, Flushes, GivesUp, Rests, Dies, Shows
  <2>2. e \in Events /\ Concludes(e) /\ e \notin failed
    BY <1>2, <2>1, BroughtStays, SameAnswers, ReachTypes, FailedStays
  <2>3. CASE ~Handled(e)
    <3>1. Told(e)
      BY <2>1, <2>2, <2>3 DEF DInv, Logged
    <3>2. Retires(e)' => Retires(e)
      BY <2>1, <2>2, BroughtStays, SameAnswers
    <3>3. QED
      BY <3>1, <3>2, RetiresOnly DEF Told
  <2>4. ASSUME NEW g \in Handlers, AtWork(g), ev[g] = e
        PROVE  Told(e)'
    <3>1. at[g] \in After
      BY <2>1, <2>4 DEF AtWork, DInv, Reach, Before, After, Label
    <3>2. ASSUME NEW h \in Handlers, Moves(h), Notes(h)
          PROVE  Told(e)'
      <4>1. g = h
        BY <1>2, <2>4, <3>2 DEF Moves, Handled, AtWork
      <4>2. at'[h] \notin After
        BY <1>2, <2>4, <3>2, <4>1 DEF Moves, Handled, AtWork, After
      <4>3. QED
        BY <1>2, <2>2, <2>4, <3>1, <3>2, <4>1, <4>2 DEF Notes
    <3>3. ASSUME NEW h \in Handlers, Gives(h) \/ Marks(h) \/ Queues(h) \/ Returns(h)
          PROVE  Handled(e)'
      BY <2>4, <3>1, <3>3 DEF Gives, Marks, Queues, Returns, Handled, AtWork, After
    <3>4. (\E l \in Listeners : \E batch : Flushes(l, batch))
          \/ (\E back, lost : GivesUp(back, lost)) \/ Rests => Handled(e)'
      BY <2>4 DEF Flushes, GivesUp, Rests, Handled, AtWork
    <3>5. ~Dies
      BY <1>2, <2>4 DEF Dies
    <3>6. QED
      BY <1>2, <3>2, <3>3, <3>4, <3>5, StepWays DEF Way
  <2>5. QED
    BY <2>3, <2>4 DEF Handled
<1>3. QED
  BY <1>1, <1>2 DEF Logged

(* A workflow that has come to its end with an event does not leave it.     *)
LEMMA ConcludedStays ==
    ASSUME DInv, [Next]_vars, NEW e \in Events, Concluded(e),
           e \in InReach \/ Coalesces(e) \/ Concludes(e)
    PROVE  Concluded(e)'
<1>1. /\ Workflow(e)' = Workflow(e) /\ (MayBeStale(Workflow(e))' <=> MayBeStale(Workflow(e)))
      /\ ListenerOf[e] \in Listeners /\ failed \subseteq failed'
  BY BroughtStays, SameAnswers, FailedStays, ConversationAssumption
<1>2. row[ListenerOf[e]].stage \in TerminalStages
          => row'[ListenerOf[e]].stage \in TerminalStages
  BY <1>1, EndsStay
<1>3. QED
  BY <1>1, <1>2 DEF Concluded

(* A retired listener's work is over.                                       *)
LEMMA OverStep ==
    ASSUME DInv, [Next]_vars
    PROVE  Over'
<1> USE ShapeHolds DEF Shape
<1>0. \A h \in Handlers : at[h] \in After => ev[h] \in InReach \/ Coalesces(ev[h])
  BY DEF DInv, Reach
<1>1. ASSUME NEW g \in Handlers, NEW e \in Events, at'[g] \in {"lifecycle", "log"}, ev'[g] = e
      PROVE  Concluded(e)'
  <2>1. ASSUME at[g] \in {"lifecycle", "log"}, ev[g] = e
        PROVE  Concluded(e)'
    <3>1. Concluded(e) /\ (e \in InReach \/ Coalesces(e))
      BY <1>0, <2>1 DEF DInv, Over, After
    <3>2. QED
      BY <3>1, ConcludedStays
  <2>2. ASSUME NEW h \in Handlers, Moves(h), Notes(h)
        PROVE  Concluded(e)' \/ (at[g] \in {"lifecycle", "log"} /\ ev[g] = e)
    <3>1. CASE g = h
      BY <1>1, <2>2, <3>1 DEF Moves, Notes, After
    <3>2. CASE g # h
      BY <1>1, <2>2, <3>2 DEF Moves
    <3>3. QED
      BY <3>1, <3>2
  <2>3. ASSUME NEW h \in Handlers, Gives(h) \/ Marks(h) \/ Queues(h) \/ Returns(h)
        PROVE  at[g] \in {"lifecycle", "log"} /\ ev[g] = e
    BY <1>1, <2>3 DEF Gives, Marks, Queues, Returns
  <2>4. (\E l \in Listeners : \E batch : Flushes(l, batch))
        \/ (\E back, lost : GivesUp(back, lost)) \/ Rests
            => at[g] \in {"lifecycle", "log"} /\ ev[g] = e
    BY <1>1 DEF Flushes, GivesUp, Rests
  <2>5. ~Dies
    BY <1>1 DEF Dies
  <2>6. QED
    BY <2>1, <2>2, <2>3, <2>4, <2>5, StepWays DEF Way
<1>2. ASSUME NEW l \in Listeners, NEW e \in Events, RetiredBy(l, e)
      PROVE  RetiredBy(l, e)'
  <2>1. InReach \subseteq InReach' \cup failed' /\ failed \subseteq failed'
    BY FailedStays, StepWays, ReachTypes DEF Way, Moves, Gives, Marks, Queues, Returns,
       Flushes, GivesUp, Rests, Dies, Shows
  <2>2. Concludes(e)' /\ Concluded(e)'
    BY <1>2, BroughtStays, SameAnswers, ConcludedStays DEF RetiredBy
  <2>3. QED
    BY <1>2, <2>1, <2>2 DEF RetiredBy
<1>3. ASSUME NEW l \in Listeners \ enabled'
      PROVE  \E e \in Events : RetiredBy(l, e)'
  <2>1. CASE l \notin enabled
    BY <1>2, <2>1 DEF DInv, Over
  <2>2. CASE l \in enabled
    <3>1. PICK h \in Handlers : at[h] = "lifecycle" /\ Retires(ev[h]) /\ l = Of(h)
      BY <2>2, RetiresOnly
    <3>2. ev[h] \in Events /\ Concluded(ev[h]) /\ Concludes(ev[h])
      BY <3>1 DEF DInv, Over, Retires
    <3>3. ev[h] \in InReach
      BY <1>0, <3>1, <3>2 DEF After, Concludes
    <3>4. RetiredBy(l, ev[h])
      BY <3>1, <3>2, <3>3 DEF RetiredBy, Of
    <3>5. QED
      BY <1>2, <3>2, <3>4
  <2>3. QED
    BY <2>1, <2>2
<1>4. QED
  BY <1>1, <1>3 DEF Over

(* The invariant holds in every reachable state.                            *)
LEMMA DInvAlways == Spec => []DInv
<1>1. DInv /\ [Next]_vars => DInv'
  BY StepTypes, StepUnchanged, StepCurrent, OnceStep, LineStep, HeldStep, ReachStep,
     TurnsStep, RecsStep, LoggedStep, OverStep DEF DInv, RowInv
<1>2. QED
  BY <1>1, InitDInv, PTL DEF Spec

-----------------------------------------------------------------------------
(* The theorems.                                                            *)

(* What has reached the agent, as a set and as a sequence.                  *)
LEMMA ReachedElems ==
    ASSUME DInv
    PROVE  /\ Elems(Reached) = InReach /\ ReachedSet = InReach /\ Distinct(Reached)
           /\ \A e : e \in InReach <=> \E j \in DOMAIN Reached : Reached[j] = e
<1>1. shown \in Seq(Events) /\ pending \in Seq(Events)
  BY ShapeHolds DEF Shape
<1>2. Elems(Reached) = InReach /\ Distinct(Reached)
  BY <1>1, ConcatElems DEF DInv, Once, Reached, InReach
<1>3. QED
  BY <1>2 DEF Elems, ReachedSet

(* No event reaches the agent twice.                                        *)
THEOREM ReachedOnce == Spec => []ReachesOnce
<1>1. DInv => ReachesOnce
  BY ReachedElems DEF Distinct, ReachesOnce
<1>2. QED
  BY <1>1, DInvAlways, PTL

(* A merged message whose ack notice was not awaited has its turn.          *)
THEOREM MergedHaveTurn == Spec => []UnackedHasATurn
<1>1. DInv => UnackedHasATurn
  BY DEF DInv, Turns, Elems, UnackedHasATurn
<1>2. QED
  BY <1>1, DInvAlways, PTL

(* The workflow's state tells of what reached the agent and of what waits   *)
(* for its digest, or went back to its producer, and of all that reached it.*)
THEOREM RecordsAndReach == Spec => []RecordedReached
<1>1. ASSUME DInv, NEW l \in Listeners, NEW i \in DOMAIN recorded[l]
      PROVE  \/ recorded[l][i] \in failed \/ Waits(recorded[l][i])
             \/ \E j \in DOMAIN Reached : Reached[j] = recorded[l][i]
  <2>1. recorded[l][i] \in Elems(recorded[l])
    BY DEF Elems
  <2>2. Placed(recorded[l][i])
    BY <1>1, <2>1 DEF DInv, Recs
  <2>3. QED
    BY <1>1, <2>2, ReachedElems DEF Placed
<1>2. ASSUME DInv, NEW j \in DOMAIN Reached
      PROVE  LET e == Reached[j] IN
             \/ e \in failed \/ Workflow(e) = NoWorkflow
             \/ \E h \in Handlers : at[h] \in {"record", "write"} /\ ev[h] = e
             \/ \E i \in DOMAIN recorded[ListenerOf[e]] : recorded[ListenerOf[e]][i] = e
  <2>1. Reached[j] \in InReach
    BY <1>2, ReachedElems
  <2>2. QED
    BY <1>2, <2>1 DEF DInv, Recs, Recording, Elems
<1>3. DInv => RecordedReached
  BY <1>1, <1>2 DEF RecordedReached
<1>4. QED
  BY <1>3, DInvAlways, PTL

(* A listener that a terminal event leaves enabled is shown as stale.       *)
THEOREM KeptAreListed == Spec => []KeptIsListed
<1>1. ASSUME DInv, NEW e \in InReach \ failed, Concludes(e), ListenerOf[e] \in enabled,
             \A h \in Handlers : AtWork(h) => ev[h] # e
      PROVE  ListenerOf[e] \in StaleTerminal
  <2>1. ListenerOf[e] \in ended /\ ~Retires(e)
    BY <1>1 DEF DInv, Logged, Handled, Told
  <2>2. TerminalAction(ListenerOf[e]) \in {"warn_only", "shared_listener_kept_enabled"}
    BY <1>1, <2>1 DEF Retires, TerminalAction
  <2>3. QED
    BY <1>1, <2>1, <2>2 DEF StaleTerminal, StaleEnabled
<1>2. DInv => KeptIsListed
  BY <1>1, ReachedElems DEF KeptIsListed
<1>3. QED
  BY <1>2, DInvAlways, PTL

(* A retired listener has shown the event that retired it, and its workflow *)
(* is over where that event's stage ends it.                                *)
THEOREM RetiredAreOver == Spec => []RetiredIsOver
<1>1. ASSUME DInv, NEW l \in Listeners \ enabled
      PROVE  \E e \in ReachedSet \cup failed :
                /\ ListenerOf[e] = l /\ Concludes(e)
                /\ Workflow(e).stage \in TerminalStages =>
                      \/ row[l].stage \in TerminalStages
                      \/ e \in failed \/ MayBeStale(Workflow(e))
  <2>1. PICK e \in Events : RetiredBy(l, e)
    BY <1>1 DEF DInv, Over
  <2>2. QED
    BY <1>1, <2>1, ReachedElems DEF RetiredBy, Concluded
<1>2. DInv => RetiredIsOver
  BY <1>1 DEF RetiredIsOver
<1>3. QED
  BY <1>2, DInvAlways, PTL

=============================================================================
