----------------------------- MODULE Registry_proofs -----------------------------
(***************************************************************************)
(* Theorems about Registry for any owners, listeners, bindings, events,     *)
(* configurations, retentions and requests in flight: the six properties    *)
(* its run checks.                                                          *)
(***************************************************************************)
EXTENDS Registry, TLAPS

-----------------------------------------------------------------------------
(* The digest policy.                                                       *)

(* What is kept with a listener or a binding is nothing, off, or a policy   *)
(* with every field given.                                                  *)
Complete(r) ==
    /\ r.enabled = "yes" /\ r.mode \in Modes /\ r.store # "unset"
    /\ r.retention # 0
    /\ Store(r.mode, r.store) = r.store

(* The forms a kept layer has.                                              *)
LEMMA KeptForms ==
    ASSUME NEW r, Kept(r)
    PROVE  r \in Layer /\ (r = NoLayer \/ r = OffLayer \/ Complete(r))
<1>1. r \in Layer /\ Override(r) = r
  BY DEF Kept
<1>2. CASE r # NoLayer /\ Normalize(r).active
  <2>1. r.enabled = "yes" /\ r.mode # "off"
    BY <1>2 DEF Normalize, Off
  <2> DEFINE mode == Given(r.mode, "unset", "pointer_summary")
             store == Store(mode, r.store)
  <2>2. mode \in Modes
    BY <1>1, <2>1 DEF Given, Modes, Layer
  <2>3. store \in {"none", "redacted", "raw_local"} /\ Store(mode, store) = store
    BY <1>1, <2>2 DEF Store, Given, Modes, Layer
  <2>4. /\ Normalize(r).mode = mode /\ Normalize(r).store = store
        /\ Normalize(r).retention
              = Given(r.retention, 0, IF store = "raw_local" THEN RawFor ELSE RedactedFor)
    BY <2>1 DEF Normalize
  <2>5. Normalize(r).retention # 0
    BY <1>1, <2>4, PoliciesAssumption DEF Given, Layer
  <2>6. r.mode = mode /\ r.store = store /\ r.retention = Normalize(r).retention
    BY <1>1, <1>2, <2>4 DEF Override
  <2>7. QED
    BY <1>1, <2>1, <2>2, <2>3, <2>5, <2>6 DEF Complete
<1>3. QED
  BY <1>1, <1>2 DEF Override

(* A complete layer overrides whatever is below it.                         *)
LEMMA MergeComplete ==
    ASSUME NEW a, NEW b \in Layer, Complete(b)
    PROVE  Merge(a, b) = b
<1>1. b = [enabled |-> b.enabled, mode |-> b.mode, store |-> b.store,
           retention |-> b.retention]
  BY DEF Layer
<1>2. b.mode # "unset"
  BY DEF Complete, Modes
<1>3. QED
  BY <1>1, <1>2 DEF Merge, Given, Complete

(* Over nothing, a layer is itself.                                         *)
LEMMA MergeOverNothing ==
    ASSUME NEW g \in Layer
    PROVE  Merge(NoLayer, g) = g
<1>1. g = [enabled |-> g.enabled, mode |-> g.mode, store |-> g.store,
           retention |-> g.retention]
  BY DEF Layer
<1>2. QED
  BY <1>1 DEF Merge, Given, NoLayer

(* A complete layer is neither empty nor disabling.                         *)
LEMMA CompleteAdds ==
    ASSUME NEW r \in Layer, Complete(r)
    PROVE  Adds(r) /\ ~ExplicitDisable(r) /\ r # NoLayer
BY DEF Complete, Adds, ExplicitDisable, Modes, NoLayer

(* The layers that add nothing.                                             *)
LEMMA DisablingForms ==
    /\ ~Adds(NoLayer) /\ ~ExplicitDisable(NoLayer)
    /\ ~Adds(OffLayer) /\ ExplicitDisable(OffLayer) /\ OffLayer # NoLayer
    /\ Normalize(NoLayer) = Off /\ Normalize(OffLayer) = Off
BY DEF Adds, ExplicitDisable, NoLayer, OffLayer, Normalize

(* The merged policy is the most specific layer's, for any layers an owner  *)
(* can have configured.                                                     *)
LEMMA ResolveIsMostSpecific ==
    ASSUME NEW g \in Layer, NEW l, NEW b, Kept(l), Kept(b)
    PROVE  Resolve(g, l, b) = MostSpecific(g, l, b)
<1>1. CASE Complete(b)
  <2>1. Resolve(g, l, b) = Normalize(b)
    BY <1>1, KeptForms, CompleteAdds, MergeComplete DEF Resolve, Added
  <2>2. QED
    BY <1>1, <2>1, KeptForms, CompleteAdds DEF MostSpecific
<1>2. CASE b = OffLayer
  BY <1>2, DisablingForms DEF Resolve, MostSpecific
<1>3. CASE b = NoLayer /\ Complete(l)
  <2>1. Resolve(g, l, b) = Normalize(l)
    BY <1>3, KeptForms, CompleteAdds, MergeComplete, DisablingForms DEF Resolve, Added
  <2>2. QED
    BY <1>3, <2>1, KeptForms, CompleteAdds DEF MostSpecific
<1>4. CASE b = NoLayer /\ l = OffLayer
  BY <1>4, DisablingForms DEF Resolve, MostSpecific
<1>5. CASE b = NoLayer /\ l = NoLayer
  <2>1. MostSpecific(g, l, b) = Normalize(g)
    BY <1>5 DEF MostSpecific
  <2>2. CASE ExplicitDisable(g)
    BY <1>5, <2>1, <2>2, DisablingForms DEF Resolve, Normalize, ExplicitDisable
  <2>3. CASE g = NoLayer
    BY <1>5, <2>1, <2>3, DisablingForms DEF Resolve, Added
  <2>4. CASE Adds(g)
    BY <1>5, <2>1, <2>4, DisablingForms, MergeOverNothing DEF Resolve, Added, Adds
  <2>5. QED
    BY <2>2, <2>3, <2>4 DEF Adds
<1>6. QED
  BY <1>1, <1>2, <1>3, <1>4, <1>5, KeptForms

(* What a policy stores, and for how long.                                  *)
LEMMA NormalizeTypes ==
    ASSUME NEW r \in Layer, Stores(Normalize(r))
    PROVE  Normalize(r).store \in {"redacted", "raw_local"} /\ Normalize(r).retention \in Nat
BY PoliciesAssumption DEF Stores, Normalize, Given, Layer, Off

-----------------------------------------------------------------------------
(* The invariant.                                                           *)

BindingRow == [status : {"none", "active", "paused", "retired"},
               filter : Filter, sameProducer : BOOLEAN]

Shapes ==
    /\ now \in Nat /\ now <= MaxTime /\ config \in Configs
    /\ enabled \subseteq Listeners /\ bound \in [Bindings -> BindingRow]
    /\ outbox \subseteq Bindings \X Ids
    /\ seen \in [Ids -> (Listeners \X (0..MaxTime)) \cup {None}]
    /\ log \subseteq Listeners \X (0..MaxTime)
    /\ at \in [Handlers -> {"idle", "mark", "find", "store", "dispatch"}]
    /\ id \in [Handlers -> Ids \cup {None}]
    /\ lis \in [Handlers -> Listeners \cup {None}]
    /\ since \in [Handlers -> Nat]
    /\ via \in [Handlers -> Bindings \cup {None}]
    /\ kept \in [Handlers -> PayloadRow \cup {None}]
    /\ refused \subseteq Bindings

(* A request is over within MaxFlight ticks.                                *)
Flight ==
    \A h \in Handlers : at[h] # "idle" =>
        /\ id[h] \in Ids /\ lis[h] \in Listeners
        /\ since[h] <= now /\ now <= since[h] + MaxFlight

(* A request that has marked its event holds that event's marker, alone.    *)
Working == {"find", "store", "dispatch"}
Marked ==
    /\ \A h \in Handlers : at[h] \in Working => seen[id[h]] = <<lis[h], since[h]>>
    /\ \A i \in Ids : seen[i] # None => seen[i][2] \in Nat /\ seen[i][2] <= now
Alone ==
    \A h, g \in Handlers : at[h] \in Working /\ at[g] \in Working /\ id[h] = id[g]
                               => h = g

(* What was accepted is older than its retention, or still marked.          *)
Guarded ==
    /\ accepted \subseteq Ids \X Nat
    /\ \A a \in accepted :
          /\ a[2] <= now
          /\ \/ a[2] + SeenDays < now
             \/ seen[a[1]] # None /\ seen[a[1]][2] = a[2]
    /\ AcceptedOnceInWindow

(* One payload row for an event of a listener; what a request or the agent  *)
(* points to is there until it expires.                                     *)
Rows ==
    /\ payloads \subseteq PayloadRow
    /\ \A p, q \in payloads : p.listener = q.listener /\ p.id = q.id => p = q
There(p) == p \in PayloadRow /\ (p \in payloads \/ p.expires < now)
Pointers ==
    /\ \A h \in Handlers : kept[h] # None => There(kept[h])
    /\ \A p \in pointed : There(p)

IInv == /\ Shapes /\ Flight /\ Marked /\ Alone /\ Guarded /\ Rows /\ Pointers
        /\ resolved = TRUE /\ ReadyIsAccepted

(* The invariant holds initially.                                           *)
LEMMA InvInit == Init => IInv
<1> SUFFICES ASSUME Init PROVE IInv
  OBVIOUS
<1> USE DEF Init
<1>1. Shapes
  <2>1. NoBinding \in BindingRow
    BY DEF NoBinding, BindingRow, Filter
  <2>2. QED
    BY <2>1, RegistryAssumption DEF Shapes
<1>2. Flight /\ Marked /\ Alone /\ Guarded /\ Rows /\ Pointers
  BY DEF Flight, Marked, Alone, Guarded, Rows, Pointers, Working, AcceptedOnceInWindow
<1>3. resolved = TRUE /\ ReadyIsAccepted
  BY DEF ReadyIsAccepted
<1>4. QED
  BY <1>1, <1>2, <1>3 DEF IInv

(* The policy a request applies is the expected one, and what it stores is  *)
(* a payload row.                                                           *)
LEMMA PolicyExpected ==
    ASSUME Shapes, NEW h \in Handlers
    PROVE  /\ Policy(h) = MostSpecific(config.global, config.listener, BindingLayer(h))
           /\ Stores(Policy(h)) => /\ Policy(h).store \in {"redacted", "raw_local"}
                                   /\ Policy(h).retention \in Nat
<1>1. config.global \in Layer /\ Kept(config.listener) /\ Kept(config.binding)
  BY RegistryAssumption DEF Shapes
<1>2. Kept(NoLayer)
  BY DEF Kept, Override, NoLayer, Layer
<1>3. Kept(BindingLayer(h))
  BY <1>1, <1>2 DEF BindingLayer
<1>4. Policy(h) = MostSpecific(config.global, config.listener, BindingLayer(h))
  BY <1>1, <1>3, ResolveIsMostSpecific DEF Policy
<1>5. \E r \in Layer : Policy(h) = Normalize(r)
  BY <1>1, <1>3, <1>4 DEF MostSpecific, Kept
<1>6. QED
  BY <1>4, <1>5, NormalizeTypes

(* The end of a request and what it leaves alone.                           *)
LEMMA EndsShapes ==
    ASSUME Shapes, NEW h \in Handlers, Ends(h)
    PROVE  /\ at' \in [Handlers -> {"idle", "mark", "find", "store", "dispatch"}]
           /\ id' \in [Handlers -> Ids \cup {None}]
           /\ lis' \in [Handlers -> Listeners \cup {None}]
           /\ since' \in [Handlers -> Nat]
           /\ via' \in [Handlers -> Bindings \cup {None}]
           /\ kept' \in [Handlers -> PayloadRow \cup {None}]
           /\ at'[h] = "idle" /\ kept'[h] = None
           /\ \A g \in Handlers \ {h} :
                 /\ at'[g] = at[g] /\ id'[g] = id[g] /\ lis'[g] = lis[g]
                 /\ since'[g] = since[g] /\ kept'[g] = kept[g]
BY DEF Shapes, Ends, Goes

(* A request that begins.                                                   *)
LEMMA Begins ==
    ASSUME IInv, NEW h \in Handlers, NEW i \in Ids, NEW l \in Listeners,
           Goes(h, "mark"), id' = [id EXCEPT ![h] = i], lis' = [lis EXCEPT ![h] = l],
           since' = [since EXCEPT ![h] = now], now' = now
    PROVE  /\ Flight'
           /\ at' \in [Handlers -> {"idle", "mark", "find", "store", "dispatch"}]
           /\ id' \in [Handlers -> Ids \cup {None}]
           /\ lis' \in [Handlers -> Listeners \cup {None}]
           /\ since' \in [Handlers -> Nat]
<1>1. MaxFlight \in Nat /\ now \in Nat /\ now <= now + MaxFlight
  BY RegistryAssumption DEF IInv, Shapes
<1>2. /\ at' \in [Handlers -> {"idle", "mark", "find", "store", "dispatch"}]
      /\ id' \in [Handlers -> Ids \cup {None}]
      /\ lis' \in [Handlers -> Listeners \cup {None}]
      /\ since' \in [Handlers -> Nat]
  BY <1>1 DEF IInv, Shapes, Goes
<1>3. ASSUME NEW g \in Handlers, at'[g] # "idle"
      PROVE  /\ id'[g] \in Ids /\ lis'[g] \in Listeners
             /\ since'[g] <= now' /\ now' <= since'[g] + MaxFlight
  <2>1. CASE g = h
    BY <1>1, <2>1 DEF IInv, Shapes
  <2>2. CASE g # h
    <3>1. at[g] # "idle" /\ id'[g] = id[g] /\ lis'[g] = lis[g] /\ since'[g] = since[g]
      BY <1>3, <2>2 DEF IInv, Shapes, Goes
    <3>2. QED
      BY <3>1 DEF IInv, Flight
  <2>3. QED
    BY <2>1, <2>2
<1>4. QED
  BY <1>2, <1>3 DEF Flight

(* What storing does to the payloads and to the request's pointer.          *)
LEMMA StoreEffect ==
    ASSUME IInv, NEW h \in Handlers, StorePayload(h)
    PROVE  /\ Rows' /\ payloads \subseteq payloads'
           /\ kept' \in [Handlers -> PayloadRow \cup {None}]
           /\ kept'[h] = None \/ kept'[h] \in payloads'
           /\ \A g \in Handlers \ {h} : kept'[g] = kept[g]
<1> DEFINE new == [owner |-> OwnerOf[lis[h]], listener |-> lis[h], id |-> id[h],
                   mode |-> Policy(h).store, expires |-> now + Policy(h).retention]
           old == RowsOf(lis[h], id[h])
<1>0. kept \in [Handlers -> PayloadRow \cup {None}] /\ payloads \subseteq PayloadRow
  BY DEF IInv, Shapes, Rows
<1>1. CASE ~Stores(Policy(h))
  BY <1>0, <1>1 DEF StorePayload, IInv, Rows
<1>2. CASE Stores(Policy(h))
  <2>1. new \in PayloadRow
    <3>1. lis[h] \in Listeners /\ id[h] \in Ids /\ OwnerOf[lis[h]] \in Owners
      BY RegistryAssumption DEF StorePayload, IInv, Flight
    <3>2. Policy(h).store \in {"redacted", "raw_local"} /\ Policy(h).retention \in Nat
      BY <1>2, PolicyExpected DEF IInv
    <3>3. now + Policy(h).retention \in Nat
      BY <3>2 DEF IInv, Shapes
    <3>4. QED
      BY <3>1, <3>2, <3>3 DEF PayloadRow
  <2>2. CASE old = {}
    <3>1. payloads' = payloads \cup {new} /\ kept' = [kept EXCEPT ![h] = new]
      BY <1>2, <2>2 DEF StorePayload
    <3>2. \A p \in payloads : ~(p.listener = new.listener /\ p.id = new.id)
      BY <2>2 DEF RowsOf
    <3>3. Rows'
      BY <2>1, <3>1, <3>2 DEF IInv, Rows
    <3>4. QED
      BY <1>0, <2>1, <3>1, <3>3
  <2>3. CASE old # {}
    <3>1. PICK p \in old : p = (CHOOSE q \in old : TRUE)
      BY <2>3
    <3>2. payloads' = payloads /\ kept' = [kept EXCEPT ![h] = p]
      BY <1>2, <2>3, <3>1 DEF StorePayload
    <3>3. p \in payloads
      BY DEF RowsOf
    <3>4. QED
      BY <1>0, <3>2, <3>3 DEF IInv, Rows
  <2>4. QED
    BY <2>2, <2>3
<1>3. QED
  BY <1>1, <1>2

(* Each part of the invariant is kept by every step.                        *)
LEMMA ShapesStep ==
    ASSUME IInv, [Next]_vars
    PROVE  Shapes'
<1> USE DEF IInv, Shapes
<1>1. ASSUME NEW b \in Bindings, NEW same \in BOOLEAN, CreateBinding(b, same)
      PROVE  Shapes'
    <2>1. NewBinding(same) \in BindingRow
    BY RegistryAssumption DEF NewBinding, BindingRow
  <2>2. bound' \in [Bindings -> BindingRow]
    BY <1>1, <2>1 DEF CreateBinding
  <2>3. QED
    BY <1>1, <2>2 DEF CreateBinding, handlers, history

<1>2. ASSUME NEW b \in Bindings, NEW s \in {"active", "paused", "retired"}, SetBindingStatus(b, s)
      PROVE  Shapes'
    <2>1. [bound[b] EXCEPT !.status = s] \in BindingRow
    BY <1>2 DEF BindingRow
  <2>2. bound' = [bound EXCEPT ![b] = [bound[b] EXCEPT !.status = s]]
    BY <1>2 DEF SetBindingStatus
  <2>3. bound' \in [Bindings -> BindingRow]
    BY <1>2, <2>1, <2>2
  <2>4. QED
    BY <1>2, <2>3 DEF SetBindingStatus, handlers, history

<1>3. ASSUME NEW l \in Listeners, SetEnabled(l)
      PROVE  Shapes'
  BY <1>3 DEF SetEnabled, Goes, Ends, vars, sources, handlers, history, budget
<1>4. ASSUME NEW h \in Handlers, NEW b \in Bindings, NEW i \in Ids,
             NEW k \in MaterialKinds \cup NoisyKinds, EmitFromBoard(h, b, i, k)
      PROVE  Shapes'
    <2>1. /\ Home[b] \in Listeners /\ now \in 0..MaxTime
        /\ outbox' \subseteq Bindings \X Ids
    BY <1>4, RegistryAssumption DEF EmitFromBoard
  <2>2. CASE ListenerTakes(config.allowed, TypeOfKind[k])
    <3>1. /\ Goes(h, "mark") /\ id' = [id EXCEPT ![h] = i]
          /\ lis' = [lis EXCEPT ![h] = Home[b]] /\ since' = [since EXCEPT ![h] = now]
          /\ log' = log /\ now' = now /\ refused' = refused
      BY <1>4, <2>2 DEF EmitFromBoard
    <3>2. QED
      BY <1>4, <2>1, <3>1, Begins DEF EmitFromBoard
  <2>3. CASE ~ListenerTakes(config.allowed, TypeOfKind[k])
    <3>1. log' = log \cup {<<Home[b], now>>} /\ UNCHANGED <<at, id, lis, since>>
      BY <1>4, <2>3 DEF EmitFromBoard
    <3>2. log' \subseteq Listeners \X (0..MaxTime)
      BY <2>1, <3>1
    <3>3. QED
      BY <1>4, <2>1, <3>1, <3>2 DEF EmitFromBoard
  <2>4. QED
    BY <2>2, <2>3

<1>5. ASSUME NEW h \in Handlers, NEW l \in Listeners, NEW i \in Ids, Post(h, l, i)
      PROVE  Shapes'
  BY <1>5 DEF Post, Goes, Ends, vars, sources, handlers, history, budget
<1>6. ASSUME NEW h \in Handlers, MarkSeen(h)
      PROVE  Shapes'
    <2>1. now \in 0..MaxTime /\ id[h] \in Ids /\ lis[h] \in Listeners
    BY <1>6 DEF MarkSeen, Flight
  <2>2. log' \subseteq Listeners \X (0..MaxTime)
    <3>1. {<<lis[h], now>>} \subseteq Listeners \X (0..MaxTime)
      BY <2>1
    <3>2. QED
      BY <1>6, <3>1 DEF MarkSeen
  <2>3. seen' \in [Ids -> (Listeners \X (0..MaxTime)) \cup {None}]
    <3>1. <<lis[h], now>> \in Listeners \X (0..MaxTime)
      BY <2>1
    <3>2. seen' = seen \/ seen' = [seen EXCEPT ![id[h]] = <<lis[h], now>>]
      BY <1>6 DEF MarkSeen
    <3>3. QED
      BY <3>1, <3>2
  <2>4. CASE seen[id[h]] = None
    BY <1>6, <2>2, <2>3, <2>4 DEF MarkSeen, Goes, sources
  <2>5. CASE seen[id[h]] # None
    <3>1. Ends(h) /\ UNCHANGED <<now, config, sources, refused>>
      BY <1>6, <2>5 DEF MarkSeen
    <3>2. QED
      BY <3>1, <2>2, <2>3, EndsShapes DEF sources
  <2>6. QED
    BY <2>4, <2>5

<1>7. ASSUME NEW h \in Handlers, FindBinding(h)
      PROVE  Shapes'
  BY <1>7 DEF FindBinding, Goes, Ends, vars, sources, handlers, history, budget
<1>8. ASSUME NEW h \in Handlers, StorePayload(h)
      PROVE  Shapes'
    <2>1. kept' \in [Handlers -> PayloadRow \cup {None}]
    BY <1>8, StoreEffect
  <2>2. QED
    BY <1>8, <2>1 DEF StorePayload, Goes, sources

<1>9. ASSUME NEW h \in Handlers, Show(h)
      PROVE  Shapes'
    <2>1. {<<lis[h], now>>} \subseteq Listeners \X (0..MaxTime)
    BY <1>9 DEF Show, Flight
  <2>2. Ends(h) /\ log' = log \cup {<<lis[h], now>>} /\ UNCHANGED <<now, config, sources, seen, refused>>
    BY <1>9 DEF Show
  <2>3. QED
    BY <2>1, <2>2, EndsShapes DEF sources

<1>10. ASSUME NEW h \in Handlers, DispatchFails(h)
      PROVE  Shapes'
    <2>1. {<<lis[h], now>>} \subseteq Listeners \X (0..MaxTime)
    BY <1>10 DEF DispatchFails, Flight
  <2>2. /\ Ends(h) /\ log' = log \cup {<<lis[h], now>>} /\ UNCHANGED <<now, config, sources, refused>>
        /\ seen' = [seen EXCEPT ![id[h]] = None]
    BY <1>10 DEF DispatchFails
  <2>3. QED
    BY <2>1, <2>2, EndsShapes DEF sources

<1>11. ASSUME NEW o \in Owners, Prune(o)
      PROVE  Shapes'
  BY <1>11 DEF Prune, Goes, Ends, vars, sources, handlers, history, budget
<1>12. CASE Tick
  BY <1>12, RegistryAssumption DEF Tick, vars, sources, handlers, history, budget
<1>13. CASE UNCHANGED vars
  BY <1>13 DEF Goes, Ends, vars, sources, handlers, history, budget
<1>14. QED
  BY <1>1, <1>2, <1>3, <1>4, <1>5, <1>6, <1>7, <1>8, <1>9, <1>10, <1>11, <1>12, <1>13 DEF Next

(* A request in flight is as old as the clock allows.                       *)
LEMMA FlightStep ==
    ASSUME IInv, [Next]_vars
    PROVE  Flight'
<1> USE DEF IInv, Shapes, Flight
<1>1. ASSUME NEW b \in Bindings, NEW same \in BOOLEAN, CreateBinding(b, same)
      PROVE  Flight'
  BY <1>1 DEF CreateBinding, Goes, Ends, vars, sources, handlers, history, budget
<1>2. ASSUME NEW b \in Bindings, NEW s \in {"active", "paused", "retired"}, SetBindingStatus(b, s)
      PROVE  Flight'
  BY <1>2 DEF SetBindingStatus, Goes, Ends, vars, sources, handlers, history, budget
<1>3. ASSUME NEW l \in Listeners, SetEnabled(l)
      PROVE  Flight'
  BY <1>3 DEF SetEnabled, Goes, Ends, vars, sources, handlers, history, budget
<1>4. ASSUME NEW h \in Handlers, NEW b \in Bindings, NEW i \in Ids,
             NEW k \in MaterialKinds \cup NoisyKinds, EmitFromBoard(h, b, i, k)
      PROVE  Flight'
    <2>1. Home[b] \in Listeners
    BY <1>4, RegistryAssumption
  <2>2. CASE ListenerTakes(config.allowed, TypeOfKind[k])
    <3>1. /\ Goes(h, "mark") /\ id' = [id EXCEPT ![h] = i]
          /\ lis' = [lis EXCEPT ![h] = Home[b]] /\ since' = [since EXCEPT ![h] = now]
          /\ now' = now
      BY <1>4, <2>2 DEF EmitFromBoard
    <3>2. QED
      BY <1>4, <2>1, <3>1, Begins
  <2>3. CASE ~ListenerTakes(config.allowed, TypeOfKind[k])
    BY <1>4, <2>3 DEF EmitFromBoard
  <2>4. QED
    BY <2>2, <2>3

<1>5. ASSUME NEW h \in Handlers, NEW l \in Listeners, NEW i \in Ids, Post(h, l, i)
      PROVE  Flight'
    <2>1. /\ Goes(h, "mark") /\ id' = [id EXCEPT ![h] = i]
        /\ lis' = [lis EXCEPT ![h] = l] /\ since' = [since EXCEPT ![h] = now]
        /\ now' = now
    BY <1>5 DEF Post
  <2>2. QED
    BY <1>5, <2>1, Begins

<1>6. ASSUME NEW h \in Handlers, MarkSeen(h)
      PROVE  Flight'
    <2>1. CASE seen[id[h]] = None
    <3>1. MaxFlight \in Nat
      BY RegistryAssumption
    <3>2. /\ now' = now /\ id' = id /\ lis' = lis
          /\ since' = [since EXCEPT ![h] = now] /\ at' = [at EXCEPT ![h] = "find"]
          /\ at[h] # "idle"
      BY <1>6, <2>1 DEF MarkSeen, Goes
    <3>3. \A g \in Handlers : at'[g] # "idle" =>
              /\ at[g] # "idle"
              /\ since'[g] = IF g = h THEN now ELSE since[g]
      BY <1>6, <3>2
    <3>4. QED
      BY <3>1, <3>2, <3>3
  <2>2. CASE seen[id[h]] # None
    BY <1>6, <2>2, EndsShapes DEF MarkSeen
  <2>3. QED
    BY <2>1, <2>2

<1>7. ASSUME NEW h \in Handlers, FindBinding(h)
      PROVE  Flight'
  BY <1>7 DEF FindBinding, Goes, Ends, vars, sources, handlers, history, budget
<1>8. ASSUME NEW h \in Handlers, StorePayload(h)
      PROVE  Flight'
  BY <1>8 DEF StorePayload, Goes, Ends, vars, sources, handlers, history, budget
<1>9. ASSUME NEW h \in Handlers, Show(h)
      PROVE  Flight'
  BY <1>9 DEF Show, Goes, Ends, vars, sources, handlers, history, budget
<1>10. ASSUME NEW h \in Handlers, DispatchFails(h)
      PROVE  Flight'
  BY <1>10 DEF DispatchFails, Goes, Ends, vars, sources, handlers, history, budget
<1>11. ASSUME NEW o \in Owners, Prune(o)
      PROVE  Flight'
  BY <1>11 DEF Prune, Goes, Ends, vars, sources, handlers, history, budget
<1>12. CASE Tick
    <2>1. now' = now + 1 /\ UNCHANGED handlers
    BY <1>12 DEF Tick
  <2>2. \A h \in Handlers : at[h] # "idle" => now' <= since[h] + MaxFlight
    BY <1>12 DEF Tick
  <2>3. \A h \in Handlers : at[h] # "idle" => since[h] <= now'
    BY <2>1
  <2>4. QED
    BY <2>1, <2>2, <2>3 DEF handlers

<1>13. CASE UNCHANGED vars
  BY <1>13 DEF Goes, Ends, vars, sources, handlers, history, budget
<1>14. QED
  BY <1>1, <1>2, <1>3, <1>4, <1>5, <1>6, <1>7, <1>8, <1>9, <1>10, <1>11, <1>12, <1>13 DEF Next

(* Two requests at work have different events.                              *)
LEMMA AloneStep ==
    ASSUME IInv, [Next]_vars
    PROVE  Alone'
<1> USE DEF IInv, Shapes, Flight, Marked, Alone, Working
<1>1. ASSUME NEW b \in Bindings, NEW same \in BOOLEAN, CreateBinding(b, same)
      PROVE  Alone'
  BY <1>1 DEF CreateBinding, Goes, Ends, vars, sources, handlers, history, budget
<1>2. ASSUME NEW b \in Bindings, NEW s \in {"active", "paused", "retired"}, SetBindingStatus(b, s)
      PROVE  Alone'
  BY <1>2 DEF SetBindingStatus, Goes, Ends, vars, sources, handlers, history, budget
<1>3. ASSUME NEW l \in Listeners, SetEnabled(l)
      PROVE  Alone'
  BY <1>3 DEF SetEnabled, Goes, Ends, vars, sources, handlers, history, budget
<1>4. ASSUME NEW h \in Handlers, NEW b \in Bindings, NEW i \in Ids,
             NEW k \in MaterialKinds \cup NoisyKinds, EmitFromBoard(h, b, i, k)
      PROVE  Alone'
  BY <1>4 DEF EmitFromBoard, Goes, Ends, vars, sources, handlers, history, budget
<1>5. ASSUME NEW h \in Handlers, NEW l \in Listeners, NEW i \in Ids, Post(h, l, i)
      PROVE  Alone'
  BY <1>5 DEF Post, Goes, Ends, vars, sources, handlers, history, budget
<1>6. ASSUME NEW h \in Handlers, MarkSeen(h)
      PROVE  Alone'
    <2>1. CASE seen[id[h]] = None
    <3>0. ASSUME NEW g \in Handlers, at[g] \in Working
          PROVE  seen[id[g]] # None
      <4>1. seen[id[g]] = <<lis[g], since[g]>> /\ <<lis[g], since[g]>> \in Listeners \X Nat
        BY <3>0
      <4>2. QED
        BY <4>1, RegistryAssumption
    <3>1. \A g \in Handlers : at[g] \in Working => id[g] # id[h]
      BY <2>1, <1>6, <3>0 DEF MarkSeen
    <3>2. id' = id /\ at' = [at EXCEPT ![h] = "find"]
      BY <1>6, <2>1 DEF MarkSeen, Goes
    <3>3. \A g \in Handlers : at'[g] \in Working => g = h \/ at[g] \in Working
      BY <1>6, <3>2
    <3>4. QED
      BY <3>1, <3>2, <3>3
  <2>2. CASE seen[id[h]] # None
    BY <1>6, <2>2, EndsShapes DEF MarkSeen
  <2>3. QED
    BY <2>1, <2>2

<1>7. ASSUME NEW h \in Handlers, FindBinding(h)
      PROVE  Alone'
  BY <1>7 DEF FindBinding, Goes, Ends, vars, sources, handlers, history, budget
<1>8. ASSUME NEW h \in Handlers, StorePayload(h)
      PROVE  Alone'
  BY <1>8 DEF StorePayload, Goes, Ends, vars, sources, handlers, history, budget
<1>9. ASSUME NEW h \in Handlers, Show(h)
      PROVE  Alone'
  BY <1>9 DEF Show, Goes, Ends, vars, sources, handlers, history, budget
<1>10. ASSUME NEW h \in Handlers, DispatchFails(h)
      PROVE  Alone'
  BY <1>10 DEF DispatchFails, Goes, Ends, vars, sources, handlers, history, budget
<1>11. ASSUME NEW o \in Owners, Prune(o)
      PROVE  Alone'
  BY <1>11 DEF Prune, Goes, Ends, vars, sources, handlers, history, budget
<1>12. CASE Tick
  BY <1>12 DEF Tick, Goes, Ends, vars, sources, handlers, history, budget
<1>13. CASE UNCHANGED vars
  BY <1>13 DEF Goes, Ends, vars, sources, handlers, history, budget
<1>14. QED
  BY <1>1, <1>2, <1>3, <1>4, <1>5, <1>6, <1>7, <1>8, <1>9, <1>10, <1>11, <1>12, <1>13 DEF Next

(* A request at work keeps its marker: no pruning and no other request      *)
(* takes it.                                                                *)
LEMMA MarkedStep ==
    ASSUME IInv, [Next]_vars
    PROVE  Marked'
<1> USE DEF IInv, Shapes, Flight, Marked, Alone, Working
<1>1. ASSUME NEW b \in Bindings, NEW same \in BOOLEAN, CreateBinding(b, same)
      PROVE  Marked'
  BY <1>1 DEF CreateBinding, Goes, Ends, vars, sources, handlers, history, budget
<1>2. ASSUME NEW b \in Bindings, NEW s \in {"active", "paused", "retired"}, SetBindingStatus(b, s)
      PROVE  Marked'
  BY <1>2 DEF SetBindingStatus, Goes, Ends, vars, sources, handlers, history, budget
<1>3. ASSUME NEW l \in Listeners, SetEnabled(l)
      PROVE  Marked'
  BY <1>3 DEF SetEnabled, Goes, Ends, vars, sources, handlers, history, budget
<1>4. ASSUME NEW h \in Handlers, NEW b \in Bindings, NEW i \in Ids,
             NEW k \in MaterialKinds \cup NoisyKinds, EmitFromBoard(h, b, i, k)
      PROVE  Marked'
  BY <1>4 DEF EmitFromBoard, Goes, Ends, vars, sources, handlers, history, budget
<1>5. ASSUME NEW h \in Handlers, NEW l \in Listeners, NEW i \in Ids, Post(h, l, i)
      PROVE  Marked'
  BY <1>5 DEF Post, Goes, Ends, vars, sources, handlers, history, budget
<1>6. ASSUME NEW h \in Handlers, MarkSeen(h)
      PROVE  Marked'
    <2>1. CASE seen[id[h]] = None
    <3>0. ASSUME NEW g \in Handlers, at[g] \in Working
          PROVE  seen[id[g]] # None
      <4>1. seen[id[g]] = <<lis[g], since[g]>> /\ <<lis[g], since[g]>> \in Listeners \X Nat
        BY <3>0
      <4>2. QED
        BY <4>1, RegistryAssumption
    <3>1. \A g \in Handlers : at[g] \in Working => id[g] # id[h] /\ g # h
      BY <2>1, <1>6, <3>0 DEF MarkSeen
    <3>2. /\ id' = id /\ lis' = lis /\ at' = [at EXCEPT ![h] = "find"] /\ now' = now
          /\ since' = [since EXCEPT ![h] = now]
          /\ seen' = [seen EXCEPT ![id[h]] = <<lis[h], now>>] /\ id[h] \in Ids
      BY <1>6, <2>1 DEF MarkSeen, Goes
    <3>3. \A g \in Handlers : at'[g] \in Working =>
              g = h \/ (at[g] \in Working /\ g # h /\ id[g] \in Ids)
      BY <1>6, <3>2
    <3>4. \A i \in Ids : seen'[i] = IF i = id[h] THEN <<lis[h], now>> ELSE seen[i]
      BY <3>2
    <3>5. \A g \in Handlers : at'[g] \in Working => seen'[id'[g]] = <<lis'[g], since'[g]>>
      BY <1>6, <3>1, <3>2, <3>3, <3>4
    <3>6. \A i \in Ids : seen'[i] # None => seen'[i][2] \in Nat /\ seen'[i][2] <= now'
      BY <3>2, <3>4
    <3>7. QED
      BY <3>5, <3>6
  <2>2. CASE seen[id[h]] # None
    BY <1>6, <2>2, EndsShapes DEF MarkSeen
  <2>3. QED
    BY <2>1, <2>2

<1>7. ASSUME NEW h \in Handlers, FindBinding(h)
      PROVE  Marked'
  BY <1>7 DEF FindBinding, Goes, Ends, vars, sources, handlers, history, budget
<1>8. ASSUME NEW h \in Handlers, StorePayload(h)
      PROVE  Marked'
  BY <1>8 DEF StorePayload, Goes, Ends, vars, sources, handlers, history, budget
<1>9. ASSUME NEW h \in Handlers, Show(h)
      PROVE  Marked'
  BY <1>9 DEF Show, Goes, Ends, vars, sources, handlers, history, budget
<1>10. ASSUME NEW h \in Handlers, DispatchFails(h)
      PROVE  Marked'
  BY <1>10 DEF DispatchFails, Goes, Ends, vars, sources, handlers, history, budget
<1>11. ASSUME NEW o \in Owners, Prune(o)
      PROVE  Marked'
    <2>1. \A g \in Handlers : at[g] \in Working => id[g] \in Ids /\ id[g] \notin OldMarkers(o)
    <3>1. SeenDays \in Nat /\ MaxFlight \in Nat /\ MaxFlight <= SeenDays
      BY RegistryAssumption
    <3>2. ASSUME NEW g \in Handlers, at[g] \in Working
          PROVE  ~(seen[id[g]][2] + SeenDays < now)
      <4>1. seen[id[g]][2] = since[g] /\ now <= since[g] + MaxFlight /\ since[g] \in Nat
        BY <3>2
      <4>2. QED
        BY <3>1, <4>1
    <3>3. QED
      BY <3>2 DEF OldMarkers
  <2>2. /\ seen' = [i \in Ids |-> IF i \in OldMarkers(o) THEN None ELSE seen[i]]
        /\ UNCHANGED <<now, handlers>>
    BY <1>11 DEF Prune
  <2>3. QED
    BY <2>1, <2>2 DEF handlers

<1>12. CASE Tick
  BY <1>12 DEF Tick, Goes, Ends, vars, sources, handlers, history, budget
<1>13. CASE UNCHANGED vars
  BY <1>13 DEF Goes, Ends, vars, sources, handlers, history, budget
<1>14. QED
  BY <1>1, <1>2, <1>3, <1>4, <1>5, <1>6, <1>7, <1>8, <1>9, <1>10, <1>11, <1>12, <1>13 DEF Next

(* What was accepted stays marked until its retention is over.              *)
LEMMA GuardedStep ==
    ASSUME IInv, [Next]_vars
    PROVE  Guarded'
<1> USE DEF IInv, Shapes, Flight, Marked, Guarded
<1>1. ASSUME NEW b \in Bindings, NEW same \in BOOLEAN, CreateBinding(b, same)
      PROVE  Guarded'
  BY <1>1 DEF CreateBinding, Goes, Ends, vars, sources, handlers, history, budget, AcceptedOnceInWindow
<1>2. ASSUME NEW b \in Bindings, NEW s \in {"active", "paused", "retired"}, SetBindingStatus(b, s)
      PROVE  Guarded'
  BY <1>2 DEF SetBindingStatus, Goes, Ends, vars, sources, handlers, history, budget, AcceptedOnceInWindow
<1>3. ASSUME NEW l \in Listeners, SetEnabled(l)
      PROVE  Guarded'
  BY <1>3 DEF SetEnabled, Goes, Ends, vars, sources, handlers, history, budget, AcceptedOnceInWindow
<1>4. ASSUME NEW h \in Handlers, NEW b \in Bindings, NEW i \in Ids,
             NEW k \in MaterialKinds \cup NoisyKinds, EmitFromBoard(h, b, i, k)
      PROVE  Guarded'
  BY <1>4 DEF EmitFromBoard, Goes, Ends, vars, sources, handlers, history, budget, AcceptedOnceInWindow
<1>5. ASSUME NEW h \in Handlers, NEW l \in Listeners, NEW i \in Ids, Post(h, l, i)
      PROVE  Guarded'
  BY <1>5 DEF Post, Goes, Ends, vars, sources, handlers, history, budget, AcceptedOnceInWindow
<1>6. ASSUME NEW h \in Handlers, MarkSeen(h)
      PROVE  Guarded'
    <2>1. CASE seen[id[h]] = None
    <3>0. SeenDays \in Nat
      BY RegistryAssumption
    <3>1. /\ accepted' = accepted \cup {<<id[h], now>>} /\ now' = now /\ now \in Nat
          /\ seen' = [seen EXCEPT ![id[h]] = <<lis[h], now>>]
          /\ id[h] \in Ids /\ lis[h] \in Listeners
      BY <1>6, <2>1 DEF MarkSeen
    <3>2. seen'[id[h]][2] = now /\ seen'[id[h]] # None
      BY <3>1, RegistryAssumption
    <3>3. \A a \in accepted : a[1] \in Ids /\ (a[1] = id[h] => a[2] + SeenDays < now)
      BY <2>1
    <3>4. \A a \in accepted : \/ a[2] + SeenDays < now
                              \/ seen'[a[1]] # None /\ seen'[a[1]][2] = a[2]
      BY <3>1, <3>3
    <3>5. accepted' \subseteq Ids \X Nat
      BY <3>1
    <3>6. \A a \in accepted' : /\ a[2] <= now'
                               /\ \/ a[2] + SeenDays < now'
                                  \/ seen'[a[1]] # None /\ seen'[a[1]][2] = a[2]
      BY <3>1, <3>2, <3>4
    <3>7. AcceptedOnceInWindow'
      <4>1. ASSUME NEW a \in accepted', NEW b \in accepted',
                   a # b, a[1] = b[1], a[2] <= b[2]
            PROVE  a[2] + SeenDays < b[2]
        <5>1. CASE a \in accepted /\ b \in accepted
          BY <4>1, <5>1 DEF AcceptedOnceInWindow
        <5>2. CASE a \in accepted /\ b = <<id[h], now>>
          BY <3>3, <4>1, <5>2
        <5>3. CASE a = <<id[h], now>> /\ b \in accepted
          <6>1. b[2] + SeenDays < now /\ b[2] \in Nat /\ now <= b[2]
            BY <3>3, <4>1, <5>3
          <6>2. QED
            BY <3>0, <3>1, <6>1
        <5>4. QED
          BY <3>1, <4>1, <5>1, <5>2, <5>3
      <4>2. QED
        BY <4>1 DEF AcceptedOnceInWindow
    <3>8. QED
      BY <3>5, <3>6, <3>7
  <2>2. CASE seen[id[h]] # None
    BY <1>6, <2>2 DEF MarkSeen, AcceptedOnceInWindow
  <2>3. QED
    BY <2>1, <2>2

<1>7. ASSUME NEW h \in Handlers, FindBinding(h)
      PROVE  Guarded'
  BY <1>7 DEF FindBinding, Goes, Ends, vars, sources, handlers, history, budget, AcceptedOnceInWindow
<1>8. ASSUME NEW h \in Handlers, StorePayload(h)
      PROVE  Guarded'
  BY <1>8 DEF StorePayload, Goes, Ends, vars, sources, handlers, history, budget, AcceptedOnceInWindow
<1>9. ASSUME NEW h \in Handlers, Show(h)
      PROVE  Guarded'
  BY <1>9 DEF Show, Goes, Ends, vars, sources, handlers, history, budget, AcceptedOnceInWindow
<1>10. ASSUME NEW h \in Handlers, DispatchFails(h)
      PROVE  Guarded'
    <2>1. /\ accepted' = accepted \ {<<id[h], since[h]>>} /\ now' = now
        /\ seen' = [seen EXCEPT ![id[h]] = None]
        /\ id[h] \in Ids /\ seen[id[h]] = <<lis[h], since[h]>>
    BY <1>10 DEF DispatchFails, Working
  <2>2. ASSUME NEW a \in accepted'
        PROVE  a[2] + SeenDays < now \/ (seen'[a[1]] # None /\ seen'[a[1]][2] = a[2])
    <3>1. CASE a[1] = id[h]
      <4>1. a = <<a[1], a[2]>> /\ a \in accepted
        BY <2>1, <2>2
      <4>2. seen[a[1]][2] # a[2]
        BY <2>1, <2>2, <3>1, <4>1
      <4>3. QED
        BY <4>1, <4>2
    <3>2. CASE a[1] # id[h]
      BY <2>1, <2>2, <3>2
    <3>3. QED
      BY <3>1, <3>2
  <2>3. AcceptedOnceInWindow'
    BY <2>1 DEF AcceptedOnceInWindow
  <2>4. QED
    BY <2>1, <2>2, <2>3

<1>11. ASSUME NEW o \in Owners, Prune(o)
      PROVE  Guarded'
    <2>1. /\ seen' = [i \in Ids |-> IF i \in OldMarkers(o) THEN None ELSE seen[i]]
        /\ UNCHANGED <<now, accepted>>
    BY <1>11 DEF Prune, history
  <2>2. ASSUME NEW a \in accepted
        PROVE  a[2] + SeenDays < now \/ (seen'[a[1]] # None /\ seen'[a[1]][2] = a[2])
    <3>1. a[1] \in Ids
      OBVIOUS
    <3>2. CASE a[1] \in OldMarkers(o)
      BY <3>2 DEF OldMarkers
    <3>3. CASE a[1] \notin OldMarkers(o)
      BY <2>1, <3>1, <3>3
    <3>4. QED
      BY <3>2, <3>3
  <2>3. AcceptedOnceInWindow'
    BY <2>1 DEF AcceptedOnceInWindow
  <2>4. QED
    BY <2>1, <2>2, <2>3

<1>12. CASE Tick
    <2>1. now' = now + 1 /\ UNCHANGED <<seen, accepted>> /\ SeenDays \in Nat /\ now \in Nat
    BY <1>12, RegistryAssumption DEF Tick, history
  <2>2. \A a \in accepted : a[2] \in Nat
    OBVIOUS
  <2>3. AcceptedOnceInWindow'
    BY <2>1 DEF AcceptedOnceInWindow
  <2>4. QED
    BY <2>1, <2>2, <2>3

<1>13. CASE UNCHANGED vars
  BY <1>13 DEF Goes, Ends, vars, sources, handlers, history, budget, AcceptedOnceInWindow
<1>14. QED
  BY <1>1, <1>2, <1>3, <1>4, <1>5, <1>6, <1>7, <1>8, <1>9, <1>10, <1>11, <1>12, <1>13 DEF Next

(* Storing keeps what is pointed to.                                        *)
LEMMA StorePointers ==
    ASSUME IInv, NEW h \in Handlers, StorePayload(h)
    PROVE  Pointers'
<1>1. /\ UNCHANGED <<now, pointed>> /\ payloads \subseteq payloads'
      /\ payloads' \subseteq PayloadRow
      /\ (kept'[h] = None \/ kept'[h] \in payloads')
      /\ \A g \in Handlers \ {h} : kept'[g] = kept[g]
  BY StoreEffect DEF StorePayload, Rows
<1>2. \A p : There(p) => There(p)'
  BY <1>1 DEF There
<1>3. \A p \in payloads' : There(p)'
  BY <1>1 DEF There
<1>4. ASSUME NEW g \in Handlers, kept'[g] # None
      PROVE  (kept[g] # None /\ kept'[g] = kept[g]) \/ kept'[g] \in payloads'
  BY <1>1, <1>4
<1>5. \A g \in Handlers : kept[g] # None => There(kept[g])
  BY DEF IInv, Pointers
<1>6. \A p \in pointed : There(p)
  BY DEF IInv, Pointers
<1>7. QED
  BY <1>1, <1>2, <1>3, <1>4, <1>5, <1>6 DEF Pointers, There

(* The payload rows stay one per event of a listener.                       *)
LEMMA RowsStep ==
    ASSUME IInv, [Next]_vars
    PROVE  Rows'
<1> USE DEF IInv, Shapes, Flight, Rows
<1>1. ASSUME NEW b \in Bindings, NEW same \in BOOLEAN, CreateBinding(b, same)
      PROVE  Rows'
  BY <1>1 DEF CreateBinding, Goes, Ends, vars, sources, handlers, history, budget
<1>2. ASSUME NEW b \in Bindings, NEW s \in {"active", "paused", "retired"}, SetBindingStatus(b, s)
      PROVE  Rows'
  BY <1>2 DEF SetBindingStatus, Goes, Ends, vars, sources, handlers, history, budget
<1>3. ASSUME NEW l \in Listeners, SetEnabled(l)
      PROVE  Rows'
  BY <1>3 DEF SetEnabled, Goes, Ends, vars, sources, handlers, history, budget
<1>4. ASSUME NEW h \in Handlers, NEW b \in Bindings, NEW i \in Ids,
             NEW k \in MaterialKinds \cup NoisyKinds, EmitFromBoard(h, b, i, k)
      PROVE  Rows'
  BY <1>4 DEF EmitFromBoard, Goes, Ends, vars, sources, handlers, history, budget
<1>5. ASSUME NEW h \in Handlers, NEW l \in Listeners, NEW i \in Ids, Post(h, l, i)
      PROVE  Rows'
  BY <1>5 DEF Post, Goes, Ends, vars, sources, handlers, history, budget
<1>6. ASSUME NEW h \in Handlers, MarkSeen(h)
      PROVE  Rows'
  BY <1>6 DEF MarkSeen, Goes, Ends, vars, sources, handlers, history, budget
<1>7. ASSUME NEW h \in Handlers, FindBinding(h)
      PROVE  Rows'
  BY <1>7 DEF FindBinding, Goes, Ends, vars, sources, handlers, history, budget
<1>8. ASSUME NEW h \in Handlers, StorePayload(h)
      PROVE  Rows'
  BY <1>8, StoreEffect DEF IInv, Shapes, Rows
<1>9. ASSUME NEW h \in Handlers, Show(h)
      PROVE  Rows'
  BY <1>9 DEF Show, Goes, Ends, vars, sources, handlers, history, budget
<1>10. ASSUME NEW h \in Handlers, DispatchFails(h)
      PROVE  Rows'
  BY <1>10 DEF DispatchFails, Goes, Ends, vars, sources, handlers, history, budget
<1>11. ASSUME NEW o \in Owners, Prune(o)
      PROVE  Rows'
  BY <1>11 DEF Prune, Goes, Ends, vars, sources, handlers, history, budget
<1>12. CASE Tick
  BY <1>12 DEF Tick, Goes, Ends, vars, sources, handlers, history, budget
<1>13. CASE UNCHANGED vars
  BY <1>13 DEF Goes, Ends, vars, sources, handlers, history, budget
<1>14. QED
  BY <1>1, <1>2, <1>3, <1>4, <1>5, <1>6, <1>7, <1>8, <1>9, <1>10, <1>11, <1>12, <1>13 DEF Next

(* What is pointed to stays until it expires.                               *)
LEMMA PointersStep ==
    ASSUME IInv, [Next]_vars
    PROVE  Pointers'
<1> USE DEF IInv, Shapes, Rows, Pointers, There
<1>1. ASSUME NEW b \in Bindings, NEW same \in BOOLEAN, CreateBinding(b, same)
      PROVE  Pointers'
  BY <1>1 DEF CreateBinding, Goes, Ends, vars, sources, handlers, history, budget
<1>2. ASSUME NEW b \in Bindings, NEW s \in {"active", "paused", "retired"}, SetBindingStatus(b, s)
      PROVE  Pointers'
  BY <1>2 DEF SetBindingStatus, Goes, Ends, vars, sources, handlers, history, budget
<1>3. ASSUME NEW l \in Listeners, SetEnabled(l)
      PROVE  Pointers'
  BY <1>3 DEF SetEnabled, Goes, Ends, vars, sources, handlers, history, budget
<1>4. ASSUME NEW h \in Handlers, NEW b \in Bindings, NEW i \in Ids,
             NEW k \in MaterialKinds \cup NoisyKinds, EmitFromBoard(h, b, i, k)
      PROVE  Pointers'
  BY <1>4 DEF EmitFromBoard, Goes, Ends, vars, sources, handlers, history, budget
<1>5. ASSUME NEW h \in Handlers, NEW l \in Listeners, NEW i \in Ids, Post(h, l, i)
      PROVE  Pointers'
  BY <1>5 DEF Post, Goes, Ends, vars, sources, handlers, history, budget
<1>6. ASSUME NEW h \in Handlers, MarkSeen(h)
      PROVE  Pointers'
  BY <1>6 DEF MarkSeen, Goes, Ends, vars, sources, handlers, history, budget
<1>7. ASSUME NEW h \in Handlers, FindBinding(h)
      PROVE  Pointers'
  BY <1>7 DEF FindBinding, Goes, Ends, vars, sources, handlers, history, budget
<1>8. ASSUME NEW h \in Handlers, StorePayload(h)
      PROVE  Pointers'
  BY <1>8, StorePointers DEF IInv
<1>9. ASSUME NEW h \in Handlers, Show(h)
      PROVE  Pointers'
  BY <1>9 DEF Show, Goes, Ends, vars, sources, handlers, history, budget
<1>10. ASSUME NEW h \in Handlers, DispatchFails(h)
      PROVE  Pointers'
  BY <1>10 DEF DispatchFails, Goes, Ends, vars, sources, handlers, history, budget
<1>11. ASSUME NEW o \in Owners, Prune(o)
      PROVE  Pointers'
    <2>1. payloads' = payloads \ OldPayloads(o) /\ UNCHANGED <<now, handlers, pointed>>
    BY <1>11 DEF Prune, history
  <2>2. \A p : There(p) => There(p)'
    BY <2>1 DEF OldPayloads
  <2>3. QED
    BY <2>1, <2>2 DEF handlers

<1>12. CASE Tick
    <2>1. now' = now + 1 /\ now \in Nat /\ UNCHANGED <<payloads, handlers, pointed>>
    BY <1>12 DEF Tick, history
  <2>2. ASSUME NEW p, There(p) PROVE There(p)'
    <3>1. p.expires \in Nat
      BY <2>2 DEF PayloadRow
    <3>2. QED
      BY <2>1, <2>2, <3>1
  <2>3. QED
    BY <2>1, <2>2 DEF handlers

<1>13. CASE UNCHANGED vars
  BY <1>13 DEF Goes, Ends, vars, sources, handlers, history, budget
<1>14. QED
  BY <1>1, <1>2, <1>3, <1>4, <1>5, <1>6, <1>7, <1>8, <1>9, <1>10, <1>11, <1>12, <1>13 DEF Next

(* Every policy applied is the expected one.                                *)
LEMMA ResolvedStep ==
    ASSUME IInv, [Next]_vars
    PROVE  (resolved = TRUE)'
<1> USE DEF IInv
<1>1. ASSUME NEW b \in Bindings, NEW same \in BOOLEAN, CreateBinding(b, same)
      PROVE  (resolved = TRUE)'
  BY <1>1 DEF CreateBinding, Goes, Ends, vars, sources, handlers, history, budget
<1>2. ASSUME NEW b \in Bindings, NEW s \in {"active", "paused", "retired"}, SetBindingStatus(b, s)
      PROVE  (resolved = TRUE)'
  BY <1>2 DEF SetBindingStatus, Goes, Ends, vars, sources, handlers, history, budget
<1>3. ASSUME NEW l \in Listeners, SetEnabled(l)
      PROVE  (resolved = TRUE)'
  BY <1>3 DEF SetEnabled, Goes, Ends, vars, sources, handlers, history, budget
<1>4. ASSUME NEW h \in Handlers, NEW b \in Bindings, NEW i \in Ids,
             NEW k \in MaterialKinds \cup NoisyKinds, EmitFromBoard(h, b, i, k)
      PROVE  (resolved = TRUE)'
  BY <1>4 DEF EmitFromBoard, Goes, Ends, vars, sources, handlers, history, budget
<1>5. ASSUME NEW h \in Handlers, NEW l \in Listeners, NEW i \in Ids, Post(h, l, i)
      PROVE  (resolved = TRUE)'
  BY <1>5 DEF Post, Goes, Ends, vars, sources, handlers, history, budget
<1>6. ASSUME NEW h \in Handlers, MarkSeen(h)
      PROVE  (resolved = TRUE)'
  BY <1>6 DEF MarkSeen, Goes, Ends, vars, sources, handlers, history, budget
<1>7. ASSUME NEW h \in Handlers, FindBinding(h)
      PROVE  (resolved = TRUE)'
  BY <1>7 DEF FindBinding, Goes, Ends, vars, sources, handlers, history, budget
<1>8. ASSUME NEW h \in Handlers, StorePayload(h)
      PROVE  (resolved = TRUE)'
  BY <1>8, PolicyExpected DEF StorePayload
<1>9. ASSUME NEW h \in Handlers, Show(h)
      PROVE  (resolved = TRUE)'
  BY <1>9 DEF Show, Goes, Ends, vars, sources, handlers, history, budget
<1>10. ASSUME NEW h \in Handlers, DispatchFails(h)
      PROVE  (resolved = TRUE)'
  BY <1>10 DEF DispatchFails, Goes, Ends, vars, sources, handlers, history, budget
<1>11. ASSUME NEW o \in Owners, Prune(o)
      PROVE  (resolved = TRUE)'
  BY <1>11 DEF Prune, Goes, Ends, vars, sources, handlers, history, budget
<1>12. CASE Tick
  BY <1>12 DEF Tick, Goes, Ends, vars, sources, handlers, history, budget
<1>13. CASE UNCHANGED vars
  BY <1>13 DEF Goes, Ends, vars, sources, handlers, history, budget
<1>14. QED
  BY <1>1, <1>2, <1>3, <1>4, <1>5, <1>6, <1>7, <1>8, <1>9, <1>10, <1>11, <1>12, <1>13 DEF Next

(* No ready binding has an event refused.                                   *)
LEMMA RefusedStep ==
    ASSUME IInv, [Next]_vars
    PROVE  ReadyIsAccepted'
<1> USE DEF IInv, Shapes, ReadyIsAccepted
<1>1. ASSUME NEW b \in Bindings, NEW same \in BOOLEAN, CreateBinding(b, same)
      PROVE  ReadyIsAccepted'
    <2>1. b \notin refused
    BY <1>1, PoliciesAssumption DEF CreateBinding, NoBinding, BindingTypes
  <2>2. /\ refused' = refused
        /\ \A c \in Bindings \ {b} : bound'[c] = bound[c]
    BY <1>1 DEF CreateBinding, history
  <2>3. refused \subseteq Bindings
    OBVIOUS
  <2>4. QED
    BY <2>1, <2>2, <2>3

<1>2. ASSUME NEW b \in Bindings, NEW s \in {"active", "paused", "retired"}, SetBindingStatus(b, s)
      PROVE  ReadyIsAccepted'
    <2>1. /\ refused' = refused
        /\ \A c \in Bindings : bound'[c].filter = bound[c].filter
    BY <1>2 DEF SetBindingStatus, history, BindingRow
  <2>2. \A c \in Bindings : BindingTypes(bound'[c].filter) = BindingTypes(bound[c].filter)
    BY <2>1
  <2>3. QED
    BY <2>1, <2>2

<1>3. ASSUME NEW l \in Listeners, SetEnabled(l)
      PROVE  ReadyIsAccepted'
  BY <1>3 DEF SetEnabled, Goes, Ends, vars, sources, handlers, history, budget
<1>4. ASSUME NEW h \in Handlers, NEW b \in Bindings, NEW i \in Ids,
             NEW k \in MaterialKinds \cup NoisyKinds, EmitFromBoard(h, b, i, k)
      PROVE  ReadyIsAccepted'
    <2>1. CASE ListenerTakes(config.allowed, TypeOfKind[k])
    BY <1>4, <2>1 DEF EmitFromBoard
  <2>2. CASE ~ListenerTakes(config.allowed, TypeOfKind[k])
    <3>1. refused' = refused \cup {b} /\ bound' = bound /\ k \in WouldEmit(b)
      BY <1>4, <2>2 DEF EmitFromBoard
    <3>2. DisallowedTypes(bound[b].filter, config.allowed) = {}
      BY <3>1, <1>4 DEF WouldEmit, Compatibility, BindingRow
    <3>3. FilterAllows(bound[b].filter, TypeOfKind[k])
      BY <3>1, PoliciesAssumption DEF WouldEmit, Verdict
    <3>4. BindingTypes(bound[b].filter) = {}
      BY <2>2, <3>2, <3>3 DEF ListenerTakes, DisallowedTypes, FilterAllows
    <3>5. QED
      BY <3>1, <3>4
  <2>3. QED
    BY <2>1, <2>2

<1>5. ASSUME NEW h \in Handlers, NEW l \in Listeners, NEW i \in Ids, Post(h, l, i)
      PROVE  ReadyIsAccepted'
  BY <1>5 DEF Post, Goes, Ends, vars, sources, handlers, history, budget
<1>6. ASSUME NEW h \in Handlers, MarkSeen(h)
      PROVE  ReadyIsAccepted'
  BY <1>6 DEF MarkSeen, Goes, Ends, vars, sources, handlers, history, budget
<1>7. ASSUME NEW h \in Handlers, FindBinding(h)
      PROVE  ReadyIsAccepted'
  BY <1>7 DEF FindBinding, Goes, Ends, vars, sources, handlers, history, budget
<1>8. ASSUME NEW h \in Handlers, StorePayload(h)
      PROVE  ReadyIsAccepted'
  BY <1>8 DEF StorePayload, Goes, Ends, vars, sources, handlers, history, budget
<1>9. ASSUME NEW h \in Handlers, Show(h)
      PROVE  ReadyIsAccepted'
  BY <1>9 DEF Show, Goes, Ends, vars, sources, handlers, history, budget
<1>10. ASSUME NEW h \in Handlers, DispatchFails(h)
      PROVE  ReadyIsAccepted'
  BY <1>10 DEF DispatchFails, Goes, Ends, vars, sources, handlers, history, budget
<1>11. ASSUME NEW o \in Owners, Prune(o)
      PROVE  ReadyIsAccepted'
  BY <1>11 DEF Prune, Goes, Ends, vars, sources, handlers, history, budget
<1>12. CASE Tick
  BY <1>12 DEF Tick, Goes, Ends, vars, sources, handlers, history, budget
<1>13. CASE UNCHANGED vars
  BY <1>13 DEF Goes, Ends, vars, sources, handlers, history, budget
<1>14. QED
  BY <1>1, <1>2, <1>3, <1>4, <1>5, <1>6, <1>7, <1>8, <1>9, <1>10, <1>11, <1>12, <1>13 DEF Next

(* The invariant holds in every reachable state.                            *)
LEMMA InvAlways == Spec => []IInv
<1>1. IInv /\ [Next]_vars => IInv'
  BY ShapesStep, FlightStep, AloneStep, MarkedStep, GuardedStep, RowsStep,
     PointersStep, ResolvedStep, RefusedStep DEF IInv
<1>2. QED
  BY InvInit, <1>1, PTL DEF Spec

-----------------------------------------------------------------------------
(* The theorems.                                                            *)

(* Every reachable state is of the right types, and an event of a listener  *)
(* has one payload row.                                                     *)
THEOREM TypesHold == Spec => []TypeOK
<1>1. IInv => TypeOK
  BY DEF IInv, TypeOK, Shapes, Flight, Rows
<1>2. QED
  BY InvAlways, <1>1, PTL

(* No event is accepted twice within the retention of its marker.           *)
THEOREM ReplayRefused == Spec => []AcceptedOnceInWindow
<1>1. IInv => AcceptedOnceInWindow
  BY DEF IInv, Guarded
<1>2. QED
  BY InvAlways, <1>1, PTL

(* A pointer leads to its payload for as long as that is retained.          *)
THEOREM PointersLead == Spec => []PointerResolves
<1>1. ASSUME IInv, NEW p \in pointed, now <= p.expires
      PROVE  p \in PayloadShown(p.owner, p.id, p.mode = "raw_local")
  <2>1. p \in PayloadRow /\ (p \in payloads \/ p.expires < now)
    BY <1>1 DEF IInv, Pointers, There
  <2>2. p \in payloads
    BY <1>1, <2>1 DEF IInv, Shapes, PayloadRow
  <2>3. QED
    BY <2>2 DEF PayloadShown, PayloadsFor
<1>2. IInv => PointerResolves
  BY <1>1 DEF PointerResolves
<1>3. QED
  BY InvAlways, <1>2, PTL

(* Every policy that was applied is the most specific layer's.              *)
THEOREM PoliciesNotMixed == Spec => []MostSpecificWins
<1>1. IInv => MostSpecificWins
  BY DEF IInv, MostSpecificWins
<1>2. QED
  BY InvAlways, <1>1, PTL

(* A binding called ready has no event refused for its type.                *)
THEOREM ReadyHolds == Spec => []ReadyIsAccepted
<1>1. IInv => ReadyIsAccepted
  BY DEF IInv
<1>2. QED
  BY InvAlways, <1>1, PTL

(* Pruning one owner's rows leaves every other's.                           *)
THEOREM PruneKeepsOthers == Spec => OthersKeep
<1>1. [Next]_vars =>
        [\A o \in Owners : Prune(o) =>
          \A other \in Owners \ {o} :
             /\ EventsFor(other) \subseteq EventsFor(other)'
             /\ \A i \in Ids : /\ PayloadsFor(other, i) \subseteq PayloadsFor(other, i)'
                               /\ (seen[i] # None /\ OwnerOf[seen[i][1]] = other)
                                    => seen'[i] = seen[i]]_vars
  <2>1. ASSUME NEW o \in Owners, Prune(o), NEW other \in Owners \ {o}
        PROVE  /\ EventsFor(other) \subseteq EventsFor(other)'
               /\ \A i \in Ids : /\ PayloadsFor(other, i) \subseteq PayloadsFor(other, i)'
                                 /\ (seen[i] # None /\ OwnerOf[seen[i][1]] = other)
                                      => seen'[i] = seen[i]
    BY <2>1 DEF Prune, EventsFor, PayloadsFor, OldMarkers, OldPayloads
  <2>2. QED
    BY <2>1
<1>2. QED
  BY <1>1, PTL DEF Spec, OthersKeep

=============================================================================
