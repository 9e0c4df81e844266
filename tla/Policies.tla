-------------------------------- MODULE Policies --------------------------------
(***************************************************************************)
(* What is decided about a source event before it is sent and when it is    *)
(* received: src/async_threads/source_filters.py, the transform of          *)
(* kanban.py, source_binding_compatibility of registry.py, and              *)
(* ingress_digest.py.  Pure functions; Registry calls them.                 *)
(***************************************************************************)
EXTENDS Naturals

CONSTANTS
    Types,        \* event types
    Aliases,      \* kinds as an owner writes them in a filter
    TypeOfAlias,  \* _kanban_event_type_for_kind; NoType: nothing is left of it
    NoType,
    DefaultTypes, \* KANBAN_DEFAULT_EVENT_TYPES
    MaterialKinds, NoisyKinds,  \* kinds of task events
    TypeOfKind,   \* the type a material kind is sent as
    RedactedFor, RawFor  \* retention_seconds by default

ASSUME PoliciesAssumption ==
    /\ NoType \notin Types
    /\ TypeOfAlias \in [Aliases -> Types \cup {NoType}]
    /\ DefaultTypes \subseteq Types /\ DefaultTypes # {}
    /\ TypeOfKind \in [MaterialKinds -> Types]
    /\ MaterialKinds \cap NoisyKinds = {}
    /\ RedactedFor \in Nat \ {0} /\ RawFor \in Nat \ {0}

-----------------------------------------------------------------------------
(* source_binding_event_types: exact types first, then kinds, then the      *)
(* defaults.                                                                *)
Filter == [types : SUBSET Types, kinds : SUBSET Aliases]

BindingTypes(f) ==
    CASE f.types # {} -> f.types
      [] f.types = {} /\ f.kinds # {} -> {TypeOfAlias[k] : k \in f.kinds} \ {NoType}
      [] OTHER -> DefaultTypes

(* source_filter_allows_event: no types at all is no filter at all.         *)
FilterAllows(f, t) == BindingTypes(f) # {} => t \in BindingTypes(f)

(* A listener that names no types takes every type.                         *)
ListenerTakes(allowed, t) == allowed # {} => t \in allowed

(* source_binding_compatibility, of a binding and its listener.             *)
DisallowedTypesMut(f, allowed) == IF allowed = {} THEN {} ELSE f.types \ allowed
DisallowedTypes(f, allowed) == IF allowed = {} THEN {} ELSE BindingTypes(f) \ allowed

Compatibility(b, enabled, allowed) ==
    CASE b.status # "active" -> b.status
      [] b.status = "active" /\ ~enabled -> "listener_disabled"
      [] b.status = "active" /\ enabled /\ ~b.sameProducer -> "producer_mismatch"
      [] b.status = "active" /\ enabled /\ b.sameProducer
            /\ DisallowedTypes(b.filter, allowed) # {} -> "disallowed_event_types"
      [] OTHER -> "ok"

(* transform_kanban_task_event                                              *)
Verdict(kind, f, digests) ==
    CASE kind \in NoisyKinds -> IF kind \in digests THEN "would_coalesce" ELSE "suppressed"
      [] kind \in MaterialKinds -> IF FilterAllows(f, TypeOfKind[kind])
                                   THEN "would_emit" ELSE "suppressed"
      [] OTHER -> "suppressed"

-----------------------------------------------------------------------------
(* A layer of the digest policy, as it was configured; "unset" and 0 for    *)
(* what it leaves open.                                                     *)
Modes == {"pointer", "pointer_summary", "inline_summary"}
Layer == [enabled : {"unset", "yes", "no"},
          mode : Modes \cup {"unset", "off"},
          store : {"unset", "none", "redacted", "raw_local"},
          retention : Nat]
NoLayer == [enabled |-> "unset", mode |-> "unset", store |-> "unset", retention |-> 0]
OffLayer == [enabled |-> "no", mode |-> "off", store |-> "unset", retention |-> 0]

Off == [active |-> FALSE, mode |-> "off", store |-> "none", retention |-> RedactedFor]

ExplicitDisable(r) == r.enabled = "no" \/ r.mode = "off"

Given(value, none, default) == IF value = none THEN default ELSE value

(* Which payload is stored: a pointer always has something to point to.     *)
Store(mode, store) ==
    IF mode \in {"pointer", "pointer_summary"}
    THEN IF store \in {"unset", "none"} THEN "redacted" ELSE store
    ELSE Given(store, "unset", "none")

(* normalize_ingress_digest_policy                                          *)
Normalize(r) ==
    IF r.enabled # "yes" \/ r.mode = "off"
    THEN Off
    ELSE LET mode == Given(r.mode, "unset", "pointer_summary")
             store == Store(mode, r.store)
         IN  [active |-> TRUE, mode |-> mode, store |-> store,
              retention |-> Given(r.retention, 0, IF store = "raw_local" THEN RawFor
                                                  ELSE RedactedFor)]

(* policy_override_mapping: what is kept with a listener or a binding.      *)
Override(r) ==
    IF r = NoLayer
    THEN NoLayer
    ELSE LET p == Normalize(r) IN
         IF p.active
         THEN [enabled |-> "yes", mode |-> p.mode, store |-> p.store,
               retention |-> p.retention]
         ELSE OffLayer

(* A layer as it is kept, which is its own override.                        *)
Kept(r) == r \in Layer /\ Override(r) = r

Merge(a, b) ==
    [enabled |-> Given(b.enabled, "unset", a.enabled),
     mode |-> Given(b.mode, "unset", a.mode),
     store |-> Given(b.store, "unset", a.store),
     retention |-> Given(b.retention, 0, a.retention)]

(* A layer that is empty or that disables adds nothing to the merge.        *)
Adds(r) == r # NoLayer /\ ~ExplicitDisable(r)
Added(a, b) == IF Adds(b) THEN Merge(a, b) ELSE a

(* resolve_ingress_digest_policy: a disabling layer has its way unless a    *)
(* later layer adds something; earlier layers fill what later ones leave.   *)
ResolveMut(g, l, b) == Normalize(Added(Added(Added(NoLayer, g), l), b))
Resolve(g, l, b) ==
    LET disabled ==
            \/ ExplicitDisable(b)
            \/ ~Adds(b) /\ ExplicitDisable(l)
            \/ ~Adds(b) /\ ~Adds(l) /\ ExplicitDisable(g)
    IN  IF disabled THEN Off ELSE Normalize(Added(Added(Added(NoLayer, g), l), b))

Stores(p) == p.active /\ p.store \in {"redacted", "raw_local"}

-----------------------------------------------------------------------------
(* What an owner would expect: the binding's policy, failing that the       *)
(* listener's, failing that the global one, and never a mixture.            *)
MostSpecific(g, l, b) ==
    CASE b # NoLayer -> Normalize(b)
      [] b = NoLayer /\ l # NoLayer -> Normalize(l)
      [] OTHER -> Normalize(g)

=============================================================================
