------------------------------- MODULE MCRegistry -------------------------------
(***************************************************************************)
(* Instances of Registry for TLC: two owners with a listener each, a Kanban *)
(* board bound to the first.                                                *)
(***************************************************************************)
EXTENDS Registry, TLC

CONSTANTS l1, l2, o1, o2, completed, blocked, dotted

OwnerOfListener == [l \in Listeners |-> IF l = l1 THEN o1 ELSE o2]
HomeOfBinding == [b \in Bindings |-> l1]
SentAs == [k \in MaterialKinds |-> k]
AliasTypes == [a \in Aliases |-> IF a = dotted THEN NoType ELSE a]

Config(allowed, filter, global, listener, binding) ==
    [allowed |-> allowed, filter |-> filter, global |-> global,
     listener |-> Override(listener), binding |-> Override(binding)]

On(mode, store) == [enabled |-> "yes", mode |-> mode, store |-> store, retention |-> 0]
NoFilter == [types |-> {}, kinds |-> {}]

(* Filters by type, by kind, by none and by a kind nothing is left of,      *)
(* against listeners that take one type, or all.                            *)
FilterConfigs ==
    {Config(allowed, filter, NoLayer, NoLayer, NoLayer) :
        allowed \in {{}, {completed}},
        filter \in [types : {{}}, kinds : {{}, {blocked}, {completed}, {dotted}}]
                  \cup [types : {{completed}}, kinds : {{blocked}}]}

(* Policies on each layer: none, off, a digest without its mode, raw.       *)
LayerConfigs ==
    {Config({}, NoFilter, g, l, b) :
        g \in {NoLayer, On("pointer", "raw_local")},
        l \in {NoLayer, OffLayer, [NoLayer EXCEPT !.mode = "pointer"]},
        b \in {NoLayer, [NoLayer EXCEPT !.store = "raw_local"],
               On("unset", "redacted")}}

AllConfigs == FilterConfigs \cup LayerConfigs

Symmetry == Permutations(Handlers)

=============================================================================
