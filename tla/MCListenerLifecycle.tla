-------------------------- MODULE MCListenerLifecycle --------------------------
(***************************************************************************)
(* Instances of ListenerLifecycle for TLC.                                  *)
(***************************************************************************)
EXTENDS ListenerLifecycle, TLC

(* Every operation; listeners and actors are interchangeable.               *)
EveryOp == AllOps

Symmetry == Permutations(Listeners) \cup Permutations(Actors)

=============================================================================
