--------------------------- MODULE MCEventReceiver ---------------------------
(***************************************************************************)
(* Instances of EventReceiver for TLC.  r1 and r2 are routine events, f1 a  *)
(* terminal one that is also a priority ("finished"), x1 one the listener   *)
(* does not allow.  The .cfg files choose among them.                       *)
(***************************************************************************)
EXTENDS EventReceiver, TLC

(* Requests are interchangeable, and so are the events that are routine and *)
(* nothing else.                                                            *)
Symmetry ==
    Permutations(Handlers) \cup Permutations((Routine \ Terminal) \cap Admitted)

=============================================================================
