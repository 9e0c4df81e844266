--------------------------- MODULE MCSourceRunner ----------------------------
(***************************************************************************)
(* Instances of SourceRunner for TLC: the second row is noise, every third  *)
(* one is folded into a digest, the others are material.                    *)
(***************************************************************************)
EXTENDS SourceRunner

MCVerdict == [r \in Row |-> IF r = 2 THEN "suppressed"
                            ELSE IF r % 3 = 0 THEN "would_coalesce"
                            ELSE "would_emit"]

(* Every row is material.                                                   *)
AllEmit == [r \in Row |-> "would_emit"]

=============================================================================
