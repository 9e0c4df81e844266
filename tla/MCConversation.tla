----------------------------- MODULE MCConversation -----------------------------
(***************************************************************************)
(* Instances of Conversation for TLC: a debounced listener without acks     *)
(* (q1, q2) and one with (k1) on one session, one that sends to the chat    *)
(* (d1); the gates review and qa, in this order.                           *)
(***************************************************************************)
EXTENDS Conversation, TLC

CONSTANTS q1, q2, k1, d1, quiet, acked, chat, review, qa, A, B

Listening ==
    [e \in Events |-> CASE e = k1 -> acked [] e = d1 -> chat [] OTHER -> quiet]
Ranks == [k \in Kinds |-> IF k = review THEN 1 ELSE 2]

Brings(stage, artifact, candidate, kind, status) ==
    [NoPayload EXCEPT !.workflow =
        [stage |-> stage, artifact |-> artifact, candidate |-> candidate,
         kind |-> kind, status |-> status]]
Finished == [NoPayload EXCEPT !.final = TRUE]

TerminalOf == [l \in Listeners |-> {"released", "canceled"}]

(* A routine review of A, which is debounced; a failed qa of the candidate, *)
(* with a stage that ends the listener and not its workflow; the end, with  *)
(* a new artifact, or where only the workflow reads it.                     *)
(* The other listeners' events are of a terminal type.                      *)
SomePayloads ==
    [l \in Listeners |-> IF l # quiet THEN {Finished} ELSE
    {[Brings("progress", A, "none", review, "passed") EXCEPT !.routine = TRUE],
     [Brings("canceled", NoArtifact, "ready", qa, "failed") EXCEPT !.heard = "canceled"],
     [Brings("released", B, "none", "", "unknown") EXCEPT !.heard = "released"],
     Brings("cancelled", NoArtifact, "none", "", "unknown")}]

Symmetry == Permutations(Handlers) \cup Permutations({q1, q2})

=============================================================================
