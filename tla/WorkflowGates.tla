----------------------------- MODULE WorkflowGates -----------------------------
(***************************************************************************)
(* What an event does to the state of a workflow: src/async_threads/        *)
(* workflows.py.  Pure functions of the state read from the registry and    *)
(* the event; Conversation puts them in the transaction that calls them.    *)
(*                                                                          *)
(* An artifact is its fingerprint, a candidate whether it is ready, and a   *)
(* gate is the kind of evidence that opens it.                              *)
(***************************************************************************)
EXTENDS Naturals

CONSTANTS
    Kinds,      \* kinds of evidence
    Artifacts,  \* fingerprints
    Stages,     \* stages that are not terminal
    Ordered,    \* gate_order, as a set
    Rank,       \* the place of a kind: in gate_order, then by name
    Serial,     \* gate_mode is "serial"
    Staleable,  \* stale_on_artifact_change
    NeedsCandidate,  \* candidate_required
    NoArtifact  \* the event, or the state, names none

ASSUME GatesAssumption ==
    /\ Ordered \subseteq Kinds
    /\ Staleable \subseteq Kinds /\ NeedsCandidate \subseteq Kinds
    /\ Rank \in [Kinds -> Nat]
    /\ \A j, k \in Kinds : Rank[j] = Rank[k] => j = k
    /\ Serial \in BOOLEAN
    /\ NoArtifact \notin Artifacts
    /\ Stages \cap {"", "released", "cancelled"} = {}

TerminalStages == {"released", "cancelled"}
Status == {"passed", "failed", "stale", "unknown"}
Evidence == [status : Status \cup {"absent"}, artifact : Artifacts \cup {NoArtifact}]
NoEvidence == [status |-> "absent", artifact |-> NoArtifact]

(* The row of async_thread's workflow_state, but for what only displays it. *)
State == [stage : Stages \cup TerminalStages \cup {""},
          artifact : Artifacts \cup {NoArtifact},
          candidate : {"none", "forming", "ready"},
          evidence : [Kinds -> Evidence]]
NoState == [stage |-> "", artifact |-> NoArtifact, candidate |-> "none",
            evidence |-> [k \in Kinds |-> NoEvidence]]

(* A normalised event; the kind of its evidence is "" when it brings none.  *)
Event == [stage : Stages \cup TerminalStages \cup {""},
          artifact : Artifacts \cup {NoArtifact},
          candidate : {"none", "forming", "ready"},
          kind : Kinds \cup {""}, status : Status]

-----------------------------------------------------------------------------
Or(value, none, old) == IF value = none THEN old ELSE value

(* The artifact is another one; the first of all changes nothing.           *)
ArtifactChanges(s, e) ==
    /\ e.artifact # NoArtifact /\ s.artifact # NoArtifact
    /\ e.artifact # s.artifact

(* _mark_stale_evidence                                                     *)
MarkStaleMut(s, e) == s.evidence
MarkStale(s, e) ==
    [k \in Kinds |->
        IF ArtifactChanges(s, e) /\ k \in Staleable /\ s.evidence[k].status = "passed"
        THEN [s.evidence[k] EXCEPT !.status = "stale"]
        ELSE s.evidence[k]]

(* Evidence that passed for an artifact the state did not know of.          *)
StaleIncoming(s, e) ==
    ArtifactChanges(s, e) /\ e.kind \in Staleable /\ e.status = "passed"

MergedEvidence(s, e) ==
    [k \in Kinds |->
        IF k = e.kind
        THEN [status |-> IF StaleIncoming(s, e) THEN "stale" ELSE e.status,
              artifact |-> Or(e.artifact, NoArtifact, s.artifact)]
        ELSE MarkStale(s, e)[k]]

(* A terminal stage is left for another terminal stage at most; evidence    *)
(* that came stale leaves the stage and the artifact as they were, when     *)
(* there was a state before.                                                *)
Sticks(s, e) == s.stage \in TerminalStages /\ Or(e.stage, "", s.stage) \notin TerminalStages

NextStageMut(s, e) == Or(e.stage, "", s.stage)
NextStageKeepsMut(s, e) ==
    IF Sticks(s, e) \/ ArtifactChanges(s, e) THEN s.stage ELSE Or(e.stage, "", s.stage)
NextStage(s, e) ==
    IF Sticks(s, e) \/ StaleIncoming(s, e) THEN s.stage ELSE Or(e.stage, "", s.stage)

NextArtifact(s, e) ==
    IF StaleIncoming(s, e) /\ ~Sticks(s, e)
    THEN s.artifact
    ELSE Or(e.artifact, NoArtifact, s.artifact)

(* apply_workflow_transition                                                *)
Apply(s, e) ==
    [stage |-> NextStage(s, e), artifact |-> NextArtifact(s, e),
     candidate |-> Or(e.candidate, "none", s.candidate),
     evidence |-> MergedEvidence(s, e)]

-----------------------------------------------------------------------------
(* compute_gates: the gates in their order, and then those evidence came    *)
(* for.  In serial mode the first gate that is not passed defers the later. *)
Gates(s) == Ordered \cup {k \in Kinds : s.evidence[k].status # "absent"}

OwnState(s, g) ==
    CASE g \in NeedsCandidate /\ s.candidate # "ready" -> "deferred_candidate_not_ready"
      [] OTHER -> IF s.evidence[g].status \in {"passed", "failed", "stale"}
                  THEN s.evidence[g].status ELSE "pending"

Behind(s, g) ==
    Serial /\ \E h \in Gates(s) : Rank[h] < Rank[g] /\ OwnState(s, h) # "passed"

GateStateMut(s, g) ==
    IF Serial /\ \E h \in Gates(s) : Rank[h] < Rank[g] /\ OwnState(s, h) = "failed"
    THEN "deferred_serial_gate"
    ELSE OwnState(s, g)
GateState(s, g) ==
    CASE ~Behind(s, g) -> OwnState(s, g)
      [] OTHER -> IF s.evidence[g].status = "passed"
                  THEN "passed" ELSE "deferred_serial_gate"

Active(s) == {g \in Gates(s) : GateState(s, g) \in {"pending", "failed", "stale"}}

=============================================================================
