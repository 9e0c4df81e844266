-------------------------------- MODULE MCOrigin --------------------------------
(***************************************************************************)
(* An instance of Origin for TLC: a user's channel, a thread in which posts *)
(* without a user share the user's session, and the terminal.               *)
(***************************************************************************)
EXTENDS Origin, TLC

CONSTANTS channel, thread, terminal, u1, kc, kt, kl

InChannel == [chat |-> channel, user |-> u1]
InThread == [chat |-> thread, user |-> u1]
PostInThread == [chat |-> thread, user |-> None]
AtTerminal == [chat |-> terminal, user |-> u1]

MCSources == {InChannel, InThread, PostInThread, AtTerminal}
MCContexts == {InChannel}
MCKeys == {kc, kt, kl}
MCKeyOf == InChannel :> kc @@ InThread :> kt @@ PostInThread :> kt
           @@ AtTerminal :> kl

(* Session ids are handed out in any order, calls run the same code.        *)
Symmetry == Permutations(Sids) \cup Permutations(Calls)

=============================================================================
