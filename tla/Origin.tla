--------------------------------- MODULE Origin ---------------------------------
(***************************************************************************)
(* Where a model-facing tool is used, and which listener it gets:           *)
(* src/async_threads/origin.py, with _find_equivalent_listener of tools.py. *)
(*                                                                          *)
(* A tool call runs in a thread beside the gateway, which opens and resets  *)
(* sessions meanwhile.  It looks for its conversation in the session store, *)
(* in sessions.json, in the plugin's own index and in the context of its    *)
(* task, one after another, and then for a listener of that conversation.   *)
(*                                                                          *)
(* A source is a chat and the user who writes in it; build_session_key maps *)
(* it to a key.  All calls ask for the same producer, types and policies.   *)
(***************************************************************************)
EXTENDS Naturals, Sequences, FiniteSets

CONSTANTS
    Sources,       \* records of a chat and a user, who may be None
    Keys, KeyOf,   \* build_session_key, external: the key of a source
    Local,         \* chats of the terminal or the API server
    Threads,       \* chats within another one, parent_chat_id
    Contexts,      \* the sources in the contexts of tasks, or None
    Offers,        \* what a host gives a call of its session store
    Sids,          \* session ids the gateway may hand out
    Calls,         \* tool calls at work at the same time
    None, Unavailable,  \* nothing; OriginResolution with an error
    MaxCalls,      \* bound: tool calls begun
    MaxResolving,  \* bound: tool calls that resolve at the same time
    MaxCommands,   \* bound: /ath commands and retirements
    MaxRestarts    \* bound: restarts of the gateway

Maybe(S) == S \cup {None}

(* parent_chat_id: what a source says of the chat its thread is in.         *)
Parents == {"given", "unknown"}

(* OriginResolution with ok.                                                *)
Resolution == [sid : Maybe(Sids), key : Maybe(Keys), source : Sources,
               parent : Parents]
Routable == {r \in Resolution : r.source.chat \notin Local}

Session == [sid : Sids, source : Sources]
Handle == [key : Maybe(Keys), source : Sources, parent : Parents, enabled : BOOLEAN]

ASSUME OriginAssumption ==
    /\ \A o \in Sources : o = [chat |-> o.chat, user |-> o.user]
    /\ Contexts \subseteq Sources \cup {None}
    /\ Offers \subseteq {"none", "keys", "ids"}
    /\ KeyOf \in [Sources -> Keys]
    /\ \A o, p \in Sources : KeyOf[o] = KeyOf[p] => o.chat = p.chat
    /\ None \notin Sources \cup Keys \cup Sids
    /\ None \notin Session \cup Resolution \cup {Unavailable}
    /\ Unavailable \notin Resolution
    /\ MaxCalls \in Nat /\ MaxResolving \in Nat
    /\ MaxCommands \in Nat /\ MaxRestarts \in Nat

VARIABLES
    sessionStore, \* the gateway's SessionStore: the session of each key
    file,       \* sessions.json
    offers,     \* of the store: nothing, a lookup by key, one by id as well
    bySid, byKey, \* OriginIndex
    home,       \* history: the key each session id was handed out for
    handles,    \* the registry's listeners, in the order of their creation
    at,         \* each call: its next step
    sid, key,   \* each call: what it looks for
    explicit,   \* each call: it was told so, and not by its context
    env,        \* each call: the source in the context of its task
    found,      \* each call: the conversation it has resolved
    answer,     \* each call: the listener it returns
    alone,      \* history: no listener came up since the call has listed them
    calls, commands, restarts

sessions == <<sessionStore, file, home>>
index    == <<bySid, byKey>>
asked    == <<sid, key, explicit, env>>
result   == <<found, answer, alone>>
budget   == <<calls, commands, restarts>>
vars == <<sessions, offers, index, handles, at, asked, result, budget>>

Nothing == [c \in Calls |-> None]

Init ==
    /\ sessionStore = [k \in Keys |-> None] /\ file = [k \in Keys |-> None]
    /\ offers \in Offers
    /\ bySid = [s \in Sids |-> None] /\ byKey = [k \in Keys |-> None]
    /\ home = [s \in Sids |-> None]
    /\ handles = <<>>
    /\ at = [c \in Calls |-> "idle"]
    /\ sid = Nothing /\ key = Nothing /\ env = Nothing /\ found = Nothing
    /\ explicit = [c \in Calls |-> FALSE]
    /\ answer = [c \in Calls |-> 0] /\ alone = [c \in Calls |-> FALSE]
    /\ calls = 0 /\ commands = 0 /\ restarts = 0

-----------------------------------------------------------------------------
(* Operators.                                                               *)

(* Mutant: the terminal counts as a conversation.                           *)
FromSourceMut(s, k, o, parent) ==
    [sid |-> s, key |-> k, source |-> o, parent |-> parent]

(* _resolution_from_source, with _source_is_gateway_routable.               *)
FromSource(s, k, o, parent) ==
    IF o.chat \in Local THEN Unavailable
    ELSE [sid |-> s, key |-> k, source |-> o, parent |-> parent]

Parent(o) == IF o.chat \in Threads THEN "given" ELSE "unknown"

FromEntry(k, entry) == FromSource(entry.sid, k, entry.source, Parent(entry.source))

(* The keys of the entries that agree with all that is asked: of the store  *)
(* and of the file alike.                                                   *)
Matching(table, s, k) ==
    {j \in Keys : /\ table[j] # None
                  /\ s \in {None, table[j].sid} /\ k \in {None, j}}

Search(table, s, k) ==
    LET hits == Matching(table, s, k)
    IN  IF (s = None /\ k = None) \/ hits = {} THEN None
        ELSE LET j == CHOOSE j \in hits : TRUE IN FromEntry(j, table[j])

(* _lookup_store: a store that cannot look up ids answers by key only.      *)
StoreLookup(s, k) ==
    IF offers = "none" \/ (offers = "keys" /\ k = None) THEN None
    ELSE Search(sessionStore, s, k)

(* OriginIndex.lookup and _resolution_matches.                              *)
Matches(r, s, k) == r # None /\ s \in {None, r.sid} /\ k \in {None, r.key}

IndexLookup(s, k) ==
    IF s # None /\ Matches(bySid[s], s, k) THEN bySid[s]
    ELSE IF k # None /\ Matches(byKey[k], s, k) THEN byKey[k] ELSE None

(* _resolution_from_session_context: the context has no parent_chat_id.     *)
FromContext(s, k, o) ==
    IF o = None THEN Unavailable ELSE FromSource(s, k, o, "unknown")

(* Mutant: what has no key is not told apart.                               *)
SameOriginMut(h, r) == h.key = r.key \/ None \in {h.key, r.key}

(* _same_origin                                                             *)
SameOrigin(h, r) ==
    IF h.key # None /\ r.key # None THEN h.key = r.key
    ELSE h.source.chat = r.source.chat /\ h.parent = r.parent

(* Mutant: keys are compared also where one is unknown.                     *)
EquivalentMut(r) ==
    {i \in DOMAIN handles : /\ handles[i].enabled
                            /\ handles[i].source.user = r.source.user
                            /\ handles[i].key = r.key}

Equivalent(r) ==
    {i \in DOMAIN handles : /\ handles[i].enabled
                            /\ handles[i].source.user = r.source.user
                            /\ SameOrigin(handles[i], r)}

-----------------------------------------------------------------------------
(* The gateway.                                                             *)

(* It opens or resets the session of a key.  A session that no chat opened  *)
(* has no origin, is passed over by every lookup, and is left out here.     *)
NewSession(o, s) ==
    /\ home[s] = None
    /\ sessionStore' =
          [sessionStore EXCEPT ![KeyOf[o]] = [sid |-> s, source |-> o]]
    /\ home' = [home EXCEPT ![s] = KeyOf[o]]
    /\ UNCHANGED <<file, offers, index, handles, at, asked, result, budget>>

SaveSessions ==
    /\ file' = sessionStore
    /\ UNCHANGED <<sessionStore, home, offers, index, handles, at, asked, result,
                   budget>>

(* The file is read, the index and the calls are gone; listeners stay.      *)
Restart ==
    /\ restarts < MaxRestarts /\ restarts' = restarts + 1
    /\ sessionStore' = file
    /\ bySid' = [s \in Sids |-> None] /\ byKey' = [k \in Keys |-> None]
    /\ at' = [c \in Calls |-> "idle"]
    /\ sid' = Nothing /\ key' = Nothing /\ env' = Nothing /\ found' = Nothing
    /\ explicit' = [c \in Calls |-> FALSE]
    /\ answer' = [c \in Calls |-> 0] /\ alone' = [c \in Calls |-> FALSE]
    /\ UNCHANGED <<file, home, offers, handles, calls, commands>>

(* remember_gateway_origin: the store may have no session of the source yet.*)
Remember(o) ==
    LET k == KeyOf[o]
        s == IF sessionStore[k] = None THEN None ELSE sessionStore[k].sid
        r == FromSource(s, k, o, Parent(o))
    IN  IF r = Unavailable THEN UNCHANGED index
        ELSE /\ bySid' = IF s = None THEN bySid ELSE [bySid EXCEPT ![s] = r]
             /\ byKey' = [byKey EXCEPT ![k] = r]

(* handle_pre_gateway_dispatch with any /ath command.                       *)
GivesCommand(o) ==
    /\ commands < MaxCommands /\ commands' = commands + 1
    /\ Remember(o)
    /\ UNCHANGED <<sessions, offers, at, asked, found, answer, calls, restarts>>

Command(o) == GivesCommand(o) /\ UNCHANGED <<handles, alone>>

(* create_handle; whoever has listed the listeners has not seen this one.   *)
Insert(k, o, parent) ==
    /\ handles' = Append(handles, [key |-> k, source |-> o, parent |-> parent,
                                   enabled |-> TRUE])
    /\ alone' = [c \in Calls |-> FALSE]

(* /ath listen creates a listener, whatever there is.                       *)
Listen(o) == GivesCommand(o) /\ Insert(KeyOf[o], o, Parent(o))

(* /ath pause, resume and retire, by the listener's owner.                  *)
SetEnabled(o, i, enabled) ==
    /\ handles[i].enabled # enabled
    /\ o.user # None /\ handles[i].source.user = o.user
    /\ GivesCommand(o)
    /\ handles' = [handles EXCEPT ![i].enabled = enabled]
    /\ alone' = IF enabled THEN [c \in Calls |-> FALSE] ELSE alone

(* A terminal event, a finalizer or a tool retires a listener.              *)
Retire(i) ==
    /\ commands < MaxCommands /\ commands' = commands + 1
    /\ handles[i].enabled
    /\ handles' = [handles EXCEPT ![i].enabled = FALSE]
    /\ UNCHANGED <<sessions, offers, index, at, asked, result, calls, restarts>>

-----------------------------------------------------------------------------
(* A tool call: resolve_current_origin, a lookup at a time, and then the    *)
(* search for a listener.                                                   *)

Resolving == {"store", "file", "index"}
Resolved == {"find", "insert", "answered"}

Goes(c, label) == at' = [at EXCEPT ![c] = label]

Forgets(c) ==
    /\ sid' = [sid EXCEPT ![c] = None] /\ key' = [key EXCEPT ![c] = None]
    /\ env' = [env EXCEPT ![c] = None] /\ explicit' = [explicit EXCEPT ![c] = FALSE]

(* The host tells a call its session, or part of it; else the context of    *)
(* the task does, if it has an id or a key.                                 *)
Begin(c, s, k, o, told) ==
    /\ at[c] = "idle" /\ calls < MaxCalls /\ calls' = calls + 1
    /\ Cardinality({d \in Calls : at[d] \in Resolving}) < MaxResolving
    /\ IF told THEN s # None \/ k # None
       ELSE IF o = None THEN s = None /\ k = None
       ELSE k \in {None, KeyOf[o]} /\ (s # None => home[s] = KeyOf[o])
    /\ s # None => home[s] # None
    /\ sid' = [sid EXCEPT ![c] = s] /\ key' = [key EXCEPT ![c] = k]
    /\ env' = [env EXCEPT ![c] = o] /\ explicit' = [explicit EXCEPT ![c] = told]
    /\ Goes(c, "store")
    /\ UNCHANGED <<sessions, offers, index, handles, result, commands, restarts>>

(* What a lookup gives ends the search; a source that is not routable ends  *)
(* the call, with an error.                                                 *)
Continue(c, r, next) ==
    /\ CASE r = None        -> Goes(c, next) /\ UNCHANGED <<asked, found>>
         [] r = Unavailable -> Goes(c, "idle") /\ Forgets(c) /\ UNCHANGED found
         [] OTHER           -> /\ found' = [found EXCEPT ![c] = r]
                               /\ Goes(c, "find") /\ UNCHANGED asked
    /\ UNCHANGED <<sessions, offers, index, handles, answer, alone, budget>>

LookupStore(c) ==
    at[c] = "store" /\ Continue(c, StoreLookup(sid[c], key[c]), "file")

LookupFile(c) ==
    at[c] = "file" /\ Continue(c, Search(file, sid[c], key[c]), "index")

(* Mutant: the context stands in for a session that is not found.           *)
LookupIndexMut(c) ==
    /\ at[c] = "index"
    /\ LET r == IndexLookup(sid[c], key[c])
       IN  Continue(c, IF r # None THEN r
                       ELSE FromContext(sid[c], key[c], env[c]), "idle")

(* A call that was told its session has no other.                           *)
LookupIndex(c) ==
    /\ at[c] = "index"
    /\ LET r == IndexLookup(sid[c], key[c])
       IN  Continue(c, IF r # None THEN r
                       ELSE IF explicit[c] THEN Unavailable
                       ELSE FromContext(sid[c], key[c], env[c]), "idle")

(* ath_create_listener_tool, asked to reuse: it needs an owner; the list is *)
(* one query, the insert another.                                           *)
FindEquivalent(c) ==
    /\ at[c] = "find"
    /\ Forgets(c)
    /\ IF found[c].source.user = None
       THEN /\ Goes(c, "idle") /\ found' = [found EXCEPT ![c] = None]
            /\ UNCHANGED <<answer, alone>>
       ELSE IF Equivalent(found[c]) = {}
       THEN /\ Goes(c, "insert") /\ alone' = [alone EXCEPT ![c] = TRUE]
            /\ UNCHANGED <<found, answer>>
       ELSE /\ Goes(c, "answered") /\ UNCHANGED <<found, alone>>
            /\ \E i \in Equivalent(found[c]) : answer' = [answer EXCEPT ![c] = i]
    /\ UNCHANGED <<sessions, offers, index, handles, budget>>

CreateListener(c) ==
    /\ at[c] = "insert"
    /\ Insert(found[c].key, found[c].source, found[c].parent)
    /\ answer' = [answer EXCEPT ![c] = Len(handles) + 1]
    /\ Goes(c, "answered")
    /\ UNCHANGED <<sessions, offers, index, asked, found, budget>>

Returns(c) ==
    /\ at[c] = "answered" /\ Goes(c, "idle")
    /\ found' = [found EXCEPT ![c] = None] /\ answer' = [answer EXCEPT ![c] = 0]
    /\ UNCHANGED <<sessions, offers, index, handles, asked, alone, budget>>

CallStep(c) ==
    \/ LookupStore(c) \/ LookupFile(c) \/ LookupIndex(c)
    \/ FindEquivalent(c) \/ CreateListener(c) \/ Returns(c)

Next ==
    \/ \E o \in Sources, s \in Sids : NewSession(o, s)
    \/ SaveSessions
    \/ Restart
    \/ \E i \in DOMAIN handles : Retire(i)
    \/ \E o \in Sources :
          \/ Command(o) \/ Listen(o)
          \/ \E i \in DOMAIN handles, enabled \in BOOLEAN : SetEnabled(o, i, enabled)
    \/ \E c \in Calls :
          \/ \E s \in Maybe(Sids), k \in Maybe(Keys), o \in Contexts,
                told \in BOOLEAN : Begin(c, s, k, o, told)
          \/ CallStep(c)

Spec == Init /\ [][Next]_vars

-----------------------------------------------------------------------------
(* Properties.                                                              *)

(* Types; what is resolved or remembered is never the terminal's.           *)
TypeOK ==
    /\ sessionStore \in [Keys -> Maybe(Session)] /\ file \in [Keys -> Maybe(Session)]
    /\ offers \in Offers
    /\ bySid \in [Sids -> Maybe(Routable)] /\ byKey \in [Keys -> Maybe(Routable)]
    /\ home \in [Sids -> Maybe(Keys)]
    /\ handles \in Seq(Handle)
    /\ at \in [Calls -> Resolving \cup {"idle"} \cup Resolved]
    /\ sid \in [Calls -> Maybe(Sids)] /\ key \in [Calls -> Maybe(Keys)]
    /\ explicit \in [Calls -> BOOLEAN] /\ env \in [Calls -> Maybe(Contexts)]
    /\ found \in [Calls -> Maybe(Routable)]
    /\ \A c \in Calls : at[c] \in Resolved => found[c] # None
    /\ answer \in [Calls -> Nat] /\ alone \in [Calls -> BOOLEAN]
    /\ calls \in Nat /\ commands \in Nat /\ restarts \in Nat

(* The conversation a call resolves is that of the session it was told, or  *)
(* else of its task, wherever it was found and whatever sessions were       *)
(* opened, reset, saved or lost meanwhile: never another chat's.            *)
NamedSession ==
    \A c \in Calls : at[c] = "find" =>
        /\ sid[c] # None => home[sid[c]] = KeyOf[found[c].source]
        /\ key[c] # None => key[c] = KeyOf[found[c].source]
        /\ ~explicit[c] => KeyOf[env[c]] = KeyOf[found[c].source]

(* The listener a call returns, found or made, belongs to the chat and the  *)
(* user that were resolved, though listeners and conversations are compared *)
(* by their keys, or without them where one is unknown.                     *)
AnsweredIsHere ==
    \A c \in Calls : at[c] = "answered" =>
        LET h == handles[answer[c]]
        IN  /\ h.source.chat = found[c].source.chat
            /\ h.source.user = found[c].source.user

(* A call does not make a second listener for its user and chat, if none    *)
(* came up while it was looking; a thread is only known again by its key,   *)
(* as the context of a task does not say which chat the thread is in.       *)
OnePerConversation ==
    [][\A c \in Calls : at[c] = "insert" /\ at'[c] = "answered" /\ alone[c] =>
          \A i \in DOMAIN handles :
              LET h == handles[i]
                  keyed == h.key # None /\ found[c].key # None
              IN  ~ /\ h.enabled
                    /\ h.source.chat = found[c].source.chat
                    /\ h.source.user = found[c].source.user
                    /\ keyed \/ h.source.chat \notin Threads]_vars

=============================================================================
