----------------------------- MODULE Origin_proofs -----------------------------
(***************************************************************************)
(* Theorems about Origin.  Wherever a conversation is written down, in the  *)
(* store, the file, the index, a call or a listener, its key is the one of  *)
(* its source, and its session id was handed out for that key: so it makes  *)
(* no difference how a conversation was found, and comparing keys, or chats *)
(* where a key is unknown, compares conversations.                          *)
(***************************************************************************)
EXTENDS Origin, TLAPS

(* A session table agrees with itself and with what was handed out.         *)
Kept(table) ==
    \A k \in Keys : table[k] # None =>
        KeyOf[table[k].source] = k /\ home[table[k].sid] = k

(* What is known of a conversation is true of its source.                   *)
Exact(r) ==
    /\ r.key # None => r.key = KeyOf[r.source]
    /\ r.source.chat \notin Threads => r.parent = "unknown"

Indexed(r) ==
    r # None => Exact(r) /\ r.key # None /\ (r.sid # None => home[r.sid] = r.key)

(* The context of a task agrees with itself.                                *)
Asks(c) ==
    ~explicit[c] =>
        /\ env[c] = None => sid[c] = None /\ key[c] = None
        /\ sid[c] # None => home[sid[c]] = KeyOf[env[c]]
        /\ key[c] # None => key[c] = KeyOf[env[c]]

(* r is an answer to what c asks.                                           *)
Named(c, r) ==
    /\ sid[c] # None => home[sid[c]] = KeyOf[r.source]
    /\ key[c] # None => key[c] = KeyOf[r.source]
    /\ ~explicit[c] => KeyOf[env[c]] = KeyOf[r.source]

Here(c) ==
    /\ answer[c] \in DOMAIN handles
    /\ handles[answer[c]].source.chat = found[c].source.chat
    /\ handles[answer[c]].source.user = found[c].source.user

Tables == Kept(sessionStore) /\ Kept(file)
Indices == (\A s \in Sids : Indexed(bySid[s])) /\ (\A k \in Keys : Indexed(byKey[k]))
Listed == \A i \in DOMAIN handles : Exact(handles[i])
Asking == \A c \in Calls : at[c] \in Resolving \cup {"find"} =>
            Asks(c) /\ (sid[c] # None => home[sid[c]] # None)
Finding == \A c \in Calls :
             /\ at[c] \in Resolved => Exact(found[c])
             /\ at[c] = "find" => Named(c, found[c])
Answering == \A c \in Calls : at[c] = "answered" => Here(c)
Alone == \A c \in Calls : at[c] = "insert" /\ alone[c] => Equivalent(found[c]) = {}

IInv == TypeOK /\ Tables /\ Indices /\ Listed /\ Asking /\ Finding /\ Answering /\ Alone

-----------------------------------------------------------------------------
(* Lookups.                                                                 *)

(* A lookup of call c that gives r.                                         *)
Gives(c, r) ==
    \/ r = None
    \/ r = Unavailable
    \/ r \in Routable /\ Exact(r) /\ Named(c, r)

(* A source makes a conversation, unless it is the terminal's.              *)
LEMMA SourceGives ==
    ASSUME NEW s \in Maybe(Sids), NEW k \in Maybe(Keys), NEW o \in Sources,
           NEW parent \in Parents
    PROVE  \/ FromSource(s, k, o, parent) = Unavailable
           \/ /\ FromSource(s, k, o, parent) \in Routable
              /\ FromSource(s, k, o, parent) =
                    [sid |-> s, key |-> k, source |-> o, parent |-> parent]
BY DEF FromSource, Routable, Resolution

(* The store and the file give the asked session's conversation.            *)
LEMMA SearchGives ==
    ASSUME IInv, NEW c \in Calls, at[c] \in Resolving,
           NEW table \in [Keys -> Maybe(Session)], Kept(table)
    PROVE  Gives(c, Search(table, sid[c], key[c]))
<1> DEFINE hits == Matching(table, sid[c], key[c])
           j == CHOOSE j \in hits : TRUE
<1>1. CASE (sid[c] = None /\ key[c] = None) \/ hits = {}
  BY <1>1 DEF Search, Gives
<1>2. CASE ~((sid[c] = None /\ key[c] = None) \/ hits = {})
  <2>1. j \in hits
    BY <1>2
  <2> HIDE DEF j
  <2>2. /\ j \in Keys /\ table[j] \in Session
        /\ sid[c] \in {None, table[j].sid} /\ key[c] \in {None, j}
    BY <2>1 DEF Matching, Maybe
  <2>3. /\ KeyOf[table[j].source] = j /\ home[table[j].sid] = j
        /\ table[j].sid \in Sids /\ table[j].source \in Sources
    <3>1. table[j] # None
      BY <2>1 DEF Matching
    <3> QED BY <2>2, <3>1 DEF Kept, Session
  <2>4. Search(table, sid[c], key[c]) = FromEntry(j, table[j])
    BY <1>2 DEF Search, j
  <2>5. \/ FromEntry(j, table[j]) = Unavailable
        \/ /\ FromEntry(j, table[j]) \in Routable
           /\ FromEntry(j, table[j]) =
                [sid |-> table[j].sid, key |-> j, source |-> table[j].source,
                 parent |-> Parent(table[j].source)]
    BY <2>2, <2>3, SourceGives DEF FromEntry, Parent, Parents, Maybe
  <2>6. ~explicit[c] => KeyOf[env[c]] = j
    BY <1>2, <2>2, <2>3 DEF IInv, Asking, Asks
  <2>7. Gives(c, FromEntry(j, table[j]))
    <3> DEFINE r == FromEntry(j, table[j])
    <3>1. CASE r = Unavailable
      BY <3>1 DEF Gives
    <3>2. CASE r # Unavailable
      <4>1. /\ r \in Routable /\ r.key = j /\ r.source = table[j].source
            /\ r.parent = Parent(table[j].source)
        BY <2>5, <3>2
      <4> HIDE DEF r
      <4>2. Exact(r)
        BY <4>1, <2>3 DEF Exact, Parent
      <4>3. Named(c, r)
        BY <4>1, <2>2, <2>3, <2>6 DEF Named
      <4>4. Gives(c, r)
        BY <4>1, <4>2, <4>3 DEF Gives
      <4> QED BY <4>4 DEF r
    <3> QED BY <3>1, <3>2
  <2> QED BY <2>4, <2>7
<1> QED BY <1>1, <1>2

(* So does the index.                                                       *)
LEMMA IndexGives ==
    ASSUME IInv, NEW c \in Calls, at[c] \in Resolving
    PROVE  Gives(c, IndexLookup(sid[c], key[c]))
<1> DEFINE r == IndexLookup(sid[c], key[c])
<1>1. CASE r = None
  BY <1>1 DEF Gives
<1>2. CASE r # None
  <2>1. r \in Routable /\ Matches(r, sid[c], key[c]) /\ Indexed(r)
        /\ (sid[c] # None \/ key[c] # None)
    BY <1>2 DEF IInv, TypeOK, Indices, IndexLookup, Maybe
  <2> HIDE DEF r
  <2>2. /\ Exact(r) /\ r.key # None /\ r.key = KeyOf[r.source]
        /\ r.sid # None => home[r.sid] = r.key
        /\ sid[c] \in {None, r.sid} /\ key[c] \in {None, r.key}
    BY <1>2, <2>1 DEF Indexed, Matches, Exact
  <2>3. ~explicit[c] => KeyOf[env[c]] = r.key
    BY <2>1, <2>2 DEF IInv, Asking, Asks
  <2>4. Gives(c, r)
    BY <2>1, <2>2, <2>3 DEF Gives, Named
  <2> QED BY <2>4 DEF r
<1> QED BY <1>1, <1>2

(* And the context of the task, for a call that was told nothing.           *)
LEMMA ContextGives ==
    ASSUME IInv, NEW c \in Calls, at[c] \in Resolving, ~explicit[c]
    PROVE  Gives(c, FromContext(sid[c], key[c], env[c]))
<1>1. CASE env[c] = None
  BY <1>1 DEF FromContext, Gives
<1>2. CASE env[c] # None
  <2>1. env[c] \in Sources /\ sid[c] \in Maybe(Sids) /\ key[c] \in Maybe(Keys)
    BY <1>2, OriginAssumption DEF IInv, TypeOK, Maybe
  <2>2. FromContext(sid[c], key[c], env[c]) = FromSource(sid[c], key[c], env[c], "unknown")
    BY <1>2 DEF FromContext
  <2>3. \/ FromSource(sid[c], key[c], env[c], "unknown") = Unavailable
        \/ /\ FromSource(sid[c], key[c], env[c], "unknown") \in Routable
           /\ FromSource(sid[c], key[c], env[c], "unknown") =
                [sid |-> sid[c], key |-> key[c], source |-> env[c], parent |-> "unknown"]
    BY <2>1, SourceGives DEF Parents
  <2>4. Asks(c)
    BY DEF IInv, Asking
  <2> DEFINE r == FromContext(sid[c], key[c], env[c])
  <2>5. CASE r = Unavailable
    BY <2>5 DEF Gives
  <2>6. CASE r # Unavailable
    <3>1. /\ r \in Routable /\ r.key = key[c] /\ r.source = env[c]
          /\ r.parent = "unknown"
      BY <2>2, <2>3, <2>6
    <3> HIDE DEF r
    <3>2. Exact(r) /\ Named(c, r)
      BY <1>2, <2>4, <3>1 DEF Exact, Named, Asks
    <3>3. Gives(c, r)
      BY <3>1, <3>2 DEF Gives
    <3> QED BY <3>3 DEF r
  <2> QED BY <2>5, <2>6
<1> QED BY <1>1, <1>2

-----------------------------------------------------------------------------
(* The initial states.                                                      *)
LEMMA InitHolds == Init => IInv
<1> SUFFICES ASSUME Init PROVE IInv
  OBVIOUS
<1>1. TypeOK
  BY OriginAssumption DEF Init, TypeOK, Nothing, Maybe, Resolved
<1>2. Tables /\ Indices /\ Listed
  BY DEF Init, Tables, Kept, Indices, Indexed, Listed
<1>3. Asking /\ Finding /\ Answering /\ Alone
  BY DEF Init, Asking, Finding, Answering, Alone, Resolving, Resolved
<1> QED BY <1>1, <1>2, <1>3 DEF IInv

(* A session for a key, with an id that was never handed out.               *)
LEMMA NewSessionHolds ==
    ASSUME IInv, NEW o \in Sources, NEW s \in Sids, NewSession(o, s)
    PROVE  IInv'
<1>1. /\ KeyOf[o] \in Keys /\ KeyOf[o] # None /\ home[s] = None /\ home'[s] = KeyOf[o]
      /\ \A t \in Sids : home[t] # None => home'[t] = home[t]
      /\ home' \in [Sids -> Maybe(Keys)]
  BY OriginAssumption DEF IInv, TypeOK, NewSession, Maybe
<1>2. TypeOK'
  <2>1. sessionStore' \in [Keys -> Maybe(Session)]
    BY <1>1 DEF IInv, TypeOK, NewSession, Session, Maybe
  <2> QED BY <1>1, <2>1
        DEF IInv, TypeOK, NewSession, index, asked, result, budget
<1>3. Tables'
  <2>1. ASSUME NEW k \in Keys, sessionStore'[k] # None
        PROVE  KeyOf[sessionStore'[k].source] = k /\ home'[sessionStore'[k].sid] = k
    <3>1. CASE k = KeyOf[o]
      <4>1. sessionStore'[k] = [sid |-> s, source |-> o]
        BY <3>1 DEF IInv, TypeOK, NewSession
      <4> QED BY <1>1, <3>1, <4>1
    <3>2. CASE k # KeyOf[o]
      <4>1. sessionStore'[k] = sessionStore[k]
        BY <3>2 DEF IInv, TypeOK, NewSession
      <4>2. sessionStore[k] \in Session /\ KeyOf[sessionStore[k].source] = k /\ home[sessionStore[k].sid] = k
        BY <2>1, <4>1 DEF IInv, TypeOK, Tables, Kept, Maybe
      <4>3. sessionStore[k].sid \in Sids /\ k # None
        BY <4>2, OriginAssumption DEF Session
      <4> QED BY <1>1, <4>1, <4>2, <4>3
    <3> QED BY <3>1, <3>2
  <2>2. ASSUME NEW k \in Keys, file[k] # None
        PROVE  KeyOf[file[k].source] = k /\ home'[file[k].sid] = k
    <3>1. file[k] \in Session /\ KeyOf[file[k].source] = k /\ home[file[k].sid] = k
      BY <2>2 DEF IInv, TypeOK, Tables, Kept, Maybe
    <3>2. file[k].sid \in Sids /\ k # None
      BY <3>1, OriginAssumption DEF Session
    <3> QED BY <1>1, <3>1, <3>2
  <2> QED BY <2>1, <2>2 DEF Tables, Kept, NewSession
<1>4. Indices'
  <2>1. ASSUME NEW r \in Maybe(Routable), Indexed(r)
        PROVE  r # None => Exact(r) /\ r.key # None /\ (r.sid # None => home'[r.sid] = r.key)
    <3>1. r # None => r.sid \in Maybe(Sids)
      BY DEF Routable, Resolution, Maybe
    <3> QED BY <1>1, <2>1, <3>1 DEF Indexed, Maybe
  <2> QED BY <2>1 DEF IInv, TypeOK, Indices, Indexed, NewSession, index, Exact
<1>5. Asking' /\ Finding'
  <2>1. \A c \in Calls : sid[c] # None => sid[c] \in Sids
    BY DEF IInv, TypeOK, Maybe
  <2>2. \A c \in Calls : at[c] \in Resolving \cup {"find"} /\ sid[c] # None =>
          home'[sid[c]] = home[sid[c]]
    BY <1>1, <2>1 DEF IInv, Asking
  <2>3. UNCHANGED <<sid, key, explicit, env, at, found>>
    BY DEF NewSession, asked, result
  <2>4. Asking'
    BY <2>2, <2>3 DEF IInv, Asking, Asks
  <2>5. Finding'
    BY <2>2, <2>3 DEF IInv, Finding, Named, Exact
  <2> QED BY <2>4, <2>5
<1>6. Listed' /\ Answering' /\ Alone'
  BY DEF IInv, NewSession, asked, result, Listed, Answering, Alone, Here, Equivalent,
     SameOrigin, Exact
<1> QED BY <1>2, <1>3, <1>4, <1>5, <1>6 DEF IInv

(* Steps after which only the file, or nothing at all, is different.        *)
LEMMA SaveHolds ==
    ASSUME IInv, SaveSessions \/ UNCHANGED vars
    PROVE  IInv'
<1>1. /\ UNCHANGED <<sessionStore, home, offers, index, handles, at, asked, result, budget>>
      /\ file' = sessionStore \/ file' = file
  BY DEF SaveSessions, vars, sessions
<1>2. TypeOK'
  BY <1>1 DEF IInv, TypeOK, index, asked, result, budget
<1>3. Tables'
  BY <1>1 DEF IInv, Tables, Kept
<1>4. Indices' /\ Listed' /\ Asking'
  BY <1>1 DEF IInv, Indices, Indexed, Exact, Listed, Asking, Asks, index, asked
<1>5. Finding'
  BY <1>1 DEF IInv, Finding, Named, Exact, asked, result
<1>6. Answering' /\ Alone'
  BY <1>1 DEF IInv, Answering, Here, Alone, Equivalent, SameOrigin, result
<1> QED BY <1>2, <1>3, <1>4, <1>5, <1>6 DEF IInv

(* A restart ends the calls and empties the index.                          *)
LEMMA RestartHolds ==
    ASSUME IInv, Restart
    PROVE  IInv'
<1>1. TypeOK'
  BY OriginAssumption DEF IInv, TypeOK, Restart, Nothing, Maybe, Resolved
<1>2. Tables' /\ Indices' /\ Listed'
  BY DEF IInv, Restart, Tables, Kept, Indices, Indexed, Listed, Exact
<1>3. Asking' /\ Finding' /\ Answering' /\ Alone'
  BY DEF IInv, Restart, Asking, Finding, Answering, Alone, Resolving, Resolved
<1> QED BY <1>1, <1>2, <1>3 DEF IInv

(* What a command leaves in the index is true of the source it came from.   *)
LEMMA RememberHolds ==
    ASSUME IInv, NEW o \in Sources, Remember(o), UNCHANGED home
    PROVE  /\ bySid' \in [Sids -> Maybe(Routable)]
           /\ byKey' \in [Keys -> Maybe(Routable)]
           /\ Indices'
<1> DEFINE k == KeyOf[o]
           s == IF sessionStore[k] = None THEN None ELSE sessionStore[k].sid
           r == FromSource(s, k, o, Parent(o))
<1>1. k \in Keys /\ k # None /\ s \in Maybe(Sids) /\ (s # None => home[s] = k)
  BY OriginAssumption DEF IInv, TypeOK, Tables, Kept, Maybe, Session
<1>2. CASE r = Unavailable
  <2>1. UNCHANGED <<bySid, byKey>>
    BY <1>2 DEF Remember, index
  <2> QED BY <2>1 DEF IInv, TypeOK, Indices, Indexed, Exact
<1>3. CASE r # Unavailable
  <2>1. /\ r \in Routable
        /\ r = [sid |-> s, key |-> k, source |-> o, parent |-> Parent(o)]
    <3>1. k \in Maybe(Keys) /\ Parent(o) \in Parents
      BY <1>1 DEF Maybe, Parent, Parents
    <3> HIDE DEF s, k
    <3> QED BY <1>1, <1>3, <3>1, SourceGives
  <2>2. /\ bySid' = IF s = None THEN bySid ELSE [bySid EXCEPT ![s] = r]
        /\ byKey' = [byKey EXCEPT ![k] = r]
    BY <1>3 DEF Remember
  <2>3. Indexed(r)
    <3> HIDE DEF r, s
    <3>1. /\ r.sid = s /\ r.key = k /\ r.source = o
          /\ r.source.chat \notin Threads => r.parent = "unknown"
      BY <2>1 DEF Parent
    <3> QED BY <1>1, <3>1 DEF Indexed, Exact
  <2> HIDE DEF r, s, k
  <2>4. ASSUME NEW t \in Sids PROVE bySid'[t] \in Maybe(Routable) /\ Indexed(bySid'[t])
    BY <1>1, <2>1, <2>2, <2>3 DEF IInv, TypeOK, Indices, Maybe
  <2>5. ASSUME NEW j \in Keys PROVE byKey'[j] \in Maybe(Routable) /\ Indexed(byKey'[j])
    BY <1>1, <2>1, <2>2, <2>3 DEF IInv, TypeOK, Indices, Maybe
  <2>6. bySid' \in [Sids -> Maybe(Routable)] /\ byKey' \in [Keys -> Maybe(Routable)]
    BY <1>1, <2>1, <2>2, <2>4, <2>5 DEF IInv, TypeOK, Maybe
  <2> QED BY <2>4, <2>5, <2>6 DEF Indices, Indexed, Exact
<1> QED BY <1>2, <1>3

(* What a command leaves alone of the calls.                                *)
LEMMA CommandKeeps ==
    ASSUME IInv, NEW o \in Sources, GivesCommand(o)
    PROVE  /\ bySid' \in [Sids -> Maybe(Routable)] /\ byKey' \in [Keys -> Maybe(Routable)]
           /\ commands' \in Nat
           /\ UNCHANGED <<sessionStore, file, home, offers, at, sid, key, explicit, env, found,
                          answer, calls, restarts>>
           /\ Tables' /\ Indices' /\ Asking' /\ Finding'
<1>1. /\ UNCHANGED <<sessionStore, file, home, offers, at, sid, key, explicit, env, found,
                     answer, calls, restarts>>
      /\ commands' \in Nat /\ Remember(o)
  BY DEF IInv, TypeOK, GivesCommand, sessions, asked
<1>2. /\ bySid' \in [Sids -> Maybe(Routable)] /\ byKey' \in [Keys -> Maybe(Routable)]
      /\ Indices'
  BY <1>1, RememberHolds
<1>3. Tables' /\ Asking' /\ Finding'
  BY <1>1 DEF IInv, Tables, Kept, Asking, Asks, Finding, Named, Exact
<1> QED BY <1>1, <1>2, <1>3

(* A listener is added, and the others keep their places.                   *)
LEMMA InsertAdds ==
    ASSUME IInv, NEW k \in Maybe(Keys), NEW o \in Sources, NEW parent \in Parents,
           k # None => k = KeyOf[o], o.chat \notin Threads => parent = "unknown",
           Insert(k, o, parent)
    PROVE  /\ handles' \in Seq(Handle)
           /\ DOMAIN handles' = DOMAIN handles \cup {Len(handles) + 1}
           /\ \A i \in DOMAIN handles : handles'[i] = handles[i]
           /\ handles'[Len(handles) + 1] =
                [key |-> k, source |-> o, parent |-> parent, enabled |-> TRUE]
           /\ Listed'
           /\ alone' \in [Calls -> BOOLEAN] /\ \A c \in Calls : ~alone'[c]
<1> DEFINE h == [key |-> k, source |-> o, parent |-> parent, enabled |-> TRUE]
<1>1. h \in Handle /\ Exact(h)
  BY DEF Handle, Exact
<1>2. handles \in Seq(Handle) /\ handles' = Append(handles, h)
  BY DEF IInv, TypeOK, Insert
<1> HIDE DEF h
<1>3. /\ handles' \in Seq(Handle)
      /\ DOMAIN handles' = DOMAIN handles \cup {Len(handles) + 1}
      /\ \A i \in DOMAIN handles : handles'[i] = handles[i]
      /\ handles'[Len(handles) + 1] = h
  <2>1. handles \in Seq(Handle) /\ h \in Handle /\ Len(handles) \in Nat
        /\ DOMAIN handles = 1..Len(handles)
    BY <1>1, <1>2
  <2>2. /\ Append(handles, h) \in Seq(Handle)
        /\ DOMAIN Append(handles, h) = 1..(Len(handles) + 1)
        /\ Append(handles, h)[Len(handles) + 1] = h
        /\ \A i \in 1..Len(handles) : Append(handles, h)[i] = handles[i]
    BY <2>1
  <2> QED BY <1>2, <2>1, <2>2
<1>4. \A i \in DOMAIN handles' : Exact(handles'[i])
  BY <1>1, <1>3 DEF IInv, Listed
<1>5. alone' \in [Calls -> BOOLEAN] /\ \A c \in Calls : ~alone'[c]
  BY DEF Insert
<1> QED BY <1>3, <1>4, <1>5 DEF Listed, Exact, h

(* /ath listen, and every other command that changes no listener.           *)
LEMMA ListenHolds ==
    ASSUME IInv, NEW o \in Sources, Command(o) \/ Listen(o)
    PROVE  IInv'
<1>1. GivesCommand(o)
  BY DEF Command, Listen
<1>2. /\ bySid' \in [Sids -> Maybe(Routable)] /\ byKey' \in [Keys -> Maybe(Routable)]
      /\ commands' \in Nat
      /\ UNCHANGED <<sessionStore, file, home, offers, at, sid, key, explicit, env, found,
                     answer, calls, restarts>>
      /\ Tables' /\ Indices' /\ Asking' /\ Finding'
  BY <1>1, CommandKeeps
<1>3. CASE Command(o)
  <2>1. UNCHANGED <<handles, alone>>
    BY <1>3 DEF Command
  <2>2. TypeOK'
    BY <1>2, <2>1 DEF IInv, TypeOK
  <2>3. Listed' /\ Answering' /\ Alone'
    BY <1>2, <2>1 DEF IInv, Listed, Exact, Answering, Here, Alone, Equivalent, SameOrigin
  <2> QED BY <1>2, <2>2, <2>3 DEF IInv
<1>4. CASE Listen(o)
  <2>1. /\ KeyOf[o] \in Maybe(Keys) /\ Parent(o) \in Parents
        /\ o.chat \notin Threads => Parent(o) = "unknown"
    BY OriginAssumption DEF Maybe, Parent, Parents
  <2>2. /\ handles' \in Seq(Handle)
        /\ DOMAIN handles \subseteq DOMAIN handles'
        /\ \A i \in DOMAIN handles : handles'[i] = handles[i]
        /\ Listed' /\ alone' \in [Calls -> BOOLEAN] /\ \A c \in Calls : ~alone'[c]
    BY <1>4, <2>1, InsertAdds DEF Listen
  <2>3. TypeOK'
    BY <1>2, <2>2 DEF IInv, TypeOK
  <2>4. Answering'
    BY <1>2, <2>2 DEF IInv, Answering, Here
  <2>5. Alone'
    BY <2>2 DEF Alone
  <2> QED BY <1>2, <2>2, <2>3, <2>4, <2>5 DEF IInv
<1> QED BY <1>3, <1>4

(* A listener is switched on, when no call can be sure of its list any more, *)
(* or off.                                                                  *)
LEMMA SwitchHolds ==
    ASSUME IInv, NEW i \in DOMAIN handles, NEW enabled \in BOOLEAN,
           handles' = [handles EXCEPT ![i].enabled = enabled],
           alone' = IF enabled THEN [c \in Calls |-> FALSE] ELSE alone,
           bySid' \in [Sids -> Maybe(Routable)], byKey' \in [Keys -> Maybe(Routable)],
           commands' \in Nat,
           UNCHANGED <<sessionStore, file, home, offers, at, sid, key, explicit, env, found,
                       answer, calls, restarts>>,
           Tables', Indices', Asking', Finding'
    PROVE  IInv'
<1>1. /\ handles \in Seq(Handle)
      /\ handles' = [handles EXCEPT ![i] = [handles[i] EXCEPT !.enabled = enabled]]
  BY DEF IInv, TypeOK
<1>2. /\ handles' \in Seq(Handle)
      /\ DOMAIN handles' = DOMAIN handles
      /\ \A j \in DOMAIN handles :
            /\ handles'[j].key = handles[j].key
            /\ handles'[j].source = handles[j].source
            /\ handles'[j].parent = handles[j].parent
            /\ ~enabled => (handles'[j].enabled => handles[j].enabled)
  <2>1. \A j \in DOMAIN handles : handles[j] \in Handle
    BY <1>1
  <2>2. [handles[i] EXCEPT !.enabled = enabled] \in Handle
    BY <2>1 DEF Handle
  <2>3. handles' \in Seq(Handle) /\ DOMAIN handles' = DOMAIN handles
    BY <1>1, <2>2
  <2>4. ASSUME NEW j \in DOMAIN handles
        PROVE  /\ handles'[j].key = handles[j].key
               /\ handles'[j].source = handles[j].source
               /\ handles'[j].parent = handles[j].parent
               /\ ~enabled => (handles'[j].enabled => handles[j].enabled)
    BY <1>1, <2>1 DEF Handle
  <2> QED BY <2>3, <2>4
<1>3. /\ alone' \in [Calls -> BOOLEAN]
      /\ enabled => \A c \in Calls : ~alone'[c]
      /\ ~enabled => alone' = alone
  BY DEF IInv, TypeOK
<1>4. TypeOK'
  BY <1>2, <1>3 DEF IInv, TypeOK
<1>5. Listed' /\ Answering'
  BY <1>2 DEF IInv, Listed, Exact, Answering, Here
<1>6. Alone'
  <2>1. ASSUME NEW c \in Calls, at[c] = "insert", alone'[c],
               NEW j \in DOMAIN handles, handles'[j].enabled,
               handles'[j].source.user = found[c].source.user,
               SameOrigin(handles'[j], found[c])
        PROVE  FALSE
    <3>1. handles[j].enabled /\ alone[c]
      BY <1>2, <1>3, <2>1
    <3>2. SameOrigin(handles[j], found[c])
      BY <1>2, <2>1 DEF SameOrigin
    <3>3. j \in Equivalent(found[c])
      BY <1>2, <2>1, <3>1, <3>2 DEF Equivalent
    <3> QED BY <2>1, <3>1, <3>3 DEF IInv, Alone
  <2>2. UNCHANGED <<at, found>>
    OBVIOUS
  <2>3. ASSUME NEW c \in Calls, at[c] = "insert", alone'[c]
        PROVE  Equivalent(found[c])' = {}
    <3>1. ASSUME NEW j \in DOMAIN handles'
          PROVE  ~ /\ handles'[j].enabled
                   /\ handles'[j].source.user = found'[c].source.user
                   /\ SameOrigin(handles'[j], found'[c])
      BY <1>2, <2>1, <2>2, <2>3, <3>1
    <3>2. Equivalent(found[c])' =
            {j \in DOMAIN handles' : /\ handles'[j].enabled
                                     /\ handles'[j].source.user = found'[c].source.user
                                     /\ SameOrigin(handles'[j], found'[c])}
      BY DEF Equivalent, SameOrigin
    <3> QED BY <3>1, <3>2
  <2> QED BY <2>2, <2>3 DEF Alone
<1> QED BY <1>4, <1>5, <1>6 DEF IInv

(* The owner does so, in a command.                                         *)
LEMMA SetEnabledHolds ==
    ASSUME IInv, NEW o \in Sources, NEW i \in DOMAIN handles, NEW enabled \in BOOLEAN,
           SetEnabled(o, i, enabled)
    PROVE  IInv'
<1>1. GivesCommand(o)
  BY DEF SetEnabled
<1>2. /\ handles' = [handles EXCEPT ![i].enabled = enabled]
      /\ alone' = IF enabled THEN [c \in Calls |-> FALSE] ELSE alone
  BY DEF SetEnabled
<1> QED BY <1>1, <1>2, CommandKeeps, SwitchHolds

(* Or it is retired.                                                        *)
LEMMA RetireHolds ==
    ASSUME IInv, NEW i \in DOMAIN handles, Retire(i)
    PROVE  IInv'
<1>1. /\ handles' = [handles EXCEPT ![i].enabled = FALSE]
      /\ UNCHANGED <<sessionStore, file, home, offers, bySid, byKey, at, sid, key, explicit,
                     env, found, answer, alone, calls, restarts>>
      /\ commands' \in Nat
  BY DEF IInv, TypeOK, Retire, sessions, index, asked, result
<1>2. Tables' /\ Indices' /\ Asking' /\ Finding'
  BY <1>1 DEF IInv, Tables, Kept, Indices, Indexed, Exact, Asking, Asks, Finding, Named
<1>3. /\ bySid' \in [Sids -> Maybe(Routable)] /\ byKey' \in [Keys -> Maybe(Routable)]
  BY <1>1 DEF IInv, TypeOK
<1> QED BY <1>1, <1>2, <1>3, SwitchHolds

(* A call asks.                                                             *)
LEMMA BeginHolds ==
    ASSUME IInv, NEW c \in Calls, NEW s \in Maybe(Sids), NEW k \in Maybe(Keys),
           NEW o \in Contexts, NEW told \in BOOLEAN, Begin(c, s, k, o, told)
    PROVE  IInv'
<1>1. /\ UNCHANGED <<sessionStore, file, home, offers, bySid, byKey, handles, found, answer,
                     alone, commands, restarts>>
      /\ calls' \in Nat /\ at[c] = "idle"
      /\ at' = [at EXCEPT ![c] = "store"]
      /\ sid' = [sid EXCEPT ![c] = s] /\ key' = [key EXCEPT ![c] = k]
      /\ env' = [env EXCEPT ![c] = o] /\ explicit' = [explicit EXCEPT ![c] = told]
      /\ s # None => home[s] # None
      /\ ~told => IF o = None THEN s = None /\ k = None
                  ELSE k \in {None, KeyOf[o]} /\ (s # None => home[s] = KeyOf[o])
  BY DEF IInv, TypeOK, Begin, Goes, sessions, index, result
<1>2. TypeOK'
  BY <1>1 DEF IInv, TypeOK, Resolving, Resolved, Maybe
<1>3. Tables' /\ Indices' /\ Listed'
  BY <1>1 DEF IInv, Tables, Kept, Indices, Indexed, Listed, Exact
<1>4. Asking'
  <2>1. ASSUME NEW d \in Calls, at'[d] \in Resolving \cup {"find"}
        PROVE  Asks(d)' /\ (sid'[d] # None => home'[sid'[d]] # None)
    <3>1. CASE d = c
      BY <1>1, <3>1 DEF IInv, TypeOK, Asks
    <3>2. CASE d # c
      BY <1>1, <2>1, <3>2 DEF IInv, TypeOK, Asking, Asks
    <3> QED BY <3>1, <3>2
  <2> QED BY <2>1 DEF Asking
<1>5. Finding' /\ Answering' /\ Alone'
  <2>1. \A d \in Calls : at'[d] \in Resolved =>
           d # c /\ at'[d] = at[d] /\ UNCHANGED <<sid[d], key[d], env[d], explicit[d]>>
    BY <1>1 DEF IInv, TypeOK, Resolved
  <2>2. ASSUME NEW d \in Calls
        PROVE  /\ at'[d] \in Resolved => Exact(found[d])
               /\ at'[d] = "find" => Named(d, found[d])'
    <3>1. CASE at'[d] \in Resolved
      BY <1>1, <2>1, <3>1 DEF IInv, Finding, Named
    <3>2. CASE at'[d] \notin Resolved
      BY <3>2 DEF Resolved
    <3> QED BY <3>1, <3>2
  <2>3. Finding'
    BY <1>1, <2>2 DEF Finding, Exact
  <2>4. Answering' /\ Alone'
    BY <1>1, <2>1 DEF IInv, Answering, Here, Alone, Equivalent, SameOrigin, Resolved
  <2> QED BY <2>3, <2>4
<1> QED BY <1>2, <1>3, <1>4, <1>5 DEF IInv

(* A lookup goes on, ends the call, or gives the asked conversation.        *)
LEMMA ContinueHolds ==
    ASSUME IInv, NEW c \in Calls, at[c] \in Resolving, NEW r, Gives(c, r),
           NEW next \in Resolving \cup {"idle"}, Continue(c, r, next)
    PROVE  IInv'
<1>1. UNCHANGED <<sessionStore, file, home, offers, bySid, byKey, handles, answer, alone,
                  calls, commands, restarts>>
  BY DEF Continue, sessions, index, budget
<1>2. /\ \A d \in Calls : d # c => /\ at'[d] = at[d] /\ found'[d] = found[d]
                                   /\ sid'[d] = sid[d] /\ key'[d] = key[d]
                                   /\ env'[d] = env[d] /\ explicit'[d] = explicit[d]
      /\ at' \in [Calls -> Resolving \cup {"idle"} \cup Resolved]
      /\ sid' \in [Calls -> Maybe(Sids)] /\ key' \in [Calls -> Maybe(Keys)]
      /\ explicit' \in [Calls -> BOOLEAN] /\ env' \in [Calls -> Maybe(Contexts)]
      /\ found' \in [Calls -> Maybe(Routable)]
      /\ \/ at'[c] = "idle"
         \/ at'[c] \in Resolving /\ UNCHANGED <<sid, key, env, explicit>>
         \/ /\ at'[c] = "find" /\ UNCHANGED <<sid, key, env, explicit>>
            /\ found'[c] = r /\ r \in Routable /\ Exact(r) /\ Named(c, r)
  <2>1. CASE r = None
    <3>1. at' = [at EXCEPT ![c] = next] /\ UNCHANGED <<sid, key, env, explicit, found>>
      BY <2>1, OriginAssumption DEF Continue, Goes, asked
    <3> QED BY <3>1 DEF IInv, TypeOK
  <2>2. CASE r = Unavailable /\ r # None
    <3>1. /\ at' = [at EXCEPT ![c] = "idle"] /\ UNCHANGED found
          /\ sid' = [sid EXCEPT ![c] = None] /\ key' = [key EXCEPT ![c] = None]
          /\ env' = [env EXCEPT ![c] = None] /\ explicit' = [explicit EXCEPT ![c] = FALSE]
      BY <2>2 DEF Continue, Goes, Forgets
    <3>2. Maybe(Contexts) = Contexts \cup {None}
      BY DEF Maybe
    <3> QED BY <3>1, <3>2 DEF IInv, TypeOK, Maybe
  <2>3. CASE r # Unavailable /\ r # None
    <3>1. /\ at' = [at EXCEPT ![c] = "find"] /\ found' = [found EXCEPT ![c] = r]
          /\ UNCHANGED <<sid, key, env, explicit>>
      BY <2>3 DEF Continue, Goes, asked
    <3>2. r \in Routable /\ Exact(r) /\ Named(c, r)
      BY <2>3 DEF Gives
    <3> QED BY <3>1, <3>2 DEF IInv, TypeOK, Resolved, Maybe
  <2> QED BY <2>1, <2>2, <2>3
<1>3. ASSUME NEW d \in Calls, at'[d] \in Resolved PROVE found'[d] # None
  <2>1. CASE d = c
    BY <1>2, <1>3, <2>1, OriginAssumption DEF Resolving, Resolved, Routable
  <2>2. CASE d # c
    BY <1>2, <1>3, <2>2 DEF IInv, TypeOK
  <2> QED BY <2>1, <2>2
<1>4. TypeOK'
  BY <1>1, <1>2, <1>3 DEF IInv, TypeOK
<1>5. Tables' /\ Indices' /\ Listed'
  BY <1>1 DEF IInv, Tables, Kept, Indices, Indexed, Listed, Exact
<1>6. Asking'
  <2>1. ASSUME NEW d \in Calls, at'[d] \in Resolving \cup {"find"}
        PROVE  Asks(d)' /\ (sid'[d] # None => home'[sid'[d]] # None)
    <3>1. CASE d = c
      BY <1>1, <1>2, <2>1, <3>1 DEF IInv, Asking, Asks, Resolving
    <3>2. CASE d # c
      BY <1>1, <1>2, <2>1, <3>2 DEF IInv, Asking, Asks
    <3> QED BY <3>1, <3>2
  <2> QED BY <2>1 DEF Asking
<1>7. Finding'
  <2>1. ASSUME NEW d \in Calls
        PROVE  /\ at'[d] \in Resolved => Exact(found'[d])
               /\ at'[d] = "find" => Named(d, found[d])'
    <3>1. CASE d = c
      BY <1>1, <1>2, <3>1 DEF Named, Resolving, Resolved
    <3>2. CASE d # c
      BY <1>1, <1>2, <3>2 DEF IInv, Finding, Named
    <3> QED BY <3>1, <3>2
  <2> QED BY <2>1 DEF Finding, Exact
<1>8. Answering' /\ Alone'
  <2>1. \A d \in Calls : at'[d] \in {"insert", "answered"} =>
           at'[d] = at[d] /\ found'[d] = found[d]
    BY <1>2 DEF Resolving
  <2> QED BY <1>1, <2>1 DEF IInv, Answering, Here, Alone, Equivalent, SameOrigin
<1> QED BY <1>4, <1>5, <1>6, <1>7, <1>8 DEF IInv

(* So do the three lookups.                                                 *)
LEMMA LookupHolds ==
    ASSUME IInv, NEW c \in Calls, LookupStore(c) \/ LookupFile(c) \/ LookupIndex(c)
    PROVE  IInv'
<1>1. at[c] \in Resolving
  BY DEF LookupStore, LookupFile, LookupIndex, Resolving
<1>2. CASE LookupStore(c)
  <2>1. Gives(c, StoreLookup(sid[c], key[c]))
    BY <1>1, SearchGives DEF IInv, TypeOK, Tables, StoreLookup, Gives
  <2> QED BY <1>1, <1>2, <2>1, ContinueHolds DEF LookupStore, Resolving
<1>3. CASE LookupFile(c)
  <2>1. Gives(c, Search(file, sid[c], key[c]))
    BY <1>1, SearchGives DEF IInv, TypeOK, Tables
  <2> QED BY <1>1, <1>3, <2>1, ContinueHolds DEF LookupFile, Resolving
<1>4. CASE LookupIndex(c)
  <2> DEFINE r == IndexLookup(sid[c], key[c])
             given == IF r # None THEN r
                      ELSE IF explicit[c] THEN Unavailable
                      ELSE FromContext(sid[c], key[c], env[c])
  <2>1. Gives(c, r)
    BY <1>1, IndexGives
  <2>2. ~explicit[c] => Gives(c, FromContext(sid[c], key[c], env[c]))
    BY <1>1, ContextGives
  <2>3. Gives(c, Unavailable)
    BY DEF Gives
  <2>4. Gives(c, given)
    <3> HIDE DEF r
    <3> QED BY <2>1, <2>2, <2>3
  <2>5. Continue(c, given, "idle")
    BY <1>4 DEF LookupIndex
  <2> HIDE DEF given
  <2> QED BY <1>1, <2>4, <2>5, ContinueHolds
<1> QED BY <1>2, <1>3, <1>4

(* The search for a listener ends the call, finds one, or finds none.       *)
LEMMA FindHolds ==
    ASSUME IInv, NEW c \in Calls, FindEquivalent(c)
    PROVE  IInv'
<1>1. /\ UNCHANGED <<sessionStore, file, home, offers, bySid, byKey, handles, calls, commands,
                     restarts>>
      /\ at[c] = "find"
      /\ sid' = [sid EXCEPT ![c] = None] /\ key' = [key EXCEPT ![c] = None]
      /\ env' = [env EXCEPT ![c] = None] /\ explicit' = [explicit EXCEPT ![c] = FALSE]
  BY DEF FindEquivalent, Forgets, sessions, index, budget
<1>2. /\ \A d \in Calls : d # c => /\ at'[d] = at[d] /\ found'[d] = found[d]
                                   /\ answer'[d] = answer[d] /\ alone'[d] = alone[d]
                                   /\ sid'[d] = sid[d] /\ key'[d] = key[d]
                                   /\ env'[d] = env[d] /\ explicit'[d] = explicit[d]
      /\ at' \in [Calls -> Resolving \cup {"idle"} \cup Resolved]
      /\ found' \in [Calls -> Maybe(Routable)]
      /\ answer' \in [Calls -> Nat] /\ alone' \in [Calls -> BOOLEAN]
      /\ \/ at'[c] = "idle"
         \/ at'[c] = "insert" /\ found' = found /\ Equivalent(found[c]) = {}
         \/ /\ at'[c] = "answered" /\ found' = found
            /\ answer'[c] \in Equivalent(found[c])
  <2>1. CASE found[c].source.user = None
    <3>1. /\ at' = [at EXCEPT ![c] = "idle"] /\ found' = [found EXCEPT ![c] = None]
          /\ UNCHANGED <<answer, alone>>
      BY <2>1 DEF FindEquivalent, Goes
    <3> QED BY <1>1, <3>1 DEF IInv, TypeOK, Maybe
  <2>2. CASE found[c].source.user # None /\ Equivalent(found[c]) = {}
    <3>1. /\ at' = [at EXCEPT ![c] = "insert"] /\ alone' = [alone EXCEPT ![c] = TRUE]
          /\ UNCHANGED <<found, answer>>
      BY <2>2 DEF FindEquivalent, Goes
    <3> QED BY <1>1, <2>2, <3>1 DEF IInv, TypeOK, Resolved
  <2>3. CASE found[c].source.user # None /\ Equivalent(found[c]) # {}
    <3>1. at' = [at EXCEPT ![c] = "answered"] /\ UNCHANGED <<found, alone>>
      BY <2>3 DEF FindEquivalent, Goes
    <3>2. PICK i \in Equivalent(found[c]) : answer' = [answer EXCEPT ![c] = i]
      BY <2>3 DEF FindEquivalent
    <3>3. i \in Nat
      BY DEF IInv, TypeOK, Equivalent
    <3> QED BY <1>1, <3>1, <3>2, <3>3 DEF IInv, TypeOK, Resolved
  <2> QED BY <2>1, <2>2, <2>3
<1>3. TypeOK'
  <2>1. ASSUME NEW d \in Calls, at'[d] \in Resolved PROVE found'[d] # None
    <3>1. \A e \in Calls : at[e] \in Resolved => found[e] # None
      BY DEF IInv, TypeOK
    <3>2. CASE d = c
      BY <1>1, <1>2, <2>1, <3>1, <3>2 DEF Resolved
    <3>3. CASE d # c
      BY <1>2, <2>1, <3>1, <3>3
    <3> QED BY <3>2, <3>3
  <2>2. /\ sid' \in [Calls -> Maybe(Sids)] /\ key' \in [Calls -> Maybe(Keys)]
        /\ explicit' \in [Calls -> BOOLEAN] /\ env' \in [Calls -> Maybe(Contexts)]
    BY <1>1 DEF IInv, TypeOK, Maybe
  <2> QED BY <1>1, <1>2, <2>1, <2>2 DEF IInv, TypeOK
<1>4. Tables' /\ Indices' /\ Listed'
  BY <1>1 DEF IInv, Tables, Kept, Indices, Indexed, Listed, Exact
<1>5. Asking'
  <2>1. \A d \in Calls : at'[d] \in Resolving \cup {"find"} => d # c
    BY <1>2 DEF Resolving
  <2> QED BY <1>1, <1>2, <2>1 DEF IInv, Asking, Asks
<1>6. Finding'
  <2>1. ASSUME NEW d \in Calls
        PROVE  /\ at'[d] \in Resolved => Exact(found'[d])
               /\ at'[d] = "find" => Named(d, found[d])'
    <3>1. CASE d = c
      BY <1>1, <1>2, <3>1 DEF IInv, Finding, Resolved
    <3>2. CASE d # c
      BY <1>1, <1>2, <3>2 DEF IInv, Finding, Named
    <3> QED BY <3>1, <3>2
  <2> QED BY <2>1 DEF Finding, Exact
<1>7. Answering'
  <2>1. ASSUME NEW d \in Calls, at'[d] = "answered" PROVE Here(d)'
    <3>1. CASE d = c
      <4>1. /\ answer'[c] \in DOMAIN handles
            /\ handles[answer'[c]].source.user = found[c].source.user
            /\ SameOrigin(handles[answer'[c]], found[c]) /\ found' = found
        BY <1>2, <2>1, <3>1 DEF Equivalent
      <4>2. found[c] \in Routable /\ Exact(found[c]) /\ Exact(handles[answer'[c]])
            /\ handles[answer'[c]] \in Handle
        BY <1>1, <4>1 DEF IInv, TypeOK, Finding, Listed, Resolved, Maybe
      <4>3. handles[answer'[c]].source.chat = found[c].source.chat
        BY <4>1, <4>2, OriginAssumption
              DEF SameOrigin, Exact, Handle, Routable, Resolution, Maybe
      <4> QED BY <1>1, <3>1, <4>1, <4>3 DEF Here
    <3>2. CASE d # c
      BY <1>1, <1>2, <2>1, <3>2 DEF IInv, Answering, Here
    <3> QED BY <3>1, <3>2
  <2> QED BY <2>1 DEF Answering
<1>8. Alone'
  <2>1. ASSUME NEW d \in Calls, at'[d] = "insert", alone'[d]
        PROVE  Equivalent(found'[d]) = {}
    BY <1>1, <1>2, <2>1 DEF IInv, Alone
  <2> QED BY <1>1, <2>1 DEF Alone, Equivalent, SameOrigin
<1> QED BY <1>3, <1>4, <1>5, <1>6, <1>7, <1>8 DEF IInv

(* A listener is made for the conversation the call has resolved.           *)
LEMMA CreateHolds ==
    ASSUME IInv, NEW c \in Calls, CreateListener(c)
    PROVE  IInv'
<1>1. /\ UNCHANGED <<sessionStore, file, home, offers, bySid, byKey, sid, key, env, explicit,
                     found, calls, commands, restarts>>
      /\ at[c] = "insert" /\ at' = [at EXCEPT ![c] = "answered"]
      /\ answer' = [answer EXCEPT ![c] = Len(handles) + 1]
      /\ Insert(found[c].key, found[c].source, found[c].parent)
  BY DEF CreateListener, Goes, sessions, index, asked, budget
<1>2. found[c] \in Routable /\ Exact(found[c])
  BY <1>1 DEF IInv, TypeOK, Finding, Resolved, Maybe
<1>3. /\ handles' \in Seq(Handle)
      /\ DOMAIN handles' = DOMAIN handles \cup {Len(handles) + 1}
      /\ \A i \in DOMAIN handles : handles'[i] = handles[i]
      /\ handles'[Len(handles) + 1].source = found[c].source
      /\ Listed'
      /\ alone' \in [Calls -> BOOLEAN] /\ \A d \in Calls : ~alone'[d]
  <2>1. /\ found[c].key \in Maybe(Keys) /\ found[c].source \in Sources
        /\ found[c].parent \in Parents
        /\ found[c].key # None => found[c].key = KeyOf[found[c].source]
        /\ found[c].source.chat \notin Threads => found[c].parent = "unknown"
    BY <1>2 DEF Routable, Resolution, Exact
  <2> DEFINE k == found[c].key
             o == found[c].source
             parent == found[c].parent
  <2>2. Insert(k, o, parent)
    BY <1>1
  <2> HIDE DEF k, o, parent
  <2>3. /\ k \in Maybe(Keys) /\ o \in Sources /\ parent \in Parents
        /\ k # None => k = KeyOf[o]
        /\ o.chat \notin Threads => parent = "unknown"
    BY <2>1 DEF k, o, parent
  <2>4. /\ handles' \in Seq(Handle)
        /\ DOMAIN handles' = DOMAIN handles \cup {Len(handles) + 1}
        /\ \A i \in DOMAIN handles : handles'[i] = handles[i]
        /\ handles'[Len(handles) + 1] =
              [key |-> k, source |-> o, parent |-> parent, enabled |-> TRUE]
        /\ Listed'
        /\ alone' \in [Calls -> BOOLEAN] /\ \A d \in Calls : ~alone'[d]
    BY <2>2, <2>3, InsertAdds
  <2>5. handles'[Len(handles) + 1].source = o
    BY <2>4
  <2> QED BY <2>4, <2>5 DEF o
<1>4. TypeOK'
  <2>1. Len(handles) + 1 \in Nat
    BY DEF IInv, TypeOK
  <2>2. answer' \in [Calls -> Nat]
    BY <1>1, <2>1 DEF IInv, TypeOK
  <2>3. /\ at' \in [Calls -> Resolving \cup {"idle"} \cup Resolved]
        /\ \A d \in Calls : at'[d] \in Resolved => found[d] # None
    BY <1>1 DEF IInv, TypeOK, Resolved
  <2> QED BY <1>1, <1>3, <2>2, <2>3 DEF IInv, TypeOK
<1>5. Tables' /\ Indices' /\ Alone'
  BY <1>1, <1>3 DEF IInv, Tables, Kept, Indices, Indexed, Exact, Alone
<1>6. Asking' /\ Finding'
  <2>1. \A d \in Calls : /\ at'[d] \in Resolving \cup {"find"} => at'[d] = at[d]
                         /\ at'[d] \in Resolved => at[d] \in Resolved
    BY <1>1 DEF IInv, TypeOK, Resolving, Resolved
  <2>2. Asking'
    BY <1>1, <2>1 DEF IInv, Asking, Asks
  <2>3. Finding'
    BY <1>1, <2>1 DEF IInv, Finding, Named, Exact
  <2> QED BY <2>2, <2>3
<1>7. Answering'
  <2>1. ASSUME NEW d \in Calls, at'[d] = "answered" PROVE Here(d)'
    <3>1. CASE d = c
      BY <1>1, <1>3, <3>1 DEF IInv, TypeOK, Here
    <3>2. CASE d # c
      BY <1>1, <1>3, <2>1, <3>2 DEF IInv, TypeOK, Answering, Here
    <3> QED BY <3>1, <3>2
  <2> QED BY <2>1 DEF Answering
<1> QED BY <1>3, <1>4, <1>5, <1>6, <1>7 DEF IInv

(* A call that returns forgets what it has found.                           *)
LEMMA ReturnsHolds ==
    ASSUME IInv, NEW c \in Calls, Returns(c)
    PROVE  IInv'
<1>1. /\ UNCHANGED <<sessionStore, file, home, offers, bySid, byKey, handles, sid, key, env,
                     explicit, alone, calls, commands, restarts>>
      /\ at' = [at EXCEPT ![c] = "idle"]
      /\ found' = [found EXCEPT ![c] = None] /\ answer' = [answer EXCEPT ![c] = 0]
  BY DEF Returns, Goes, sessions, index, asked, budget
<1>2. /\ \A d \in Calls : at'[d] # "idle" =>
            d # c /\ at'[d] = at[d] /\ found'[d] = found[d] /\ answer'[d] = answer[d]
      /\ at' \in [Calls -> Resolving \cup {"idle"} \cup Resolved]
  BY <1>1 DEF IInv, TypeOK
<1>3. TypeOK'
  <2>1. found' \in [Calls -> Maybe(Routable)] /\ answer' \in [Calls -> Nat]
    BY <1>1 DEF IInv, TypeOK, Maybe
  <2>2. \A d \in Calls : at'[d] \in Resolved => found'[d] # None
    BY <1>2 DEF IInv, TypeOK, Resolved
  <2> QED BY <1>1, <1>2, <2>1, <2>2 DEF IInv, TypeOK
<1>4. Tables' /\ Indices' /\ Listed'
  BY <1>1 DEF IInv, Tables, Kept, Indices, Indexed, Listed, Exact
<1>5. Asking' /\ Finding'
  <2>1. Asking'
    BY <1>1, <1>2 DEF IInv, Asking, Asks, Resolving
  <2>2. Finding'
    BY <1>1, <1>2 DEF IInv, Finding, Named, Exact, Resolved
  <2> QED BY <2>1, <2>2
<1>6. Answering' /\ Alone'
  BY <1>1, <1>2 DEF IInv, Answering, Here, Alone, Equivalent, SameOrigin
<1> QED BY <1>3, <1>4, <1>5, <1>6 DEF IInv

-----------------------------------------------------------------------------
(* The theorems.                                                            *)

(* Every step keeps the inductive invariant.                                *)
LEMMA NextHolds == IInv /\ [Next]_vars => IInv'
<1> SUFFICES ASSUME IInv, [Next]_vars PROVE IInv'
  OBVIOUS
<1>1. CASE \E o \in Sources, s \in Sids : NewSession(o, s)
  BY <1>1, NewSessionHolds
<1>2. CASE SaveSessions \/ UNCHANGED vars
  BY <1>2, SaveHolds
<1>3. CASE Restart
  BY <1>3, RestartHolds
<1>4. CASE \E o \in Sources : Command(o) \/ Listen(o)
  BY <1>4, ListenHolds
<1>5. CASE \E o \in Sources, i \in DOMAIN handles, enabled \in BOOLEAN :
             SetEnabled(o, i, enabled)
  BY <1>5, SetEnabledHolds
<1>6. CASE \E i \in DOMAIN handles : Retire(i)
  BY <1>6, RetireHolds
<1>7. CASE \E c \in Calls, s \in Maybe(Sids), k \in Maybe(Keys), o \in Contexts,
              told \in BOOLEAN : Begin(c, s, k, o, told)
  BY <1>7, BeginHolds
<1>8. CASE \E c \in Calls : CallStep(c)
  BY <1>8, LookupHolds, FindHolds, CreateHolds, ReturnsHolds DEF CallStep
<1> QED BY <1>1, <1>2, <1>3, <1>4, <1>5, <1>6, <1>7, <1>8 DEF Next

(* So it holds in every state.                                              *)
LEMMA InvAlways == Spec => []IInv
BY InitHolds, NextHolds, PTL DEF Spec

(* The state is well typed, and what is resolved or remembered is routable. *)
THEOREM ResolvedIsRoutable == Spec => []TypeOK
<1>1. IInv => TypeOK
  BY DEF IInv
<1> QED BY <1>1, InvAlways, PTL

(* A call that was told a session resolves that session's conversation.     *)
THEOREM ResolvesItsSession == Spec => []NamedSession
<1>1. IInv => NamedSession
  BY DEF IInv, Finding, Named, NamedSession
<1> QED BY <1>1, InvAlways, PTL

(* The listener a call returns is one of its own chat and user.             *)
THEOREM AnswersFromHere == Spec => []AnsweredIsHere
<1>1. IInv => AnsweredIsHere
  BY DEF IInv, Answering, Here, AnsweredIsHere
<1> QED BY <1>1, InvAlways, PTL

(* Two conversations of one chat and user are recognised as one, if both    *)
(* keys are known or the chat is not a thread.                              *)
LEMMA SameChatIsSameOrigin ==
    ASSUME NEW h \in Handle, NEW r \in Resolution, Exact(h), Exact(r),
           h.source.chat = r.source.chat, h.source.user = r.source.user,
           (h.key # None /\ r.key # None) \/ h.source.chat \notin Threads
    PROVE  SameOrigin(h, r)
<1>1. h.source \in Sources /\ r.source \in Sources
  BY DEF Handle, Resolution
<1>2. CASE h.key # None /\ r.key # None
  <2>1. /\ h.source = [chat |-> h.source.chat, user |-> h.source.user]
        /\ r.source = [chat |-> r.source.chat, user |-> r.source.user]
    BY <1>1, OriginAssumption
  <2>2. h.source = r.source
    BY <2>1
  <2> QED BY <1>2, <2>2 DEF Exact, SameOrigin
<1>3. CASE ~(h.key # None /\ r.key # None)
  BY <1>3 DEF Exact, SameOrigin
<1> QED BY <1>2, <1>3

(* A call makes no second listener for its user and chat, if none came up   *)
(* while it was looking.                                                    *)
THEOREM MakesNoSecond == Spec => OnePerConversation
<1> DEFINE Single(c) ==
      at[c] = "insert" /\ at'[c] = "answered" /\ alone[c] =>
          \A i \in DOMAIN handles :
              LET h == handles[i]
                  keyed == h.key # None /\ found[c].key # None
              IN  ~ /\ h.enabled
                    /\ h.source.chat = found[c].source.chat
                    /\ h.source.user = found[c].source.user
                    /\ keyed \/ h.source.chat \notin Threads
<1>1. IInv => \A c \in Calls : Single(c)
  <2> SUFFICES ASSUME IInv, NEW c \in Calls, at[c] = "insert", alone[c],
                      NEW i \in DOMAIN handles, handles[i].enabled,
                      handles[i].source.chat = found[c].source.chat,
                      handles[i].source.user = found[c].source.user,
                      \/ handles[i].key # None /\ found[c].key # None
                      \/ handles[i].source.chat \notin Threads
               PROVE  FALSE
    OBVIOUS
  <2>1. Equivalent(found[c]) = {}
    BY DEF IInv, Alone
  <2>2. /\ handles[i] \in Handle /\ Exact(handles[i])
        /\ found[c] \in Resolution /\ Exact(found[c])
    BY DEF IInv, TypeOK, Listed, Finding, Resolved, Routable, Maybe
  <2>3. SameOrigin(handles[i], found[c])
    BY <2>2, SameChatIsSameOrigin
  <2> QED BY <2>1, <2>3 DEF Equivalent
<1>2. IInv /\ [Next]_vars => [\A c \in Calls : Single(c)]_vars
  BY <1>1
<1> QED BY <1>2, InvAlways, PTL DEF Spec, OnePerConversation

=============================================================================
