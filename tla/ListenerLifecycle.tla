--------------------------- MODULE ListenerLifecycle ---------------------------
(***************************************************************************)
(* The life of listeners: src/async_threads/commands.py, tools.py,          *)
(* finalizers.py, secrets.py and the adapter's retirement, all of which     *)
(* read and write a listener's row in the registry and the files that give  *)
(* its producer the secret, secret.txt and contract.json.                   *)
(*                                                                          *)
(* Commands run on the gateway's loop, tools in threads and finalizers in   *)
(* another host, so that every registry call and every system call on the   *)
(* files is a step of its own.  All operations are the owner's, and the     *)
(* listeners are equivalent to each other: a creation that may reuse one    *)
(* can reuse any of them.                                                   *)
(***************************************************************************)
EXTENDS Naturals, FiniteSets

CONSTANTS
    Listeners,  \* thread keys
    Actors,     \* a command, a tool call, a finalizer, a terminal event
    Ops,        \* the operations of this instance
    Absent,     \* no row, no file
    MaxOps,     \* bound: operations begun
    MaxCrashes  \* bound: operations that die in the middle

(* listen, rotate: the commands; create, rotate_tool: the tools, which write*)
(* the files twice; get, handoff: tools that write them so that they exist; *)
(* retire: the command or the tool; finalize: the finalizer; terminal: the  *)
(* adapter after a terminal event; pause, resume: commands.                 *)
Commands == {"listen", "rotate", "retire", "pause", "resume"}
AllOps == Commands \cup {"create", "get", "handoff", "rotate_tool", "finalize",
                         "terminal"}

ASSUME LifecycleAssumption ==
    /\ Ops \subseteq AllOps /\ Absent \notin Nat \cup Listeners
    /\ MaxOps \in Nat /\ MaxCrashes \in Nat

Torn == 0     \* secret.txt between its truncation and its text
Row == [enabled : BOOLEAN, secret : Nat \ {0}]
NewRow == [enabled |-> TRUE, secret |-> 1]
NoRow == [enabled |-> FALSE, secret |-> 0]

VARIABLES
    rows,      \* async_thread_handles: enabled and the secret's version
    dir,       \* the listener's directory exists
    secretFile, contractFile,
    op, at,    \* each actor: its operation, its next step
    key,       \* each actor: the listener it works on
    copy,      \* each actor: the row it has read
    rounds,    \* each actor: how many times it still writes the files
    linked,    \* each actor: the secret.txt it opened still has its name
    alone,     \* history: nobody else has been at the actor's listener
    settled,   \* history: what the last undisturbed operation left behind
    torn,      \* history: whose secret.txt a writer that died has left empty
    ops, crashes

text   == <<secretFile, torn>>
disk   == <<dir, text, contractFile>>
actors == <<op, at, key, copy, rounds, linked, alone>>
budget == <<ops, crashes>>
vars == <<rows, disk, actors, settled, budget>>

Exists(l) == rows[l] # NoRow
Busy(l) == {a \in Actors : at[a] # "idle" /\ key[a] = l}

Init ==
    /\ rows = [l \in Listeners |-> NoRow]
    /\ dir = [l \in Listeners |-> FALSE]
    /\ secretFile = [l \in Listeners |-> Absent]
    /\ contractFile = [l \in Listeners |-> FALSE]
    /\ op = [a \in Actors |-> "none"] /\ at = [a \in Actors |-> "idle"]
    /\ key = [a \in Actors |-> Absent] /\ copy = [a \in Actors |-> NoRow]
    /\ rounds = [a \in Actors |-> 0] /\ linked = [a \in Actors |-> FALSE]
    /\ alone = [a \in Actors |-> FALSE]
    /\ settled = [l \in Listeners |-> "unknown"] /\ torn = {}
    /\ ops = 0 /\ crashes = 0

-----------------------------------------------------------------------------
Goes(a, label) == at' = [at EXCEPT ![a] = label]

(* a turns to listener l: from here on it and all who are at l share it.    *)
Joins(a, l) ==
    /\ key' = [key EXCEPT ![a] = l]
    /\ alone' = [b \in Actors |->
          IF b = a THEN Busy(l) \ {a} = {} ELSE alone[b] /\ b \notin Busy(l)]

Ends(a) == Goes(a, "idle") /\ UNCHANGED <<op, key, copy, rounds, linked, alone>>

(* What the end of an operation says of its listener, if it was left alone. *)
Leaves(a, outcome) ==
    settled' = [settled EXCEPT ![key[a]] = IF alone[a] THEN outcome ELSE "unknown"]

Undecided(a) == Leaves(a, settled[key[a]])

-----------------------------------------------------------------------------
(* The command creates a listener whatever there is, the tool looks for an  *)
(* equivalent one first.                                                    *)
FirstStep(o) ==
    CASE o = "listen"   -> "insert"
      [] o = "create"   -> "list"
      [] o = "terminal" -> "disable"
      [] OTHER          -> "read"

(* The beginning of an operation.  A terminal event's handler has read the  *)
(* row long before it retires the listener.                                 *)
Begin(a, o, l) ==
    /\ at[a] = "idle" /\ ops < MaxOps /\ ops' = ops + 1
    /\ op' = [op EXCEPT ![a] = o]
    /\ Goes(a, FirstStep(o))
    /\ IF o \in {"listen", "create"}
       THEN key' = [key EXCEPT ![a] = Absent] /\ UNCHANGED alone
       ELSE Exists(l) /\ Joins(a, l)
    /\ UNCHANGED <<rows, disk, copy, rounds, linked, settled, crashes>>

(* _find_equivalent_listener: one query, and any of the enabled listeners   *)
(* is equivalent; with none, or asked not to reuse, the tool creates one.   *)
ListHandles(a) ==
    /\ at[a] = "list"
    /\ \/ \E l \in Listeners :
             /\ Exists(l) /\ rows[l].enabled
             /\ Joins(a, l)
             /\ copy' = [copy EXCEPT ![a] = rows[l]]
             /\ rounds' = [rounds EXCEPT ![a] = 2]
             /\ Goes(a, "mkdir")
       \/ Goes(a, "insert") /\ UNCHANGED <<key, copy, rounds, alone>>
    /\ UNCHANGED <<rows, disk, op, linked, settled, budget>>

(* create_handle: a new key and a new secret.                               *)
InsertHandle(a) ==
    /\ at[a] = "insert"
    /\ \E l \in Listeners :
          /\ ~Exists(l) /\ Joins(a, l)
          /\ rows' = [rows EXCEPT ![l] = NewRow]
    /\ Goes(a, "reread")
    /\ UNCHANGED <<disk, op, copy, rounds, linked, settled, budget>>

(* get_handle, and what each operation makes of a disabled listener.        *)
AfterReadMut(o, enabled) ==
    CASE o \in {"rotate", "rotate_tool"} -> IF enabled THEN "rotate" ELSE "idle"
      [] o \in {"get", "handoff"}        -> "mkdir"
      [] o \in {"retire", "pause"}       -> "disable"
      [] o = "finalize" -> IF enabled THEN "disable" ELSE "read_back"
      [] OTHER          -> "enable"
AfterRead(o, enabled) ==
    CASE o \in {"rotate", "rotate_tool"} -> IF enabled THEN "rotate" ELSE "idle"
      [] o \in {"get", "handoff"}        -> IF enabled THEN "mkdir" ELSE "idle"
      [] o \in {"retire", "pause"}       -> "disable"
      [] o = "finalize" -> IF enabled THEN "disable" ELSE "read_back"
      [] OTHER          -> "enable"

GetHandle(a) ==
    /\ at[a] = "read"
    /\ copy' = [copy EXCEPT ![a] = rows[key[a]]]
    /\ rounds' = [rounds EXCEPT ![a] = 1]
    /\ LET next == AfterRead(op[a], rows[key[a]].enabled) IN
       /\ Goes(a, next)
       /\ IF next = "idle" THEN Undecided(a) ELSE UNCHANGED settled
    /\ UNCHANGED <<rows, disk, op, key, linked, alone, budget>>

(* The listener is disabled: a pause is over, a retirement removes the      *)
(* files, a finalizer makes sure first.                                     *)
AfterDisable(o) ==
    CASE o = "pause"    -> "idle"
      [] o = "finalize" -> "read_back"
      [] OTHER          -> "unlink_secret"

(* set_enabled(False), and what follows it.                                 *)
Disable(a) ==
    /\ at[a] = "disable"
    /\ rows' = [rows EXCEPT ![key[a]].enabled = FALSE]
    /\ Goes(a, AfterDisable(op[a]))
    /\ UNCHANGED <<op, key, copy, rounds, linked, alone>>
    /\ IF op[a] = "pause" THEN Undecided(a) ELSE UNCHANGED settled
    /\ UNCHANGED <<disk, budget>>

(* The finalizer believes a listener to be retired when it reads it back    *)
(* disabled; enabled again, it reports a failure.                           *)
ReadBack(a) ==
    /\ at[a] = "read_back"
    /\ IF rows[key[a]].enabled
       THEN Ends(a) /\ Undecided(a)
       ELSE /\ Goes(a, "unlink_secret")
            /\ UNCHANGED <<op, key, copy, rounds, linked, alone, settled>>
    /\ UNCHANGED <<rows, disk, budget>>

(* set_enabled(True): the files of a retired listener are not written.      *)
Enable(a) ==
    /\ at[a] = "enable"
    /\ rows' = [rows EXCEPT ![key[a]].enabled = TRUE]
    /\ Ends(a)
    /\ Leaves(a, IF settled[key[a]] = "removed" THEN "unknown" ELSE settled[key[a]])
    /\ UNCHANGED <<disk, budget>>

(* rotate_secret: the update; the row is read again by another query.       *)
RotateSecretMut(a) ==
    /\ at[a] = "rotate"
    /\ rows' = [rows EXCEPT ![key[a]].secret = @ + 1]
    /\ Goes(a, "mkdir")
    /\ UNCHANGED <<disk, op, key, copy, rounds, linked, alone, settled, budget>>
RotateSecret(a) ==
    /\ at[a] = "rotate"
    /\ rows' = [rows EXCEPT ![key[a]].secret = @ + 1]
    /\ Goes(a, "reread")
    /\ UNCHANGED <<disk, op, key, copy, rounds, linked, alone, settled, budget>>

(* The tools describe the listener they return, which writes the files once *)
(* more while it is enabled.                                                *)
Rounds(o, enabled) == IF o \in {"create", "rotate_tool"} /\ enabled THEN 2 ELSE 1

RereadMut(a) ==
    /\ at[a] = "reread"
    /\ copy' = [copy EXCEPT ![a] = [rows[key[a]] EXCEPT !.secret = @ + 1]]
    /\ rounds' = [rounds EXCEPT ![a] = 1]
    /\ Goes(a, "mkdir")
    /\ UNCHANGED <<rows, disk, op, key, linked, alone, settled, budget>>
Reread(a) ==
    /\ at[a] = "reread"
    /\ copy' = [copy EXCEPT ![a] = rows[key[a]]]
    /\ rounds' = [rounds EXCEPT ![a] = Rounds(op[a], rows[key[a]].enabled)]
    /\ Goes(a, "mkdir")
    /\ UNCHANGED <<rows, disk, op, key, linked, alone, settled, budget>>

-----------------------------------------------------------------------------
(* write_secret_artifact.                                                   *)
MakeDirectory(a) ==
    /\ at[a] = "mkdir"
    /\ dir' = [dir EXCEPT ![key[a]] = TRUE]
    /\ Goes(a, "open")
    /\ UNCHANGED <<rows, text, contractFile, op, key, copy, rounds, linked,
                   alone, settled, budget>>

(* O_CREAT and O_TRUNC, which raise when the directory was removed.         *)
OpenSecretMut(a) ==
    /\ at[a] = "open" /\ dir[key[a]]
    /\ linked' = [linked EXCEPT ![a] = TRUE]
    /\ Goes(a, IF secretFile[key[a]] = Absent THEN "fill" ELSE "contract")
    /\ secretFile' = [secretFile EXCEPT ![key[a]] = Torn]
    /\ torn' = torn \ {key[a]}
    /\ UNCHANGED <<rows, dir, contractFile, op, key, copy, rounds, alone, settled,
                   budget>>
OpenSecret(a) ==
    /\ at[a] = "open" /\ dir[key[a]]
    /\ linked' = [linked EXCEPT ![a] = TRUE]
    /\ Goes(a, "fill")
    /\ secretFile' = [secretFile EXCEPT ![key[a]] = Torn]
    /\ torn' = torn \ {key[a]}
    /\ UNCHANGED <<rows, dir, contractFile, op, key, copy, rounds, alone, settled,
                   budget>>

OpenRaises(a) ==
    /\ at[a] \in {"open", "contract"} /\ ~dir[key[a]]
    /\ Ends(a) /\ Undecided(a)
    /\ UNCHANGED <<rows, disk, budget>>

(* The text goes to the file that was opened, whatever its name is by now.  *)
FillSecret(a) ==
    /\ at[a] = "fill"
    /\ secretFile' = IF linked[a]
                     THEN [secretFile EXCEPT ![key[a]] = copy[a].secret]
                     ELSE secretFile
    /\ torn' = IF linked[a] THEN torn \ {key[a]} ELSE torn
    /\ Goes(a, "contract")
    /\ UNCHANGED <<rows, dir, contractFile, op, key, copy, rounds, linked, alone,
                   settled, budget>>

WriteContract(a) ==
    /\ at[a] = "contract" /\ dir[key[a]]
    /\ contractFile' = [contractFile EXCEPT ![key[a]] = TRUE]
    /\ rounds' = [rounds EXCEPT ![a] = @ - 1]
    /\ IF rounds[a] > 1
       THEN Goes(a, "mkdir") /\ UNCHANGED settled
       ELSE /\ Goes(a, "idle")
            /\ Leaves(a, IF copy[a].enabled THEN "written" ELSE settled[key[a]])
    /\ UNCHANGED <<rows, dir, text, op, key, copy, linked, alone, budget>>

(* remove_secret_artifact: two files that may be missing, and a directory   *)
(* that may not be empty.                                                   *)
UnlinkSecret(a) ==
    /\ at[a] = "unlink_secret"
    /\ secretFile' = [secretFile EXCEPT ![key[a]] = Absent]
    /\ torn' = torn \ {key[a]}
    /\ linked' = [b \in Actors |-> linked[b] /\ key[b] # key[a]]
    /\ Goes(a, "unlink_contract")
    /\ UNCHANGED <<rows, dir, contractFile, op, key, copy, rounds, alone, settled,
                   budget>>

UnlinkContract(a) ==
    /\ at[a] = "unlink_contract"
    /\ contractFile' = [contractFile EXCEPT ![key[a]] = FALSE]
    /\ Goes(a, "rmdir")
    /\ UNCHANGED <<rows, dir, text, op, key, copy, rounds, linked, alone,
                   settled, budget>>

RemoveDirectory(a) ==
    /\ at[a] = "rmdir"
    /\ LET empty == secretFile[key[a]] = Absent /\ ~contractFile[key[a]] IN
       dir' = [dir EXCEPT ![key[a]] = @ /\ ~empty]
    /\ Ends(a) /\ Leaves(a, "removed")
    /\ UNCHANGED <<rows, text, contractFile, budget>>

-----------------------------------------------------------------------------
(* The process dies, a registry call raises, or a write does (no space left *)
(* on the device): between the truncation and the text of secret.txt, that  *)
(* leaves the file empty.                                                   *)
LeavesTorn(a) == at[a] = "fill" /\ linked[a] /\ secretFile[key[a]] = Torn

Dies(a) ==
    /\ at[a] # "idle" /\ crashes < MaxCrashes /\ crashes' = crashes + 1
    /\ Ends(a)
    /\ settled' = [l \in Listeners |->
                       IF l = key[a] THEN "unknown" ELSE settled[l]]
    /\ torn' = IF LeavesTorn(a) THEN torn \cup {key[a]} ELSE torn
    /\ UNCHANGED <<rows, dir, secretFile, contractFile, ops>>

Step(a) ==
    \/ ListHandles(a) \/ InsertHandle(a) \/ GetHandle(a) \/ Disable(a)
    \/ ReadBack(a) \/ Enable(a) \/ RotateSecret(a) \/ Reread(a)
    \/ MakeDirectory(a) \/ OpenSecret(a) \/ OpenRaises(a) \/ FillSecret(a)
    \/ WriteContract(a) \/ UnlinkSecret(a) \/ UnlinkContract(a)
    \/ RemoveDirectory(a)

Next ==
    \E a \in Actors :
        \/ \E o \in Ops, l \in Listeners : Begin(a, o, l)
        \/ Step(a)
        \/ Dies(a)

Spec == Init /\ [][Next]_vars

-----------------------------------------------------------------------------
(* Properties.                                                              *)

Label == {"idle", "list", "insert", "read", "disable", "read_back", "enable",
          "rotate", "reread", "mkdir", "open", "fill", "contract",
          "unlink_secret", "unlink_contract", "rmdir"}

(* Types, and no file holds a secret its listener never had.                *)
TypeOK ==
    /\ rows \in [Listeners -> Row \cup {NoRow}]
    /\ dir \in [Listeners -> BOOLEAN] /\ contractFile \in [Listeners -> BOOLEAN]
    /\ \A l \in Listeners : secretFile[l] \in 0..rows[l].secret \cup {Absent}
    /\ op \in [Actors -> AllOps \cup {"none"}] /\ at \in [Actors -> Label]
    /\ key \in [Actors -> Listeners \cup {Absent}]
    /\ copy \in [Actors -> Row \cup {NoRow}]
    /\ rounds \in [Actors -> 0..2]
    /\ linked \in [Actors -> BOOLEAN] /\ alone \in [Actors -> BOOLEAN]
    /\ settled \in [Listeners -> {"unknown", "written", "removed"}]
    /\ torn \subseteq Listeners

(* An empty secret.txt is one that an operation at work is about to fill,   *)
(* whatever writers and removers do to each other.  The only others are the *)
(* files of writers that died, or whose write raised, between truncation    *)
(* and text; they stay empty until the next writer or remover.              *)
NoTornSecret ==
    \A l \in Listeners : secretFile[l] = Torn =>
        \/ \E a \in Busy(l) : at[a] = "fill" /\ linked[a]
        \/ l \in torn

(* An operation that writes the files and is left alone leaves the secret   *)
(* the receiver checks against, with the contract beside it, whatever races *)
(* and failures came before it; and so it stays as long as operations do    *)
(* not overlap.                                                             *)
WrittenIsCurrent ==
    \A l \in Listeners : settled[l] = "written" /\ Busy(l) = {} =>
        secretFile[l] = rows[l].secret /\ contractFile[l]

(* A retirement that is left alone leaves a disabled listener without       *)
(* files, and no later inspection, handoff or rotation brings them back     *)
(* before the owner resumes it.                                             *)
RetiredStaysGone ==
    \A l \in Listeners : settled[l] = "removed" /\ Busy(l) = {} =>
        /\ ~rows[l].enabled /\ ~dir[l]
        /\ secretFile[l] = Absent /\ ~contractFile[l]

=============================================================================
