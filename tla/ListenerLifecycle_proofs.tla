------------------------ MODULE ListenerLifecycle_proofs ------------------------
(***************************************************************************)
(* Theorems about ListenerLifecycle for any listeners, actors, operations   *)
(* and crashes: the four properties its run checks.                         *)
(*                                                                          *)
(* The argument: while an actor is alone at its listener, nobody else can   *)
(* touch that listener's row and files, so that what its operation has come *)
(* to (Course) depends on its own steps only; what a listener was left with *)
(* (Settled) then follows at the operation's end.                           *)
(***************************************************************************)
EXTENDS ListenerLifecycle, TLAPS

USE DEF text

Shapes ==
    /\ rows \in [Listeners -> Row \cup {NoRow}]
    /\ dir \in [Listeners -> BOOLEAN] /\ contractFile \in [Listeners -> BOOLEAN]
    /\ secretFile \in [Listeners -> Nat \cup {Absent}]
    /\ op \in [Actors -> AllOps \cup {"none"}] /\ at \in [Actors -> Label]
    /\ key \in [Actors -> Listeners \cup {Absent}]
    /\ copy \in [Actors -> Row \cup {NoRow}]
    /\ rounds \in [Actors -> 0..2]
    /\ linked \in [Actors -> BOOLEAN] /\ alone \in [Actors -> BOOLEAN]
    /\ settled \in [Listeners -> {"unknown", "written", "removed"}]
    /\ torn \subseteq Listeners

(* An actor past its listener's choice is at a listener that exists, and    *)
(* one that writes the files has a row of that listener to write.           *)
Nowhere == {"idle", "list", "insert"}
Writing == {"mkdir", "open", "fill", "contract"}
PlacedAt(a) ==
    /\ at[a] \notin Nowhere => key[a] \in Listeners /\ rows[key[a]] \in Row
    /\ at[a] \in {"list", "insert"} => key[a] = Absent
    /\ at[a] \in Writing => /\ copy[a] \in Row
                            /\ copy[a].secret <= rows[key[a]].secret
                            /\ rounds[a] \in 1..2
Placed == \A a \in Actors : PlacedAt(a)

(* No file holds a secret its listener never had.                           *)
Files == \A l \in Listeners : secretFile[l] \in 0..rows[l].secret \cup {Absent}

TornFilled ==
    \A l \in Listeners : secretFile[l] = Torn =>
        \/ \E a \in Actors : at[a] = "fill" /\ key[a] = l /\ linked[a]
        \/ l \in torn

(* One that is alone is the only one at its listener.                       *)
Apart ==
    \A a, b \in Actors :
        alone[a] /\ at[a] \notin Nowhere /\ at[b] # "idle" /\ key[b] = key[a] => a = b

Current(l) == secretFile[l] = rows[l].secret /\ contractFile[l]
Gone(l) ==
    /\ ~rows[l].enabled /\ ~dir[l] /\ secretFile[l] = Absent /\ ~contractFile[l]

(* How far the operation of an actor that is alone has come.                *)
Course(a) ==
    LET l == key[a] IN
    /\ at[a] \in {"read", "disable", "read_back", "enable"} =>
          /\ settled[l] = "written" => Current(l)
          /\ settled[l] = "removed" => Gone(l)
    /\ at[a] \in {"rotate", "reread"} \cup Writing =>
          rows[l].enabled /\ settled[l] # "removed"
    /\ at[a] \in Writing => copy[a] = rows[l]
    /\ at[a] \in {"open", "fill", "contract"} => dir[l]
    /\ at[a] = "fill" => linked[a]
    /\ at[a] = "contract" => secretFile[l] = rows[l].secret
    /\ at[a] \in {"read_back", "unlink_secret", "unlink_contract", "rmdir"} =>
          ~rows[l].enabled
    /\ at[a] \in {"unlink_contract", "rmdir"} => secretFile[l] = Absent
    /\ at[a] = "rmdir" => ~contractFile[l]
Courses == \A a \in Actors : alone[a] /\ at[a] \notin Nowhere => Course(a)

(* What a listener that nobody is at was left with.                         *)
Free(l) == \A a \in Actors : at[a] # "idle" => key[a] # l
SettledAt(l) ==
    /\ settled[l] # "unknown" => rows[l] \in Row
    /\ settled[l] = "written" /\ Free(l) => Current(l)
    /\ settled[l] = "removed" /\ Free(l) => Gone(l)
Settled == \A l \in Listeners : SettledAt(l)

IInv == Shapes /\ Placed /\ Files /\ TornFilled /\ Apart /\ Courses /\ Settled

(* It holds initially.                                                      *)
LEMMA InitInv == Init => IInv
<1> SUFFICES ASSUME Init PROVE IInv
  OBVIOUS
<1> USE DEF Init
<1>1. Shapes
  BY DEF Shapes, Label
<1>2. Placed /\ Apart /\ Courses
  BY DEF Placed, PlacedAt, Apart, Courses, Nowhere, Writing
<1>3. Files /\ TornFilled /\ Settled
  BY LifecycleAssumption DEF Files, TornFilled, Torn, Settled, SettledAt
<1>4. QED
  BY <1>1, <1>2, <1>3 DEF IInv

(* Turning to a listener.                                                   *)
LEMMA JoinsEffect ==
    ASSUME Shapes, NEW a \in Actors, NEW l \in Listeners, Joins(a, l)
    PROVE  /\ key' \in [Actors -> Listeners \cup {Absent}]
           /\ alone' \in [Actors -> BOOLEAN]
           /\ key'[a] = l
           /\ alone'[a] => \A b \in Actors \ {a} : at[b] # "idle" => key[b] # l
           /\ \A b \in Actors \ {a} :
                 /\ key'[b] = key[b]
                 /\ alone'[b] => alone[b] /\ (at[b] # "idle" => key[b] # l)
BY DEF Shapes, Joins, Busy

(* Where an operation may go.                                               *)
LEMMA Labels ==
    /\ \A o \in AllOps : FirstStep(o) \in {"insert", "list", "disable", "read"}
    /\ FirstStep("listen") = "insert" /\ FirstStep("create") = "list"
    /\ \A o \in AllOps \ {"listen", "create"} : FirstStep(o) \in {"disable", "read"}
    /\ \A o \in AllOps \cup {"none"}, e \in BOOLEAN :
          /\ AfterRead(o, e) \in {"rotate", "idle", "mkdir", "disable", "read_back",
                                  "enable"}
          /\ AfterRead(o, e) \in {"rotate", "mkdir"} => e
          /\ AfterRead(o, e) = "read_back" => ~e
    /\ \A o : AfterDisable(o) \in {"idle", "read_back", "unlink_secret"}
BY DEF FirstStep, AfterRead, AfterDisable, AllOps, Commands

(* A row stays, and its secret never goes back.                             *)
LEMMA RowsGrow ==
    ASSUME IInv, [Next]_vars
    PROVE  /\ rows' \in [Listeners -> Row \cup {NoRow}]
           /\ \A l \in Listeners : /\ rows[l] \in Row => rows'[l] \in Row
                                   /\ rows[l].secret \in Nat /\ rows'[l].secret \in Nat
                                   /\ rows[l].secret <= rows'[l].secret
<1> USE DEF IInv, Shapes
<1>1. \A l \in Listeners : rows[l].secret \in Nat
  BY DEF Row, NoRow
<1>2. CASE rows' = rows
  BY <1>1, <1>2
<1>3. ASSUME NEW a \in Actors, InsertHandle(a)
      PROVE  \E l \in Listeners : rows[l] = NoRow /\ rows' = [rows EXCEPT ![l] = NewRow]
  BY <1>3 DEF InsertHandle, Exists
<1>4. ASSUME NEW a \in Actors, Disable(a) \/ Enable(a) \/ RotateSecret(a)
      PROVE  \E r \in Row : /\ rows' = [rows EXCEPT ![key[a]] = r]
                            /\ key[a] \in Listeners /\ rows[key[a]] \in Row
                            /\ rows[key[a]].secret <= r.secret
  <2>1. key[a] \in Listeners /\ rows[key[a]] \in Row
    BY <1>4 DEF Placed, PlacedAt, Nowhere, Disable, Enable, RotateSecret
  <2>2. \A e \in BOOLEAN : [rows[key[a]] EXCEPT !.enabled = e] \in Row
    BY <2>1 DEF Row
  <2>3. [rows[key[a]] EXCEPT !.secret = rows[key[a]].secret + 1] \in Row
    BY <2>1 DEF Row
  <2>4. CASE RotateSecret(a)
    <3> DEFINE r == [rows[key[a]] EXCEPT !.secret = rows[key[a]].secret + 1]
    <3>1. rows' = [rows EXCEPT ![key[a]] = r]
      BY <2>4 DEF RotateSecret
    <3>2. r \in Row /\ r.secret = rows[key[a]].secret + 1
      BY <2>1, <2>3 DEF Row
    <3>3. rows[key[a]].secret <= r.secret
      BY <1>1, <2>1, <3>2
    <3> HIDE DEF r
    <3>4. QED
      BY <2>1, <3>1, <3>2, <3>3
  <2>5. CASE Disable(a)
    <3> DEFINE r == [rows[key[a]] EXCEPT !.enabled = FALSE]
    <3>1. rows' = [rows EXCEPT ![key[a]] = r]
      BY <2>5 DEF Disable
    <3>2. r \in Row /\ r.secret = rows[key[a]].secret
      BY <2>1, <2>2 DEF Row
    <3>3. rows[key[a]].secret <= r.secret
      BY <1>1, <2>1, <3>2
    <3> HIDE DEF r
    <3>4. QED
      BY <2>1, <3>1, <3>2, <3>3
  <2>6. CASE Enable(a)
    <3> DEFINE r == [rows[key[a]] EXCEPT !.enabled = TRUE]
    <3>1. rows' = [rows EXCEPT ![key[a]] = r]
      BY <2>6 DEF Enable
    <3>2. r \in Row /\ r.secret = rows[key[a]].secret
      BY <2>1, <2>2 DEF Row
    <3>3. rows[key[a]].secret <= r.secret
      BY <1>1, <2>1, <3>2
    <3> HIDE DEF r
    <3>4. QED
      BY <2>1, <3>1, <3>2, <3>3
  <2>7. QED
    BY <1>4, <2>4, <2>5, <2>6
<1>5. ASSUME NEW a \in Actors, InsertHandle(a)
      PROVE  /\ rows' \in [Listeners -> Row \cup {NoRow}]
             /\ \A l \in Listeners : /\ rows[l] \in Row => rows'[l] \in Row
                                     /\ rows'[l].secret \in Nat
                                     /\ rows[l].secret <= rows'[l].secret
  <2>1. NewRow \in Row /\ NoRow.secret = 0 /\ NewRow.secret = 1
    BY DEF NewRow, NoRow, Row
  <2>2. PICK k \in Listeners : rows[k] = NoRow /\ rows' = [rows EXCEPT ![k] = NewRow]
    BY <1>3, <1>5
  <2>3. QED
    BY <1>1, <2>1, <2>2
<1>6. ASSUME NEW a \in Actors, Disable(a) \/ Enable(a) \/ RotateSecret(a)
      PROVE  /\ rows' \in [Listeners -> Row \cup {NoRow}]
             /\ \A l \in Listeners : /\ rows[l] \in Row => rows'[l] \in Row
                                     /\ rows'[l].secret \in Nat
                                     /\ rows[l].secret <= rows'[l].secret
  <2>1. PICK r \in Row : /\ rows' = [rows EXCEPT ![key[a]] = r]
                         /\ key[a] \in Listeners /\ rows[key[a]] \in Row
                         /\ rows[key[a]].secret <= r.secret
    BY <1>4, <1>6
  <2>2. r.secret \in Nat
    BY DEF Row
  <2>3. QED
    BY <1>1, <2>1, <2>2
<1>7. rows' = rows \/ \E a \in Actors : InsertHandle(a) \/ Disable(a) \/ Enable(a)
                                        \/ RotateSecret(a)
  BY DEF Next, Step, Begin, ListHandles, GetHandle, ReadBack, Reread, MakeDirectory,
     OpenSecret, OpenRaises, FillSecret, WriteContract, UnlinkSecret, UnlinkContract,
     RemoveDirectory, Dies, vars
<1>8. QED
  BY <1>1, <1>2, <1>5, <1>6, <1>7

(* Each part of the invariant is kept by every step.                        *)
LEMMA ShapesStep ==
    ASSUME IInv, [Next]_vars
    PROVE  Shapes'
<1> USE DEF IInv, Shapes
<1>1. ASSUME NEW a \in Actors, NEW o \in Ops, NEW l \in Listeners, Begin(a, o, l)
      PROVE  Shapes'
    <2>1. Goes(a, FirstStep(o)) /\ FirstStep(o) \in Label /\ o \in AllOps
    BY <1>1, Labels, LifecycleAssumption DEF Begin, Label
  <2>2. /\ key' \in [Actors -> Listeners \cup {Absent}]
        /\ alone' \in [Actors -> BOOLEAN]
    BY <1>1, JoinsEffect DEF Begin
  <2>3. at' \in [Actors -> Label] /\ op' \in [Actors -> AllOps \cup {"none"}]
    BY <1>1, <2>1 DEF Begin, Goes
  <2>4. UNCHANGED <<rows, disk, copy, rounds, linked, settled>>
    BY <1>1 DEF Begin
  <2>5. QED
    BY <2>2, <2>3, <2>4 DEF disk

<1>2. ASSUME NEW a \in Actors, ListHandles(a)
      PROVE  Shapes'
    <2>1. /\ key' \in [Actors -> Listeners \cup {Absent}]
        /\ alone' \in [Actors -> BOOLEAN]
    BY <1>2, JoinsEffect DEF ListHandles
  <2>2. QED
    BY <1>2, <2>1 DEF ListHandles, Exists, Label, Goes, Ends, Leaves, Undecided, vars,
       disk, actors, budget

<1>3. ASSUME NEW a \in Actors, InsertHandle(a)
      PROVE  Shapes'
    <2>1. /\ key' \in [Actors -> Listeners \cup {Absent}]
        /\ alone' \in [Actors -> BOOLEAN]
    BY <1>3, JoinsEffect DEF InsertHandle
  <2>2. QED
    BY <1>3, <2>1, RowsGrow DEF InsertHandle, Next, Step, Label, Goes, Ends, Leaves,
       Undecided, vars, disk, actors, budget

<1>4. ASSUME NEW a \in Actors, GetHandle(a)
      PROVE  Shapes'
    <2>1. key[a] \in Listeners /\ rows[key[a]].enabled \in BOOLEAN
    BY <1>4 DEF GetHandle, Placed, PlacedAt, Nowhere, Row
  <2>2. AfterRead(op[a], rows[key[a]].enabled) \in Label
    BY <2>1, Labels DEF Label
  <2>3. settled' \in [Listeners -> {"unknown", "written", "removed"}]
    BY <1>4, <2>1 DEF GetHandle, Leaves, Undecided
  <2>4. QED
    BY <1>4, <2>1, <2>2, <2>3 DEF GetHandle, Goes, disk, budget

<1>5. ASSUME NEW a \in Actors, Disable(a)
      PROVE  Shapes'
    <2>1. AfterDisable(op[a]) \in Label
    BY Labels DEF Label
  <2>2. rows' \in [Listeners -> Row \cup {NoRow}]
    BY <1>5, RowsGrow DEF Next, Step
  <2>3. settled' \in [Listeners -> {"unknown", "written", "removed"}]
    BY <1>5 DEF Disable, Leaves, Undecided, Placed, PlacedAt, Nowhere
  <2>4. QED
    BY <1>5, <2>1, <2>2, <2>3 DEF Disable, Goes, disk, budget

<1>6. ASSUME NEW a \in Actors, ReadBack(a)
      PROVE  Shapes'
  BY <1>6 DEF ReadBack, Label, Goes, Ends, Leaves, Undecided, vars, disk, actors, budget
<1>7. ASSUME NEW a \in Actors, Enable(a)
      PROVE  Shapes'
  BY <1>7, RowsGrow DEF Enable, Next, Step, Label, Goes, Ends, Leaves, Undecided,
     vars, disk, actors, budget
<1>8. ASSUME NEW a \in Actors, RotateSecret(a)
      PROVE  Shapes'
  BY <1>8, RowsGrow DEF RotateSecret, Next, Step, Label, Goes, Ends, Leaves,
     Undecided, vars, disk, actors, budget
<1>9. ASSUME NEW a \in Actors, Reread(a)
      PROVE  Shapes'
  BY <1>9 DEF Reread, Rounds, Placed, PlacedAt, Nowhere, Label, Goes, Ends, Leaves,
     Undecided, vars, disk, actors, budget
<1>10. ASSUME NEW a \in Actors, MakeDirectory(a)
      PROVE  Shapes'
  BY <1>10 DEF MakeDirectory, Label, Goes, Ends, Leaves, Undecided, vars, disk,
     actors, budget
<1>11. ASSUME NEW a \in Actors, OpenSecret(a)
      PROVE  Shapes'
  BY <1>11 DEF OpenSecret, Torn, Label, Goes, Ends, Leaves, Undecided, vars, disk,
     actors, budget
<1>12. ASSUME NEW a \in Actors, OpenRaises(a)
      PROVE  Shapes'
  BY <1>12 DEF OpenRaises, Label, Goes, Ends, Leaves, Undecided, vars, disk, actors,
     budget
<1>13. ASSUME NEW a \in Actors, FillSecret(a)
      PROVE  Shapes'
    <2>1. copy[a].secret \in Nat
    BY <1>13 DEF FillSecret, Placed, PlacedAt, Writing, Row
  <2>2. QED
    BY <1>13, <2>1 DEF FillSecret, Label, Goes, Ends, Leaves, Undecided, vars, disk,
       actors, budget

<1>14. ASSUME NEW a \in Actors, WriteContract(a)
      PROVE  Shapes'
    <2>1. rounds[a] - 1 \in 0..2
    BY <1>14 DEF WriteContract, Placed, PlacedAt, Writing
  <2>2. /\ rounds' \in [Actors -> 0..2] /\ at' \in [Actors -> Label]
        /\ contractFile' \in [Listeners -> BOOLEAN]
    BY <1>14, <2>1 DEF WriteContract, Label, Goes
  <2>3. settled' \in [Listeners -> {"unknown", "written", "removed"}]
    BY <1>14 DEF WriteContract, Leaves, Placed, PlacedAt, Nowhere
  <2>4. UNCHANGED <<rows, dir, text, op, key, copy, linked, alone>>
    BY <1>14 DEF WriteContract
  <2>5. QED
    BY <2>2, <2>3, <2>4

<1>15. ASSUME NEW a \in Actors, UnlinkSecret(a)
      PROVE  Shapes'
  BY <1>15 DEF UnlinkSecret, Label, Goes, Ends, Leaves, Undecided, vars, disk, actors,
     budget
<1>16. ASSUME NEW a \in Actors, UnlinkContract(a)
      PROVE  Shapes'
  BY <1>16 DEF UnlinkContract, Label, Goes, Ends, Leaves, Undecided, vars, disk,
     actors, budget
<1>17. ASSUME NEW a \in Actors, RemoveDirectory(a)
      PROVE  Shapes'
  BY <1>17 DEF RemoveDirectory, Label, Goes, Ends, Leaves, Undecided, vars, disk,
     actors, budget
<1>18. ASSUME NEW a \in Actors, Dies(a)
      PROVE  Shapes'
  <2>1. torn' \subseteq Listeners
    BY <1>18 DEF Dies, LeavesTorn, Placed, PlacedAt, Nowhere
  <2>2. /\ settled' \in [Listeners -> {"unknown", "written", "removed"}]
        /\ at' \in [Actors -> Label]
    BY <1>18 DEF Dies, Ends, Goes, Label
  <2>3. UNCHANGED <<rows, dir, secretFile, contractFile, op, key, copy, rounds, linked, alone>>
    BY <1>18 DEF Dies, Ends
  <2>4. QED
    BY <2>1, <2>2, <2>3
<1>19. CASE UNCHANGED vars
  BY <1>19 DEF Goes, Ends, Leaves, Undecided, vars, disk, actors, budget
<1>20. QED
  BY <1>1, <1>2, <1>3, <1>4, <1>5, <1>6, <1>7, <1>8, <1>9, <1>10, <1>11, <1>12, <1>13,
     <1>14, <1>15, <1>16, <1>17, <1>18, <1>19 DEF Next, Step

(* Actors stay placed.                                                      *)
LEMMA PlacedStep ==
    ASSUME IInv, [Next]_vars
    PROVE  Placed'
<1> USE DEF IInv, Shapes, Placed, PlacedAt, Nowhere, Writing
<1>1. ASSUME NEW a \in Actors, NEW o \in Ops, NEW l \in Listeners, Begin(a, o, l)
      PROVE  Placed'
    <2>1. Goes(a, FirstStep(o)) /\ FirstStep(o) \notin Writing /\ o \in AllOps /\ rows' = rows
    BY <1>1, Labels, LifecycleAssumption DEF Begin
  <2>2. \A b \in Actors \ {a} : PlacedAt(b)'
    <3>1. \A b \in Actors \ {a} : key'[b] = key[b]
      BY <1>1, JoinsEffect DEF Begin
    <3>2. QED
      BY <1>1, <2>1, <3>1 DEF Begin, Goes
  <2>3. PlacedAt(a)'
    <3>1. CASE o \in {"listen", "create"}
      BY <1>1, <2>1, <3>1, Labels DEF Begin, Goes
    <3>2. CASE o \notin {"listen", "create"}
      <4>1. key'[a] = l /\ rows[l] \in Row
        BY <1>1, <3>2, JoinsEffect DEF Begin, Exists
      <4>2. QED
        BY <2>1, <3>2, <4>1, Labels DEF Goes
    <3>3. QED
      BY <3>1, <3>2
  <2>4. QED
    BY <2>2, <2>3

<1>2. ASSUME NEW a \in Actors, ListHandles(a)
      PROVE  Placed'
    <2>1. CASE \E l \in Listeners :
                /\ Exists(l) /\ Joins(a, l) /\ copy' = [copy EXCEPT ![a] = rows[l]]
                /\ rounds' = [rounds EXCEPT ![a] = 2] /\ Goes(a, "mkdir")
    <3>1. PICK l \in Listeners :
                /\ Exists(l) /\ Joins(a, l) /\ copy' = [copy EXCEPT ![a] = rows[l]]
                /\ rounds' = [rounds EXCEPT ![a] = 2] /\ Goes(a, "mkdir")
      BY <2>1
    <3>2. rows[l] \in Row /\ rows' = rows /\ rows[l].secret \in Nat
      BY <1>2, <3>1 DEF ListHandles, Exists, Row
    <3>3. \A b \in Actors : key'[b] = IF b = a THEN l ELSE key[b]
      BY <3>1, JoinsEffect
    <3>4. QED
      BY <3>1, <3>2, <3>3 DEF Goes
  <2>2. CASE Goes(a, "insert") /\ UNCHANGED <<key, copy, rounds, alone>>
    BY <1>2, <2>2 DEF ListHandles, Goes
  <2>3. QED
    BY <1>2, <2>1, <2>2 DEF ListHandles

<1>3. ASSUME NEW a \in Actors, InsertHandle(a)
      PROVE  Placed'
    <2>1. \A l \in Listeners : rows[l] \in Row => rows'[l] \in Row
    BY <1>3, RowsGrow DEF Next, Step
  <2>2. \A l \in Listeners : rows[l].secret <= rows'[l].secret
    BY <1>3, RowsGrow DEF Next, Step
  <2>3. PICK l \in Listeners : Joins(a, l) /\ rows' = [rows EXCEPT ![l] = NewRow]
    BY <1>3 DEF InsertHandle
  <2>0. \A k \in Listeners : rows[k].secret \in Nat /\ rows'[k].secret \in Nat
    BY <1>3, RowsGrow DEF Next, Step
  <2>4. rows'[l] \in Row /\ Goes(a, "reread") /\ UNCHANGED <<copy, rounds>>
    <3>1. NewRow \in Row
      BY DEF NewRow, Row
    <3>2. QED
      BY <1>3, <2>3, <3>1 DEF InsertHandle
  <2>5. \A b \in Actors : key'[b] = IF b = a THEN l ELSE key[b]
    BY <2>3, JoinsEffect
  <2>6. \A b \in Actors : copy[b].secret \in Nat
    BY DEF Row, NoRow
  <2>7. PlacedAt(a)'
    BY <2>0, <2>3, <2>4, <2>5 DEF Goes
  <2>8. ASSUME NEW b \in Actors \ {a}
        PROVE  PlacedAt(b)'
    BY <2>0, <2>1, <2>2, <2>4, <2>5, <2>6 DEF Goes
  <2>9. QED
    BY <2>7, <2>8

<1>4. ASSUME NEW a \in Actors, GetHandle(a)
      PROVE  Placed'
    <2>1. key[a] \in Listeners /\ rows[key[a]] \in Row /\ rows[key[a]].secret \in Nat
    BY <1>4 DEF GetHandle, Row
  <2>2. AfterRead(op[a], rows[key[a]].enabled) \in
            {"rotate", "idle", "mkdir", "disable", "read_back", "enable"}
    BY <2>1, Labels DEF Row
  <2>3. QED
    BY <1>4, <2>1, <2>2 DEF GetHandle, Goes

<1>5. ASSUME NEW a \in Actors, Disable(a)
      PROVE  Placed'
    <2>1. \A l \in Listeners : rows[l] \in Row => rows'[l] \in Row
    BY <1>5, RowsGrow DEF Next, Step
  <2>2. \A l \in Listeners : rows[l].secret <= rows'[l].secret
    BY <1>5, RowsGrow DEF Next, Step
  <2>3. \A l \in Listeners : rows[l].secret \in Nat /\ rows'[l].secret \in Nat
    BY <1>5, RowsGrow DEF Next, Step
  <2>7. \A b \in Actors : copy[b].secret \in Nat
    BY DEF Row, NoRow
  <2>8. UNCHANGED <<key, copy, rounds>>
    BY <1>5 DEF Disable, Ends
  <2>4. AfterDisable(op[a]) \in {"idle", "read_back", "unlink_secret"}
    BY Labels
  <2>5. at[a] \notin Nowhere \cup Writing /\ at'[a] \notin Writing \cup {"list", "insert"}
        /\ \A b \in Actors \ {a} : at'[b] = at[b]
    BY <1>5, <2>4 DEF Disable, Goes, Ends
  <2>6. QED
    BY <2>1, <2>2, <2>3, <2>5, <2>7, <2>8

<1>6. ASSUME NEW a \in Actors, ReadBack(a)
      PROVE  Placed'
  BY <1>6 DEF ReadBack, Goes, Ends, Leaves, Undecided, vars, disk, actors, budget
<1>7. ASSUME NEW a \in Actors, Enable(a)
      PROVE  Placed'
    <2>1. \A l \in Listeners : rows[l] \in Row => rows'[l] \in Row
    BY <1>7, RowsGrow DEF Next, Step
  <2>2. \A l \in Listeners : rows[l].secret <= rows'[l].secret
    BY <1>7, RowsGrow DEF Next, Step
  <2>3. \A l \in Listeners : rows[l].secret \in Nat /\ rows'[l].secret \in Nat
    BY <1>7, RowsGrow DEF Next, Step
  <2>7. \A b \in Actors : copy[b].secret \in Nat
    BY DEF Row, NoRow
  <2>8. UNCHANGED <<key, copy, rounds>>
    BY <1>7 DEF Enable, Ends
  <2>5. at[a] \notin Nowhere \cup Writing /\ at'[a] \notin Writing \cup {"list", "insert"}
        /\ \A b \in Actors \ {a} : at'[b] = at[b]
    BY <1>7 DEF Enable, Goes, Ends
  <2>6. QED
    BY <2>1, <2>2, <2>3, <2>5, <2>7, <2>8

<1>8. ASSUME NEW a \in Actors, RotateSecret(a)
      PROVE  Placed'
    <2>1. \A l \in Listeners : rows[l] \in Row => rows'[l] \in Row
    BY <1>8, RowsGrow DEF Next, Step
  <2>2. \A l \in Listeners : rows[l].secret <= rows'[l].secret
    BY <1>8, RowsGrow DEF Next, Step
  <2>3. \A l \in Listeners : rows[l].secret \in Nat /\ rows'[l].secret \in Nat
    BY <1>8, RowsGrow DEF Next, Step
  <2>7. \A b \in Actors : copy[b].secret \in Nat
    BY DEF Row, NoRow
  <2>8. UNCHANGED <<key, copy, rounds>>
    BY <1>8 DEF RotateSecret, Ends
  <2>5. at[a] \notin Nowhere \cup Writing /\ at'[a] \notin Writing \cup {"list", "insert"}
        /\ \A b \in Actors \ {a} : at'[b] = at[b]
    BY <1>8 DEF RotateSecret, Goes, Ends
  <2>6. QED
    BY <2>1, <2>2, <2>3, <2>5, <2>7, <2>8

<1>9. ASSUME NEW a \in Actors, Reread(a)
      PROVE  Placed'
    <2>1. key[a] \in Listeners /\ rows[key[a]] \in Row /\ rows[key[a]].secret \in Nat
    BY <1>9 DEF Reread, Row
  <2>2. Rounds(op[a], rows[key[a]].enabled) \in 1..2
    BY DEF Rounds
  <2>3. QED
    BY <1>9, <2>1, <2>2 DEF Reread, Goes

<1>10. ASSUME NEW a \in Actors, MakeDirectory(a)
      PROVE  Placed'
  BY <1>10 DEF MakeDirectory, Goes, Ends, Leaves, Undecided, vars, disk, actors, budget
<1>11. ASSUME NEW a \in Actors, OpenSecret(a)
      PROVE  Placed'
  BY <1>11 DEF OpenSecret, Goes, Ends, Leaves, Undecided, vars, disk, actors, budget
<1>12. ASSUME NEW a \in Actors, OpenRaises(a)
      PROVE  Placed'
  BY <1>12 DEF OpenRaises, Goes, Ends, Leaves, Undecided, vars, disk, actors, budget
<1>13. ASSUME NEW a \in Actors, FillSecret(a)
      PROVE  Placed'
  BY <1>13 DEF FillSecret, Goes, Ends, Leaves, Undecided, vars, disk, actors, budget
<1>14. ASSUME NEW a \in Actors, WriteContract(a)
      PROVE  Placed'
  BY <1>14 DEF WriteContract, Goes, Ends, Leaves, Undecided, vars, disk, actors, budget
<1>15. ASSUME NEW a \in Actors, UnlinkSecret(a)
      PROVE  Placed'
  BY <1>15 DEF UnlinkSecret, Goes, Ends, Leaves, Undecided, vars, disk, actors, budget
<1>16. ASSUME NEW a \in Actors, UnlinkContract(a)
      PROVE  Placed'
  BY <1>16 DEF UnlinkContract, Goes, Ends, Leaves, Undecided, vars, disk, actors, budget
<1>17. ASSUME NEW a \in Actors, RemoveDirectory(a)
      PROVE  Placed'
  BY <1>17 DEF RemoveDirectory, Goes, Ends, Leaves, Undecided, vars, disk, actors,
     budget
<1>18. ASSUME NEW a \in Actors, Dies(a)
      PROVE  Placed'
  BY <1>18 DEF Dies, Goes, Ends, Leaves, Undecided, vars, disk, actors, budget
<1>19. CASE UNCHANGED vars
  BY <1>19 DEF Goes, Ends, Leaves, Undecided, vars, disk, actors, budget
<1>20. QED
  BY <1>1, <1>2, <1>3, <1>4, <1>5, <1>6, <1>7, <1>8, <1>9, <1>10, <1>11, <1>12, <1>13,
     <1>14, <1>15, <1>16, <1>17, <1>18, <1>19 DEF Next, Step

(* No step brings a secret from nowhere.                                    *)
LEMMA FilesStep ==
    ASSUME IInv, [Next]_vars
    PROVE  Files'
<1> USE DEF IInv, Shapes, Placed, PlacedAt, Nowhere, Writing, Files
<1>1. ASSUME NEW a \in Actors, NEW o \in Ops, NEW l \in Listeners, Begin(a, o, l)
      PROVE  Files'
  BY <1>1 DEF Begin, Goes, Ends, Leaves, Undecided, vars, disk, actors, budget
<1>2. ASSUME NEW a \in Actors, ListHandles(a)
      PROVE  Files'
  BY <1>2 DEF ListHandles, Goes, Ends, Leaves, Undecided, vars, disk, actors, budget
<1>3. ASSUME NEW a \in Actors, InsertHandle(a)
      PROVE  Files'
    <2>1. \A l \in Listeners : /\ rows[l].secret <= rows'[l].secret
                             /\ rows[l].secret \in Nat /\ rows'[l].secret \in Nat
    BY <1>3, RowsGrow DEF Next, Step
  <2>2. QED
    BY <1>3, <2>1 DEF InsertHandle, disk

<1>4. ASSUME NEW a \in Actors, GetHandle(a)
      PROVE  Files'
  BY <1>4 DEF GetHandle, Goes, Ends, Leaves, Undecided, vars, disk, actors, budget
<1>5. ASSUME NEW a \in Actors, Disable(a)
      PROVE  Files'
    <2>1. \A l \in Listeners : /\ rows[l].secret <= rows'[l].secret
                             /\ rows[l].secret \in Nat /\ rows'[l].secret \in Nat
    BY <1>5, RowsGrow DEF Next, Step
  <2>2. QED
    BY <1>5, <2>1 DEF Disable, disk

<1>6. ASSUME NEW a \in Actors, ReadBack(a)
      PROVE  Files'
  BY <1>6 DEF ReadBack, Goes, Ends, Leaves, Undecided, vars, disk, actors, budget
<1>7. ASSUME NEW a \in Actors, Enable(a)
      PROVE  Files'
    <2>1. \A l \in Listeners : /\ rows[l].secret <= rows'[l].secret
                             /\ rows[l].secret \in Nat /\ rows'[l].secret \in Nat
    BY <1>7, RowsGrow DEF Next, Step
  <2>2. QED
    BY <1>7, <2>1 DEF Enable, disk

<1>8. ASSUME NEW a \in Actors, RotateSecret(a)
      PROVE  Files'
    <2>1. \A l \in Listeners : /\ rows[l].secret <= rows'[l].secret
                             /\ rows[l].secret \in Nat /\ rows'[l].secret \in Nat
    BY <1>8, RowsGrow DEF Next, Step
  <2>2. QED
    BY <1>8, <2>1 DEF RotateSecret, disk

<1>9. ASSUME NEW a \in Actors, Reread(a)
      PROVE  Files'
  BY <1>9 DEF Reread, Goes, Ends, Leaves, Undecided, vars, disk, actors, budget
<1>10. ASSUME NEW a \in Actors, MakeDirectory(a)
      PROVE  Files'
  BY <1>10 DEF MakeDirectory, Goes, Ends, Leaves, Undecided, vars, disk, actors, budget
<1>11. ASSUME NEW a \in Actors, OpenSecret(a)
      PROVE  Files'
    <2>1. \A l \in Listeners : /\ rows[l].secret <= rows'[l].secret
                             /\ rows[l].secret \in Nat /\ rows'[l].secret \in Nat
    BY <1>11, RowsGrow DEF Next, Step
  <2>2. QED
    BY <1>11, <2>1 DEF OpenSecret, Torn

<1>12. ASSUME NEW a \in Actors, OpenRaises(a)
      PROVE  Files'
  BY <1>12 DEF OpenRaises, Goes, Ends, Leaves, Undecided, vars, disk, actors, budget
<1>13. ASSUME NEW a \in Actors, FillSecret(a)
      PROVE  Files'
    <2>1. \A l \in Listeners : /\ rows[l].secret <= rows'[l].secret
                             /\ rows[l].secret \in Nat /\ rows'[l].secret \in Nat
    BY <1>13, RowsGrow DEF Next, Step
  <2>2. copy[a].secret \in Nat /\ copy[a].secret <= rows[key[a]].secret /\ rows' = rows
    BY <1>13 DEF FillSecret, Row
  <2>3. QED
    BY <1>13, <2>1, <2>2 DEF FillSecret

<1>14. ASSUME NEW a \in Actors, WriteContract(a)
      PROVE  Files'
  BY <1>14 DEF WriteContract, Goes, Ends, Leaves, Undecided, vars, disk, actors, budget
<1>15. ASSUME NEW a \in Actors, UnlinkSecret(a)
      PROVE  Files'
  BY <1>15 DEF UnlinkSecret, Goes, Ends, Leaves, Undecided, vars, disk, actors, budget
<1>16. ASSUME NEW a \in Actors, UnlinkContract(a)
      PROVE  Files'
  BY <1>16 DEF UnlinkContract, Goes, Ends, Leaves, Undecided, vars, disk, actors, budget
<1>17. ASSUME NEW a \in Actors, RemoveDirectory(a)
      PROVE  Files'
  BY <1>17 DEF RemoveDirectory, Goes, Ends, Leaves, Undecided, vars, disk, actors,
     budget
<1>18. ASSUME NEW a \in Actors, Dies(a)
      PROVE  Files'
  BY <1>18 DEF Dies, Goes, Ends, Leaves, Undecided, vars, disk, actors, budget
<1>19. CASE UNCHANGED vars
  BY <1>19 DEF Goes, Ends, Leaves, Undecided, vars, disk, actors, budget
<1>20. QED
  BY <1>1, <1>2, <1>3, <1>4, <1>5, <1>6, <1>7, <1>8, <1>9, <1>10, <1>11, <1>12, <1>13,
     <1>14, <1>15, <1>16, <1>17, <1>18, <1>19 DEF Next, Step

(* A truncated file has a writer that will fill it, or lost it.             *)
LEMMA TornStep ==
    ASSUME IInv, [Next]_vars
    PROVE  TornFilled'
<1> USE DEF IInv, Shapes, Placed, PlacedAt, Nowhere, Writing, TornFilled
<1>1. ASSUME NEW a \in Actors, NEW o \in Ops, NEW l \in Listeners, Begin(a, o, l)
      PROVE  TornFilled'
    <2>1. \A b \in Actors \ {a} : key'[b] = key[b] /\ at'[b] = at[b]
    BY <1>1, JoinsEffect DEF Begin, Goes
  <2>2. at[a] # "fill" /\ UNCHANGED <<secretFile, linked, torn>>
    BY <1>1 DEF Begin, disk, budget
  <2>3. QED
    BY <2>1, <2>2

<1>2. ASSUME NEW a \in Actors, ListHandles(a)
      PROVE  TornFilled'
    <2>1. \A b \in Actors \ {a} : key'[b] = key[b] /\ at'[b] = at[b]
    BY <1>2, JoinsEffect DEF ListHandles, Goes
  <2>2. at[a] # "fill" /\ UNCHANGED <<secretFile, linked, torn>>
    BY <1>2 DEF ListHandles, disk, budget
  <2>3. QED
    BY <2>1, <2>2

<1>3. ASSUME NEW a \in Actors, InsertHandle(a)
      PROVE  TornFilled'
    <2>1. \A b \in Actors \ {a} : key'[b] = key[b] /\ at'[b] = at[b]
    BY <1>3, JoinsEffect DEF InsertHandle, Goes
  <2>2. at[a] # "fill" /\ UNCHANGED <<secretFile, linked, torn>>
    BY <1>3 DEF InsertHandle, disk, budget
  <2>3. QED
    BY <2>1, <2>2

<1>4. ASSUME NEW a \in Actors, GetHandle(a)
      PROVE  TornFilled'
  BY <1>4 DEF GetHandle, Goes, Ends, Leaves, Undecided, vars, disk, actors, budget
<1>5. ASSUME NEW a \in Actors, Disable(a)
      PROVE  TornFilled'
  BY <1>5 DEF Disable, Goes, Ends, Leaves, Undecided, vars, disk, actors, budget
<1>6. ASSUME NEW a \in Actors, ReadBack(a)
      PROVE  TornFilled'
  BY <1>6 DEF ReadBack, Goes, Ends, Leaves, Undecided, vars, disk, actors, budget
<1>7. ASSUME NEW a \in Actors, Enable(a)
      PROVE  TornFilled'
  BY <1>7 DEF Enable, Goes, Ends, Leaves, Undecided, vars, disk, actors, budget
<1>8. ASSUME NEW a \in Actors, RotateSecret(a)
      PROVE  TornFilled'
  BY <1>8 DEF RotateSecret, Goes, Ends, Leaves, Undecided, vars, disk, actors, budget
<1>9. ASSUME NEW a \in Actors, Reread(a)
      PROVE  TornFilled'
  BY <1>9 DEF Reread, Goes, Ends, Leaves, Undecided, vars, disk, actors, budget
<1>10. ASSUME NEW a \in Actors, MakeDirectory(a)
      PROVE  TornFilled'
  BY <1>10 DEF MakeDirectory, Goes, Ends, Leaves, Undecided, vars, disk, actors, budget
<1>11. ASSUME NEW a \in Actors, OpenSecret(a)
      PROVE  TornFilled'
  BY <1>11 DEF OpenSecret, Goes, Ends, Leaves, Undecided, vars, disk, actors, budget
<1>12. ASSUME NEW a \in Actors, OpenRaises(a)
      PROVE  TornFilled'
  BY <1>12 DEF OpenRaises, Goes, Ends, Leaves, Undecided, vars, disk, actors, budget
<1>13. ASSUME NEW a \in Actors, FillSecret(a)
      PROVE  TornFilled'
    <2>1. copy[a].secret # Torn /\ key[a] \in Listeners
    BY <1>13 DEF FillSecret, Row, Torn
  <2>2. /\ at' = [at EXCEPT ![a] = "contract"] /\ UNCHANGED <<key, linked>>
        /\ torn' = IF linked[a] THEN torn \ {key[a]} ELSE torn
        /\ secretFile' = IF linked[a] THEN [secretFile EXCEPT ![key[a]] = copy[a].secret]
                         ELSE secretFile
    BY <1>13 DEF FillSecret, Goes, budget
  <2>3. QED
    BY <2>1, <2>2

<1>14. ASSUME NEW a \in Actors, WriteContract(a)
      PROVE  TornFilled'
  BY <1>14 DEF WriteContract, Goes, Ends, Leaves, Undecided, vars, disk, actors, budget
<1>15. ASSUME NEW a \in Actors, UnlinkSecret(a)
      PROVE  TornFilled'
    <2>1. Absent # Torn /\ key[a] \in Listeners
    BY <1>15, LifecycleAssumption DEF UnlinkSecret, Torn
  <2>2. /\ secretFile' = [secretFile EXCEPT ![key[a]] = Absent]
        /\ linked' = [b \in Actors |-> linked[b] /\ key[b] # key[a]]
        /\ at' = [at EXCEPT ![a] = "unlink_contract"] /\ at[a] = "unlink_secret"
        /\ torn' = torn \ {key[a]} /\ key' = key
    BY <1>15 DEF UnlinkSecret, Goes, budget
  <2>3. QED
    BY <2>1, <2>2

<1>16. ASSUME NEW a \in Actors, UnlinkContract(a)
      PROVE  TornFilled'
  BY <1>16 DEF UnlinkContract, Goes, Ends, Leaves, Undecided, vars, disk, actors, budget
<1>17. ASSUME NEW a \in Actors, RemoveDirectory(a)
      PROVE  TornFilled'
  BY <1>17 DEF RemoveDirectory, Goes, Ends, Leaves, Undecided, vars, disk, actors,
     budget
<1>18. ASSUME NEW a \in Actors, Dies(a)
      PROVE  TornFilled'
  <2>1. /\ at' = [at EXCEPT ![a] = "idle"] /\ UNCHANGED <<key, linked, secretFile>>
        /\ torn' = IF LeavesTorn(a) THEN torn \cup {key[a]} ELSE torn
    BY <1>18 DEF Dies, Ends, Goes
  <2>2. QED
    BY <2>1 DEF LeavesTorn
<1>19. CASE UNCHANGED vars
  BY <1>19 DEF Goes, Ends, Leaves, Undecided, vars, disk, actors, budget
<1>20. QED
  BY <1>1, <1>2, <1>3, <1>4, <1>5, <1>6, <1>7, <1>8, <1>9, <1>10, <1>11, <1>12, <1>13,
     <1>14, <1>15, <1>16, <1>17, <1>18, <1>19 DEF Next, Step

(* Those that are alone stay apart.                                         *)
LEMMA ApartStep ==
    ASSUME IInv, [Next]_vars
    PROVE  Apart'
<1> USE DEF IInv, Shapes, Placed, PlacedAt, Nowhere, Apart
<1>1. ASSUME NEW a \in Actors, NEW o \in Ops, NEW l \in Listeners, Begin(a, o, l)
      PROVE  Apart'
    <2>1. at[a] = "idle" /\ Goes(a, FirstStep(o)) /\ o \in AllOps
    BY <1>1, LifecycleAssumption DEF Begin
  <2>2. CASE o \in {"listen", "create"}
    <3>1. at'[a] \in Nowhere /\ key'[a] = Absent /\ UNCHANGED alone
      BY <1>1, <2>1, <2>2, Labels DEF Begin, Goes
    <3>2. \A b \in Actors \ {a} : key'[b] = key[b] /\ at'[b] = at[b]
      BY <1>1, <2>1, <2>2 DEF Begin, Goes
    <3>3. QED
      BY <3>1, <3>2, LifecycleAssumption
  <2>3. CASE o \notin {"listen", "create"}
    BY <1>1, <2>1, <2>3, JoinsEffect DEF Begin, Goes
  <2>4. QED
    BY <2>2, <2>3

<1>2. ASSUME NEW a \in Actors, ListHandles(a)
      PROVE  Apart'
    <2>1. CASE \E l \in Listeners : Joins(a, l) /\ Goes(a, "mkdir")
    BY <1>2, <2>1, JoinsEffect DEF Goes
  <2>2. CASE Goes(a, "insert") /\ UNCHANGED <<key, alone>>
    BY <1>2, <2>2, LifecycleAssumption DEF Goes, ListHandles
  <2>3. QED
    BY <1>2, <2>1, <2>2 DEF ListHandles

<1>3. ASSUME NEW a \in Actors, InsertHandle(a)
      PROVE  Apart'
    <2>1. PICK l \in Listeners : Joins(a, l)
    BY <1>3 DEF InsertHandle
  <2>2. QED
    BY <1>3, <2>1, JoinsEffect DEF InsertHandle, Goes

<1>4. ASSUME NEW a \in Actors, GetHandle(a)
      PROVE  Apart'
  BY <1>4 DEF GetHandle, Goes, Ends, Leaves, Undecided, vars, disk, actors, budget
<1>5. ASSUME NEW a \in Actors, Disable(a)
      PROVE  Apart'
  BY <1>5 DEF Disable, Goes, Ends, Leaves, Undecided, vars, disk, actors, budget
<1>6. ASSUME NEW a \in Actors, ReadBack(a)
      PROVE  Apart'
  BY <1>6 DEF ReadBack, Goes, Ends, Leaves, Undecided, vars, disk, actors, budget
<1>7. ASSUME NEW a \in Actors, Enable(a)
      PROVE  Apart'
  BY <1>7 DEF Enable, Goes, Ends, Leaves, Undecided, vars, disk, actors, budget
<1>8. ASSUME NEW a \in Actors, RotateSecret(a)
      PROVE  Apart'
  BY <1>8 DEF RotateSecret, Goes, Ends, Leaves, Undecided, vars, disk, actors, budget
<1>9. ASSUME NEW a \in Actors, Reread(a)
      PROVE  Apart'
  BY <1>9 DEF Reread, Goes, Ends, Leaves, Undecided, vars, disk, actors, budget
<1>10. ASSUME NEW a \in Actors, MakeDirectory(a)
      PROVE  Apart'
  BY <1>10 DEF MakeDirectory, Goes, Ends, Leaves, Undecided, vars, disk, actors, budget
<1>11. ASSUME NEW a \in Actors, OpenSecret(a)
      PROVE  Apart'
  BY <1>11 DEF OpenSecret, Goes, Ends, Leaves, Undecided, vars, disk, actors, budget
<1>12. ASSUME NEW a \in Actors, OpenRaises(a)
      PROVE  Apart'
  BY <1>12 DEF OpenRaises, Goes, Ends, Leaves, Undecided, vars, disk, actors, budget
<1>13. ASSUME NEW a \in Actors, FillSecret(a)
      PROVE  Apart'
  BY <1>13 DEF FillSecret, Goes, Ends, Leaves, Undecided, vars, disk, actors, budget
<1>14. ASSUME NEW a \in Actors, WriteContract(a)
      PROVE  Apart'
  BY <1>14 DEF WriteContract, Goes, Ends, Leaves, Undecided, vars, disk, actors, budget
<1>15. ASSUME NEW a \in Actors, UnlinkSecret(a)
      PROVE  Apart'
  BY <1>15 DEF UnlinkSecret, Goes, Ends, Leaves, Undecided, vars, disk, actors, budget
<1>16. ASSUME NEW a \in Actors, UnlinkContract(a)
      PROVE  Apart'
  BY <1>16 DEF UnlinkContract, Goes, Ends, Leaves, Undecided, vars, disk, actors, budget
<1>17. ASSUME NEW a \in Actors, RemoveDirectory(a)
      PROVE  Apart'
  BY <1>17 DEF RemoveDirectory, Goes, Ends, Leaves, Undecided, vars, disk, actors,
     budget
<1>18. ASSUME NEW a \in Actors, Dies(a)
      PROVE  Apart'
  BY <1>18 DEF Dies, Goes, Ends, Leaves, Undecided, vars, disk, actors, budget
<1>19. CASE UNCHANGED vars
  BY <1>19 DEF Goes, Ends, Leaves, Undecided, vars, disk, actors, budget
<1>20. QED
  BY <1>1, <1>2, <1>3, <1>4, <1>5, <1>6, <1>7, <1>8, <1>9, <1>10, <1>11, <1>12, <1>13,
     <1>14, <1>15, <1>16, <1>17, <1>18, <1>19 DEF Next, Step

(* What a step of actor a leaves alone: every listener but its own, every   *)
(* other actor, and whoever is alone elsewhere.                             *)
Untouched(a) ==
    /\ \A l \in Listeners \ {key'[a]} :
          /\ rows'[l] = rows[l] /\ dir'[l] = dir[l] /\ settled'[l] = settled[l]
          /\ secretFile'[l] = secretFile[l] /\ contractFile'[l] = contractFile[l]
    /\ \A c \in Actors \ {a} :
          /\ at'[c] = at[c] /\ key'[c] = key[c] /\ copy'[c] = copy[c]
          /\ linked'[c] = linked[c] \/ key[c] = key'[a]
          /\ alone'[c] /\ at[c] \notin Nowhere => alone[c] /\ key[c] # key'[a]
    /\ at[a] # "idle" /\ key[a] \in Listeners => key'[a] = key[a]

(* A step leaves alone what is not its own.                                 *)
LEMMA Touches ==
    ASSUME IInv, NEW a \in Actors, Step(a) \/ Dies(a) \/ \E o \in Ops, l \in Listeners : Begin(a, o, l)
    PROVE  Untouched(a)
<1> USE DEF IInv, Shapes, Placed, PlacedAt, Nowhere, Apart, Untouched
<1>1. ASSUME NEW o \in Ops, NEW l \in Listeners, Begin(a, o, l)
      PROVE  Untouched(a)
    <2>1. CASE o \in {"listen", "create"}
    <3>1. key'[a] = Absent /\ UNCHANGED alone
      BY <1>1, <2>1 DEF Begin
    <3>2. QED
      BY <1>1, <2>1, <3>1, LifecycleAssumption DEF Begin, Goes, disk
  <2>2. CASE o \notin {"listen", "create"}
    BY <1>1, <2>2, JoinsEffect DEF Begin, Goes, disk
  <2>3. QED
    BY <2>1, <2>2

<1>2. CASE ListHandles(a)
    <2>1. CASE \E l \in Listeners : Joins(a, l)
    BY <1>2, <2>1, JoinsEffect, LifecycleAssumption DEF ListHandles, Goes, disk
  <2>2. CASE UNCHANGED <<key, alone>>
    BY <1>2, <2>2, LifecycleAssumption DEF ListHandles, Goes, disk
  <2>3. QED
    BY <1>2, <2>1, <2>2 DEF ListHandles

<1>3. CASE InsertHandle(a)
    <2>1. PICK l \in Listeners : Joins(a, l) /\ rows' = [rows EXCEPT ![l] = NewRow]
    BY <1>3 DEF InsertHandle
  <2>2. QED
    BY <1>3, <2>1, JoinsEffect, LifecycleAssumption DEF InsertHandle, Goes, disk

<1>4. CASE GetHandle(a)
  BY <1>4 DEF GetHandle, Goes, Ends, Leaves, Undecided, vars, disk, actors, budget
<1>5. CASE Disable(a)
  BY <1>5 DEF Disable, Goes, Ends, Leaves, Undecided, vars, disk, actors, budget
<1>6. CASE ReadBack(a)
  BY <1>6 DEF ReadBack, Goes, Ends, Leaves, Undecided, vars, disk, actors, budget
<1>7. CASE Enable(a)
  BY <1>7 DEF Enable, Goes, Ends, Leaves, Undecided, vars, disk, actors, budget
<1>8. CASE RotateSecret(a)
  BY <1>8 DEF RotateSecret, Goes, Ends, Leaves, Undecided, vars, disk, actors, budget
<1>9. CASE Reread(a)
  BY <1>9 DEF Reread, Goes, Ends, Leaves, Undecided, vars, disk, actors, budget
<1>10. CASE MakeDirectory(a)
  BY <1>10 DEF MakeDirectory, Goes, Ends, Leaves, Undecided, vars, disk, actors, budget
<1>11. CASE OpenSecret(a)
  BY <1>11 DEF OpenSecret, Goes, Ends, Leaves, Undecided, vars, disk, actors, budget
<1>12. CASE OpenRaises(a)
  BY <1>12 DEF OpenRaises, Goes, Ends, Leaves, Undecided, vars, disk, actors, budget
<1>13. CASE FillSecret(a)
  BY <1>13 DEF FillSecret, Goes, Ends, Leaves, Undecided, vars, disk, actors, budget
<1>14. CASE WriteContract(a)
  BY <1>14 DEF WriteContract, Goes, Ends, Leaves, Undecided, vars, disk, actors, budget
<1>15. CASE UnlinkSecret(a)
  BY <1>15 DEF UnlinkSecret, Goes, Ends, Leaves, Undecided, vars, disk, actors, budget
<1>16. CASE UnlinkContract(a)
  BY <1>16 DEF UnlinkContract, Goes, Ends, Leaves, Undecided, vars, disk, actors, budget
<1>17. CASE RemoveDirectory(a)
  BY <1>17 DEF RemoveDirectory, Goes, Ends, Leaves, Undecided, vars, disk, actors,
     budget
<1>18. CASE Dies(a)
  BY <1>18 DEF Dies, Goes, Ends, Leaves, Undecided, vars, disk, actors, budget
<1>19. QED
  BY <1>1, <1>2, <1>3, <1>4, <1>5, <1>6, <1>7, <1>8, <1>9, <1>10, <1>11, <1>12, <1>13,
     <1>14, <1>15, <1>16, <1>17, <1>18 DEF Step

(* An operation goes its course.                                            *)
LEMMA CourseOwn ==
    ASSUME IInv, NEW a \in Actors, Step(a) \/ Dies(a) \/ \E o \in Ops, l \in Listeners : Begin(a, o, l)
    PROVE  alone'[a] /\ at'[a] \notin Nowhere => Course(a)'
<1> USE DEF IInv, Shapes, Placed, PlacedAt, Nowhere, Writing, Course, Courses
<1>1. ASSUME NEW o \in Ops, NEW l \in Listeners, Begin(a, o, l)
      PROVE  alone'[a] /\ at'[a] \notin Nowhere => Course(a)'
    <2>1. CASE o \in {"listen", "create"}
    BY <1>1, <2>1, Labels DEF Begin, Goes
  <2>2. CASE o \notin {"listen", "create"}
    <3>1. Goes(a, FirstStep(o)) /\ FirstStep(o) \in {"disable", "read"}
      BY <1>1, <2>2, Labels, LifecycleAssumption DEF Begin
    <3>2. key'[a] = l /\ (alone'[a] => Free(l))
      BY <1>1, <2>2, JoinsEffect DEF Begin, Free
    <3>3. UNCHANGED <<rows, disk, settled>>
      BY <1>1 DEF Begin
    <3>4. alone'[a] /\ settled[l] = "written" => Current(l)
      BY <3>2 DEF Settled, SettledAt
    <3>5. alone'[a] /\ settled[l] = "removed" => Gone(l)
      BY <3>2 DEF Settled, SettledAt
    <3>6. QED
      BY <3>1, <3>2, <3>3, <3>4, <3>5 DEF Goes, disk, Current, Gone
  <2>3. QED
    BY <2>1, <2>2

<1>2. CASE ListHandles(a)
    <2>1. CASE \E l \in Listeners :
                /\ rows[l].enabled /\ Joins(a, l) /\ copy' = [copy EXCEPT ![a] = rows[l]]
                /\ Goes(a, "mkdir")
    <3>1. PICK l \in Listeners :
                /\ rows[l].enabled /\ Joins(a, l) /\ copy' = [copy EXCEPT ![a] = rows[l]]
                /\ Goes(a, "mkdir")
      BY <2>1
    <3>2. key'[a] = l /\ (alone'[a] => Free(l))
      BY <1>2, <3>1, JoinsEffect, LifecycleAssumption DEF ListHandles, Free
    <3>3. UNCHANGED <<rows, disk, settled>>
      BY <1>2 DEF ListHandles
    <3>4. alone'[a] => settled[l] # "removed"
      BY <3>1, <3>2 DEF Settled, SettledAt, Gone
    <3>5. QED
      BY <3>1, <3>2, <3>3, <3>4 DEF Goes, disk
  <2>2. CASE Goes(a, "insert")
    BY <2>2 DEF Goes
  <2>3. QED
    BY <1>2, <2>1, <2>2 DEF ListHandles

<1>3. CASE InsertHandle(a)
    <2>1. PICK l \in Listeners : /\ Joins(a, l) /\ rows' = [rows EXCEPT ![l] = NewRow]
                               /\ rows[l] = NoRow
    BY <1>3 DEF InsertHandle, Exists
  <2>2. NoRow \notin Row /\ NewRow.enabled
    BY DEF NoRow, NewRow, Row
  <2>3. settled[l] = "unknown"
    BY <2>1, <2>2 DEF Settled, SettledAt
  <2>4. key'[a] = l /\ settled' = settled /\ at'[a] = "reread"
    BY <1>3, <2>1, JoinsEffect DEF InsertHandle, Goes
  <2>5. QED
    BY <2>1, <2>2, <2>3, <2>4

<1>4. CASE GetHandle(a)
    <2> DEFINE next == AfterRead(op[a], rows[key[a]].enabled)
  <2>1. key[a] \in Listeners /\ rows[key[a]].enabled \in BOOLEAN
    BY <1>4 DEF GetHandle, Row
  <2>2. /\ next \in {"rotate", "idle", "mkdir", "disable", "read_back", "enable"}
        /\ next \in {"rotate", "mkdir"} => rows[key[a]].enabled
        /\ next = "read_back" => ~rows[key[a]].enabled
    BY <2>1, Labels
  <2>3. /\ at' = [at EXCEPT ![a] = next] /\ UNCHANGED <<rows, disk, key, alone>>
        /\ copy' = [copy EXCEPT ![a] = rows[key[a]]]
        /\ next # "idle" => settled' = settled
    BY <1>4 DEF GetHandle, Goes
  <2>4. alone[a] => /\ settled[key[a]] = "written" => Current(key[a])
                    /\ settled[key[a]] = "removed" => Gone(key[a])
    BY <1>4 DEF GetHandle
  <2> HIDE DEF next
  <2>5. alone[a] /\ rows[key[a]].enabled => settled[key[a]] # "removed"
    BY <2>4 DEF Gone
  <2>6. QED
    BY <2>1, <2>2, <2>3, <2>4, <2>5 DEF disk, Current, Gone

<1>5. CASE Disable(a)
    <2> DEFINE next == AfterDisable(op[a])
  <2>1. key[a] \in Listeners /\ rows[key[a]] \in Row
    BY <1>5 DEF Disable
  <2>2. next \in {"idle", "read_back", "unlink_secret"}
    BY Labels
  <2>3. /\ at' = [at EXCEPT ![a] = next] /\ UNCHANGED <<disk, key, alone, copy>>
        /\ next # "idle" => settled' = settled
    <3>1. next = "idle" <=> op[a] = "pause"
      BY DEF AfterDisable
    <3>2. QED
      BY <1>5, <3>1 DEF Disable, Goes
  <2>4. alone[a] => /\ settled[key[a]] = "written" => Current(key[a])
                    /\ settled[key[a]] = "removed" => Gone(key[a])
    BY <1>5 DEF Disable
  <2>5. ~rows'[key[a]].enabled /\ rows'[key[a]].secret = rows[key[a]].secret
    BY <1>5, <2>1 DEF Disable, Row
  <2> HIDE DEF next
  <2>6. QED
    BY <2>1, <2>2, <2>3, <2>4, <2>5 DEF disk, Current, Gone

<1>6. CASE ReadBack(a)
  BY <1>6 DEF ReadBack, Goes, Ends, Leaves, Undecided, vars, disk, actors, budget
<1>7. CASE Enable(a)
  BY <1>7 DEF Enable, Goes, Ends, Leaves, Undecided, vars, disk, actors, budget
<1>8. CASE RotateSecret(a)
  BY <1>8 DEF RotateSecret, Goes, Ends, Leaves, Undecided, vars, disk, actors, budget
<1>9. CASE Reread(a)
  BY <1>9 DEF Reread, Goes, Ends, Leaves, Undecided, vars, disk, actors, budget
<1>10. CASE MakeDirectory(a)
  BY <1>10 DEF MakeDirectory, Goes, Ends, Leaves, Undecided, vars, disk, actors, budget
<1>11. CASE OpenSecret(a)
  BY <1>11 DEF OpenSecret, Goes, Ends, Leaves, Undecided, vars, disk, actors, budget
<1>12. CASE OpenRaises(a)
  BY <1>12 DEF OpenRaises, Goes, Ends, Leaves, Undecided, vars, disk, actors, budget
<1>13. CASE FillSecret(a)
  BY <1>13 DEF FillSecret, Goes, Ends, Leaves, Undecided, vars, disk, actors, budget
<1>14. CASE WriteContract(a)
  BY <1>14 DEF WriteContract, Goes, Ends, Leaves, Undecided, vars, disk, actors, budget
<1>15. CASE UnlinkSecret(a)
  BY <1>15 DEF UnlinkSecret, Goes, Ends, Leaves, Undecided, vars, disk, actors, budget
<1>16. CASE UnlinkContract(a)
  BY <1>16 DEF UnlinkContract, Goes, Ends, Leaves, Undecided, vars, disk, actors, budget
<1>17. CASE RemoveDirectory(a)
  BY <1>17 DEF RemoveDirectory, Goes, Ends, Leaves, Undecided, vars, disk, actors,
     budget
<1>18. CASE Dies(a)
  BY <1>18 DEF Dies, Goes, Ends, Leaves, Undecided, vars, disk, actors, budget
<1>19. QED
  BY <1>1, <1>2, <1>3, <1>4, <1>5, <1>6, <1>7, <1>8, <1>9, <1>10, <1>11, <1>12, <1>13,
     <1>14, <1>15, <1>16, <1>17, <1>18 DEF Step

(* An operation that goes on says nothing new of its listener.              *)
LEMMA GoesOn ==
    ASSUME IInv, [Next]_vars, NEW a \in Actors, at'[a] # "idle", settled' = settled
    PROVE  key'[a] \in Listeners => SettledAt(key[a])'
<1>1. \A l \in Listeners : settled[l] # "unknown" => rows'[l] \in Row
  BY RowsGrow DEF IInv, Settled, SettledAt
<1>2. ~Free(key[a])'
  BY DEF Free
<1>3. QED
  BY <1>1, <1>2 DEF SettledAt

(* One that ends says what it has done.                                     *)
LEMMA EndsWith ==
    ASSUME IInv, [Next]_vars, NEW a \in Actors, at[a] \notin Nowhere, NEW outcome,
           key' = key, settled' = [settled EXCEPT ![key[a]] =
                                       IF alone[a] THEN outcome ELSE "unknown"],
           alone[a] /\ outcome = "written" => Current(key[a])',
           alone[a] /\ outcome = "removed" => Gone(key[a])'
    PROVE  key'[a] \in Listeners => SettledAt(key[a])'
<1>1. key[a] \in Listeners /\ rows'[key[a]] \in Row
  BY RowsGrow DEF IInv, Placed, PlacedAt
<1>2. settled'[key[a]] = IF alone[a] THEN outcome ELSE "unknown"
  BY <1>1 DEF IInv, Shapes
<1>3. QED
  BY <1>1, <1>2 DEF SettledAt, Current, Gone

(* What a step says of its actor's listener is so.                          *)
LEMMA SettledOwn ==
    ASSUME IInv, NEW a \in Actors, Step(a) \/ Dies(a) \/ \E o \in Ops, l \in Listeners : Begin(a, o, l)
    PROVE  key'[a] \in Listeners => SettledAt(key[a])'
<1> USE DEF IInv, Shapes, Placed, PlacedAt, Nowhere, Writing, Course, Courses
<1>1. ASSUME NEW o \in Ops, NEW l \in Listeners, Begin(a, o, l)
      PROVE  key'[a] \in Listeners => SettledAt(key[a])'
    <2>1. at'[a] # "idle" /\ settled' = settled
    BY <1>1, Labels, LifecycleAssumption DEF Begin, Goes
  <2>2. QED
    BY <2>1, <1>1, GoesOn DEF Next

<1>2. CASE ListHandles(a)
    <2>1. at'[a] # "idle" /\ settled' = settled
    BY <1>2 DEF ListHandles, Goes
  <2>2. QED
    BY <1>2, <2>1, GoesOn DEF Next, Step

<1>3. CASE InsertHandle(a)
    <2>1. at'[a] # "idle" /\ settled' = settled
    BY <1>3 DEF InsertHandle, Goes
  <2>2. QED
    BY <1>3, <2>1, GoesOn DEF Next, Step

<1>4. CASE GetHandle(a)
    <2>1. CASE AfterRead(op[a], rows[key[a]].enabled) = "idle"
    <3>1. /\ at[a] \notin Nowhere /\ key' = key
          /\ settled' = [settled EXCEPT ![key[a]] = IF alone[a] THEN settled[key[a]] ELSE "unknown"]
      BY <1>4, <2>1 DEF GetHandle, Goes, Ends, Leaves, Undecided
    <3>2. alone[a] /\ settled[key[a]] = "written" => Current(key[a])'
      BY <1>4, <2>1 DEF GetHandle, disk, Current
    <3>3. alone[a] /\ settled[key[a]] = "removed" => Gone(key[a])'
      BY <1>4, <2>1 DEF GetHandle, disk, Gone
    <3>4. QED
      BY <1>4, <2>1, <3>1, <3>2, <3>3, EndsWith DEF Next, Step
  <2>2. CASE ~(AfterRead(op[a], rows[key[a]].enabled) = "idle")
    <3>1. at'[a] # "idle" /\ settled' = settled
      BY <1>4, <2>2 DEF GetHandle, Goes
    <3>2. QED
      BY <1>4, <3>1, GoesOn DEF Next, Step
  <2>3. QED
    BY <2>1, <2>2

<1>5. CASE Disable(a)
    <2>1. CASE op[a] = "pause"
    <3>1. /\ at[a] \notin Nowhere /\ key' = key
          /\ settled' = [settled EXCEPT ![key[a]] = IF alone[a] THEN settled[key[a]] ELSE "unknown"]
      BY <1>5, <2>1 DEF Disable, Goes, AfterDisable, Ends, Leaves, Undecided
    <3>2. alone[a] /\ settled[key[a]] = "written" => Current(key[a])'
      BY <1>5, <2>1 DEF Disable, disk, Current, Row
    <3>3. alone[a] /\ settled[key[a]] = "removed" => Gone(key[a])'
      BY <1>5, <2>1 DEF Disable, disk, Gone, Row
    <3>4. QED
      BY <1>5, <2>1, <3>1, <3>2, <3>3, EndsWith DEF Next, Step
  <2>2. CASE ~(op[a] = "pause")
    <3>1. at'[a] # "idle" /\ settled' = settled
      BY <1>5, <2>2 DEF Disable, AfterDisable, Goes
    <3>2. QED
      BY <1>5, <3>1, GoesOn DEF Next, Step
  <2>3. QED
    BY <2>1, <2>2

<1>6. CASE ReadBack(a)
    <2>1. CASE rows[key[a]].enabled
    <3>1. /\ at[a] \notin Nowhere /\ key' = key
          /\ settled' = [settled EXCEPT ![key[a]] = IF alone[a] THEN settled[key[a]] ELSE "unknown"]
      BY <1>6, <2>1 DEF ReadBack, Goes, Ends, Leaves, Undecided
    <3>2. alone[a] /\ settled[key[a]] = "written" => Current(key[a])'
      BY <1>6, <2>1 DEF ReadBack, disk, Current
    <3>3. alone[a] /\ settled[key[a]] = "removed" => Gone(key[a])'
      BY <1>6, <2>1 DEF ReadBack, disk, Gone
    <3>4. QED
      BY <1>6, <2>1, <3>1, <3>2, <3>3, EndsWith DEF Next, Step
  <2>2. CASE ~(rows[key[a]].enabled)
    <3>1. at'[a] # "idle" /\ settled' = settled
      BY <1>6, <2>2 DEF ReadBack, Goes
    <3>2. QED
      BY <1>6, <3>1, GoesOn DEF Next, Step
  <2>3. QED
    BY <2>1, <2>2

<1>7. CASE Enable(a)
    <2> DEFINE outcome == IF settled[key[a]] = "removed" THEN "unknown" ELSE settled[key[a]]
  <2>1. /\ at[a] \notin Nowhere /\ key' = key
        /\ settled' = [settled EXCEPT ![key[a]] = IF alone[a] THEN outcome ELSE "unknown"]
    BY <1>7 DEF Enable, Ends, Leaves
  <2>2. key[a] \in Listeners /\ rows[key[a]] \in Row
    BY <1>7 DEF Enable
  <2>3. rows'[key[a]].secret = rows[key[a]].secret
    BY <1>7, <2>2 DEF Enable, Row
  <2>4. alone[a] /\ settled[key[a]] = "written" => Current(key[a])
    BY <1>7 DEF Enable
  <2>5. alone[a] /\ outcome = "written" => Current(key[a])'
    BY <1>7, <2>1, <2>3, <2>4 DEF Enable, Current, disk
  <2>6. outcome # "removed"
    OBVIOUS
  <2> HIDE DEF outcome
  <2>7. QED
    BY <1>7, <2>1, <2>5, <2>6, EndsWith DEF Next, Step

<1>8. CASE RotateSecret(a)
    <2>1. at'[a] # "idle" /\ settled' = settled
    BY <1>8 DEF RotateSecret, Goes
  <2>2. QED
    BY <1>8, <2>1, GoesOn DEF Next, Step

<1>9. CASE Reread(a)
    <2>1. at'[a] # "idle" /\ settled' = settled
    BY <1>9 DEF Reread, Goes
  <2>2. QED
    BY <1>9, <2>1, GoesOn DEF Next, Step

<1>10. CASE MakeDirectory(a)
    <2>1. at'[a] # "idle" /\ settled' = settled
    BY <1>10 DEF MakeDirectory, Goes
  <2>2. QED
    BY <1>10, <2>1, GoesOn DEF Next, Step

<1>11. CASE OpenSecret(a)
    <2>1. at'[a] # "idle" /\ settled' = settled
    BY <1>11 DEF OpenSecret, Goes
  <2>2. QED
    BY <1>11, <2>1, GoesOn DEF Next, Step

<1>12. CASE OpenRaises(a)
    <2>1. /\ at[a] \notin Nowhere /\ key' = key
        /\ settled' = [settled EXCEPT ![key[a]] = IF alone[a] THEN settled[key[a]] ELSE "unknown"]
    BY <1>12 DEF OpenRaises, Ends, Leaves, Undecided
  <2>2. alone[a] /\ settled[key[a]] = "written" => Current(key[a])'
    BY <1>12 DEF OpenRaises
  <2>3. alone[a] /\ settled[key[a]] = "removed" => Gone(key[a])'
    BY <1>12 DEF OpenRaises
  <2>4. QED
    BY <1>12, <2>1, <2>2, <2>3, EndsWith DEF Next, Step

<1>13. CASE FillSecret(a)
    <2>1. at'[a] # "idle" /\ settled' = settled
    BY <1>13 DEF FillSecret, Goes
  <2>2. QED
    BY <1>13, <2>1, GoesOn DEF Next, Step

<1>14. CASE WriteContract(a)
    <2>1. CASE ~(rounds[a] > 1)
    <3>1. /\ at[a] \notin Nowhere /\ key' = key
          /\ settled' = [settled EXCEPT ![key[a]] = IF alone[a] THEN (IF copy[a].enabled THEN "written" ELSE settled[key[a]]) ELSE "unknown"]
      BY <1>14, <2>1 DEF WriteContract, Goes, Ends, Leaves, Undecided
    <3>2. alone[a] /\ (IF copy[a].enabled THEN "written" ELSE settled[key[a]]) = "written" => Current(key[a])'
      BY <1>14, <2>1 DEF WriteContract, Current
    <3>3. alone[a] /\ (IF copy[a].enabled THEN "written" ELSE settled[key[a]]) = "removed" => Gone(key[a])'
      BY <1>14, <2>1 DEF WriteContract
    <3>4. QED
      BY <1>14, <2>1, <3>1, <3>2, <3>3, EndsWith DEF Next, Step
  <2>2. CASE ~(~(rounds[a] > 1))
    <3>1. at'[a] # "idle" /\ settled' = settled
      BY <1>14, <2>2 DEF WriteContract, Goes
    <3>2. QED
      BY <1>14, <3>1, GoesOn DEF Next, Step
  <2>3. QED
    BY <2>1, <2>2

<1>15. CASE UnlinkSecret(a)
    <2>1. at'[a] # "idle" /\ settled' = settled
    BY <1>15 DEF UnlinkSecret, Goes
  <2>2. QED
    BY <1>15, <2>1, GoesOn DEF Next, Step

<1>16. CASE UnlinkContract(a)
    <2>1. at'[a] # "idle" /\ settled' = settled
    BY <1>16 DEF UnlinkContract, Goes
  <2>2. QED
    BY <1>16, <2>1, GoesOn DEF Next, Step

<1>17. CASE RemoveDirectory(a)
    <2>1. /\ at[a] \notin Nowhere /\ key' = key
        /\ settled' = [settled EXCEPT ![key[a]] = IF alone[a] THEN "removed" ELSE "unknown"]
    BY <1>17 DEF RemoveDirectory, Ends, Leaves, Undecided
  <2>2. alone[a] /\ "removed" = "written" => Current(key[a])'
    OBVIOUS
  <2>3. alone[a] /\ "removed" = "removed" => Gone(key[a])'
    BY <1>17 DEF RemoveDirectory, Ends, Gone
  <2>4. QED
    BY <1>17, <2>1, <2>2, <2>3, EndsWith DEF Next, Step

<1>18. CASE Dies(a)
    <2>1. key' = key /\ (key[a] \in Listeners => settled'[key[a]] = "unknown")
    BY <1>18 DEF Dies, Ends
  <2>2. QED
    BY <2>1 DEF SettledAt, Shapes

<1>19. QED
  BY <1>1, <1>2, <1>3, <1>4, <1>5, <1>6, <1>7, <1>8, <1>9, <1>10, <1>11, <1>12, <1>13,
     <1>14, <1>15, <1>16, <1>17, <1>18 DEF Step

(* Who is alone keeps its course, whoever else steps.                       *)
LEMMA CoursesStep ==
    ASSUME IInv, [Next]_vars
    PROVE  Courses'
<1>1. ASSUME NEW a \in Actors, Untouched(a),
             alone'[a] /\ at'[a] \notin Nowhere => Course(a)'
      PROVE  Courses'
  <2> SUFFICES ASSUME NEW c \in Actors \ {a}, alone'[c], at'[c] \notin Nowhere
               PROVE  Course(c)'
    BY <1>1 DEF Courses
  <2>1. /\ at'[c] = at[c] /\ key'[c] = key[c] /\ copy'[c] = copy[c]
        /\ linked'[c] = linked[c] /\ alone[c] /\ key[c] # key'[a]
    BY <1>1 DEF Untouched
  <2>2. key[c] \in Listeners
    BY <2>1 DEF IInv, Placed, PlacedAt
  <2>3. /\ rows'[key[c]] = rows[key[c]] /\ dir'[key[c]] = dir[key[c]]
        /\ settled'[key[c]] = settled[key[c]] /\ secretFile'[key[c]] = secretFile[key[c]]
        /\ contractFile'[key[c]] = contractFile[key[c]]
    BY <1>1, <2>1, <2>2 DEF Untouched
  <2>4. Course(c)
    BY <2>1 DEF IInv, Courses
  <2>5. QED
    BY <2>1, <2>3, <2>4 DEF Course, Current, Gone
<1>2. ASSUME UNCHANGED vars
      PROVE  Courses'
  BY <1>2 DEF IInv, Courses, Course, Current, Gone, vars, disk, actors
<1>3. QED
  BY <1>1, <1>2, Touches, CourseOwn DEF Next

(* What listeners were left with stays so.                                  *)
LEMMA SettledStep ==
    ASSUME IInv, [Next]_vars
    PROVE  Settled'
<1>1. ASSUME NEW a \in Actors, Untouched(a),
             key'[a] \in Listeners => SettledAt(key[a])'
      PROVE  Settled'
  <2> SUFFICES ASSUME NEW l \in Listeners, key'[a] # l
               PROVE  SettledAt(l)'
    BY <1>1 DEF Settled
  <2>1. Free(l)' => Free(l)
    BY <1>1 DEF Untouched, Free
  <2>2. /\ rows'[l] = rows[l] /\ dir'[l] = dir[l] /\ settled'[l] = settled[l]
        /\ secretFile'[l] = secretFile[l] /\ contractFile'[l] = contractFile[l]
    BY <1>1 DEF Untouched
  <2>3. SettledAt(l)
    BY DEF IInv, Settled
  <2>4. QED
    BY <2>1, <2>2, <2>3 DEF SettledAt, Current, Gone
<1>2. ASSUME UNCHANGED vars
      PROVE  Settled'
  BY <1>2 DEF IInv, Settled, SettledAt, Free, Current, Gone, vars, disk, actors
<1>3. QED
  BY <1>1, <1>2, Touches, SettledOwn DEF Next

(* The invariant holds in every reachable state.                            *)
LEMMA InvAlways == Spec => []IInv
<1>1. IInv /\ [Next]_vars => IInv'
  BY ShapesStep, PlacedStep, FilesStep, TornStep, ApartStep, CoursesStep, SettledStep
     DEF IInv
<1>2. QED
  BY InitInv, <1>1, PTL DEF Spec

-----------------------------------------------------------------------------
(* The theorems.                                                            *)

(* Every reachable state is of the right types, and no file holds a secret  *)
(* its listener never had.                                                  *)
THEOREM TypesHold == Spec => []TypeOK
<1>1. IInv => TypeOK
  BY DEF IInv, TypeOK, Shapes, Files
<1>2. QED
  BY InvAlways, <1>1, PTL

(* An empty secret.txt is about to be filled, or it is one that a writer    *)
(* that died has left empty.                                                *)
THEOREM TornIsFilled == Spec => []NoTornSecret
<1>1. IInv => NoTornSecret
  BY DEF IInv, TornFilled, NoTornSecret, Busy
<1>2. QED
  BY InvAlways, <1>1, PTL

(* What an undisturbed writer left is the secret in force.                  *)
THEOREM WrittenStaysCurrent == Spec => []WrittenIsCurrent
<1>1. \A l \in Listeners : Busy(l) = {} => Free(l)
  BY DEF Busy, Free
<1>2. IInv => WrittenIsCurrent
  BY <1>1 DEF IInv, Settled, SettledAt, Current, WrittenIsCurrent
<1>3. QED
  BY InvAlways, <1>2, PTL

(* What an undisturbed retirement removed stays away.                       *)
THEOREM RetiredGone == Spec => []RetiredStaysGone
<1>1. \A l \in Listeners : Busy(l) = {} => Free(l)
  BY DEF Busy, Free
<1>2. IInv => RetiredStaysGone
  BY <1>1 DEF IInv, Settled, SettledAt, Gone, RetiredStaysGone
<1>3. QED
  BY InvAlways, <1>2, PTL

=============================================================================
