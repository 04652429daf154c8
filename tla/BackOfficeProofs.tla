-------------------------- MODULE BackOfficeProofs --------------------------
(***************************************************************************)
(* The tables an administrator keeps, for any number of requests, names    *)
(* and any limit: their types, removals, names and the plan's limit.       *)
(***************************************************************************)
EXTENDS BackOffice, FiniteSetTheorems, TLAPS

LEMMA WorkingIsBusy ==
  ASSUME NEW q \in Working
  PROVE  q # Idle /\ q.step # "idle"
BY DEF Working, Idle

----------------------------------------------------------------------------
(* What each kind of step does to the rows and to one request.             *)

\* A request begins: q is what it goes on with.
Begins(h, q) ==
  /\ handler[h] = Idle /\ q \in Working
  /\ handler' = [handler EXCEPT ![h] = q]
  /\ raced' = IF Claimed(q.copy.name) THEN raced \cup {q.copy.name} ELSE raced
  /\ requests' = requests + 1
  /\ UNCHANGED <<table, rows, reopened>>

\* What a creation goes on with: the guard has counted the rows.
Creates(q) ==
  /\ q.op = "create" /\ ~q.copy.deleted
  /\ q.step = "save" => table = "bookings"
  /\ Guarded => Allowed

\* What a request for an existing row goes on with.
Changes(q) ==
  /\ q.op # "create" /\ q.id \in DOMAIN rows
  /\ ~rows[q.id].deleted
  /\ q.copy.recent = rows[q.id].recent
  /\ q.copy.deleted /\ table \in {"users", "tenants"} => ~q.copy.on
  /\ ~q.copy.deleted /\ q.step = "save" /\ table \in {"users", "services", "tenants"} =>
       q.copy.name = rows[q.id].name

LEMMA CreateBegins ==
  ASSUME TypeOK, NEW h \in Handlers, BeginCreate(h)
  PROVE  \E q : Begins(h, q) /\ Creates(q)
<1>1. PICK name \in Names :
        Start(h, "create", IF table = "bookings" THEN "save" ELSE "check", 0,
              [name |-> name, on |-> TRUE, deleted |-> FALSE, recent |-> TRUE])
  BY DEF BeginCreate
<1> DEFINE q == [step |-> IF table = "bookings" THEN "save" ELSE "check",
                 op |-> "create", id |-> 0,
                 copy |-> [name |-> name, on |-> TRUE, deleted |-> FALSE, recent |-> TRUE]]
<1>2. q \in Working
  BY DEF Working, Operations, Row
<1>3. Begins(h, q)
  BY <1>1, <1>2 DEF Start, Begins, BeginCreate
<1>4. Creates(q)
  BY DEF Creates, BeginCreate
<1> QED BY <1>3, <1>4

LEMMA UpdateBegins ==
  ASSUME TypeOK, NEW h \in Handlers, BeginUpdate(h)
  PROVE  \E q : Begins(h, q) /\ Changes(q)
<1>1. PICK i \in {j \in DOMAIN rows : Visible(j)} :
      \E name \in Renames \cup {rows[i].name}, on \in Switches \cup {rows[i].on} :
        Start(h, "update", IF VerifiedRename(rows[i], name) THEN "check" ELSE "save", i,
              [rows[i] EXCEPT !.name = name, !.on = on])
  BY DEF BeginUpdate
<1>2. PICK name \in Renames \cup {rows[i].name}, on \in Switches \cup {rows[i].on} :
        Start(h, "update", IF VerifiedRename(rows[i], name) THEN "check" ELSE "save", i,
              [rows[i] EXCEPT !.name = name, !.on = on])
  BY <1>1
<1> DEFINE copy == [rows[i] EXCEPT !.name = name, !.on = on]
<1> DEFINE q == [step |-> IF VerifiedRename(rows[i], name) THEN "check" ELSE "save",
                 op |-> "update", id |-> i, copy |-> copy]
<1>3. i \in DOMAIN rows /\ i \in Nat /\ rows[i] \in Row /\ ~rows[i].deleted
  BY DEF TypeOK, Visible
<1>4. name \in Names /\ on \in BOOLEAN
  BY <1>3 DEF Renames, Switches, Row
<1>5. /\ copy \in Row /\ copy.name = name
      /\ copy.deleted = rows[i].deleted /\ copy.recent = rows[i].recent
  BY <1>3, <1>4 DEF Row
<1>6. q \in Working
  BY <1>3, <1>5 DEF Working, Operations
<1>7. Begins(h, q)
  BY <1>2, <1>6 DEF Start, Begins, BeginUpdate
<1>8. /\ table \in {"users", "services", "tenants"}
      /\ q.step = "save"
      => name = rows[i].name
  BY DEF VerifiedRename, Renames
<1>9. Changes(q)
  BY <1>3, <1>5, <1>8 DEF Changes
<1> QED BY <1>7, <1>9

LEMMA SettingsBegin ==
  ASSUME TypeOK, NEW h \in Handlers, BeginSettings(h)
  PROVE  \E q : Begins(h, q) /\ Changes(q)
<1>1. PICK i \in {j \in DOMAIN rows : Visible(j)} : Start(h, "settings", "save", i, rows[i])
  BY DEF BeginSettings
<1> DEFINE q == [step |-> "save", op |-> "settings", id |-> i, copy |-> rows[i]]
<1>2. i \in DOMAIN rows /\ i \in Nat /\ rows[i] \in Row /\ ~rows[i].deleted
  BY DEF TypeOK, Visible
<1>3. q \in Working
  BY <1>2 DEF Working, Operations
<1>4. Begins(h, q)
  BY <1>1, <1>3 DEF Start, Begins, BeginSettings
<1>5. Changes(q)
  BY <1>2 DEF Changes
<1> QED BY <1>4, <1>5

LEMMA RemoveBegins ==
  ASSUME TypeOK, NEW h \in Handlers, BeginRemove(h)
  PROVE  \E q : Begins(h, q) /\ Changes(q)
<1>1. PICK i \in {j \in DOMAIN rows : Visible(j)} :
        Start(h, "remove", "save", i, Removed(rows[i]))
  BY DEF BeginRemove
<1> DEFINE q == [step |-> "save", op |-> "remove", id |-> i, copy |-> Removed(rows[i])]
<1>2. i \in DOMAIN rows /\ i \in Nat /\ rows[i] \in Row /\ ~rows[i].deleted
  BY DEF TypeOK, Visible
<1>3. /\ Removed(rows[i]) \in Row
      /\ Removed(rows[i]).recent = rows[i].recent
      /\ Removed(rows[i]).deleted
      /\ table \in {"users", "tenants"} => ~Removed(rows[i]).on
  BY <1>2 DEF Removed, Row
<1>4. q \in Working
  BY <1>2, <1>3 DEF Working, Operations
<1>5. Begins(h, q)
  BY <1>1, <1>4 DEF Start, Begins, BeginRemove
<1>6. Changes(q)
  BY <1>2, <1>3 DEF Changes
<1> QED BY <1>5, <1>6

LEMMA ChangeBegins ==
  ASSUME TypeOK, NEW h \in Handlers, BeginUpdate(h) \/ BeginSettings(h) \/ BeginRemove(h)
  PROVE  \E q : Begins(h, q) /\ Changes(q)
BY UpdateBegins, SettingsBegin, RemoveBegins

\* A request that waits at a step is at work.
LEMMA AtWork ==
  ASSUME TypeOK, NEW h \in Handlers, handler[h] # Idle
  PROVE  handler[h] \in Working
BY DEF TypeOK

LEMMA AtStep ==
  ASSUME TypeOK, NEW h \in Handlers, handler[h].step \in {"check", "save"}
  PROVE  handler[h] \in Working
BY DEF TypeOK, Idle

----------------------------------------------------------------------------
(* Types.                                                                  *)

LEMMA InitTypeOK == Init => TypeOK
BY BackOfficeAssumption DEF Init, TypeOK

LEMMA TypeBegins ==
  ASSUME TypeOK, NEW h \in Handlers, NEW q, Begins(h, q), Creates(q) \/ Changes(q)
  PROVE  TypeOK'
<1>1. q \in Working /\ q.copy \in Row /\ q.copy.name \in Names
  BY DEF Begins, Working, Row
<1>2. handler' \in [Handlers -> Working \cup {Idle}]
  BY <1>1 DEF TypeOK, Begins
<1>3. raced' \subseteq Names /\ requests' \in Nat
  BY <1>1 DEF TypeOK, Begins
<1>4. ASSUME NEW g \in Handlers, handler'[g] # Idle, handler'[g].op # "create"
      PROVE  handler'[g].id \in DOMAIN rows'
  <2>1. CASE g = h
    BY <1>4, <2>1 DEF TypeOK, Begins, Creates, Changes
  <2>2. CASE g # h
    BY <1>4, <2>2 DEF TypeOK, Begins
  <2> QED BY <2>1, <2>2
<1> QED BY <1>2, <1>3, <1>4 DEF TypeOK, Begins

\* A request ends and the rows lose none.
LEMMA TypeEnds ==
  ASSUME TypeOK, NEW h \in Handlers, Done(h), rows' \in Seq(Row),
         DOMAIN rows \subseteq DOMAIN rows', reopened' \subseteq reopened,
         UNCHANGED <<table, requests, raced>>
  PROVE  TypeOK'
<1>1. handler' \in [Handlers -> Working \cup {Idle}]
  BY DEF TypeOK, Done
<1>2. ASSUME NEW g \in Handlers, handler'[g] # Idle, handler'[g].op # "create"
      PROVE  handler'[g].id \in DOMAIN rows'
  BY <1>2 DEF TypeOK, Done
<1> QED BY <1>1, <1>2 DEF TypeOK

LEMMA CheckPasses ==
  ASSUME TypeOK, NEW h \in Handlers, CheckName(h), ~Done(h)
  PROVE  /\ handler[h] \in Working /\ NameFree(h)
         /\ \E q \in Working :
              /\ q = [handler[h] EXCEPT !.step = "save"]
              /\ q.op = handler[h].op /\ q.id = handler[h].id /\ q.copy = handler[h].copy
              /\ handler' = [handler EXCEPT ![h] = q]
         /\ UNCHANGED <<table, rows, requests, raced, reopened>>
<1>1. handler[h] \in Working
  BY AtStep DEF CheckName
<1>2. [handler[h] EXCEPT !.step = "save"] \in Working
  BY <1>1 DEF Working
<1>3. NameFree(h) /\ handler' = [handler EXCEPT ![h].step = "save"]
  BY DEF CheckName
<1>4. handler' = [handler EXCEPT ![h] = [handler[h] EXCEPT !.step = "save"]]
  BY <1>3
<1> DEFINE q == [handler[h] EXCEPT !.step = "save"]
<1>5. q.op = handler[h].op /\ q.id = handler[h].id /\ q.copy = handler[h].copy
  BY <1>1 DEF Working
<1> QED BY <1>1, <1>2, <1>3, <1>4, <1>5 DEF CheckName

LEMMA InsertRows ==
  ASSUME TypeOK, NEW h \in Handlers, Insert(h)
  PROVE  /\ handler[h] \in Working /\ handler[h].op = "create"
         /\ Done(h) /\ UNCHANGED <<table, requests, raced, reopened>>
         /\ \/ rows' = rows
            \/ rows' = Append(rows, handler[h].copy)
         /\ rows' \in Seq(Row) /\ DOMAIN rows \subseteq DOMAIN rows'
<1>1. handler[h] \in Working
  BY AtStep DEF Insert
<1>2. handler[h].copy \in Row
  BY <1>1 DEF Working
<1>3. rows' = rows \/ rows' = Append(rows, handler[h].copy)
  BY DEF Insert
<1>4. rows' \in Seq(Row) /\ DOMAIN rows \subseteq DOMAIN rows'
  BY <1>2, <1>3 DEF TypeOK
<1> QED BY <1>1, <1>3, <1>4 DEF Insert

LEMMA OverwriteRows ==
  ASSUME TypeOK, NEW h \in Handlers, Overwrite(h)
  PROVE  /\ handler[h] \in Working /\ handler[h].op # "create"
         /\ handler[h].step = "save"
         /\ handler[h].id \in DOMAIN rows /\ handler[h].copy \in Row
         /\ Done(h) /\ UNCHANGED <<table, requests, raced>>
         /\ reopened' = reopened \ {handler[h].id}
         /\ rows' = [rows EXCEPT ![handler[h].id] = handler[h].copy]
         /\ rows' \in Seq(Row) /\ DOMAIN rows' = DOMAIN rows
<1>1. handler[h] \in Working
  BY AtStep DEF Overwrite
<1>2. handler[h].copy \in Row /\ handler[h].id \in DOMAIN rows
  BY <1>1, WorkingIsBusy DEF Working, Overwrite, TypeOK
<1>3. rows' = [rows EXCEPT ![handler[h].id] = handler[h].copy]
  BY DEF Overwrite
<1>4. rows' \in Seq(Row) /\ DOMAIN rows' = DOMAIN rows
  BY <1>2, <1>3 DEF TypeOK
<1> QED BY <1>1, <1>2, <1>3, <1>4 DEF Overwrite

LEMMA MonthRows ==
  ASSUME TypeOK, NewMonth
  PROVE  /\ table = "bookings" /\ UNCHANGED <<table, requests, raced, reopened>>
         /\ rows' \in Seq(Row) /\ DOMAIN rows' = DOMAIN rows
         /\ \A i \in DOMAIN rows : ~rows'[i].recent
         /\ \A h \in Handlers :
              \/ handler'[h] = handler[h]
              \/ /\ handler[h] # Idle /\ handler[h].op # "create"
                 /\ handler'[h] \in Working
                 /\ handler'[h].op = handler[h].op /\ handler'[h].id = handler[h].id
                 /\ ~handler'[h].copy.recent
         /\ \A h \in Handlers :
              handler'[h] = handler[h] =>
                \/ handler[h] = Idle \/ handler[h].op = "create"
                \/ ~handler[h].copy.recent
         /\ handler' \in [Handlers -> Working \cup {Idle}]
<1>1. \A i \in DOMAIN rows : rows[i] \in Row
  BY DEF TypeOK
<1>2. rows' = [i \in DOMAIN rows |-> [rows[i] EXCEPT !.recent = FALSE]]
  BY DEF NewMonth
<1>3. \A i \in DOMAIN rows : /\ [rows[i] EXCEPT !.recent = FALSE] \in Row
                             /\ ~[rows[i] EXCEPT !.recent = FALSE].recent
  BY <1>1 DEF Row
<1>4. rows' \in Seq(Row) /\ DOMAIN rows' = DOMAIN rows
  BY <1>2, <1>3 DEF TypeOK
<1>5. ASSUME NEW h \in Handlers
      PROVE  /\ \/ handler'[h] = handler[h]
                \/ /\ handler[h] # Idle /\ handler[h].op # "create"
                   /\ handler'[h] \in Working
                   /\ handler'[h].op = handler[h].op /\ handler'[h].id = handler[h].id
                   /\ ~handler'[h].copy.recent
             /\ handler'[h] = handler[h] =>
                \/ handler[h] = Idle \/ handler[h].op = "create"
                \/ ~handler[h].copy.recent
  <2>1. handler'[h] = IF handler[h] = Idle \/ handler[h].op = "create" THEN handler[h]
                      ELSE [handler[h] EXCEPT !.copy.recent = FALSE]
    BY DEF NewMonth
  <2>2. CASE handler[h] = Idle \/ handler[h].op = "create"
    BY <2>1, <2>2
  <2>3. CASE handler[h] # Idle /\ handler[h].op # "create"
    <3>1. handler[h] \in Working /\ handler[h].copy \in Row
      BY <2>3, AtWork DEF Working
    <3> DEFINE copy == [handler[h].copy EXCEPT !.recent = FALSE]
    <3>2. copy \in Row /\ ~copy.recent
      BY <3>1 DEF Row
    <3>3. handler'[h] = [handler[h] EXCEPT !.copy = copy]
      BY <2>1, <2>3
    <3> HIDE DEF copy
    <3>4. handler'[h] \in Working /\ handler'[h].op = handler[h].op
          /\ handler'[h].id = handler[h].id /\ handler'[h].copy = copy
      BY <3>1, <3>2, <3>3 DEF Working
    <3> QED BY <2>3, <3>2, <3>4
  <2> QED BY <2>2, <2>3
<1>6. handler' \in [Handlers -> Working \cup {Idle}]
  <2>1. handler' = [h \in Handlers |-> handler'[h]]
    BY DEF NewMonth
  <2>2. \A h \in Handlers : handler'[h] \in Working \cup {Idle}
    BY <1>5 DEF TypeOK
  <2> QED BY <2>1, <2>2
<1> QED BY <1>2, <1>3, <1>4, <1>5, <1>6 DEF NewMonth

\* A checkout completes: one tenant's row is switched on.
LEMMA CheckoutRows ==
  ASSUME TypeOK, CheckoutCompleted
  PROVE  /\ table = "tenants" /\ UNCHANGED <<table, handler, requests, raced>>
         /\ rows' \in Seq(Row) /\ DOMAIN rows' = DOMAIN rows
         /\ \A j \in DOMAIN rows :
              rows'[j].name = rows[j].name /\ rows'[j].deleted = rows[j].deleted
         /\ reopened \subseteq reopened' /\ reopened' \subseteq DOMAIN rows
         /\ \A j \in DOMAIN rows :
              rows'[j].deleted => rows'[j] = rows[j] \/ j \in reopened'
<1>1. PICK i \in DOMAIN rows :
        /\ rows' = [rows EXCEPT ![i].on = TRUE]
        /\ reopened' = IF rows[i].deleted THEN reopened \cup {i} ELSE reopened
  BY DEF CheckoutCompleted
<1> DEFINE row == [rows[i] EXCEPT !.on = TRUE]
<1>2. \A j \in DOMAIN rows : rows[j] \in Row
  BY DEF TypeOK
<1>3. row \in Row /\ row.name = rows[i].name /\ row.deleted = rows[i].deleted
  BY <1>2 DEF Row
<1>4. rows' = [rows EXCEPT ![i] = row]
  BY <1>1
<1> HIDE DEF row
<1>5. rows' \in Seq(Row) /\ DOMAIN rows' = DOMAIN rows
  BY <1>3, <1>4 DEF TypeOK
<1>6. \A j \in DOMAIN rows : rows'[j] = IF j = i THEN row ELSE rows[j]
  BY <1>4 DEF TypeOK
<1>7. reopened \subseteq reopened' /\ reopened' \subseteq DOMAIN rows
  BY <1>1 DEF TypeOK
<1> QED BY <1>1, <1>3, <1>5, <1>6, <1>7 DEF CheckoutCompleted

LEMMA NextTypeOK == TypeOK /\ [Next]_vars => TypeOK'
<1> SUFFICES ASSUME TypeOK, [Next]_vars PROVE TypeOK'
  OBVIOUS
<1>1. ASSUME NEW h \in Handlers, BeginCreate(h) PROVE TypeOK'
  BY <1>1, CreateBegins, TypeBegins
<1>2. ASSUME NEW h \in Handlers, BeginUpdate(h) \/ BeginSettings(h) \/ BeginRemove(h)
      PROVE  TypeOK'
  BY <1>2, ChangeBegins, TypeBegins
<1>3. ASSUME NEW h \in Handlers, CheckName(h) PROVE TypeOK'
  <2>1. CASE Done(h)
    BY <1>3, <2>1, TypeEnds DEF CheckName, TypeOK
  <2>2. CASE ~Done(h)
    <3>1. PICK q \in Working :
            /\ q.op = handler[h].op /\ q.id = handler[h].id
            /\ handler' = [handler EXCEPT ![h] = q]
      BY <1>3, <2>2, CheckPasses
    <3>2. handler[h] # Idle /\ UNCHANGED <<table, rows, requests, raced, reopened>>
      BY <1>3, <2>2, CheckPasses, WorkingIsBusy
    <3>3. handler' \in [Handlers -> Working \cup {Idle}]
      BY <3>1 DEF TypeOK
    <3>4. ASSUME NEW g \in Handlers, handler'[g] # Idle, handler'[g].op # "create"
          PROVE  handler'[g].id \in DOMAIN rows'
      BY <3>1, <3>2, <3>4 DEF TypeOK
    <3> QED BY <3>2, <3>3, <3>4 DEF TypeOK
  <2> QED BY <2>1, <2>2
<1>4. ASSUME NEW h \in Handlers, Insert(h) PROVE TypeOK'
  BY <1>4, InsertRows, TypeEnds
<1>5. ASSUME NEW h \in Handlers, Overwrite(h) PROVE TypeOK'
  BY <1>5, OverwriteRows, TypeEnds
<1>6. ASSUME NEW h \in Handlers, Fail(h) PROVE TypeOK'
  BY <1>6, TypeEnds DEF Fail, TypeOK
<1>7. CASE NewMonth
  <2>1. \A h \in Handlers : handler'[h] # Idle /\ handler'[h].op # "create" =>
                              handler'[h].id \in DOMAIN rows
    BY <1>7, MonthRows DEF TypeOK
  <2> QED BY <1>7, <2>1, MonthRows DEF TypeOK
<1>8. CASE CheckoutCompleted
  BY <1>8, CheckoutRows DEF TypeOK
<1>9. CASE UNCHANGED vars
  BY <1>9 DEF vars, TypeOK
<1> QED BY <1>1, <1>2, <1>3, <1>4, <1>5, <1>6, <1>7, <1>8, <1>9 DEF Next

\* Every variable keeps its type, and a request that overwrites a row has
\* found one.
THEOREM TypeCorrect == Spec => []TypeOK
BY InitTypeOK, NextTypeOK, PTL DEF Spec

----------------------------------------------------------------------------
(* The kinds of steps, with what the invariants below need of each.        *)

\* A request ends and leaves the rows as they are.
Ends(h) == Done(h) /\ UNCHANGED <<table, rows, raced, reopened>>

\* A request has found no row with the name of its copy.
Passes(h, q) ==
  /\ handler[h] \in Working /\ NameFree(h)
  /\ q \in Working /\ q.op = handler[h].op /\ q.id = handler[h].id /\ q.copy = handler[h].copy
  /\ handler' = [handler EXCEPT ![h] = q]
  /\ UNCHANGED <<table, rows, raced, reopened>>

\* A row is added.
Appends(h) ==
  /\ handler[h] \in Working /\ handler[h].op = "create" /\ handler[h].step = "save"
  /\ rows' = Append(rows, handler[h].copy)
  /\ Done(h) /\ UNCHANGED <<table, raced, reopened>>

\* A row is overwritten.
Writes(h) ==
  /\ handler[h] \in Working /\ handler[h].op # "create" /\ handler[h].step = "save"
  /\ handler[h].id \in DOMAIN rows
  /\ rows' = [rows EXCEPT ![handler[h].id] = handler[h].copy]
  /\ reopened' = reopened \ {handler[h].id}
  /\ Done(h) /\ UNCHANGED <<table, raced>>

Moves(h) ==
  \/ \E q : Begins(h, q) /\ (Creates(q) \/ Changes(q))
  \/ \E q : Passes(h, q)
  \/ Ends(h) \/ Appends(h) \/ Writes(h)

LEMMA Steps ==
  ASSUME TypeOK, [Next]_vars
  PROVE  \/ \E h \in Handlers : Moves(h)
         \/ NewMonth \/ CheckoutCompleted
         \/ UNCHANGED vars
<1>1. ASSUME NEW h \in Handlers, BeginCreate(h) PROVE Moves(h)
  BY <1>1, CreateBegins DEF Moves
<1>2. ASSUME NEW h \in Handlers, BeginUpdate(h) \/ BeginSettings(h) \/ BeginRemove(h)
      PROVE  Moves(h)
  BY <1>2, ChangeBegins DEF Moves
<1>3. ASSUME NEW h \in Handlers, CheckName(h) PROVE Moves(h)
  <2>1. CASE Done(h)
    BY <1>3, <2>1 DEF CheckName, Moves, Ends
  <2>2. CASE ~Done(h)
    BY <1>3, <2>2, CheckPasses DEF Passes, Moves
  <2> QED BY <2>1, <2>2
<1>4. ASSUME NEW h \in Handlers, Insert(h) PROVE Moves(h)
  BY <1>4, InsertRows DEF Insert, Moves, Ends, Appends
<1>5. ASSUME NEW h \in Handlers, Overwrite(h) PROVE Moves(h)
  BY <1>5, OverwriteRows DEF Moves, Writes
<1>6. ASSUME NEW h \in Handlers, Fail(h) PROVE Moves(h)
  BY <1>6 DEF Fail, Moves, Ends
<1> QED BY <1>1, <1>2, <1>3, <1>4, <1>5, <1>6 DEF Next

----------------------------------------------------------------------------
(* Removals.                                                               *)

\* A copy to be saved is off where it is deleted, as the rows are.
Off(row) == row.deleted => ~row.on

CopiesOff ==
  table \in {"users", "tenants"} =>
    \A h \in Handlers : handler[h] # Idle => Off(handler[h].copy)

RemovalInv == TypeOK /\ RemovedIsOff /\ CopiesOff

LEMMA MovesRemoval ==
  ASSUME RemovalInv, table \in {"users", "tenants"}, NEW h \in Handlers, Moves(h)
  PROVE  RemovedIsOff' /\ CopiesOff'
<1> USE DEF RemovalInv
<1>1. ASSUME NEW q, Begins(h, q), Creates(q) \/ Changes(q)
      PROVE  RemovedIsOff' /\ CopiesOff'
  <2>1. Off(q.copy)
    BY <1>1 DEF Creates, Changes, Off
  <2>2. \A g \in Handlers : handler'[g] = IF g = h THEN q ELSE handler[g]
    BY <1>1 DEF Begins, TypeOK
  <2> QED BY <1>1, <2>1, <2>2 DEF Begins, RemovedIsOff, CopiesOff
<1>2. ASSUME NEW q, Passes(h, q)
      PROVE  RemovedIsOff' /\ CopiesOff'
  <2>1. \A g \in Handlers : handler'[g] = IF g = h THEN q ELSE handler[g]
    BY <1>2 DEF Passes, TypeOK
  <2> QED BY <1>2, <2>1, WorkingIsBusy DEF Passes, RemovedIsOff, CopiesOff
<1>3. Done(h) /\ table' = table => CopiesOff'
  <2>1. Done(h) => \A g \in Handlers : handler'[g] = IF g = h THEN Idle ELSE handler[g]
    BY DEF Done, TypeOK
  <2> QED BY <2>1 DEF CopiesOff
<1>4. CASE Ends(h)
  BY <1>3, <1>4 DEF Ends, RemovedIsOff
<1>5. CASE Appends(h)
  <2>1. Off(handler[h].copy)
    BY <1>5, WorkingIsBusy DEF Appends, CopiesOff
  <2>2. \A i \in DOMAIN rows' :
          \/ i \in DOMAIN rows /\ rows'[i] = rows[i]
          \/ rows'[i] = handler[h].copy
    BY <1>5 DEF Appends, TypeOK, Working
  <2> QED BY <1>3, <1>5, <2>1, <2>2 DEF Appends, RemovedIsOff, Off
<1>6. CASE Writes(h)
  <2>1. Off(handler[h].copy)
    BY <1>6, WorkingIsBusy DEF Writes, CopiesOff
  <2>2. \A i \in DOMAIN rows' :
          \/ i \in DOMAIN rows /\ rows'[i] = rows[i]
          \/ rows'[i] = handler[h].copy
    BY <1>6 DEF Writes, TypeOK
  <2>3. \A i \in DOMAIN rows' :
          rows'[i].deleted /\ rows'[i].on => i \in reopened /\ i # handler[h].id
    <3>1. rows'[handler[h].id] = handler[h].copy
      BY <1>6 DEF Writes, TypeOK
    <3> QED BY <2>1, <2>2, <3>1 DEF RemovedIsOff, Off
  <2> QED BY <1>3, <1>6, <2>3 DEF Writes, RemovedIsOff
<1> QED BY <1>1, <1>2, <1>4, <1>5, <1>6 DEF Moves

LEMMA NextRemoval == RemovalInv /\ [Next]_vars => RemovalInv'
<1> SUFFICES ASSUME RemovalInv, [Next]_vars PROVE RemovedIsOff' /\ CopiesOff'
  BY NextTypeOK DEF RemovalInv
<1>1. ASSUME NEW h \in Handlers, Moves(h) PROVE table' = table
  BY <1>1 DEF Moves, Begins, Passes, Ends, Appends, Writes
<1>2. ASSUME NEW h \in Handlers, Moves(h) PROVE RemovedIsOff' /\ CopiesOff'
  BY <1>1, <1>2, MovesRemoval DEF RemovedIsOff, CopiesOff
<1>3. CASE NewMonth
  BY <1>3 DEF NewMonth, RemovedIsOff, CopiesOff
<1>4. CASE CheckoutCompleted
  BY <1>4, CheckoutRows DEF RemovalInv, RemovedIsOff, CopiesOff
<1>5. CASE UNCHANGED vars
  BY <1>5 DEF vars, RemovalInv, RemovedIsOff, CopiesOff
<1> QED BY <1>2, <1>3, <1>4, <1>5, Steps DEF RemovalInv

\* A user or tenant that was removed is switched off, for any number of
\* requests and any order of their copies, unless a checkout of the removed
\* tenant has completed since.
THEOREM RemovalCorrect == Spec => []RemovedIsOff
<1>1. Init => RemovalInv
  BY InitTypeOK DEF Init, RemovalInv, RemovedIsOff, CopiesOff
<1> QED BY <1>1, NextRemoval, PTL DEF Spec, RemovalInv

----------------------------------------------------------------------------
(* Names.                                                                  *)

\* Two requests that were to write one name have marked it.
ClaimsRaced ==
  \A g, h \in Handlers :
    /\ g # h /\ handler[g] # Idle /\ handler[h] # Idle
    /\ handler[g].copy.name = handler[h].copy.name
    => handler[h].copy.name \in raced

\* What is about to be saved finds its name still free.
SaveFree ==
  \A h \in Handlers : \A j \in DOMAIN rows :
    /\ handler[h] # Idle /\ handler[h].step = "save" /\ ~handler[h].copy.deleted
    /\ Visible(j) /\ rows[j].name = handler[h].copy.name
    => \/ handler[h].op # "create" /\ j = handler[h].id
       \/ rows[j].name \in raced

Named == table \in {"users", "services", "tenants"}

NameSafe == NamesUniqueUnlessRaced /\ ClaimsRaced /\ SaveFree

NameInv == TypeOK /\ (Named => NameSafe)

LEMMA BeginsNames ==
  ASSUME NameInv, Named, NEW h \in Handlers, NEW q,
         Begins(h, q), Creates(q) \/ Changes(q)
  PROVE  NameSafe'
<1> USE DEF NameInv
<1>1. \A g \in Handlers : handler'[g] = IF g = h THEN q ELSE handler[g]
  BY DEF Begins, TypeOK
<1>2. raced \subseteq raced' /\ rows' = rows /\ table' = table
  BY DEF Begins
<1>3. NamesUniqueUnlessRaced'
  BY <1>2 DEF NamesUniqueUnlessRaced, Visible, NameSafe, Named
<1>4. \A g \in Handlers :
        handler[g] # Idle /\ handler[g].copy.name = q.copy.name => q.copy.name \in raced'
  BY DEF Begins, Claimed
<1>5. ClaimsRaced'
  BY <1>1, <1>2, <1>4 DEF ClaimsRaced, NameSafe, Begins
<1>6. SaveFree'
  <2> SUFFICES ASSUME NEW g \in Handlers, NEW j \in DOMAIN rows,
                      handler'[g] # Idle, handler'[g].step = "save",
                      ~handler'[g].copy.deleted, ~rows[j].deleted,
                      rows[j].name = handler'[g].copy.name
               PROVE  \/ handler'[g].op # "create" /\ j = handler'[g].id
                      \/ rows[j].name \in raced'
    BY <1>2 DEF SaveFree, Visible
  <2>1. CASE g # h
    BY <1>1, <1>2, <2>1 DEF SaveFree, Visible, NameSafe
  <2>2. CASE g = h
    <3>1. ~Creates(q)
      BY <1>1, <2>2 DEF Creates, Named
    <3>2. /\ q.op # "create" /\ q.id \in DOMAIN rows /\ ~rows[q.id].deleted
          /\ q.copy.name = rows[q.id].name
      BY <1>1, <2>2, <3>1 DEF Changes, Named
    <3>3. q.id = j \/ rows[j].name \in raced
      BY <1>1, <2>2, <3>2 DEF NamesUniqueUnlessRaced, NameSafe, Named, Visible
    <3> QED BY <1>1, <1>2, <2>2, <3>2, <3>3
  <2> QED BY <2>1, <2>2
<1> QED BY <1>3, <1>5, <1>6 DEF NameSafe

LEMMA PassesNames ==
  ASSUME NameInv, Named, NEW h \in Handlers, NEW q, Passes(h, q)
  PROVE  NameSafe'
<1> USE DEF NameInv
<1>1. \A g \in Handlers : handler'[g] = IF g = h THEN q ELSE handler[g]
  BY DEF Passes, TypeOK
<1>2. raced' = raced /\ rows' = rows /\ table' = table /\ q.copy = handler[h].copy
      /\ handler[h] # Idle
  BY WorkingIsBusy DEF Passes
<1>3. NamesUniqueUnlessRaced'
  BY <1>2 DEF NamesUniqueUnlessRaced, Visible, NameSafe, Named
<1>4. ClaimsRaced'
  BY <1>1, <1>2 DEF ClaimsRaced, NameSafe
<1>5. \A j \in DOMAIN rows : Visible(j) => rows[j].name # q.copy.name
  BY <1>2 DEF Passes, NameFree
<1>6. SaveFree'
  BY <1>1, <1>2, <1>5 DEF SaveFree, Visible, NameSafe
<1> QED BY <1>3, <1>4, <1>6 DEF NameSafe

\* A request ends; the row it has saved, if any, is k.
LEMMA SavesNames ==
  ASSUME NameInv, Named, NEW h \in Handlers, Done(h), UNCHANGED <<table, raced>>,
         handler[h] # Idle, handler[h].step = "save", NEW k,
         \A i \in DOMAIN rows' :
           IF i = k THEN rows'[i] = handler[h].copy
                    ELSE i \in DOMAIN rows /\ rows'[i] = rows[i],
         \/ handler[h].op = "create" /\ k \notin DOMAIN rows
         \/ handler[h].op # "create" /\ k = handler[h].id
  PROVE  NameSafe'
<1> USE DEF NameInv
<1>1. \A g \in Handlers : handler'[g] = IF g = h THEN Idle ELSE handler[g]
  BY DEF Done, TypeOK
<1>2. \A j \in DOMAIN rows :
        j # k /\ ~rows[j].deleted /\ ~handler[h].copy.deleted
        /\ rows[j].name = handler[h].copy.name => rows[j].name \in raced
  BY DEF SaveFree, NameSafe, Visible
<1>3. NamesUniqueUnlessRaced'
  <2> SUFFICES ASSUME NEW i \in DOMAIN rows', NEW j \in DOMAIN rows',
                      ~rows'[i].deleted, ~rows'[j].deleted,
                      rows'[i].name = rows'[j].name, i # j
               PROVE  rows'[i].name \in raced
    BY DEF NamesUniqueUnlessRaced, Visible
  <2>1. CASE i = k
    BY <1>2, <2>1
  <2>2. CASE j = k
    BY <1>2, <2>2
  <2>3. CASE i # k /\ j # k
    BY <2>3 DEF NamesUniqueUnlessRaced, Visible, NameSafe, Named
  <2> QED BY <2>1, <2>2, <2>3
<1>4. ClaimsRaced'
  BY <1>1 DEF ClaimsRaced, NameSafe
<1>5. SaveFree'
  <2> SUFFICES ASSUME NEW g \in Handlers, NEW j \in DOMAIN rows', g # h,
                      handler[g] # Idle, handler[g].step = "save",
                      ~handler[g].copy.deleted, ~rows'[j].deleted,
                      rows'[j].name = handler[g].copy.name
               PROVE  \/ handler[g].op # "create" /\ j = handler[g].id
                      \/ rows'[j].name \in raced
    BY <1>1 DEF SaveFree, Visible
  <2>1. CASE j = k
    BY <2>1 DEF ClaimsRaced, NameSafe
  <2>2. CASE j # k
    BY <2>2 DEF SaveFree, NameSafe, Visible
  <2> QED BY <2>1, <2>2
<1> QED BY <1>3, <1>4, <1>5 DEF NameSafe

LEMMA EndsNames ==
  ASSUME NameInv, Named, NEW h \in Handlers, Ends(h)
  PROVE  NameSafe'
<1> USE DEF NameInv
<1>1. \A g \in Handlers : handler'[g] = IF g = h THEN Idle ELSE handler[g]
  BY DEF Done, Ends, TypeOK
<1>2. NamesUniqueUnlessRaced'
  BY DEF NamesUniqueUnlessRaced, Visible, NameSafe, Named, Ends
<1>3. ClaimsRaced'
  BY <1>1 DEF ClaimsRaced, NameSafe, Ends
<1>4. SaveFree'
  BY <1>1 DEF SaveFree, Visible, NameSafe, Ends
<1> QED BY <1>2, <1>3, <1>4 DEF NameSafe

LEMMA NextNames == NameInv /\ [Next]_vars => NameInv'
<1> SUFFICES ASSUME NameInv, [Next]_vars PROVE Named' => NameSafe'
  BY NextTypeOK DEF NameInv
<1> USE DEF NameInv
<1>1. ASSUME NEW h \in Handlers, Moves(h), Named' PROVE NameSafe'
  <2>1. Named
    BY <1>1 DEF Moves, Begins, Passes, Ends, Appends, Writes, Named
  <2>2. CASE Appends(h)
    <3>1. \A i \in DOMAIN rows' :
            IF i = Len(rows) + 1 THEN rows'[i] = handler[h].copy
                                 ELSE i \in DOMAIN rows /\ rows'[i] = rows[i]
      BY <2>2 DEF Appends, TypeOK, Working
    <3>2. Len(rows) + 1 \notin DOMAIN rows
      BY DEF TypeOK
    <3> QED BY <2>1, <2>2, <3>1, <3>2, SavesNames, WorkingIsBusy DEF Appends
  <2>3. CASE Writes(h)
    <3>1. \A i \in DOMAIN rows' :
            IF i = handler[h].id THEN rows'[i] = handler[h].copy
                                 ELSE i \in DOMAIN rows /\ rows'[i] = rows[i]
      BY <2>3 DEF Writes, TypeOK
    <3> QED BY <2>1, <2>3, <3>1, SavesNames, WorkingIsBusy DEF Writes
  <2> QED BY <1>1, <2>1, <2>2, <2>3, BeginsNames, PassesNames, EndsNames DEF Moves
<1>2. CASE NewMonth
  BY <1>2 DEF NewMonth, Named
<1>3. CASE CheckoutCompleted
  BY <1>3, CheckoutRows
     DEF Named, NameSafe, NamesUniqueUnlessRaced, ClaimsRaced, SaveFree, Visible
<1>4. CASE UNCHANGED vars
  BY <1>4 DEF vars, Named, NameSafe, NamesUniqueUnlessRaced, ClaimsRaced, SaveFree, Visible
<1> QED BY <1>1, <1>2, <1>3, <1>4, Steps

\* No two users, services or tenants in use share a name that no two
\* requests were to write at once: for any number of requests and names.
THEOREM NamesCorrect == Spec => []NamesUniqueUnlessRaced
<1>1. Init => NameInv
  BY InitTypeOK DEF Init, NameInv, NameSafe, NamesUniqueUnlessRaced, ClaimsRaced, SaveFree
<1>2. NameInv => NamesUniqueUnlessRaced
  BY DEF NameInv, NameSafe, NamesUniqueUnlessRaced, Named
<1> QED BY <1>1, <1>2, NextNames, PTL DEF Spec

----------------------------------------------------------------------------
(* The plan's limit.  A row may come back when a copy of it is saved, so   *)
(* what the invariant counts is the rows that are or may be counted, and   *)
(* the creations under way.                                                *)

InPlan(row) == ~row.deleted /\ (table = "bookings" => row.recent)

Changers == {h \in Handlers : handler[h] # Idle /\ handler[h].op # "create"}

Creators == {h \in Handlers : handler[h] # Idle /\ handler[h].op = "create"}

Countable ==
  {i \in DOMAIN rows :
     InPlan(rows[i]) \/ \E h \in Changers : handler[h].id = i /\ InPlan(handler[h].copy)}

Bounded ==
  Guarded /\ Limit > 0 =>
    Cardinality(Countable) + Cardinality(Creators) <= Limit + Cardinality(Handlers) - 1

LimitInv == TypeOK /\ Bounded

LEMMA PlanFinite ==
  ASSUME TypeOK
  PROVE  /\ IsFiniteSet(Countable) /\ Cardinality(Countable) \in Nat
         /\ IsFiniteSet(Counted) /\ Cardinality(Counted) \in Nat
         /\ IsFiniteSet(Creators) /\ Cardinality(Creators) \in Nat
         /\ Cardinality(Handlers) \in Nat /\ Limit \in Int
<1>1. IsFiniteSet(1..Len(rows))
  BY FS_Interval DEF TypeOK
<1>2. Countable \in SUBSET (1..Len(rows)) /\ Counted \in SUBSET (1..Len(rows))
  BY DEF Countable, Counted, TypeOK
<1>3. Creators \in SUBSET Handlers
  BY DEF Creators
<1>4. IsFiniteSet(Countable) /\ IsFiniteSet(Counted)
  BY <1>1, <1>2, FS_Subset
<1>5. IsFiniteSet(Creators) /\ IsFiniteSet(Handlers)
  BY <1>3, FS_Subset, BackOfficeAssumption
<1> QED BY <1>4, <1>5, FS_CardinalityType, BackOfficeAssumption

\* A step that adds nothing to either set.
LEMMA NothingAdded ==
  ASSUME LimitInv, Countable' \subseteq Countable, Creators' \subseteq Creators,
         table' = table
  PROVE  Bounded'
<1>1. Cardinality(Countable') <= Cardinality(Countable)
  BY PlanFinite, FS_Subset DEF LimitInv
<1>2. Cardinality(Creators') <= Cardinality(Creators)
  BY PlanFinite, FS_Subset DEF LimitInv
<1>3. Cardinality(Countable') \in Nat /\ Cardinality(Creators') \in Nat
  BY PlanFinite, FS_Subset, FS_CardinalityType DEF LimitInv
<1>4. Guarded' = Guarded
  BY DEF Guarded
<1> QED BY <1>1, <1>2, <1>3, <1>4, PlanFinite DEF LimitInv, Bounded

\* When the guard counts, every row that is not counted but may come back is
\* held by a request of its own.
LEMMA GuardCounts ==
  ASSUME TypeOK, NEW h \in Handlers, handler[h] = Idle, Cardinality(Counted) < Limit
  PROVE  Cardinality(Countable) + Cardinality(Creators) <= Limit + Cardinality(Handlers) - 2
<1> DEFINE f == [g \in Changers |-> handler[g].id]
           Held == {f[g] : g \in Changers}
<1>1. Changers \subseteq Handlers \ {h} /\ Creators \subseteq Handlers \ {h}
      /\ Changers \cap Creators = {}
  BY DEF Changers, Creators
<1>2. IsFiniteSet(Handlers \ {h}) /\ Cardinality(Handlers \ {h}) = Cardinality(Handlers) - 1
  BY FS_RemoveElement, BackOfficeAssumption
<1>3. IsFiniteSet(Changers) /\ IsFiniteSet(Creators)
  BY <1>1, <1>2, FS_Subset
<1>4. Cardinality(Changers) + Cardinality(Creators) <= Cardinality(Handlers) - 1
  <2>1. IsFiniteSet(Changers \cup Creators)
        /\ Cardinality(Changers \cup Creators) =
             Cardinality(Changers) + Cardinality(Creators) - Cardinality({})
    BY <1>1, <1>3, FS_Union
  <2>2. Cardinality(Changers \cup Creators) <= Cardinality(Handlers \ {h})
    BY <1>1, <1>2, FS_Subset
  <2> QED BY <1>2, <1>3, <2>1, <2>2, FS_EmptySet, FS_CardinalityType, PlanFinite
<1>5. f \in Surjection(Changers, Held)
  BY DEF Surjection
<1> HIDE DEF f
<1>6. IsFiniteSet(Held) /\ Cardinality(Held) <= Cardinality(Changers)
  BY <1>3, <1>5, FS_Surjection
<1>7. Countable \subseteq Counted \cup Held
  BY DEF Countable, Counted, InPlan, Visible, f
<1> HIDE DEF Held
<1>8. IsFiniteSet(Counted \cup Held)
      /\ Cardinality(Counted \cup Held) <= Cardinality(Counted) + Cardinality(Held)
  <2>1. IsFiniteSet(Counted \cup Held)
        /\ Cardinality(Counted \cup Held) =
             Cardinality(Counted) + Cardinality(Held) - Cardinality(Counted \cap Held)
    BY <1>6, PlanFinite, FS_Union
  <2>2. Cardinality(Counted \cap Held) \in Nat
    BY <1>6, FS_Intersection, FS_CardinalityType
  <2> QED BY <1>6, <2>1, <2>2, PlanFinite, FS_CardinalityType
<1>9. Cardinality(Countable) <= Cardinality(Counted \cup Held)
  BY <1>7, <1>8, FS_Subset
<1> QED BY <1>3, <1>4, <1>6, <1>8, <1>9, PlanFinite, FS_CardinalityType

LEMMA CreateLimit ==
  ASSUME LimitInv, NEW h \in Handlers, NEW q, Begins(h, q), Creates(q)
  PROVE  Bounded'
<1> SUFFICES ASSUME Guarded, Limit > 0
             PROVE  Cardinality(Countable') + Cardinality(Creators') <=
                      Limit + Cardinality(Handlers) - 1
  BY DEF Bounded, Guarded, Begins
<1>1. Cardinality(Countable) + Cardinality(Creators) <= Limit + Cardinality(Handlers) - 2
  <2>1. Cardinality(Counted) < Limit
    BY PlanFinite DEF Creates, Allowed, LimitInv
  <2> QED BY <2>1, GuardCounts DEF LimitInv, Begins
<1>2. \A g \in Handlers : handler'[g] = IF g = h THEN q ELSE handler[g]
  BY DEF Begins, LimitInv, TypeOK
<1>3. Changers' = Changers
  BY <1>2 DEF Changers, Creates, Begins
<1>4. Countable' = Countable
  <2>1. \A g \in Changers : handler'[g] = handler[g]
    BY <1>2 DEF Changers, Begins
  <2>2. table' = table /\ rows' = rows
    BY DEF Begins
  <2> QED BY <1>3, <2>1, <2>2 DEF Countable, InPlan
<1>5. Creators' = Creators \cup {h}
  BY <1>2, WorkingIsBusy DEF Creators, Creates, Begins
<1>6. Cardinality(Creators') <= Cardinality(Creators) + 1 /\ Cardinality(Creators') \in Nat
  <2>1. IsFiniteSet(Creators) /\ Cardinality(Creators) \in Nat
    BY PlanFinite DEF LimitInv
  <2>2. Cardinality(Creators \cup {h}) =
          IF h \in Creators THEN Cardinality(Creators) ELSE Cardinality(Creators) + 1
    BY <2>1, FS_AddElement
  <2> QED BY <1>5, <2>1, <2>2
<1> QED BY <1>1, <1>4, <1>6, PlanFinite DEF LimitInv

LEMMA ChangeLimit ==
  ASSUME LimitInv, NEW h \in Handlers, NEW q, Begins(h, q), Changes(q)
  PROVE  Bounded'
<1> USE DEF LimitInv
<1>1. \A g \in Handlers : handler'[g] = IF g = h THEN q ELSE handler[g]
  BY DEF Begins, TypeOK
<1>2. Creators' \subseteq Creators
  BY <1>1 DEF Creators, Changes, Begins
<1>3. InPlan(q.copy) => InPlan(rows[q.id])
  BY DEF Changes, InPlan
<1>4. Countable' \subseteq Countable
  <2> SUFFICES ASSUME NEW i \in DOMAIN rows, NEW g \in Changers',
                      handler'[g].id = i, InPlan(handler'[g].copy)
               PROVE  i \in Countable
    BY DEF Countable, InPlan, Begins
  <2>1. CASE g = h
    BY <1>1, <1>3, <2>1 DEF Changers, Countable
  <2>2. CASE g # h
    BY <1>1, <2>2 DEF Changers, Countable
  <2> QED BY <2>1, <2>2
<1> QED BY <1>2, <1>4, NothingAdded DEF Begins

LEMMA PassLimit ==
  ASSUME LimitInv, NEW h \in Handlers, NEW q, Passes(h, q)
  PROVE  Bounded'
<1> USE DEF LimitInv
<1>1. \A g \in Handlers : handler'[g] = IF g = h THEN q ELSE handler[g]
  BY DEF Passes, TypeOK
<1>2. /\ handler[h] # Idle /\ q # Idle /\ q.op = handler[h].op /\ q.id = handler[h].id
      /\ q.copy = handler[h].copy /\ table' = table /\ rows' = rows
  BY WorkingIsBusy DEF Passes
<1>3. Creators' \subseteq Creators /\ Changers' \subseteq Changers
  BY <1>1, <1>2 DEF Creators, Changers
<1>4. \A g \in Handlers : handler'[g].id = handler[g].id /\ handler'[g].copy = handler[g].copy
  BY <1>1, <1>2
<1>5. Countable' \subseteq Countable
  BY <1>2, <1>3, <1>4 DEF Countable, InPlan, Changers
<1> QED BY <1>2, <1>3, <1>5, NothingAdded

\* A request ends: it creates nothing any more and holds no row.
LEMMA DoneSets ==
  ASSUME TypeOK, NEW h \in Handlers, Done(h)
  PROVE  /\ Creators' = Creators \ {h} /\ Changers' = Changers \ {h}
         /\ \A g \in Changers' : handler'[g] = handler[g]
<1>1. \A g \in Handlers : handler'[g] = IF g = h THEN Idle ELSE handler[g]
  BY DEF Done, TypeOK
<1> QED BY <1>1 DEF Creators, Changers

LEMMA EndLimit ==
  ASSUME LimitInv, NEW h \in Handlers, Ends(h)
  PROVE  Bounded'
<1> USE DEF LimitInv
<1>1. Countable' \subseteq Countable
  BY DoneSets DEF Countable, InPlan, Ends
<1> QED BY <1>1, DoneSets, NothingAdded DEF Ends

LEMMA WriteLimit ==
  ASSUME LimitInv, NEW h \in Handlers, Writes(h)
  PROVE  Bounded'
<1> USE DEF LimitInv
<1>1. h \in Changers
  BY WorkingIsBusy DEF Writes, Changers
<1>2. \A i \in DOMAIN rows' :
        /\ i \in DOMAIN rows
        /\ \/ rows'[i] = rows[i]
           \/ i = handler[h].id /\ rows'[i] = handler[h].copy
  BY DEF Writes, TypeOK
<1>3. table' = table /\ Changers' \subseteq Changers /\ Creators' \subseteq Creators
      /\ \A g \in Changers' : handler'[g] = handler[g]
  BY DoneSets DEF Writes
<1>4. Countable' \subseteq Countable
  BY <1>1, <1>2, <1>3 DEF Countable, InPlan
<1> QED BY <1>3, <1>4, NothingAdded

LEMMA AppendLimit ==
  ASSUME LimitInv, NEW h \in Handlers, Appends(h)
  PROVE  Bounded'
<1> USE DEF LimitInv
<1> DEFINE n == Len(rows) + 1
<1>1. h \in Creators
  BY WorkingIsBusy DEF Appends, Creators
<1>2. \A i \in DOMAIN rows' : i = n \/ (i \in DOMAIN rows /\ rows'[i] = rows[i])
  BY DEF Appends, TypeOK, Working
<1>3. table' = table /\ Changers' \subseteq Changers /\ Creators' = Creators \ {h}
      /\ \A g \in Changers' : handler'[g] = handler[g]
  BY DoneSets DEF Appends
<1>4. Countable' \subseteq Countable \cup {n}
  BY <1>2, <1>3 DEF Countable, InPlan
<1>5. IsFiniteSet(Countable \cup {n})
      /\ Cardinality(Countable \cup {n}) <= Cardinality(Countable) + 1
  <2>1. IsFiniteSet(Countable) /\ Cardinality(Countable) \in Nat
    BY PlanFinite
  <2>2. /\ IsFiniteSet(Countable \cup {n})
        /\ Cardinality(Countable \cup {n}) =
             IF n \in Countable THEN Cardinality(Countable) ELSE Cardinality(Countable) + 1
    BY <2>1, FS_AddElement
  <2> QED BY <2>1, <2>2
<1>6. Cardinality(Countable') <= Cardinality(Countable) + 1 /\ Cardinality(Countable') \in Nat
  <2>1. Cardinality(Countable') <= Cardinality(Countable \cup {n}) /\ IsFiniteSet(Countable')
    BY <1>4, <1>5, FS_Subset
  <2> QED BY <1>5, <2>1, PlanFinite, FS_CardinalityType
<1>7. Cardinality(Creators') = Cardinality(Creators) - 1
  BY <1>1, <1>3, PlanFinite, FS_RemoveElement
<1>8. Guarded' = Guarded
  BY <1>3 DEF Guarded
<1> QED BY <1>6, <1>7, <1>8, PlanFinite DEF Bounded

LEMMA MonthLimit ==
  ASSUME LimitInv, NewMonth
  PROVE  Bounded'
<1> USE DEF LimitInv
<1>1. table = "bookings" /\ table' = table /\ DOMAIN rows' = DOMAIN rows
      /\ \A i \in DOMAIN rows : ~rows'[i].recent
  BY MonthRows
<1>2. \A g \in Changers' : ~handler'[g].copy.recent
  BY MonthRows DEF Changers
<1>3. Countable' = {}
  BY <1>1, <1>2 DEF Countable, InPlan
<1>4. Creators' \subseteq Creators
  BY MonthRows DEF Creators
<1> QED BY <1>1, <1>3, <1>4, NothingAdded

LEMMA NextLimit == LimitInv /\ [Next]_vars => LimitInv'
<1> SUFFICES ASSUME LimitInv, [Next]_vars PROVE Bounded'
  BY NextTypeOK DEF LimitInv
<1>1. ASSUME NEW h \in Handlers, Moves(h) PROVE Bounded'
  BY <1>1, CreateLimit, ChangeLimit, PassLimit, EndLimit, WriteLimit, AppendLimit DEF Moves
<1>2. CASE CheckoutCompleted
  BY <1>2, CheckoutRows DEF LimitInv, Bounded, Guarded
<1>3. CASE UNCHANGED vars
  BY <1>3 DEF vars, LimitInv, Bounded, Guarded, Countable, Creators, Changers, InPlan
<1> QED BY <1>1, <1>2, <1>3, MonthLimit, Steps DEF LimitInv

\* A tenant never has more rows than its limit and the number of the other
\* requests that run at once: for any limit and any number of requests.
THEOREM LimitCorrect == Spec => []OvershootBounded
<1>1. Init => LimitInv
  <2>1. Init => Countable = {} /\ Creators = {}
    BY DEF Init, Countable, Creators
  <2> QED BY <2>1, InitTypeOK, FS_EmptySet, PlanFinite DEF LimitInv, Bounded
<1>2. LimitInv => OvershootBounded
  <2> SUFFICES ASSUME LimitInv PROVE Cardinality(Counted) <= Cardinality(Countable)
    BY PlanFinite DEF LimitInv, Bounded, OvershootBounded
  <2>1. Counted \subseteq Countable
    BY DEF Counted, Countable, InPlan, Visible
  <2> QED BY <2>1, PlanFinite, FS_Subset DEF LimitInv
<1> QED BY <1>1, <1>2, NextLimit, PTL DEF Spec

=============================================================================
