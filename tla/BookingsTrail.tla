---------------------------- MODULE BookingsTrail ----------------------------
(***************************************************************************)
(* What is recorded and told about bookings, for any number of handlers,   *)
(* bookings, services and users: the audit log accounts for the rows, and  *)
(* the notices and the events tell what the rows say.                      *)
(***************************************************************************)
EXTENDS BookingsProofs

\* b's log has the action, with the status, by one of these users, or is about
\* to, or a request ended between a save of b and its entry.
Accounted(b, action, status, who) ==
  b \in unlogged \/ Logged(b, action, status, who)

\* The log accounts for a status of booking b, whose owner is o.
StatusAccounted(b, st, o) ==
  /\ st \in {"CONFIRMED", "COMPLETED", "NO_SHOW"}
       => Accounted(b, "UPDATE", st, Admins)
  /\ st = "CANCELLED" => Accounted(b, "UPDATE", "CANCELLED", Admins \cup {o})

RowAccounted(b, r) ==
  /\ Accounted(b, "CREATE", "PENDING", {r.owner})
  /\ StatusAccounted(b, r.status, r.owner)
  /\ r.deleted => Accounted(b, "DELETE", NONE, Admins)

RowsAccounted ==
  \A b \in BookingIds : bookings[b] # NONE => RowAccounted(b, bookings[b])

\* What a request may have changed in its copy, and on whose behalf: the
\* checks made when it began.  A request keeps these for as long as it runs.
Entitled(w) ==
  /\ w.op = "create" => /\ w.user = w.row.owner
                        /\ w.row.status = "PENDING"
                        /\ w.asked = "PENDING"
                        /\ ~w.row.deleted
  /\ w.op = "update" => /\ ~w.row.deleted
                        /\ \/ w.row.status = w.was
                           \/ w.user \in Admins /\ w.row.status = w.asked
  /\ w.op = "cancel" => /\ ~w.row.deleted
                        /\ w.row.status = "CANCELLED"
                        /\ w.asked = "CANCELLED"
                        /\ w.user \in Admins \cup {w.row.owner}
  /\ w.op = "remove" => /\ w.user \in Admins
                        /\ w.asked = NONE
                        /\ w.row.status = w.was
                        /\ w.row.deleted
                        /\ w.step \in {"save", "audit"}

\* A copy's status may be stale, but the log accounts for it all the same:
\* this is why races cannot break the trail.
CopiesAccounted ==
  \A h \in Handlers : handler[h] # Idle =>
    /\ Entitled(handler[h])
    /\ handler[h].op # "create" =>
         StatusAccounted(handler[h].id, handler[h].was, handler[h].row.owner)

\* The background tasks confirm nothing.
NoTaskConfirms == \A t \in tasks : t.kind # "CONFIRMED"

ConfirmationsAccounted ==
  \A n \in notices :
    n.kind = "CONFIRMED" => Accounted(n.id, "UPDATE", "CONFIRMED", Admins)

Trail ==
  /\ Typed
  /\ CopiesAccounted
  /\ RowsAccounted
  /\ NoTaskConfirms
  /\ ConfirmationsAccounted

-----------------------------------------------------------------------------
\* Two stages of the same request.
Same(w, x) == /\ x.op = w.op /\ x.user = w.user /\ x.row = w.row
              /\ x.was = w.was /\ x.asked = w.asked /\ x.joined = w.joined

\* A handler's step moves its own request on, or ends it.
LEMMA Moves ==
  ASSUME Typed, NEW h \in Handlers, Proceed(h)
  PROVE  /\ handler[h] \in Work /\ handler[h] # Idle
         /\ \A g \in Handlers \ {h} : handler'[g] = handler[g]
         /\ \/ handler'[h] = Idle
            \/ /\ handler'[h] \in Work /\ Same(handler[h], handler'[h])
               /\ handler'[h].step # "check"
               /\ handler'[h].id = handler[h].id \/ Insert(h)
<1> USE DEF At
<1>1. handler[h] \in Work /\ handler[h] # Idle
  BY Busy DEF Typed, Proceed, CheckSlot, Insert, Overwrite, WriteAudit,
              NotifyOwner, Reload, Emit, Fail
<1>2. handler \in [Handlers -> Work \cup {Idle}]
  BY DEF Typed, TypeOK
<1>3. ASSUME NEW st \in {"save", "audit", "notify", "load", "emit"}, Goto(h, st)
      PROVE  /\ \A g \in Handlers \ {h} : handler'[g] = handler[g]
             /\ handler'[h] \in Work /\ Same(handler[h], handler'[h])
             /\ handler'[h].step # "check"
             /\ handler'[h].id = handler[h].id
  <2>1. handler' = [handler EXCEPT ![h] = [handler[h] EXCEPT !.step = st]]
    BY <1>3 DEF Goto
  <2>2. handler'[h] = [handler[h] EXCEPT !.step = st]
    BY <1>2, <2>1
  <2>3. \A g \in Handlers \ {h} : handler'[g] = handler[g]
    BY <1>2, <2>1
  <2> QED BY <1>1, <2>2, <2>3 DEF Work, Same
<1>4. ASSUME Finish(h)
      PROVE  /\ \A g \in Handlers \ {h} : handler'[g] = handler[g]
             /\ handler'[h] = Idle
  BY <1>2, <1>4 DEF Finish
<1>5. CASE CheckSlot(h)
  <2>1. Goto(h, "save") \/ Finish(h)
    BY <1>5 DEF CheckSlot
  <2> QED BY <1>1, <1>3, <1>4, <2>1
<1>6. CASE Insert(h)
  <2>1. PICK b \in BookingIds :
          handler' = [handler EXCEPT ![h].step = "audit", ![h].id = b]
    BY <1>6 DEF Insert
  <2>2. handler'[h] = [handler[h] EXCEPT !.step = "audit", !.id = b]
    BY <1>2, <2>1
  <2>3. \A g \in Handlers \ {h} : handler'[g] = handler[g]
    BY <1>2, <2>1
  <2> QED BY <1>1, <1>6, <2>2, <2>3 DEF Work, Same
<1>7. CASE Overwrite(h)
  <2>1. Goto(h, "notify") \/ Goto(h, "audit")
    BY <1>7 DEF Overwrite
  <2> QED BY <1>1, <1>3, <2>1
<1>8. CASE WriteAudit(h)
  <2>1. Goto(h, "load") \/ Goto(h, "notify") \/ Finish(h)
    BY <1>8 DEF WriteAudit
  <2> QED BY <1>1, <1>3, <1>4, <2>1
<1>9. CASE NotifyOwner(h)
  <2>1. Goto(h, "load") \/ Goto(h, "audit") \/ Goto(h, "emit")
    BY <1>9 DEF NotifyOwner
  <2> QED BY <1>1, <1>3, <2>1
<1>10. CASE Reload(h)
  <2> DEFINE seen == IF Visible(handler[h].id)
                     THEN bookings[handler[h].id].status ELSE NONE
  <2>1. handler' = [handler EXCEPT ![h].step = "emit", ![h].seen = seen]
    BY <1>10 DEF Reload
  <2> HIDE DEF seen
  <2>2. handler'[h] = [handler[h] EXCEPT !.step = "emit", !.seen = seen]
    BY <1>2, <2>1
  <2>3. \A g \in Handlers \ {h} : handler'[g] = handler[g]
    BY <1>2, <2>1
  <2>4. handler'[h] # Idle
    BY <1>1, <2>2 DEF Work, Idle
  <2>5. handler'[h] \in Work
    BY <1>10, <2>4, ReloadTyped DEF Typed, TypeOK
  <2> QED BY <1>1, <2>2, <2>3, <2>5 DEF Work, Same
<1>11. CASE Emit(h) \/ Fail(h)
  <2>1. Finish(h)
    BY <1>11 DEF Emit, Fail
  <2> QED BY <1>1, <1>4, <2>1
<1> QED BY <1>5, <1>6, <1>7, <1>8, <1>9, <1>10, <1>11 DEF Proceed

\* Steps that are no handler's leave the handlers alone.
Around ==
  \/ \E t \in tasks : NotifyAdmins(t)
  \/ \E s \in EditedServices : UpdateService(s) \/ RemoveService(s)
  \/ \E u \in RemovedUsers : RemoveUser(u) \/ RestoreUser(u)
  \/ Tick
  \/ UNCHANGED vars

LEMMA Steps ==
  ASSUME [Next]_vars
  PROVE  Around \/ \E h \in Handlers : Arrive(h) \/ Proceed(h)
BY DEF Next, Around

LEMMA AroundHandlers ==
  ASSUME Around
  PROVE  UNCHANGED <<bookings, handler, audit, shown, raced>>
BY DEF Around, NotifyAdmins, UpdateService, RemoveService, RemoveUser,
       RestoreUser, Tick, vars, effects, history

\* The log and the failures only grow.
LEMMA LogGrows ==
  ASSUME [Next]_vars
  PROVE  /\ audit \subseteq audit' /\ unlogged \subseteq unlogged'
         /\ faulty \subseteq faulty'
<1>1. ASSUME NEW h \in Handlers, Arrive(h)
      PROVE  /\ audit \subseteq audit' /\ unlogged \subseteq unlogged'
             /\ faulty \subseteq faulty'
  BY <1>1, ArriveBegins DEF Begin, effects
<1>2. ASSUME NEW h \in Handlers, Proceed(h)
      PROVE  /\ audit \subseteq audit' /\ unlogged \subseteq unlogged'
             /\ faulty \subseteq faulty'
  BY <1>2 DEF Proceed, CheckSlot, Insert, Overwrite, WriteAudit, NotifyOwner,
              Reload, Emit, Fail, effects, history
<1>3. CASE Around
  BY <1>3 DEF Around, NotifyAdmins, UpdateService, RemoveService, RemoveUser,
              RestoreUser, Tick, vars, effects, history
<1> QED BY <1>1, <1>2, <1>3, Steps

\* A handler that owes b an entry still owes it after a step of its own,
\* unless it wrote the entry or failed.
LEMMA DebtStays ==
  ASSUME Typed, NEW h \in Handlers, Proceed(h), NEW b \in BookingIds,
         Owes(h, b)
  PROVE  \/ Owes(h, b)'
         \/ b \in unlogged'
         \/ [action |-> AuditAction(handler[h].op), id |-> b,
             status |-> handler[h].asked, user |-> handler[h].user] \in audit'
<1>1. /\ handler[h].id = b
      /\ \/ handler[h].step = "audit"
         \/ /\ handler[h].step = "notify"
            /\ handler[h].op = "update"
  BY DEF Owes, Unlogged, At
<1>2. CASE WriteAudit(h)
  BY <1>1, <1>2 DEF WriteAudit
<1>3. CASE Fail(h)
  BY <1>1, <1>3 DEF Fail, Unlogged, At
<1>4. CASE NotifyOwner(h)
  <2>1. Goto(h, "audit")
    BY <1>1, <1>4 DEF NotifyOwner, At
  <2>2. handler \in [Handlers -> Work \cup {Idle}] /\ handler[h] \in Work
    BY <1>1, Busy DEF Typed, TypeOK
  <2>3. handler'[h] = [handler[h] EXCEPT !.step = "audit"]
    BY <2>1, <2>2 DEF Goto
  <2> QED BY <1>1, <2>2, <2>3 DEF Owes, Unlogged, At, Work
<1> QED BY <1>1, <1>2, <1>3, <1>4
    DEF Proceed, CheckSlot, Insert, Overwrite, Reload, Emit, At

\* What the log accounts for it accounts for ever.
LEMMA AccountedStays ==
  ASSUME Typed, [Next]_vars, NEW b \in BookingIds, NEW action,
         NEW status, NEW who, Accounted(b, action, status, who)
  PROVE  Accounted(b, action, status, who)'
<1>1. /\ audit \subseteq audit' /\ unlogged \subseteq unlogged'
      /\ faulty \subseteq faulty'
  BY LogGrows
<1>2. CASE b \in unlogged \/ \E e \in audit :
             /\ e.id = b /\ e.action = action /\ e.status = status
             /\ e.user \in who
  BY <1>1, <1>2 DEF Accounted, Logged
<1>3. ASSUME NEW h \in Handlers, Owes(h, b),
             AuditAction(handler[h].op) = action,
             handler[h].asked = status, handler[h].user \in who
      PROVE  Accounted(b, action, status, who)'
  <2>1. CASE handler'[h] = handler[h]
    BY <1>3, <2>1 DEF Accounted, Logged, Owes, Unlogged, At
  <2>2. CASE handler'[h] # handler[h]
    <3>1. PICK g \in Handlers : Arrive(g) \/ Proceed(g)
      BY <2>2, Steps, AroundHandlers
    <3>2. CASE Arrive(g)
      <4>1. PICK w : Begin(g, w)
        BY <3>2, ArriveBegins
      <4>2. g # h
        BY <1>3, <4>1 DEF Begin, Owes, Unlogged, At, Idle
      <4> QED BY <2>2, <4>1, <4>2 DEF Begin, Typed, TypeOK
    <3>3. CASE Proceed(g)
      <4>1. g = h
        BY <2>2, <3>3, Moves
      <4>2. \/ Owes(h, b)'
            \/ b \in unlogged'
            \/ [action |-> action, id |-> b, status |-> status,
                user |-> handler[h].user] \in audit'
        BY <1>3, <3>3, <4>1, DebtStays
      <4>3. ASSUME Owes(h, b)' PROVE Logged(b, action, status, who)'
        <5>1. Same(handler[h], handler'[h])
          BY <3>3, <4>1, <4>3, Moves DEF Owes, Unlogged, At, Idle
        <5> QED BY <1>3, <4>3, <5>1 DEF Logged, Same
      <4>4. ASSUME [action |-> action, id |-> b, status |-> status,
                    user |-> handler[h].user] \in audit'
            PROVE  Logged(b, action, status, who)'
        BY <1>3, <4>4 DEF Logged
      <4> QED BY <4>2, <4>3, <4>4 DEF Accounted
    <3> QED BY <3>1, <3>2, <3>3
  <2> QED BY <2>1, <2>2
<1> QED BY <1>2, <1>3 DEF Accounted, Logged

LEMMA StatusStays ==
  ASSUME Typed, [Next]_vars, NEW b \in BookingIds, NEW st, NEW o,
         StatusAccounted(b, st, o)
  PROVE  StatusAccounted(b, st, o)'
<1>1. ASSUME NEW s, NEW who, Accounted(b, "UPDATE", s, who)
      PROVE  Accounted(b, "UPDATE", s, who)'
  BY <1>1, AccountedStays
<1> QED BY <1>1 DEF StatusAccounted

\* The copy a request loads of a booking says what the row says.
Loaded(w) ==
  w.op # "create" =>
    /\ w.id \in BookingIds /\ bookings[w.id] # NONE
    /\ w.was = bookings[w.id].status
    /\ w.row.owner = bookings[w.id].owner

\* Every request that begins has passed the checks of its operation.
LEMMA ArriveEntitled ==
  ASSUME Typed, NEW h \in Handlers, Arrive(h)
  PROVE  \E w : /\ Begin(h, w) /\ Entitled(w) /\ Loaded(w)
                /\ w.step \in {"check", "save"}
<1>1. CASE \E u \in Users, s \in Services, t \in Times : CreateLoad(h, u, s, t)
  <2>1. PICK w : /\ Begin(h, w) /\ w.op = "create" /\ w.step = "check"
                 /\ w.row.status = "PENDING" /\ ~w.row.deleted
                 /\ w.user = w.row.owner /\ w.asked = "PENDING"
    BY <1>1 DEF CreateLoad
  <2> QED BY <2>1 DEF Entitled, Loaded
<1>2. CASE \E u \in Users, b \in BookingIds, t \in Times \cup {NONE},
              st \in AskedStatuses \cup {NONE} : UpdateLoad(h, u, b, t, st)
  <2>1. PICK u \in Users, b \in BookingIds, t \in Times \cup {NONE},
             st \in AskedStatuses \cup {NONE} : UpdateLoad(h, u, b, t, st)
    BY <1>2
  <2> DEFINE service == services[bookings[b].service]
             moved == IF t = NONE THEN bookings[b]
                      ELSE [bookings[b] EXCEPT !.start = t,
                                               !.end = t + service.duration]
             r == IF Granted(u, st) THEN [moved EXCEPT !.status = st]
                  ELSE moved
             w == [op |-> "update",
                   step |-> IF t = NONE THEN "save" ELSE "check",
                   user |-> u, id |-> b, row |-> r,
                   was |-> bookings[b].status, asked |-> st,
                   joined |-> ~service.deleted, seen |-> NONE]
  <2>2. Begin(h, w)
    BY <2>1 DEF UpdateLoad
  <2>3. bookings[b] \in Row /\ bookings[b] # NONE /\ ~bookings[b].deleted
    BY <2>1, VisibleRow DEF UpdateLoad, Visible, Typed
  <2>4. /\ ~moved.deleted /\ moved.status = bookings[b].status
        /\ moved.owner = bookings[b].owner
        /\ moved \in [owner : Users, service : Services, start : {moved.start},
                      end : {moved.end}, status : Status, deleted : BOOLEAN]
    BY <2>3 DEF Row
  <2>5. /\ ~r.deleted /\ r.owner = bookings[b].owner
        /\ r.status = bookings[b].status \/ (u \in Admins /\ r.status = st)
    <3> HIDE DEF moved
    <3> QED BY <2>4 DEF Granted
  <2> HIDE DEF r, service
  <2> QED BY <2>2, <2>3, <2>5 DEF Entitled, Loaded
<1>3. CASE \E u \in Users, b \in BookingIds : CancelLoad(h, u, b)
  <2>1. PICK u \in Users, b \in BookingIds : CancelLoad(h, u, b)
    BY <1>3
  <2> DEFINE r == [bookings[b] EXCEPT !.status = "CANCELLED"]
             w == [op |-> "cancel", step |-> "save", user |-> u, id |-> b,
                   row |-> r, was |-> bookings[b].status,
                   asked |-> "CANCELLED",
                   joined |-> /\ ~services[bookings[b].service].deleted
                              /\ Found(bookings[b].owner),
                   seen |-> NONE]
  <2>2. Begin(h, w)
    BY <2>1 DEF CancelLoad
  <2>3. bookings[b] \in Row /\ bookings[b] # NONE /\ ~bookings[b].deleted
    BY <2>1, VisibleRow DEF CancelLoad, Visible, Typed
  <2>4. ~r.deleted /\ r.status = "CANCELLED" /\ r.owner = bookings[b].owner
    BY <2>3 DEF Row
  <2>5. u \in Admins \cup {r.owner}
    BY <2>1, <2>4 DEF CancelLoad, MayTouch
  <2> HIDE DEF r
  <2> QED BY <2>2, <2>3, <2>4, <2>5 DEF Entitled, Loaded
<1>4. CASE \E u \in Users, b \in BookingIds : RemoveLoad(h, u, b)
  <2>1. PICK u \in Users, b \in BookingIds : RemoveLoad(h, u, b)
    BY <1>4
  <2> DEFINE r == [bookings[b] EXCEPT !.deleted = TRUE]
             w == [op |-> "remove", step |-> "save", user |-> u, id |-> b,
                   row |-> r, was |-> bookings[b].status, asked |-> NONE,
                   joined |-> FALSE, seen |-> NONE]
  <2>2. Begin(h, w) /\ u \in Admins
    BY <2>1 DEF RemoveLoad
  <2>3. bookings[b] \in Row /\ bookings[b] # NONE
    BY <2>1, VisibleRow DEF RemoveLoad, Typed
  <2>4. r.deleted /\ r.status = bookings[b].status /\ r.owner = bookings[b].owner
    BY <2>3 DEF Row
  <2> HIDE DEF r
  <2> QED BY <2>2, <2>3, <2>4 DEF Entitled, Loaded
<1> QED BY <1>1, <1>2, <1>3, <1>4 DEF Arrive

\* A remove is over once it is logged, so it never gets to tell anybody.
LEMMA EntitledStays ==
  ASSUME Typed, NEW h \in Handlers, Proceed(h), Entitled(handler[h]),
         handler'[h] # Idle
  PROVE  Entitled(handler'[h])
<1>1. Same(handler[h], handler'[h]) /\ handler[h] \in Work
  BY Moves
<1>2. CASE handler[h].op = "remove"
  <2>1. handler[h].step \in {"save", "audit"}
    BY <1>2 DEF Entitled
  <2>2. Overwrite(h) \/ WriteAudit(h) \/ Fail(h)
    BY <1>2, <2>1 DEF Proceed, CheckSlot, Insert, NotifyOwner, Reload, Emit, At
  <2>3. ~Finish(h)
    BY DEF Finish, Typed, TypeOK
  <2>4. Overwrite(h)
    BY <1>2, <2>2, <2>3 DEF WriteAudit, Fail
  <2>5. Goto(h, "audit")
    BY <1>2, <2>4 DEF Overwrite
  <2>6. handler'[h].step = "audit"
    <3>1. handler'[h] = [handler[h] EXCEPT !.step = "audit"]
      BY <2>5 DEF Goto, Typed, TypeOK
    <3> QED BY <1>1, <3>1 DEF Work
  <2> QED BY <1>1, <1>2, <2>6 DEF Entitled, Same
<1>3. CASE handler[h].op # "remove"
  BY <1>1, <1>3 DEF Entitled, Same
<1> QED BY <1>2, <1>3

LEMMA CopiesNext ==
  ASSUME Trail, [Next]_vars
  PROVE  CopiesAccounted'
<1> SUFFICES ASSUME NEW g \in Handlers, handler'[g] # Idle
             PROVE  /\ Entitled(handler'[g])
                    /\ handler'[g].op # "create" =>
                         StatusAccounted(handler[g].id, handler[g].was,
                                         handler[g].row.owner)'
  BY DEF CopiesAccounted, Entitled
<1>1. Typed
  BY DEF Trail
<1>2. CASE handler'[g] = handler[g]
  <2>1. Entitled(handler[g])
    BY <1>2 DEF Trail, CopiesAccounted
  <2>2. ASSUME handler[g].op # "create"
        PROVE  StatusAccounted(handler[g].id, handler[g].was,
                               handler[g].row.owner)'
    <3>1. PICK b, st, o : /\ b \in BookingIds /\ b = handler[g].id
                          /\ st = handler[g].was /\ o = handler[g].row.owner
      BY <1>1, <1>2, <2>2 DEF Typed, HandlersOK, OnRow
    <3>2. StatusAccounted(b, st, o)
      BY <1>2, <2>2, <3>1 DEF Trail, CopiesAccounted
    <3>3. StatusAccounted(b, st, o)'
      BY <1>1, <3>1, <3>2, StatusStays
    <3> QED BY <1>2, <3>1, <3>3
  <2> QED BY <1>2, <2>1, <2>2
<1>3. CASE handler'[g] # handler[g]
  <2>1. PICK h \in Handlers : Arrive(h) \/ Proceed(h)
    BY <1>3, Steps, AroundHandlers
  <2>2. CASE Arrive(h)
    <3>1. PICK w : Begin(h, w) /\ Entitled(w) /\ Loaded(w)
      BY <1>1, <2>2, ArriveEntitled
    <3>2. g = h /\ handler'[g] = w
      BY <1>1, <1>3, <3>1 DEF Begin, Typed, TypeOK
    <3>3. ASSUME w.op # "create" PROVE StatusAccounted(w.id, w.was, w.row.owner)'
      <4>1. w.id \in BookingIds /\ StatusAccounted(w.id, w.was, w.row.owner)
        BY <3>1, <3>3 DEF Loaded, Trail, RowsAccounted, RowAccounted
      <4> QED BY <1>1, <4>1, StatusStays
    <3> QED BY <3>1, <3>2, <3>3
  <2>3. CASE Proceed(h)
    <3>1. g = h
      BY <1>1, <1>3, <2>3, Moves
    <3>2. Entitled(handler[h]) /\ Same(handler[h], handler'[h])
          /\ (handler'[h].id = handler[h].id \/ Insert(h))
      BY <1>1, <2>3, <3>1, Moves DEF Trail, CopiesAccounted
    <3>3. ASSUME handler'[h].op # "create"
          PROVE  StatusAccounted(handler[h].id, handler[h].was,
                                 handler[h].row.owner)'
      <4>1. handler[h] # Idle /\ handler[h].op # "create"
            /\ handler'[h].id = handler[h].id
        BY <1>1, <2>3, <3>2, <3>3, Moves DEF Same, Insert
      <4>2. PICK b, st, o : /\ b \in BookingIds /\ b = handler[h].id
                            /\ st = handler[h].was /\ o = handler[h].row.owner
        BY <1>1, <4>1 DEF Typed, HandlersOK, OnRow
      <4>3. StatusAccounted(b, st, o)
        BY <4>1, <4>2 DEF Trail, CopiesAccounted
      <4>4. StatusAccounted(b, st, o)'
        BY <1>1, <4>2, <4>3, StatusStays
      <4> QED BY <3>2, <4>1, <4>2, <4>4 DEF Same
    <3> QED BY <1>1, <2>3, <3>1, <3>2, <3>3, EntitledStays
  <2> QED BY <2>1, <2>2, <2>3
<1> QED BY <1>2, <1>3

\* A step that writes row r to b owes the entry that accounts for what it
\* changed.
LEMMA WriteAccounted ==
  ASSUME Trail, [Next]_vars, NEW h \in Handlers, NEW b \in BookingIds, NEW r,
         Insert(h) \/ Overwrite(h),
         bookings' = [bookings EXCEPT ![b] = handler[h].row],
         handler'[h].id = b, r = handler[h].row
  PROVE  RowAccounted(b, r)'
<1>1. Typed /\ handler[h] \in Work /\ handler[h] # Idle /\ Entitled(handler[h])
  BY Moves DEF Trail, CopiesAccounted, Proceed
<1>2. handler \in [Handlers -> Work \cup {Idle}]
  BY <1>1 DEF Typed, TypeOK
<1>3. PICK op, u, was, asked :
        /\ op = handler[h].op /\ u = handler[h].user
        /\ was = handler[h].was /\ asked = handler[h].asked
  OBVIOUS
<1>4. /\ Owes(h, b)' /\ handler'[h].op = op
      /\ handler'[h].user = u /\ handler'[h].asked = asked
  <2>1. CASE Insert(h)
    <3>1. PICK a \in BookingIds :
            handler' = [handler EXCEPT ![h].step = "audit", ![h].id = a]
      BY <2>1 DEF Insert
    <3>2. handler'[h] = [handler[h] EXCEPT !.step = "audit", !.id = a]
      BY <1>2, <3>1
    <3> QED BY <1>1, <1>3, <3>2 DEF Work, Owes, Unlogged, At
  <2>2. CASE Overwrite(h)
    <3>1. PICK st \in {"notify", "audit"} :
            Goto(h, st) /\ (st = "notify" => handler[h].op = "update")
      BY <2>2 DEF Overwrite
    <3>2. handler'[h] = [handler[h] EXCEPT !.step = st]
      BY <1>2, <3>1 DEF Goto
    <3> QED BY <1>1, <1>3, <3>1, <3>2 DEF Work, Owes, Unlogged, At
  <2> QED BY <2>1, <2>2
<1>5. ASSUME NEW who, u \in who
      PROVE  Accounted(b, AuditAction(op), asked, who)'
  BY <1>4, <1>5 DEF Accounted, Logged
<1>6. CASE Insert(h)
  <2>1. /\ op = "create" /\ asked = "PENDING"
        /\ r.owner = u /\ r.status = "PENDING" /\ ~r.deleted
    BY <1>1, <1>3, <1>6 DEF Insert, Entitled
  <2>2. Accounted(b, "CREATE", "PENDING", {r.owner})'
    BY <1>5, <2>1 DEF AuditAction
  <2> QED BY <2>1, <2>2 DEF RowAccounted, StatusAccounted
<1>7. CASE Overwrite(h)
  <2>1. /\ op \in {"update", "cancel", "remove"}
        /\ handler[h].id = b /\ bookings[b] # NONE
        /\ bookings[b].owner = r.owner
        /\ StatusAccounted(b, was, r.owner)
    <3>1. handler[h].op # "create" /\ handler'[h].id = handler[h].id
      <4>1. PICK st \in {"notify", "audit"} : Goto(h, st)
        BY <1>7 DEF Overwrite
      <4>2. handler'[h] = [handler[h] EXCEPT !.step = st]
        BY <1>2, <4>1 DEF Goto
      <4> QED BY <1>1, <1>7, <4>2 DEF Work, Overwrite
    <3>2. OnRow(h)
      BY <1>1, <3>1 DEF Typed, HandlersOK
    <3> QED BY <1>1, <1>3, <3>1, <3>2 DEF OnRow, Trail, CopiesAccounted, Work, Op
  <2>2. Accounted(b, "CREATE", "PENDING", {r.owner})'
    <3>1. Accounted(b, "CREATE", "PENDING", {r.owner})
      BY <2>1 DEF Trail, RowsAccounted, RowAccounted
    <3> QED BY <1>1, <3>1, AccountedStays
  <2>3. StatusAccounted(b, was, r.owner)'
    BY <1>1, <2>1, StatusStays
  <2>4. StatusAccounted(b, r.status, r.owner)'
    <3>1. CASE r.status = was
      BY <2>3, <3>1
    <3>2. CASE op = "update" /\ u \in Admins /\ r.status = asked
      <4>1. /\ Accounted(b, "UPDATE", r.status, Admins)'
            /\ Accounted(b, "UPDATE", r.status, Admins \cup {r.owner})'
        BY <1>5, <3>2 DEF AuditAction
      <4> QED BY <4>1 DEF StatusAccounted
    <3>3. CASE op = "cancel"
      <4>1. /\ r.status = "CANCELLED" /\ asked = "CANCELLED"
            /\ u \in Admins \cup {r.owner}
        BY <1>1, <1>3, <3>3 DEF Entitled
      <4>2. Accounted(b, "UPDATE", "CANCELLED", Admins \cup {r.owner})'
        BY <1>5, <3>3, <4>1 DEF AuditAction
      <4> QED BY <4>1, <4>2 DEF StatusAccounted
    <3> QED BY <1>1, <1>3, <2>1, <3>1, <3>2, <3>3 DEF Entitled
  <2>5. r.deleted => Accounted(b, "DELETE", NONE, Admins)'
    <3>1. r.deleted => op = "remove" /\ u \in Admins /\ asked = NONE
      BY <1>1, <1>3, <2>1 DEF Entitled
    <3> QED BY <1>5, <3>1 DEF AuditAction
  <2> QED BY <2>2, <2>4, <2>5 DEF RowAccounted, StatusAccounted
<1> QED BY <1>6, <1>7

\* Table bookings is written by the saves of requests.
LEMMA RowsWritten ==
  ASSUME Typed, [Next]_vars, bookings' # bookings
  PROVE  \E h \in Handlers, b \in BookingIds :
           /\ Insert(h) \/ Overwrite(h)
           /\ bookings' = [bookings EXCEPT ![b] = handler[h].row]
           /\ handler'[h].id = b
           /\ handler'[h] # Idle
<1>1. PICK h \in Handlers : Insert(h) \/ Overwrite(h)
  <2>1. ASSUME NEW h \in Handlers, Arrive(h) PROVE FALSE
    BY <2>1, ArriveBegins DEF Begin
  <2> QED BY <2>1, NextCases, OtherQuiet
<1>2. handler \in [Handlers -> Work \cup {Idle}]
      /\ handler[h] \in Work /\ handler[h] # Idle
  BY <1>1, Moves DEF Typed, TypeOK, Proceed
<1>3. CASE Insert(h)
  <2>1. PICK b \in BookingIds :
          /\ bookings' = [bookings EXCEPT ![b] = handler[h].row]
          /\ handler' = [handler EXCEPT ![h].step = "audit", ![h].id = b]
    BY <1>3 DEF Insert
  <2>2. handler'[h] = [handler[h] EXCEPT !.step = "audit", !.id = b]
    BY <1>2, <2>1
  <2> QED BY <1>2, <1>3, <2>1, <2>2 DEF Work, Idle
<1>4. CASE Overwrite(h)
  <2>1. PICK st \in {"notify", "audit"} : Goto(h, st)
    BY <1>4 DEF Overwrite
  <2>2. handler'[h] = [handler[h] EXCEPT !.step = st]
    BY <1>2, <2>1 DEF Goto
  <2>3. handler[h].id \in BookingIds
    BY <1>2, <1>4 DEF Typed, HandlersOK, OnRow, Overwrite
  <2>4. bookings' = [bookings EXCEPT ![handler[h].id] = handler[h].row]
    BY <1>4 DEF Overwrite
  <2>5. handler'[h].id = handler[h].id /\ handler'[h].step = st
    BY <1>2, <2>2 DEF Work
  <2>6. handler'[h] # Idle
    BY <2>5 DEF Idle
  <2> QED BY <1>4, <2>3, <2>4, <2>5, <2>6
<1> QED BY <1>1, <1>3, <1>4

LEMMA RowsNext ==
  ASSUME Trail, [Next]_vars
  PROVE  RowsAccounted'
<1> SUFFICES ASSUME NEW a \in BookingIds, bookings'[a] # NONE
             PROVE  RowAccounted(a, bookings[a])'
  BY DEF RowsAccounted
<1>1. Typed
  BY DEF Trail
<1>2. CASE bookings'[a] = bookings[a]
  <2>1. PICK r : r = bookings[a]
    OBVIOUS
  <2>2. RowAccounted(a, r)
    BY <1>2, <2>1 DEF Trail, RowsAccounted
  <2>3. RowAccounted(a, r)'
    BY <1>1, <2>2, AccountedStays, StatusStays DEF RowAccounted
  <2> QED BY <1>2, <2>1, <2>3
<1>3. CASE bookings'[a] # bookings[a]
  <2>1. PICK h \in Handlers, b \in BookingIds :
          /\ Insert(h) \/ Overwrite(h)
          /\ bookings' = [bookings EXCEPT ![b] = handler[h].row]
          /\ handler'[h].id = b
    BY <1>1, <1>3, RowsWritten
  <2>2. a = b /\ bookings'[a] = handler[h].row
    BY <1>1, <1>3, <2>1 DEF Typed, TypeOK
  <2>3. PICK r : r = handler[h].row
    OBVIOUS
  <2>4. RowAccounted(b, r)'
    BY <2>1, <2>3, WriteAccounted
  <2> QED BY <2>2, <2>3, <2>4
<1> QED BY <1>2, <1>3

\* Who is told what: by the request itself, or by a background task.
LEMMA NoticesSent ==
  ASSUME [Next]_vars, NEW n \in notices', n \notin notices
  PROVE  \/ \E h \in Handlers : NotifyOwner(h) /\ n \in OwnerNotices(handler[h])
         \/ \E t \in tasks : n.kind = t.kind /\ n.id = t.id
<1>1. ASSUME NEW h \in Handlers, Arrive(h) PROVE FALSE
  BY <1>1, ArriveBegins DEF Begin, effects
<1>2. ASSUME NEW h \in Handlers, Proceed(h)
      PROVE  NotifyOwner(h) /\ n \in OwnerNotices(handler[h])
  BY <1>2 DEF Proceed, CheckSlot, Insert, Overwrite, WriteAudit, NotifyOwner,
              Reload, Emit, Fail, effects
<1>3. CASE Around
  BY <1>3 DEF Around, NotifyAdmins, UpdateService, RemoveService, RemoveUser,
              RestoreUser, Tick, vars, effects
<1> QED BY <1>1, <1>2, <1>3, Steps

LEMMA TasksStarted ==
  ASSUME [Next]_vars, NEW t \in tasks', t \notin tasks
  PROVE  \E h \in Handlers :
           /\ t.id = handler[h].id
           /\ \/ Reload(h) /\ t.kind = "CREATED"
              \/ Emit(h) /\ handler[h].op = "cancel" /\ t.kind = "CANCELLED"
<1>1. ASSUME NEW h \in Handlers, Arrive(h) PROVE FALSE
  BY <1>1, ArriveBegins DEF Begin, effects
<1>2. ASSUME NEW h \in Handlers, Proceed(h)
      PROVE  /\ t.id = handler[h].id
             /\ \/ Reload(h) /\ t.kind = "CREATED"
                \/ Emit(h) /\ handler[h].op = "cancel" /\ t.kind = "CANCELLED"
  BY <1>2 DEF Proceed, CheckSlot, Insert, Overwrite, WriteAudit, NotifyOwner,
              Reload, Emit, Fail, effects
<1>3. CASE Around
  BY <1>3 DEF Around, NotifyAdmins, UpdateService, RemoveService, RemoveUser,
              RestoreUser, Tick, vars, effects
<1> QED BY <1>1, <1>2, <1>3, Steps

\* A request past its save has its booking's id.
LEMMA NotifyingRow ==
  ASSUME Typed, NEW h \in Handlers,
         handler[h].step \in {"audit", "notify", "load", "emit"}
  PROVE  /\ handler[h] \in Work /\ handler[h] # Idle /\ ~InWindow(h)
         /\ OnRow(h)
BY Busy DEF Typed, HandlersOK, InWindow

LEMMA ConfirmationsNext ==
  ASSUME Trail, [Next]_vars
  PROVE  NoTaskConfirms' /\ ConfirmationsAccounted'
<1>1. Typed
  BY DEF Trail
<1>2. NoTaskConfirms'
  BY TasksStarted DEF Trail, NoTaskConfirms
<1>3. ASSUME NEW n \in notices', n.kind = "CONFIRMED"
      PROVE  Accounted(n.id, "UPDATE", "CONFIRMED", Admins)'
  <2>1. n.id \in BookingIds
    <3>1. Typed'
      BY <1>1, NextTyped
    <3> QED BY <3>1 DEF Typed, TypeOK, Notice
  <2>2. CASE n \in notices
    BY <1>1, <1>3, <2>1, <2>2, AccountedStays DEF Trail, ConfirmationsAccounted
  <2>3. CASE n \notin notices
    <3>1. PICK h \in Handlers : NotifyOwner(h) /\ n \in OwnerNotices(handler[h])
      BY <1>3, <2>3, NoticesSent DEF Trail, NoTaskConfirms
    <3>2. handler[h].step = "notify" /\ handler[h] # Idle
      BY <1>1, <3>1, NotifyingRow DEF NotifyOwner, At
    <3>3. /\ handler[h].op = "update" /\ n.id = handler[h].id
          /\ handler[h].row.status # handler[h].was
          /\ handler[h].row.status = "CONFIRMED"
      BY <1>3, <3>1 DEF OwnerNotices
    <3>4. handler[h].user \in Admins /\ handler[h].asked = "CONFIRMED"
      BY <3>2, <3>3 DEF Trail, CopiesAccounted, Entitled
    <3>5. Owes(h, n.id) /\ AuditAction(handler[h].op) = "UPDATE"
      BY <3>2, <3>3 DEF Owes, Unlogged, At, AuditAction
    <3>6. Accounted(n.id, "UPDATE", "CONFIRMED", Admins)
      BY <3>4, <3>5 DEF Accounted, Logged
    <3> QED BY <1>1, <2>1, <3>6, AccountedStays
  <2> QED BY <2>2, <2>3
<1> QED BY <1>2, <1>3 DEF ConfirmationsAccounted

LEMMA InitTrail == Init => Trail
<1> SUFFICES ASSUME Init PROVE Trail
  OBVIOUS
<1>1. Typed
  BY InitTyped
<1>2. CopiesAccounted
  BY DEF Init, CopiesAccounted
<1>3. RowsAccounted
  BY DEF Init, RowsAccounted
<1> QED BY <1>1, <1>2, <1>3
    DEF Init, Trail, NoTaskConfirms, ConfirmationsAccounted

LEMMA NextTrail ==
  ASSUME Trail, [Next]_vars
  PROVE  Trail'
<1>1. Typed'
  BY NextTyped DEF Trail
<1> QED BY <1>1, CopiesNext, RowsNext, ConfirmationsNext DEF Trail

\* The audit log accounts for every booking on which no request ended between
\* its save and its entry: whatever races, a stale copy that is written back
\* carries only a status that somebody entitled to it is already logged for,
\* by name.
THEOREM AuditTrailKept == Spec => []AuditTrail
<1>1. Trail => AuditTrail
  BY DEF Trail, RowsAccounted, RowAccounted, StatusAccounted, Accounted,
         AuditTrail
<1> QED BY <1>1, InitTrail, NextTrail, PTL DEF Spec

\* Behind a confirmation a client reads is an update to CONFIRMED by an
\* administrator, in the log or about to be there, unless the request that
\* saved it ended in between.
THEOREM ConfirmationsTrue == Spec => []ConfirmationIsAdmins
<1>1. Trail => ConfirmationIsAdmins
  BY DEF Trail, ConfirmationsAccounted, Accounted, ConfirmationIsAdmins
<1> QED BY <1>1, InitTrail, NextTrail, PTL DEF Spec

-----------------------------------------------------------------------------
\* b is cancelled, or two requests raced on its service.
TrulyCancelled(b) ==
  /\ bookings[b] # NONE
  /\ bookings[b].service \in raced \/ bookings[b].status = "CANCELLED"

\* What tells a user of a cancellation, or will: a cancel request past its
\* save, a background task, a notice.
CancelsTold ==
  /\ \A h \in Handlers :
       handler[h] # Idle /\ handler[h].op = "cancel" /\ ~InWindow(h)
       => TrulyCancelled(handler[h].id)
  /\ \A t \in tasks : t.kind = "CANCELLED" => TrulyCancelled(t.id)
  /\ \A n \in notices : n.kind = "CANCELLED" => TrulyCancelled(n.id)

Told == Safe /\ Trail /\ CancelsTold

\* A row, once there, stays there and on its service.
LEMMA ServiceKept ==
  ASSUME Typed, [Next]_vars, NEW b \in BookingIds, bookings[b] # NONE
  PROVE  bookings'[b] # NONE /\ bookings'[b].service = bookings[b].service
<1>1. CASE bookings'[b] = bookings[b]
  BY <1>1
<1>2. CASE bookings'[b] # bookings[b]
  <2>1. PICK h \in Handlers : Insert(h) \/ Overwrite(h)
    BY <1>2, RowsWritten
  <2>2. CASE Insert(h)
    BY <1>2, <2>2 DEF Insert, Typed, TypeOK
  <2>3. CASE Overwrite(h)
    <3>1. handler[h] \in Work /\ handler[h] # Idle
      BY <2>3, Moves DEF Proceed
    <3>2. OnRow(h) /\ handler[h].row # NONE
      BY <2>3, <3>1, BookingsAssumption DEF Typed, HandlersOK, Overwrite, Work
    <3>3. bookings' = [bookings EXCEPT ![handler[h].id] = handler[h].row]
      BY <2>3 DEF Overwrite
    <3> QED BY <1>2, <3>2, <3>3 DEF OnRow, Typed, TypeOK
  <2> QED BY <2>1, <2>2, <2>3
<1> QED BY <1>1, <1>2

\* Without a race a cancellation is for good.
LEMMA CancelledStays ==
  ASSUME Safe, [Next]_vars, NEW b \in BookingIds, TrulyCancelled(b)
  PROVE  TrulyCancelled(b)'
<1>1. Typed
  BY DEF Safe
<1>2. /\ bookings[b] \in Row
      /\ bookings'[b] # NONE /\ bookings'[b].service = bookings[b].service
  BY <1>1, ServiceKept DEF TrulyCancelled, Typed, TypeOK
<1>3. raced \subseteq raced'
  <2>1. ASSUME NEW h \in Handlers, Arrive(h) PROVE raced \subseteq raced'
    BY <2>1, ArriveBegins DEF Begin
  <2>2. ASSUME NEW h \in Handlers, Insert(h) \/ Overwrite(h)
        PROVE  raced \subseteq raced'
    BY <2>2 DEF Insert, Overwrite, history
  <2> QED BY <2>1, <2>2, NextCases, OtherQuiet
<1>4. CASE bookings[b].service \in raced
  BY <1>2, <1>3, <1>4 DEF TrulyCancelled
<1>5. CASE bookings[b].service \notin raced
  <2>1. bookings[b].status = "CANCELLED"
    BY <1>5 DEF TrulyCancelled
  <2>2. \/ bookings'[b] = bookings[b]
        \/ bookings'[b] = [bookings[b] EXCEPT !.deleted = TRUE]
    BY <1>5, <2>1, ClosedKept DEF KeepsClosed, Closed, TrulyCancelled
  <2>3. bookings'[b].status = "CANCELLED"
    BY <1>2, <2>1, <2>2 DEF Row
  <2> QED BY <1>2, <2>3 DEF TrulyCancelled
<1> QED BY <1>4, <1>5

\* A cancel request past its save has cancelled the booking.
LEMMA CancellerNext ==
  ASSUME Told, [Next]_vars, NEW g \in Handlers,
         handler'[g] # Idle, handler'[g].op = "cancel", ~InWindow(g)'
  PROVE  TrulyCancelled(handler[g].id)'
<1>1. Safe /\ Typed
  BY DEF Told, Safe
<1>2. ASSUME handler[g] # Idle, handler[g].op = "cancel", ~InWindow(g),
             handler'[g].id = handler[g].id
      PROVE  TrulyCancelled(handler[g].id)'
  <2>1. PICK b \in BookingIds : b = handler[g].id
    BY <1>1, <1>2 DEF Typed, HandlersOK, OnRow
  <2>2. TrulyCancelled(b)
    BY <1>2, <2>1 DEF Told, CancelsTold
  <2>3. TrulyCancelled(b)'
    BY <1>1, <2>2, CancelledStays
  <2> QED BY <1>2, <2>1, <2>3
<1>3. CASE handler'[g] = handler[g]
  BY <1>2, <1>3 DEF InWindow
<1>4. CASE handler'[g] # handler[g]
  <2>1. PICK h \in Handlers : Arrive(h) \/ Proceed(h)
    BY <1>4, Steps, AroundHandlers
  <2>2. ASSUME Arrive(h) PROVE FALSE
    <3>1. PICK w : Begin(h, w) /\ w.step \in {"check", "save"}
      BY <1>1, <2>2, ArriveEntitled
    <3>2. g = h /\ handler'[g] = w
      BY <1>1, <1>4, <3>1 DEF Begin, Typed, TypeOK
    <3> QED BY <3>1, <3>2 DEF InWindow
  <2>3. CASE Proceed(h)
    <3>1. g = h
      BY <1>1, <1>4, <2>3, Moves
    <3>2. /\ handler[g] \in Work /\ handler[g] # Idle /\ handler[g].op = "cancel"
          /\ handler'[g].id = handler[g].id \/ Insert(g)
          /\ Entitled(handler[g])
      BY <1>1, <2>3, <3>1, Moves DEF Same, Told, Trail, CopiesAccounted
    <3>3. ~Insert(g)
      BY <3>2 DEF Insert
    <3>4. CASE InWindow(g)
      <4>1. CASE CheckSlot(g)
        <5>1. Goto(g, "save")
          <6>1. Goto(g, "save") \/ Finish(g)
            BY <4>1 DEF CheckSlot
          <6> QED BY <1>1, <6>1 DEF Finish, Typed, TypeOK
        <5>2. handler'[g] = [handler[g] EXCEPT !.step = "save"]
          BY <1>1, <5>1 DEF Goto, Typed, TypeOK
        <5> QED BY <3>2, <5>2 DEF Work, InWindow
      <4>2. CASE Overwrite(g)
        <5>1. OnRow(g) /\ handler[g].row # NONE
          BY <1>1, <3>2, BookingsAssumption DEF Typed, HandlersOK, Work
        <5>2. bookings' = [bookings EXCEPT ![handler[g].id] = handler[g].row]
          BY <4>2 DEF Overwrite
        <5>3. bookings'[handler[g].id] = handler[g].row
          BY <1>1, <5>1, <5>2 DEF OnRow, Typed, TypeOK
        <5>4. handler[g].row.status = "CANCELLED"
          BY <3>2 DEF Entitled
        <5> QED BY <3>2, <3>3, <5>1, <5>3, <5>4 DEF TrulyCancelled
      <4>3. CASE Fail(g)
        BY <1>1, <4>3 DEF Fail, Finish, Typed, TypeOK
      <4> QED BY <2>3, <3>1, <3>3, <3>4, <4>1, <4>2, <4>3
          DEF Proceed, InWindow, WriteAudit, NotifyOwner, Reload, Emit, At
    <3>5. CASE ~InWindow(g)
      BY <1>2, <3>2, <3>3, <3>5
    <3> QED BY <3>4, <3>5
  <2> QED BY <2>1, <2>2, <2>3
<1> QED BY <1>3, <1>4

LEMMA ToldNext ==
  ASSUME Told, [Next]_vars
  PROVE  Told'
<1>1. Safe /\ Typed /\ Trail
  BY DEF Told, Safe
<1>2. Safe' /\ Trail' /\ Typed'
  BY <1>1, NextSafe, NextTrail, NextTyped
<1>3. ASSUME NEW h \in Handlers, handler[h].op = "cancel", ~InWindow(h),
             handler[h] # Idle
      PROVE  handler[h].id \in BookingIds /\ TrulyCancelled(handler[h].id)
  BY <1>1, <1>3 DEF Typed, HandlersOK, OnRow, Told, CancelsTold
<1>4. ASSUME NEW t \in tasks', t.kind = "CANCELLED"
      PROVE  TrulyCancelled(t.id)'
  <2>1. t.id \in BookingIds
    BY <1>2 DEF Typed, TypeOK, Task
  <2>2. TrulyCancelled(t.id)
    <3>1. CASE t \in tasks
      BY <1>4, <3>1 DEF Told, CancelsTold
    <3>2. CASE t \notin tasks
      <4>1. PICK h \in Handlers : /\ t.id = handler[h].id /\ Emit(h)
                                  /\ handler[h].op = "cancel"
        BY <1>4, <3>2, TasksStarted
      <4>2. handler[h] # Idle /\ ~InWindow(h)
        BY <1>1, <4>1, NotifyingRow DEF Emit, At
      <4> QED BY <1>3, <4>1, <4>2
    <3> QED BY <3>1, <3>2
  <2> QED BY <1>1, <2>1, <2>2, CancelledStays
<1>5. ASSUME NEW n \in notices', n.kind = "CANCELLED"
      PROVE  TrulyCancelled(n.id)'
  <2>1. n.id \in BookingIds
    BY <1>2 DEF Typed, TypeOK, Notice
  <2>2. TrulyCancelled(n.id)
    <3>1. CASE n \in notices
      BY <1>5, <3>1 DEF Told, CancelsTold
    <3>2. ASSUME NEW t \in tasks, n.kind = t.kind, n.id = t.id
          PROVE  TrulyCancelled(n.id)
      BY <1>5, <3>2 DEF Told, CancelsTold
    <3>3. ASSUME NEW h \in Handlers, NotifyOwner(h), n \in OwnerNotices(handler[h])
          PROVE  TrulyCancelled(n.id)
      <4>1. handler[h] \in Work /\ handler[h] # Idle /\ ~InWindow(h)
            /\ handler[h].step = "notify"
        BY <1>1, <3>3, NotifyingRow DEF NotifyOwner, At
      <4>2. n.id = handler[h].id /\ handler[h].op \notin {"create", "update"}
        BY <1>5, <3>3 DEF OwnerNotices
      <4>3. handler[h].op # "remove"
        BY <1>1, <4>1 DEF Trail, CopiesAccounted, Entitled
      <4>4. handler[h].op = "cancel"
        BY <4>1, <4>2, <4>3 DEF Work, Op
      <4> QED BY <1>3, <4>1, <4>2, <4>4
    <3> QED BY <3>1, <3>2, <3>3, NoticesSent
  <2> QED BY <1>1, <2>1, <2>2, CancelledStays
<1> QED BY <1>2, <1>4, <1>5, CancellerNext DEF Told, CancelsTold

LEMMA InitTold == Init => Told
BY InitSafe, InitTrail DEF Init, Told, CancelsTold

\* Whoever is told of a cancellation, by their request or by a background
\* task that runs any time later, can rely on it unless requests raced.
THEOREM CancelNoticesTrue == Spec => []CancelNoticeTrue
<1>1. Told => CancelNoticeTrue
  BY DEF Told, CancelsTold, TrulyCancelled, CancelNoticeTrue
<1> QED BY <1>1, InitTold, ToldNext, PTL DEF Spec

-----------------------------------------------------------------------------
\* h has saved b and not yet sent its event.
Announcing(h, b) ==
  /\ handler[h].step \in {"audit", "notify", "load", "emit"}
  /\ handler[h].id = b

\* The row says what a request past its save made of it.
SavedIsStored(h) ==
  LET w == handler[h]
  IN  w.step \in {"audit", "notify", "load", "emit"} =>
        /\ w.op = "remove" => bookings[w.id].deleted
        /\ w.op = "cancel" => bookings[w.id].status = "CANCELLED"
        /\ w.op # "cancel" /\ w.step = "emit" =>
             w.seen = IF Visible(w.id) THEN bookings[w.id].status ELSE NONE

\* With a single handler, h: the last event of a visible booking shows its
\* status, or the request that changed it is about to send one.
Current(h) ==
  /\ Trail
  /\ SavedIsStored(h)
  /\ \A b \in BookingIds : Visible(b) /\ b \notin faulty =>
       shown[b] = bookings[b].status \/ Announcing(h, b)

LEMMA CurrentArrive ==
  ASSUME NEW h \in Handlers, Current(h), Arrive(h)
  PROVE  /\ SavedIsStored(h)'
         /\ \A b \in BookingIds : Visible(b)' /\ b \notin faulty' =>
              shown'[b] = bookings'[b].status
<1>1. Typed /\ handler \in [Handlers -> Work \cup {Idle}]
  BY DEF Current, Trail, Typed, TypeOK
<1>2. PICK w : Begin(h, w) /\ w.step \in {"check", "save"}
  BY <1>1, ArriveEntitled
<1>3. handler[h] = Idle /\ handler'[h] = w
  BY <1>1, <1>2 DEF Begin
<1>4. SavedIsStored(h)'
  BY <1>2, <1>3 DEF SavedIsStored
<1>5. \A b \in BookingIds : ~Announcing(h, b)
  BY <1>3 DEF Announcing, Idle
<1>6. UNCHANGED <<bookings, shown, faulty>>
  BY <1>2 DEF Begin, effects
<1> QED BY <1>4, <1>5, <1>6 DEF Current, Visible

\* A save makes its booking the one to announce.
LEMMA CurrentSave ==
  ASSUME NEW h \in Handlers, Current(h), Insert(h) \/ Overwrite(h)
  PROVE  /\ SavedIsStored(h)'
         /\ \A b \in BookingIds : Visible(b)' /\ b \notin faulty' =>
              shown'[b] = bookings'[b].status \/ Announcing(h, b)'
<1>1. Typed /\ handler \in [Handlers -> Work \cup {Idle}]
      /\ bookings \in [BookingIds -> Row \cup {NONE}]
  BY DEF Current, Trail, Typed, TypeOK
<1>2. /\ handler[h] \in Work /\ handler[h] # Idle /\ Entitled(handler[h])
      /\ \A b \in BookingIds : ~Announcing(h, b)
  BY <1>1, Moves DEF Proceed, Current, Trail, CopiesAccounted, Announcing,
                     Insert, Overwrite, At
<1>3. UNCHANGED <<shown, faulty>>
  BY DEF Insert, Overwrite, effects, history
<1>4. PICK a \in BookingIds :
        /\ bookings' = [bookings EXCEPT ![a] = handler[h].row]
        /\ handler'[h].step \in {"audit", "notify"} /\ handler'[h].id = a
        /\ handler'[h].op = handler[h].op
  <2>1. CASE Insert(h)
    <3>1. PICK a \in BookingIds :
            /\ bookings' = [bookings EXCEPT ![a] = handler[h].row]
            /\ handler' = [handler EXCEPT ![h].step = "audit", ![h].id = a]
      BY <2>1 DEF Insert
    <3>2. handler'[h] = [handler[h] EXCEPT !.step = "audit", !.id = a]
      BY <1>1, <3>1
    <3>3. /\ handler'[h].step = "audit" /\ handler'[h].id = a
          /\ handler'[h].op = handler[h].op
      BY <1>2, <3>2 DEF Work
    <3> QED BY <3>1, <3>3
  <2>2. CASE Overwrite(h)
    <3>1. PICK st \in {"notify", "audit"} : Goto(h, st)
      BY <2>2 DEF Overwrite
    <3>2. handler'[h] = [handler[h] EXCEPT !.step = st]
      BY <1>1, <3>1 DEF Goto
    <3>3. bookings' = [bookings EXCEPT ![handler[h].id] = handler[h].row]
      BY <2>2 DEF Overwrite
    <3>4. handler[h].id \in BookingIds
      BY <1>1, <1>2, <2>2 DEF Typed, HandlersOK, OnRow, Overwrite
    <3> QED BY <1>2, <3>2, <3>3, <3>4 DEF Work
  <2> QED BY <2>1, <2>2
<1>5. bookings'[a] = handler[h].row
      /\ \A b \in BookingIds \ {a} : bookings'[b] = bookings[b]
  BY <1>1, <1>4
<1>6. SavedIsStored(h)'
  BY <1>2, <1>4, <1>5 DEF SavedIsStored, Entitled
<1>7. ASSUME NEW b \in BookingIds, Visible(b)', b \notin faulty'
      PROVE  shown'[b] = bookings'[b].status \/ Announcing(h, b)'
  BY <1>2, <1>3, <1>4, <1>5, <1>7 DEF Current, Visible, Announcing
<1> QED BY <1>6, <1>7

\* Between its save and its event a request only moves on.
LEMMA CurrentMove ==
  ASSUME NEW h \in Handlers, Current(h),
         CheckSlot(h) \/ WriteAudit(h) \/ NotifyOwner(h) \/ Reload(h)
  PROVE  /\ SavedIsStored(h)'
         /\ \A b \in BookingIds : Visible(b)' /\ b \notin faulty' =>
              shown'[b] = bookings'[b].status \/ Announcing(h, b)'
<1>1. Typed /\ handler \in [Handlers -> Work \cup {Idle}]
  BY DEF Current, Trail, Typed, TypeOK
<1>2. handler[h] \in Work /\ handler[h] # Idle /\ Entitled(handler[h])
  BY <1>1, Moves DEF Proceed, Current, Trail, CopiesAccounted
<1>3. UNCHANGED <<bookings, shown>> /\ faulty \subseteq faulty'
  BY DEF CheckSlot, WriteAudit, NotifyOwner, Reload, effects, history
<1>4. ASSUME NEW st \in {"audit", "notify", "load", "emit"}, Goto(h, st),
             handler[h].step \in {"audit", "notify", "load", "emit"},
             st = "emit" => handler[h].op = "cancel"
      PROVE  SavedIsStored(h)' /\ \A b : Announcing(h, b) => Announcing(h, b)'
  <2>1. handler'[h] = [handler[h] EXCEPT !.step = st]
    BY <1>1, <1>4 DEF Goto
  <2>2. /\ handler'[h].step = st /\ handler'[h].id = handler[h].id
        /\ handler'[h].op = handler[h].op
    BY <1>2, <2>1 DEF Work
  <2>3. SavedIsStored(h)
    BY DEF Current
  <2> QED BY <1>3, <1>4, <2>2, <2>3 DEF SavedIsStored, Announcing
<1>5. CASE CheckSlot(h)
  <2>1. \A b \in BookingIds : ~Announcing(h, b)
    BY <1>5 DEF CheckSlot, At, Announcing
  <2>2. handler'[h].step \in {"save", "idle"}
    <3>1. CASE Goto(h, "save")
      <4>1. handler'[h] = [handler[h] EXCEPT !.step = "save"]
        BY <1>1, <3>1 DEF Goto
      <4> QED BY <1>2, <4>1 DEF Work
    <3>2. CASE Finish(h)
      BY <1>1, <3>2 DEF Finish, Idle
    <3> QED BY <1>5, <3>1, <3>2 DEF CheckSlot
  <2>3. SavedIsStored(h)'
    BY <2>2 DEF SavedIsStored
  <2> QED BY <1>3, <2>1, <2>3 DEF Current, Visible
<1>6. CASE WriteAudit(h)
  <2>1. handler[h].step = "audit"
    BY <1>6 DEF WriteAudit, At
  <2>2. CASE handler[h].op = "remove"
    <3>1. handler'[h] = Idle
      BY <1>1, <1>6, <2>2 DEF WriteAudit, Finish
    <3>2. bookings[handler[h].id].deleted
      BY <2>1, <2>2 DEF Current, SavedIsStored
    <3> QED BY <1>3, <3>1, <3>2 DEF Current, SavedIsStored, Announcing, Visible, Idle
  <2>3. CASE handler[h].op # "remove"
    <3>1. Goto(h, "load") \/ Goto(h, "notify")
      BY <1>6, <2>3 DEF WriteAudit
    <3> QED BY <1>3, <1>4, <2>1, <3>1 DEF Current, Visible
  <2> QED BY <2>2, <2>3
<1>7. CASE NotifyOwner(h)
  <2>1. handler[h].step = "notify" /\ handler[h].op # "remove"
    BY <1>2, <1>7 DEF NotifyOwner, At, Entitled
  <2>2. \/ Goto(h, "load") \/ Goto(h, "audit")
        \/ Goto(h, "emit") /\ handler[h].op = "cancel"
    BY <1>2, <1>7, <2>1 DEF NotifyOwner, Work, Op
  <2> QED BY <1>3, <1>4, <2>1, <2>2 DEF Current, Visible
<1>8. CASE Reload(h)
  <2> DEFINE seen == IF Visible(handler[h].id)
                     THEN bookings[handler[h].id].status ELSE NONE
  <2>1. handler' = [handler EXCEPT ![h].step = "emit", ![h].seen = seen]
        /\ handler[h].step = "load"
    BY <1>8 DEF Reload, At
  <2>2. PICK v : v = seen
    OBVIOUS
  <2>3. handler'[h] = [handler[h] EXCEPT !.step = "emit", !.seen = v]
    <3> HIDE DEF seen
    <3> QED BY <1>1, <2>1, <2>2
  <2>4. /\ handler'[h].step = "emit" /\ handler'[h].seen = v
        /\ handler'[h].id = handler[h].id /\ handler'[h].op = handler[h].op
    BY <1>2, <2>3 DEF Work
  <2>5. SavedIsStored(h)'
    BY <1>3, <2>1, <2>2, <2>4 DEF Current, SavedIsStored, Visible
  <2>6. \A b : Announcing(h, b) => Announcing(h, b)'
    BY <2>4 DEF Announcing
  <2> QED BY <1>3, <2>5, <2>6 DEF Current, Visible
<1> QED BY <1>5, <1>6, <1>7, <1>8

\* The event says what the row says, as nobody else has written it since.
LEMMA CurrentEnd ==
  ASSUME NEW h \in Handlers, Current(h), Emit(h) \/ Fail(h)
  PROVE  /\ SavedIsStored(h)'
         /\ \A b \in BookingIds : Visible(b)' /\ b \notin faulty' =>
              shown'[b] = bookings'[b].status
<1>1. /\ Typed /\ handler \in [Handlers -> Work \cup {Idle}]
      /\ bookings \in [BookingIds -> Row \cup {NONE}]
      /\ shown \in [BookingIds -> Status \cup {NONE}]
  BY DEF Current, Trail, Typed, TypeOK
<1>2. handler[h] \in Work /\ handler[h] # Idle /\ Entitled(handler[h])
  BY <1>1, Moves DEF Proceed, Current, Trail, CopiesAccounted
<1>3. handler'[h] = Idle
  BY <1>1 DEF Emit, Fail, Finish
<1>4. SavedIsStored(h)'
  BY <1>3 DEF SavedIsStored, Idle
<1>5. ASSUME NEW b \in BookingIds, Visible(b)', b \notin faulty'
      PROVE  shown'[b] = bookings'[b].status
  <2>1. bookings' = bookings /\ faulty \subseteq faulty'
    BY DEF Emit, Fail, effects, history
  <2>2. shown[b] = bookings[b].status \/ Announcing(h, b)
    BY <1>5, <2>1 DEF Current, Visible
  <2>3. CASE Fail(h)
    <3>1. ~Announcing(h, b)
      BY <1>5, <2>3 DEF Fail, Announcing, InWindow
    <3> QED BY <2>1, <2>2, <2>3, <3>1 DEF Fail, effects
  <2>4. CASE Emit(h)
    <3>1. handler[h].step = "emit" /\ handler[h].op # "remove"
      BY <1>2, <2>4 DEF Emit, At, Entitled
    <3>2. CASE handler[h].id = b
      <4>1. Visible(b) /\ bookings[b].status # NONE
        BY <1>1, <1>5, <2>1, BookingsAssumption DEF Visible, Row
      <4>2. Announced(handler[h]) = bookings[b].status
        BY <3>1, <3>2, <4>1 DEF Current, SavedIsStored, Announced
      <4>3. shown' = [shown EXCEPT ![b] = bookings[b].status]
        BY <2>4, <3>2, <4>1, <4>2 DEF Emit
      <4> QED BY <1>1, <2>1, <4>3
    <3>3. CASE handler[h].id # b
      <4>1. shown'[b] = shown[b]
        BY <1>1, <2>4, <3>3 DEF Emit
      <4> QED BY <2>1, <2>2, <3>3, <4>1 DEF Announcing
    <3> QED BY <3>2, <3>3
  <2> QED BY <2>3, <2>4
<1> QED BY <1>4, <1>5

LEMMA CurrentNext ==
  ASSUME NEW h \in Handlers, Handlers = {h}, Current(h), [Next]_vars
  PROVE  Current(h)'
<1>1. Trail'
  BY NextTrail DEF Current
<1>2. CASE Around
  <2>1. UNCHANGED <<bookings, handler, shown>> /\ faulty \subseteq faulty'
    BY <1>2, AroundHandlers, LogGrows
  <2> QED BY <1>1, <2>1 DEF Current, SavedIsStored, Announcing, Visible
<1>3. CASE Arrive(h) \/ Proceed(h)
  BY <1>1, <1>3, CurrentArrive, CurrentSave, CurrentMove, CurrentEnd
     DEF Proceed, Current
<1> QED BY <1>2, <1>3, Steps

\* Served one at a time, requests leave the room with the last event showing
\* the status of every visible booking, whatever failed on the others: an
\* event is computed from a row nobody has written since the save.
THEOREM EventsCurrentAlone ==
  ASSUME NEW h \in Handlers, Handlers = {h}
  PROVE  Spec => []BroadcastIsCurrent
<1>1. Init => Current(h)
  <2> SUFFICES ASSUME Init PROVE Current(h)
    OBVIOUS
  <2>1. handler[h].step = "idle"
    BY DEF Init, Idle
  <2>2. SavedIsStored(h)
    BY <2>1 DEF SavedIsStored
  <2>3. \A b \in BookingIds : ~Visible(b)
    BY DEF Init, Visible
  <2> QED BY <2>2, <2>3, InitTrail DEF Current
<1>2. Current(h) /\ [Next]_vars => Current(h)'
  BY CurrentNext
<1>3. Current(h) => BroadcastIsCurrent
  BY DEF Current, BroadcastIsCurrent, Announcing, At
<1> QED BY <1>1, <1>2, <1>3, PTL DEF Spec

\* Served one at a time, requests never double book: what is missing is not a
\* check but its exclusion.
THEOREM NotDoubleBookedAlone ==
  ASSUME NEW h \in Handlers, Handlers = {h}
  PROVE  Spec => []NoDoubleBooking
<1> DEFINE Unraced == Safe /\ raced = {}
<1>1. Init => Unraced
  BY InitSafe DEF Init
<1>2. Unraced /\ [Next]_vars => Unraced'
  <2> SUFFICES ASSUME Unraced, [Next]_vars PROVE raced' = {}
    BY NextSafe
  <2>1. ASSUME Arrive(h) PROVE raced' = {}
    BY <2>1, ArriveBegins DEF Begin
  <2>2. ASSUME Insert(h) \/ Overwrite(h) PROVE raced' = {}
    BY <2>2 DEF Insert, Overwrite, history
  <2> QED BY <2>1, <2>2, NextCases, OtherQuiet
<1>3. Unraced => NoDoubleBooking
  BY DEF Safe, NoDoubleBookingUnlessRaced, NoDoubleBooking
<1> QED BY <1>1, <1>2, <1>3, PTL DEF Spec

=============================================================================
