--------------------------- MODULE BookingsProofs ---------------------------
(***************************************************************************)
(* Proofs about Bookings, for any number of handlers, bookings, services   *)
(* and users.                                                              *)
(***************************************************************************)
EXTENDS Bookings, TLAPS

\* A handler past the first save of a create, or serving anything else, works
\* on a row that exists, and its copy agrees with it on owner and service.
OnRow(h) ==
  /\ handler[h].id \in BookingIds
  /\ bookings[handler[h].id] # NONE
  /\ bookings[handler[h].id].owner = handler[h].row.owner
  /\ bookings[handler[h].id].service = handler[h].row.service

HandlersOK ==
  \A h \in Handlers : handler[h] # Idle =>
    IF handler[h].op = "create" /\ InWindow(h)
    THEN handler[h].id = NONE
    ELSE OnRow(h)

Typed == TypeOK /\ HandlersOK

LEMMA Busy ==
  ASSUME TypeOK, NEW h \in Handlers, handler[h].step # "idle"
  PROVE  handler[h] \in Work /\ handler[h] # Idle
  BY DEF TypeOK, Idle, Work

LEMMA IdleStep ==
  ASSUME NEW w \in Work PROVE w # Idle /\ w.step # "idle"
  BY DEF Work, Idle

\* Beginning a request keeps the types, given well-formed work.
LEMMA BeginTyped ==
  ASSUME Typed, NEW h \in Handlers, NEW w \in Work, Begin(h, w),
         w.op = "create" => w.step \in {"check", "save"} /\ w.id = NONE,
         w.op # "create" =>
           /\ w.id \in BookingIds
           /\ bookings[w.id] # NONE
           /\ bookings[w.id].owner = w.row.owner
           /\ bookings[w.id].service = w.row.service
  PROVE  Typed'
<1>1. TypeOK'
  <2>1. handler' \in [Handlers -> Work \cup {Idle}]
    BY DEF Typed, TypeOK, Begin
  <2>2. started' \in Nat /\ raced' \subseteq Services
    BY DEF Typed, TypeOK, Begin, Work, Row
  <2> QED BY <2>1, <2>2 DEF Typed, TypeOK, Begin, effects
<1>2. HandlersOK'
  <2> SUFFICES ASSUME NEW g \in Handlers, handler'[g] # Idle
               PROVE  IF handler'[g].op = "create" /\ InWindow(g)'
                      THEN handler'[g].id = NONE ELSE OnRow(g)'
    BY DEF HandlersOK
  <2>1. CASE g = h
    BY <2>1, BookingsAssumption DEF Begin, Typed, TypeOK, OnRow, InWindow
  <2>2. CASE g # h
    BY <2>2 DEF Begin, Typed, TypeOK, HandlersOK, OnRow, InWindow
  <2> QED BY <2>1, <2>2
<1> QED BY <1>1, <1>2 DEF Typed

LEMMA CreateTyped ==
  ASSUME Typed, NEW h \in Handlers, NEW u \in Users, NEW s \in Services,
         NEW t \in Times, CreateLoad(h, u, s, t)
  PROVE  Typed'
<1> DEFINE r == [owner |-> u, service |-> s, start |-> t,
                 end |-> t + services[s].duration,
                 status |-> "PENDING", deleted |-> FALSE]
           w == [op |-> "create", step |-> "check", user |-> u, id |-> NONE,
                 row |-> r, was |-> "PENDING", asked |-> "PENDING",
                 joined |-> TRUE, seen |-> NONE]
<1>1. services[s].duration \in Nat
  BY BookingsAssumption DEF Typed, TypeOK, ServiceRow
<1>2. r \in Row
  BY <1>1, BookingsAssumption DEF Row, Status
<1>3. w \in Work
  BY <1>2 DEF Work, Op, Status
<1>4. Begin(h, w)
  BY DEF CreateLoad
<1> HIDE DEF r
<1> QED BY <1>3, <1>4, BeginTyped

LEMMA VisibleRow ==
  ASSUME TypeOK, NEW b \in BookingIds, Visible(b)
  PROVE  bookings[b] \in Row /\ bookings[b] # NONE
  BY DEF TypeOK, Visible

LEMMA UpdateTyped ==
  ASSUME Typed, NEW h \in Handlers, NEW u \in Users, NEW b \in BookingIds,
         NEW t \in Times \cup {NONE}, NEW st \in AskedStatuses \cup {NONE},
         UpdateLoad(h, u, b, t, st)
  PROVE  Typed'
<1> DEFINE service == services[bookings[b].service]
           moved == IF t = NONE THEN bookings[b]
                    ELSE [bookings[b] EXCEPT !.start = t,
                                             !.end = t + service.duration]
           r == IF Granted(u, st) THEN [moved EXCEPT !.status = st] ELSE moved
           w == [op |-> "update", step |-> IF t = NONE THEN "save" ELSE "check",
                 user |-> u, id |-> b, row |-> r, was |-> bookings[b].status,
                 asked |-> st, joined |-> ~service.deleted, seen |-> NONE]
<1>1. bookings[b] \in Row /\ bookings[b] # NONE
  BY VisibleRow DEF Typed, UpdateLoad
<1>2. service \in ServiceRow /\ service.duration \in Nat
  BY <1>1, BookingsAssumption DEF Typed, TypeOK, ServiceRow, Row
<1>3. moved \in Row /\ moved.owner = bookings[b].owner
                    /\ moved.service = bookings[b].service
  <2>1. CASE t = NONE
    BY <1>1, <2>1
  <2>2. CASE t # NONE
    <3>1. t \in Nat /\ t + service.duration \in Nat
      BY <1>2, <2>2, BookingsAssumption
    <3> HIDE DEF service
    <3> QED BY <1>1, <2>2, <3>1 DEF Row
  <2> QED BY <2>1, <2>2
<1>4. r \in Row /\ r.owner = bookings[b].owner
                /\ r.service = bookings[b].service
  BY <1>3, BookingsAssumption DEF Row, Granted
<1>5. Begin(h, w)
  BY DEF UpdateLoad
<1>6. w \in Work
  BY <1>1, <1>2, <1>4, BookingsAssumption DEF Work, Op, Row, ServiceRow
<1> HIDE DEF r, service
<1> QED BY <1>1, <1>4, <1>5, <1>6, BeginTyped

LEMMA CancelTyped ==
  ASSUME Typed, NEW h \in Handlers, NEW u \in Users, NEW b \in BookingIds,
         CancelLoad(h, u, b)
  PROVE  Typed'
<1> DEFINE r == [bookings[b] EXCEPT !.status = "CANCELLED"]
           w == [op |-> "cancel", step |-> "save", user |-> u, id |-> b,
                 row |-> r, was |-> bookings[b].status, asked |-> "CANCELLED",
                 joined |-> /\ ~services[bookings[b].service].deleted
                            /\ Found(bookings[b].owner),
                 seen |-> NONE]
<1>1. bookings[b] \in Row /\ bookings[b] # NONE
  BY VisibleRow DEF Typed, CancelLoad
<1>2. r \in Row /\ r.owner = bookings[b].owner
                /\ r.service = bookings[b].service
  BY <1>1 DEF Row, Status
<1>3. w \in Work
  <2>1. w.joined \in BOOLEAN
    BY <1>1 DEF Found, Typed, TypeOK, ServiceRow, Row
  <2> QED BY <1>1, <1>2, <2>1 DEF Work, Op, Row, Status
<1>4. Begin(h, w)
  BY DEF CancelLoad
<1> HIDE DEF r
<1> QED BY <1>1, <1>2, <1>3, <1>4, BeginTyped

LEMMA RemoveTyped ==
  ASSUME Typed, NEW h \in Handlers, NEW u \in Users, NEW b \in BookingIds,
         RemoveLoad(h, u, b)
  PROVE  Typed'
<1> DEFINE r == [bookings[b] EXCEPT !.deleted = TRUE]
           w == [op |-> "remove", step |-> "save", user |-> u, id |-> b,
                 row |-> r, was |-> bookings[b].status, asked |-> NONE,
                 joined |-> FALSE, seen |-> NONE]
<1>1. bookings[b] \in Row /\ bookings[b] # NONE
  BY VisibleRow DEF Typed, RemoveLoad
<1>2. r \in Row /\ r.owner = bookings[b].owner
                /\ r.service = bookings[b].service
  BY <1>1 DEF Row
<1>3. w \in Work
  BY <1>1, <1>2 DEF Work, Op, Row
<1>4. Begin(h, w)
  BY DEF RemoveLoad
<1> HIDE DEF r
<1> QED BY <1>1, <1>2, <1>3, <1>4, BeginTyped

\* A step of a handler that leaves the rows alone and moves on, or finishes,
\* keeps every handler on its row.
LEMMA StepKeepsHandlers ==
  ASSUME Typed, NEW h \in Handlers, NEW st \in {"save", "audit", "notify", "load", "emit"},
         handler[h].step # "idle", UNCHANGED bookings,
         st = "save" => InWindow(h), InWindow(h) => st = "save",
         Goto(h, st) \/ Finish(h)
  PROVE  HandlersOK' /\ handler' \in [Handlers -> Work \cup {Idle}]
<1>1. handler[h] \in Work /\ handler[h] # Idle
  BY Busy DEF Typed
<1>2. CASE Goto(h, st)
  <2>1. handler'[h] \in Work
    BY <1>1, <1>2 DEF Goto, Work, Typed, TypeOK
  <2>2. handler' \in [Handlers -> Work \cup {Idle}]
    BY <1>2, <2>1 DEF Goto, Typed, TypeOK
  <2>3. HandlersOK'
    BY <1>1, <1>2 DEF Goto, Work, Typed, TypeOK, HandlersOK, InWindow, OnRow
  <2> QED BY <2>2, <2>3
<1>3. CASE Finish(h)
  BY <1>3 DEF Finish, Typed, TypeOK, HandlersOK, InWindow, OnRow
<1> QED BY <1>2, <1>3

LEMMA InsertTyped ==
  ASSUME Typed, NEW h \in Handlers, Insert(h)
  PROVE  Typed'
<1>1. handler[h] \in Work /\ handler[h] # Idle
  BY Busy DEF Typed, Insert, At
<1>2. PICK b \in BookingIds :
        /\ bookings[b] = NONE
        /\ bookings' = [bookings EXCEPT ![b] = handler[h].row]
        /\ handler' = [handler EXCEPT ![h].step = "audit", ![h].id = b]
  BY DEF Insert
<1>3. handler[h].row \in Row /\ handler[h].row # NONE
  BY <1>1, BookingsAssumption DEF Work
<1>4. handler'[h] = [handler[h] EXCEPT !.step = "audit", !.id = b]
  BY <1>2 DEF Typed, TypeOK
<1>5. handler'[h] \in Work
  BY <1>1, <1>4 DEF Work
<1>6. TypeOK'
  <2>1. handler' \in [Handlers -> Work \cup {Idle}]
    BY <1>2, <1>5 DEF Typed, TypeOK
  <2>2. bookings' \in [BookingIds -> Row \cup {NONE}]
    BY <1>2, <1>3 DEF Typed, TypeOK
  <2> QED BY <2>1, <2>2 DEF Typed, TypeOK, Insert, effects, history
<1>7. HandlersOK'
  <2> SUFFICES ASSUME NEW g \in Handlers, handler'[g] # Idle
               PROVE  IF handler'[g].op = "create" /\ InWindow(g)'
                      THEN handler'[g].id = NONE ELSE OnRow(g)'
    BY DEF HandlersOK
  <2>1. CASE g = h
    BY <2>1, <1>1, <1>2, <1>3, <1>4 DEF Work, InWindow, OnRow, Typed, TypeOK
  <2>2. CASE g # h
    <3>1. handler'[g] = handler[g]
      BY <2>2, <1>2 DEF Typed, TypeOK
    <3> QED BY <2>2, <3>1, <1>2 DEF Typed, TypeOK, HandlersOK, InWindow, OnRow
  <2> QED BY <2>1, <2>2
<1> QED BY <1>6, <1>7 DEF Typed

LEMMA OverwriteTyped ==
  ASSUME Typed, NEW h \in Handlers, Overwrite(h)
  PROVE  Typed'
<1> DEFINE b == handler[h].id
           next == IF handler[h].op = "update" THEN "notify" ELSE "audit"
<1>1. handler[h] \in Work /\ handler[h] # Idle
  BY Busy DEF Typed, Overwrite, At
<1>2. OnRow(h)
  BY <1>1 DEF Typed, HandlersOK, Overwrite
<1>3. handler[h].row \in Row /\ handler[h].row # NONE
  BY <1>1, BookingsAssumption DEF Work
<1>4. /\ bookings' = [bookings EXCEPT ![b] = handler[h].row]
      /\ handler' = [handler EXCEPT ![h].step = next]
  BY DEF Overwrite, Goto
<1>5. handler'[h] = [handler[h] EXCEPT !.step = next]
  BY <1>4 DEF Typed, TypeOK
<1>6. handler'[h] \in Work
  BY <1>1, <1>5 DEF Work
<1>7. TypeOK'
  <2>1. handler' \in [Handlers -> Work \cup {Idle}]
    BY <1>4, <1>6 DEF Typed, TypeOK
  <2>2. bookings' \in [BookingIds -> Row \cup {NONE}]
    BY <1>2, <1>3, <1>4 DEF Typed, TypeOK, OnRow
  <2> QED BY <2>1, <2>2 DEF Typed, TypeOK, Overwrite, effects, history
<1>8. HandlersOK'
  <2> SUFFICES ASSUME NEW g \in Handlers, handler'[g] # Idle
               PROVE  IF handler'[g].op = "create" /\ InWindow(g)'
                      THEN handler'[g].id = NONE ELSE OnRow(g)'
    BY DEF HandlersOK
  <2>1. CASE g = h
    BY <2>1, <1>1, <1>2, <1>3, <1>4, <1>5
    DEF Work, InWindow, OnRow, Typed, TypeOK, Overwrite
  <2>2. CASE g # h
    <3>1. handler'[g] = handler[g]
      BY <2>2, <1>4 DEF Typed, TypeOK
    <3>2. ASSUME OnRow(g) PROVE OnRow(g)'
      BY <3>1, <3>2, <1>2, <1>3, <1>4 DEF OnRow, Typed, TypeOK
    <3> QED BY <2>2, <3>1, <3>2 DEF Typed, HandlersOK, InWindow
  <2> QED BY <2>1, <2>2
<1> QED BY <1>7, <1>8 DEF Typed

\* The steps of a request that leave table bookings alone.
LEMMA QuietTyped ==
  ASSUME Typed, NEW h \in Handlers,
         \/ CheckSlot(h) \/ WriteAudit(h) \/ NotifyOwner(h) \/ Emit(h) \/ Fail(h)
  PROVE  Typed'
<1>1. handler[h] \in Work /\ handler[h] # Idle
  BY Busy DEF Typed, CheckSlot, WriteAudit, NotifyOwner, Emit, Fail, At
<1>2. ~InWindow(h) => handler[h].id \in BookingIds /\ bookings[handler[h].id] # NONE
  BY <1>1 DEF Typed, HandlersOK, OnRow
<1>3. CASE CheckSlot(h)
  <2>1. Goto(h, "save") \/ Finish(h)
    BY <1>3 DEF CheckSlot
  <2>2. HandlersOK' /\ handler' \in [Handlers -> Work \cup {Idle}]
    BY <1>3, <2>1, StepKeepsHandlers DEF CheckSlot, At, InWindow
  <2> QED BY <1>3, <2>2 DEF Typed, TypeOK, CheckSlot, effects, history
<1>4. CASE WriteAudit(h)
  <2>1. Goto(h, "load") \/ Goto(h, "notify") \/ Finish(h)
    BY <1>4 DEF WriteAudit
  <2>2. HandlersOK' /\ handler' \in [Handlers -> Work \cup {Idle}]
    BY <1>4, <2>1, StepKeepsHandlers DEF WriteAudit, At, InWindow
  <2>3. audit' \subseteq AuditEntry
    BY <1>1, <1>2, <1>4
    DEF WriteAudit, At, InWindow, Typed, TypeOK, Work, AuditEntry, AuditAction
  <2> QED BY <1>4, <2>2, <2>3 DEF Typed, TypeOK, WriteAudit, history
<1>5. CASE NotifyOwner(h)
  <2>1. Goto(h, "load") \/ Goto(h, "audit") \/ Goto(h, "emit")
    BY <1>5 DEF NotifyOwner
  <2>2. HandlersOK' /\ handler' \in [Handlers -> Work \cup {Idle}]
    BY <1>5, <2>1, StepKeepsHandlers DEF NotifyOwner, At, InWindow
  <2>3. handler[h].id \in BookingIds /\ handler[h].row.owner \in Users
    BY <1>1, <1>2, <1>5 DEF NotifyOwner, At, InWindow, Work, Row
  <2>4. OwnerNotices(handler[h]) \subseteq Notice
    BY <2>3 DEF OwnerNotices, Notice, Kind
  <2>5. notices' \subseteq Notice
    BY <1>5, <2>4 DEF NotifyOwner, Typed, TypeOK
  <2> QED BY <1>5, <2>2, <2>5 DEF Typed, TypeOK, NotifyOwner, history
<1>6. CASE Emit(h)
  <2>1. HandlersOK' /\ handler' \in [Handlers -> Work \cup {Idle}]
    BY <1>6, StepKeepsHandlers DEF Emit, At, InWindow
  <2>2. handler[h].id \in BookingIds
    BY <1>2, <1>6 DEF Emit, At, InWindow
  <2>3. tasks' \subseteq Task
    BY <1>1, <1>6, <2>2 DEF Emit, Typed, TypeOK, Task, Kind, Work
  <2>4. Announced(handler[h]) \in Status \cup {NONE}
    BY <1>1 DEF Announced, Work, Status
  <2>5. shown' \in [BookingIds -> Status \cup {NONE}]
    <3>1. \/ shown' = shown
          \/ shown' = [shown EXCEPT ![handler[h].id] = Announced(handler[h])]
      BY <1>6 DEF Emit
    <3> QED BY <2>2, <2>4, <3>1 DEF Typed, TypeOK
  <2> QED BY <1>6, <2>1, <2>3, <2>5 DEF Typed, TypeOK, Emit, history
<1>7. CASE Fail(h)
  <2>1. HandlersOK' /\ handler' \in [Handlers -> Work \cup {Idle}]
    BY <1>7 DEF Fail, Finish, Typed, TypeOK, HandlersOK, InWindow, OnRow
  <2>2. faulty' \subseteq BookingIds /\ unlogged' \subseteq BookingIds
    BY <1>2, <1>7 DEF Fail, Unlogged, At, InWindow, Typed, TypeOK
  <2> QED BY <1>7, <2>1, <2>2 DEF Typed, TypeOK, Fail, effects
<1> QED BY <1>3, <1>4, <1>5, <1>6, <1>7

LEMMA ReloadTyped ==
  ASSUME Typed, NEW h \in Handlers, Reload(h)
  PROVE  Typed'
<1> DEFINE seen == IF Visible(handler[h].id)
                   THEN bookings[handler[h].id].status ELSE NONE
<1>1. handler[h] \in Work /\ handler[h] # Idle
  BY Busy DEF Typed, Reload, At
<1>2. handler[h].id \in BookingIds
  BY <1>1 DEF Typed, HandlersOK, OnRow, Reload, At, InWindow
<1>3. seen \in Status \cup {NONE}
  BY <1>2, VisibleRow DEF Typed, Row
<1>4. handler' = [handler EXCEPT ![h].step = "emit", ![h].seen = seen]
  BY DEF Reload
<1> HIDE DEF seen
<1>5. handler'[h] = [handler[h] EXCEPT !.step = "emit", !.seen = seen]
  BY <1>4 DEF Typed, TypeOK
<1>6. handler'[h] \in Work
  BY <1>1, <1>3, <1>5 DEF Work
<1>7. handler' \in [Handlers -> Work \cup {Idle}]
  BY <1>4, <1>6 DEF Typed, TypeOK
<1>8. tasks' \subseteq Task
  BY <1>1, <1>2 DEF Reload, Typed, TypeOK, Task, Kind, Work
<1>9. HandlersOK'
  <2>1. UNCHANGED bookings /\ handler[h].step = "load"
    BY DEF Reload, At
  <2> SUFFICES ASSUME NEW g \in Handlers, handler'[g] # Idle
               PROVE  IF handler'[g].op = "create" /\ InWindow(g)'
                      THEN handler'[g].id = NONE ELSE OnRow(g)'
    BY DEF HandlersOK
  <2>2. CASE g = h
    BY <2>1, <2>2, <1>1, <1>5 DEF Work, InWindow, OnRow, Typed, HandlersOK
  <2>3. CASE g # h
    BY <2>1, <2>3, <1>4 DEF Typed, TypeOK, InWindow, OnRow, HandlersOK
  <2> QED BY <2>2, <2>3
<1> QED BY <1>7, <1>8, <1>9 DEF Typed, TypeOK, Reload, history

\* What happens around the requests.
LEMMA AroundTyped ==
  ASSUME Typed,
         \/ \E t \in tasks : NotifyAdmins(t)
         \/ \E s \in EditedServices : UpdateService(s) \/ RemoveService(s)
         \/ \E u \in RemovedUsers : RemoveUser(u) \/ RestoreUser(u)
         \/ Tick
         \/ UNCHANGED vars
  PROVE  Typed'
<1>1. ASSUME NEW t \in tasks, NotifyAdmins(t) PROVE Typed'
  <2>1. t \in Task /\ Others(t) \subseteq Users
    BY BookingsAssumption DEF Typed, TypeOK, Others
  <2>2. notices' \subseteq Notice /\ faulty' \subseteq BookingIds
    BY <1>1, <2>1 DEF NotifyAdmins, Typed, TypeOK, Task, Notice
  <2>3. TypeOK'
    BY <1>1, <2>2 DEF NotifyAdmins, Typed, TypeOK
  <2> QED BY <1>1, <2>3 DEF NotifyAdmins, Typed, HandlersOK, InWindow, OnRow
<1>2. ASSUME NEW s \in EditedServices, UpdateService(s) \/ RemoveService(s)
      PROVE  Typed'
  <2>1. services[s] \in ServiceRow /\ s \in Services
    BY BookingsAssumption DEF Typed, TypeOK
  <2>2. services' \in [Services -> ServiceRow]
    <3>1. CASE UpdateService(s)
      <4>1. PICK d \in Durations, a \in BOOLEAN :
              services' = [services EXCEPT ![s].duration = d, ![s].active = a]
        BY <3>1 DEF UpdateService
      <4>2. [services[s] EXCEPT !.duration = d, !.active = a] \in ServiceRow
        BY <2>1 DEF ServiceRow
      <4> QED BY <2>1, <4>1, <4>2 DEF Typed, TypeOK
    <3>2. CASE RemoveService(s)
      <4>1. [services[s] EXCEPT !.deleted = TRUE] \in ServiceRow
        BY <2>1 DEF ServiceRow
      <4> QED BY <2>1, <3>2, <4>1 DEF RemoveService, Typed, TypeOK
    <3> QED BY <1>2, <3>1, <3>2
  <2>3. UNCHANGED <<now, accounts, bookings, handler, effects, started, history>>
    BY <1>2 DEF UpdateService, RemoveService
  <2> QED BY <2>2, <2>3
      DEF Typed, TypeOK, HandlersOK, InWindow, OnRow, effects, history
<1>3. ASSUME Tick PROVE Typed'
  BY <1>3 DEF Tick, Typed, TypeOK, HandlersOK, InWindow, OnRow, effects, history
<1>4. ASSUME UNCHANGED vars PROVE Typed'
  BY <1>4 DEF vars, Typed, TypeOK, HandlersOK, InWindow, OnRow, effects, history
<1>5. ASSUME NEW u \in RemovedUsers, RemoveUser(u) \/ RestoreUser(u) PROVE Typed'
  <2>1. accounts' \in [Users -> Account]
    BY <1>5 DEF RemoveUser, RestoreUser, Account, Typed, TypeOK
  <2>2. UNCHANGED <<now, services, bookings, handler, effects, started, history>>
    BY <1>5 DEF RemoveUser, RestoreUser
  <2> QED BY <2>1, <2>2
      DEF Typed, TypeOK, HandlersOK, InWindow, OnRow, effects, history
<1> QED BY <1>1, <1>2, <1>3, <1>4, <1>5

LEMMA InitTyped == Init => Typed
<1> SUFFICES ASSUME Init PROVE Typed
  OBVIOUS
<1>1. services \in [Services -> ServiceRow]
  BY DEF Init, ServiceRow
<1>2. TypeOK
  BY <1>1 DEF Init, TypeOK, Account
<1>3. HandlersOK
  BY DEF Init, HandlersOK
<1> QED BY <1>2, <1>3 DEF Typed

LEMMA NextTyped ==
  ASSUME Typed, [Next]_vars PROVE Typed'
<1>1. ASSUME NEW h \in Handlers, Arrive(h) PROVE Typed'
  BY <1>1, CreateTyped, UpdateTyped, CancelTyped, RemoveTyped DEF Arrive
<1>2. ASSUME NEW h \in Handlers, Proceed(h) PROVE Typed'
  BY <1>2, InsertTyped, OverwriteTyped, QuietTyped, ReloadTyped DEF Proceed
<1> QED BY <1>1, <1>2, AroundTyped DEF Next

\* Every variable keeps its type, whatever requests arrive and however they
\* interleave and fail; in particular an audit entry, a notice and an event
\* always name a booking that exists.
THEOREM TypeCorrect == Spec => []TypeOK
<1>1. Init => Typed
  BY InitTyped
<1>2. Typed /\ [Next]_vars => Typed'
  BY NextTyped
<1>3. Typed => TypeOK
  BY DEF Typed
<1> QED BY <1>1, <1>2, <1>3, PTL DEF Spec

----------------------------------------------------------------------------
(* No double booking, no return of a closed booking, and the calendar, for *)
(* the services on which no two requests raced.                            *)

\* Two handlers in their load-to-save window on one service: it has raced.
Alone ==
  \A g, h \in Handlers :
    /\ g # h /\ InWindow(g) /\ InWindow(h)
    /\ handler[g].row.service = handler[h].row.service
    => handler[g].row.service \in raced

SameSlot(r, q) == r.start = q.start /\ r.end = q.end

\* A copy that is still up to date: the row is as it was loaded, and a slot
\* found free still is.
FreshWork(w) ==
  CASE w.op = "create" ->
         /\ w.row.status = "PENDING" /\ ~w.row.deleted
         /\ w.step = "save" => ~Conflict(w.id, w.row)
    [] w.op = "remove" ->
         /\ ~bookings[w.id].deleted
         /\ w.row = [bookings[w.id] EXCEPT !.deleted = TRUE]
    [] OTHER ->
         /\ ~bookings[w.id].deleted /\ ~Closed(bookings[w.id])
         /\ ~w.row.deleted
         /\ w.step = "save" =>
              SameSlot(w.row, bookings[w.id]) \/ ~Conflict(w.id, w.row)

Fresh ==
  \A h \in Handlers :
    InWindow(h) /\ handler[h].row.service \notin raced => FreshWork(handler[h])

Safe == Typed /\ Alone /\ Fresh /\ NoDoubleBookingUnlessRaced

LEMMA BeginSafe ==
  ASSUME Safe, Typed', NEW h \in Handlers, NEW w \in Work, Begin(h, w),
         FreshWork(w)
  PROVE  Safe'
<1>1. /\ handler \in [Handlers -> Work \cup {Idle}]
      /\ handler' = [handler EXCEPT ![h] = w]
      /\ handler'[h] = w
      /\ UNCHANGED bookings
      /\ raced \subseteq raced'
  BY DEF Begin, Safe, Typed, TypeOK
<1>2. Alone'
  <2> SUFFICES ASSUME NEW f \in Handlers, NEW g \in Handlers,
                      f # g, InWindow(f)', InWindow(g)',
                      handler'[f].row.service = handler'[g].row.service
               PROVE  handler'[f].row.service \in raced'
    BY DEF Alone
  <2>1. CASE f # h /\ g # h
    BY <2>1, <1>1 DEF Safe, Alone, InWindow
  <2>2. CASE f = h \/ g = h
    BY <2>2, <1>1 DEF Begin, InWindow
  <2> QED BY <2>1, <2>2
<1>3. Fresh'
  <2> SUFFICES ASSUME NEW g \in Handlers, InWindow(g)',
                      handler'[g].row.service \notin raced'
               PROVE  FreshWork(handler[g])'
    BY DEF Fresh
  <2>1. ASSUME NEW x, FreshWork(x) PROVE FreshWork(x)'
    BY <1>1, <2>1 DEF FreshWork, Conflict, Closed
  <2>2. CASE g = h
    BY <1>1, <2>1, <2>2 DEF FreshWork, Conflict, Closed
  <2>3. CASE g # h
    <3>1. handler'[g] = handler[g] /\ InWindow(g)
          /\ handler[g].row.service \notin raced
      BY <1>1, <2>3 DEF InWindow
    <3>2. FreshWork(handler[g])
      BY <3>1 DEF Safe, Fresh
    <3> QED BY <1>1, <3>1, <3>2 DEF FreshWork, Conflict, Closed
  <2> QED BY <2>2, <2>3
<1>4. NoDoubleBookingUnlessRaced'
  BY <1>1 DEF Safe, NoDoubleBookingUnlessRaced, Taken
<1> QED BY <1>2, <1>3, <1>4 DEF Safe

LEMMA ArriveBegins ==
  ASSUME NEW h \in Handlers, Arrive(h)
  PROVE  \E w : Begin(h, w)
<1>1. CASE \E u \in Users, s \in Services, t \in Times : CreateLoad(h, u, s, t)
  BY <1>1 DEF CreateLoad
<1>2. CASE \E u \in Users, b \in BookingIds, t \in Times \cup {NONE},
              st \in AskedStatuses \cup {NONE} : UpdateLoad(h, u, b, t, st)
  BY <1>2 DEF UpdateLoad
<1>3. CASE \E u \in Users, b \in BookingIds : CancelLoad(h, u, b)
  BY <1>3 DEF CancelLoad
<1>4. CASE \E u \in Users, b \in BookingIds : RemoveLoad(h, u, b)
  BY <1>4 DEF RemoveLoad
<1> QED BY <1>1, <1>2, <1>3, <1>4 DEF Arrive

\* The copy a request loads is fresh.
LEMMA ArriveSafe ==
  ASSUME Safe, Typed', NEW h \in Handlers, Arrive(h)
  PROVE  Safe'
<1>1. PICK w \in Work : Begin(h, w) /\ FreshWork(w)
  <2>1. CASE \E u \in Users, s \in Services, t \in Times : CreateLoad(h, u, s, t)
    <3>1. PICK w : Begin(h, w) /\ w.op = "create" /\ w.step = "check"
                   /\ w.row.status = "PENDING" /\ ~w.row.deleted
      BY <2>1 DEF CreateLoad
    <3>2. handler'[h] = w /\ w # Idle
      BY <3>1 DEF Begin, Safe, Typed, TypeOK, Idle
    <3>3. w \in Work
      BY <3>2 DEF Typed, TypeOK
    <3>4. FreshWork(w)
      BY <3>1 DEF FreshWork
    <3> QED BY <3>1, <3>3, <3>4
  <2>2. CASE \E u \in Users, b \in BookingIds, t \in Times \cup {NONE},
                st \in AskedStatuses \cup {NONE} : UpdateLoad(h, u, b, t, st)
    <3>1. PICK u \in Users, b \in BookingIds, t \in Times \cup {NONE},
               st \in AskedStatuses \cup {NONE} : UpdateLoad(h, u, b, t, st)
      BY <2>2
    <3> DEFINE service == services[bookings[b].service]
               moved == IF t = NONE THEN bookings[b]
                        ELSE [bookings[b] EXCEPT !.start = t,
                                                 !.end = t + service.duration]
               r == IF Granted(u, st) THEN [moved EXCEPT !.status = st]
                    ELSE moved
               w == [op |-> "update",
                     step |-> IF t = NONE THEN "save" ELSE "check",
                     user |-> u, id |-> b, row |-> r,
                     was |-> bookings[b].status, asked |-> st,
                     joined |-> ~service.deleted, seen |-> NONE]
    <3>2. Begin(h, w)
      BY <3>1 DEF UpdateLoad
    <3>3. bookings[b] \in Row /\ ~bookings[b].deleted /\ ~Closed(bookings[b])
      BY <3>1, VisibleRow DEF UpdateLoad, Visible, Safe, Typed
    <3>4. ~moved.deleted /\ (t = NONE => SameSlot(moved, bookings[b]))
      BY <3>3 DEF Row, SameSlot
    <3>5. ~r.deleted /\ (t = NONE => SameSlot(r, bookings[b]))
      <4>1. moved \in [owner : Users, service : Services, start : {moved.start},
                       end : {moved.end}, status : Status, deleted : BOOLEAN]
        BY <3>3 DEF Row
      <4> HIDE DEF moved
      <4> QED BY <3>4, <4>1 DEF SameSlot
    <3>6. handler'[h] = w /\ w # Idle
      BY <3>2 DEF Begin, Safe, Typed, TypeOK, Idle
    <3>7. w \in Work
      BY <3>6 DEF Typed, TypeOK
    <3>8. FreshWork(w)
      <4> HIDE DEF r, service
      <4> QED BY <3>3, <3>5 DEF FreshWork
    <3> QED BY <3>2, <3>7, <3>8
  <2>3. CASE \E u \in Users, b \in BookingIds : CancelLoad(h, u, b)
    <3>1. PICK u \in Users, b \in BookingIds : CancelLoad(h, u, b)
      BY <2>3
    <3> DEFINE r == [bookings[b] EXCEPT !.status = "CANCELLED"]
               w == [op |-> "cancel", step |-> "save", user |-> u, id |-> b,
                     row |-> r, was |-> bookings[b].status,
                     asked |-> "CANCELLED",
                     joined |-> /\ ~services[bookings[b].service].deleted
                                /\ Found(bookings[b].owner),
                     seen |-> NONE]
    <3>2. Begin(h, w)
      BY <3>1 DEF CancelLoad
    <3>3. bookings[b] \in Row /\ ~bookings[b].deleted /\ ~Closed(bookings[b])
      BY <3>1, VisibleRow DEF CancelLoad, Visible, Safe, Typed
    <3>4. ~r.deleted /\ SameSlot(r, bookings[b])
      BY <3>3 DEF Row, SameSlot
    <3>5. handler'[h] = w /\ w # Idle
      BY <3>2 DEF Begin, Safe, Typed, TypeOK, Idle
    <3>6. w \in Work
      BY <3>5 DEF Typed, TypeOK
    <3>7. FreshWork(w)
      <4> HIDE DEF r
      <4> QED BY <3>3, <3>4 DEF FreshWork
    <3> QED BY <3>2, <3>6, <3>7
  <2>4. CASE \E u \in Users, b \in BookingIds : RemoveLoad(h, u, b)
    <3>1. PICK u \in Users, b \in BookingIds : RemoveLoad(h, u, b)
      BY <2>4
    <3> DEFINE r == [bookings[b] EXCEPT !.deleted = TRUE]
               w == [op |-> "remove", step |-> "save", user |-> u, id |-> b,
                     row |-> r, was |-> bookings[b].status, asked |-> NONE,
                     joined |-> FALSE, seen |-> NONE]
    <3>2. Begin(h, w)
      BY <3>1 DEF RemoveLoad
    <3>3. ~bookings[b].deleted
      BY <3>1 DEF RemoveLoad, Visible
    <3>4. handler'[h] = w /\ w # Idle
      BY <3>2 DEF Begin, Safe, Typed, TypeOK, Idle
    <3>5. w \in Work
      BY <3>4 DEF Typed, TypeOK
    <3>6. FreshWork(w)
      BY <3>3 DEF FreshWork
    <3> QED BY <3>2, <3>5, <3>6
  <2> QED BY <2>1, <2>2, <2>3, <2>4 DEF Arrive
<1> QED BY <1>1, BeginSafe

\* A step that leaves the rows alone, keeps every copy that is in its window
\* and opens no window keeps Safe; the new fact is CheckSlot's.
LEMMA QuietSafe ==
  ASSUME Safe, Typed', UNCHANGED <<bookings, raced>>,
         \A g \in Handlers : InWindow(g)' =>
           \/ handler'[g] = handler[g]
           \/ /\ InWindow(g)
              /\ handler'[g] = [handler[g] EXCEPT !.step = "save"]
              /\ ~Conflict(handler[g].id, handler[g].row)
  PROVE  Safe'
<1>1. \A g \in Handlers : InWindow(g)' =>
        InWindow(g) /\ handler'[g].row = handler[g].row
  <2> SUFFICES ASSUME NEW g \in Handlers, InWindow(g)'
               PROVE  InWindow(g) /\ handler'[g].row = handler[g].row
    OBVIOUS
  <2>1. CASE handler'[g] = handler[g]
    BY <2>1 DEF InWindow
  <2>2. CASE handler'[g] # handler[g]
    <3>1. InWindow(g) /\ handler'[g] = [handler[g] EXCEPT !.step = "save"]
      BY <2>2
    <3>2. handler[g] \in Work
      BY <3>1, Busy DEF Safe, Typed, InWindow
    <3> QED BY <3>1, <3>2 DEF Work
  <2> QED BY <2>1, <2>2
<1>2. Alone'
  BY <1>1 DEF Safe, Alone
<1>3. Fresh'
  <2> SUFFICES ASSUME NEW g \in Handlers, InWindow(g)',
                      handler'[g].row.service \notin raced'
               PROVE  FreshWork(handler[g])'
    BY DEF Fresh
  <2>1. InWindow(g) /\ FreshWork(handler[g])
    BY <1>1 DEF Safe, Fresh
  <2>2. CASE handler'[g] = handler[g]
    BY <2>1, <2>2 DEF FreshWork, Conflict, Closed
  <2>3. CASE handler'[g] # handler[g]
    <3>1. /\ handler'[g] = [handler[g] EXCEPT !.step = "save"]
          /\ ~Conflict(handler[g].id, handler[g].row)
      BY <2>3
    <3>2. handler[g] \in Work
      BY <2>1, Busy DEF Safe, Typed, InWindow
    <3>3. /\ handler'[g].op = handler[g].op /\ handler'[g].id = handler[g].id
          /\ handler'[g].row = handler[g].row
      BY <3>1, <3>2 DEF Work
    <3>4. ~Conflict(handler[g].id, handler[g].row)'
      BY <3>1, <3>3 DEF Conflict
    <3> QED BY <2>1, <3>3, <3>4 DEF FreshWork, Closed
  <2> QED BY <2>2, <2>3
<1>4. NoDoubleBookingUnlessRaced'
  BY DEF Safe, NoDoubleBookingUnlessRaced, Taken
<1> QED BY <1>2, <1>3, <1>4 DEF Safe

\* Writing a row whose slot is free, if the service has not raced.
LEMMA WriteSafe ==
  ASSUME Safe, Typed', NEW h \in Handlers, InWindow(h), ~InWindow(h)',
         NEW b \in BookingIds,
         bookings' = [bookings EXCEPT ![b] = handler[h].row],
         bookings[b] # NONE => bookings[b].service = handler[h].row.service,
         \A g \in Handlers \ {h} : handler'[g] = handler[g],
         UNCHANGED raced,
         handler[h].row.service \notin raced /\ Live(handler[h].row) =>
           \A a \in BookingIds \ {b} :
             Taken(a) => ~Overlap(bookings[a], handler[h].row)
  PROVE  Safe'
<1> DEFINE r == handler[h].row
<1>1. handler[h] \in Work /\ r \in Row /\ r # NONE
  BY Busy, BookingsAssumption DEF Safe, Typed, InWindow, Work
<1>2. bookings'[b] = r /\ \A a \in BookingIds \ {b} : bookings'[a] = bookings[a]
  BY DEF Safe, Typed, TypeOK
<1>3. Alone'
  BY DEF Safe, Alone, InWindow
<1>4. Fresh'
  <2> SUFFICES ASSUME NEW g \in Handlers, InWindow(g)',
                      handler'[g].row.service \notin raced'
               PROVE  FreshWork(handler[g])'
    BY DEF Fresh
  <2>1. g # h /\ handler'[g] = handler[g] /\ InWindow(g)
    BY DEF InWindow
  <2>2. FreshWork(handler[g]) /\ handler[g].row.service # r.service
    BY <2>1 DEF Safe, Fresh, Alone
  <2>3. /\ handler[g] \in Work
        /\ handler[g].op # "create" => OnRow(g)
    BY <2>1, Busy DEF Safe, Typed, HandlersOK, InWindow
  <2>4. \A a \in BookingIds : bookings'[a] # bookings[a] =>
          /\ bookings[a] # NONE => bookings[a].service # handler[g].row.service
          /\ bookings'[a] # NONE => bookings'[a].service # handler[g].row.service
    BY <1>2, <2>2
  <2>5. ASSUME ~Conflict(handler[g].id, handler[g].row)
        PROVE  ~Conflict(handler[g].id, handler[g].row)'
    BY <2>1, <2>4, <2>5 DEF Conflict, Overlap
  <2>6. handler[g].op # "create" =>
          bookings'[handler[g].id] = bookings[handler[g].id]
    BY <2>3, <2>4 DEF OnRow
  <2>7. CASE handler[g].op = "create"
    BY <2>1, <2>2, <2>5, <2>7 DEF FreshWork
  <2>8. CASE handler[g].op = "remove"
    <3>1. /\ ~bookings[handler[g].id].deleted
          /\ handler[g].row = [bookings[handler[g].id] EXCEPT !.deleted = TRUE]
      BY <2>2, <2>8 DEF FreshWork
    <3>2. bookings'[handler[g].id] = bookings[handler[g].id]
      BY <2>6, <2>8
    <3> QED BY <2>1, <2>8, <3>1, <3>2 DEF FreshWork
  <2>9. CASE handler[g].op \notin {"create", "remove"}
    BY <2>1, <2>2, <2>5, <2>6, <2>9 DEF FreshWork, Closed
  <2> QED BY <2>7, <2>8, <2>9
<1>5. NoDoubleBookingUnlessRaced'
  <2> SUFFICES ASSUME NEW a \in BookingIds, NEW c \in BookingIds, a # c,
                      Taken(a)', Taken(c)', bookings'[a].service \notin raced,
                      Overlap(bookings[a], bookings[c])'
               PROVE  FALSE
    BY DEF NoDoubleBookingUnlessRaced
  <2>1. CASE a # b /\ c # b
    BY <1>2, <2>1 DEF Safe, NoDoubleBookingUnlessRaced, Taken
  <2>2. CASE a = b
    BY <1>1, <1>2, <2>2 DEF Taken, Overlap
  <2>3. CASE c = b
    BY <1>1, <1>2, <2>3 DEF Taken, Overlap
  <2> QED BY <2>1, <2>2, <2>3
<1> QED BY <1>3, <1>4, <1>5 DEF Safe

LEMMA InsertSafe ==
  ASSUME Safe, Typed', NEW h \in Handlers, Insert(h)
  PROVE  Safe'
<1>1. PICK b \in BookingIds :
        /\ bookings[b] = NONE
        /\ bookings' = [bookings EXCEPT ![b] = handler[h].row]
        /\ handler' = [handler EXCEPT ![h].step = "audit", ![h].id = b]
  BY DEF Insert
<1>2. InWindow(h) /\ handler[h] \in Work /\ handler[h] # Idle
  BY Busy DEF Safe, Typed, Insert, At, InWindow
<1>3. ~InWindow(h)' /\ \A g \in Handlers \ {h} : handler'[g] = handler[g]
  BY <1>1, <1>2 DEF Safe, Typed, TypeOK, InWindow, Work
<1>4. handler[h].row.service \notin raced => ~Conflict(handler[h].id, handler[h].row)
  BY <1>2 DEF Safe, Fresh, FreshWork, Insert, At
<1>5. handler[h].id = NONE /\ NONE \notin BookingIds
  BY <1>2, BookingsAssumption DEF Safe, Typed, HandlersOK, Insert
<1>6. handler[h].row.service \notin raced =>
        \A a \in BookingIds \ {b} :
          Taken(a) => ~Overlap(bookings[a], handler[h].row)
  BY <1>4, <1>5 DEF Conflict, Taken
<1>7. UNCHANGED raced
  BY DEF Insert, history
<1> QED BY <1>1, <1>2, <1>3, <1>6, <1>7, WriteSafe

\* What Overwrite writes on a service that has not raced: a change of an open
\* row to a free slot or in its own slot, or the removal of a row.
LEMMA OverwriteFresh ==
  ASSUME Safe, NEW h \in Handlers, Overwrite(h)
  PROVE  /\ handler[h] \in Work /\ OnRow(h) /\ InWindow(h)
         /\ handler[h].row \in Row
         /\ handler[h].row.service \notin raced =>
              /\ FreshWork(handler[h])
              /\ ~bookings[handler[h].id].deleted
              /\ handler[h].row = [bookings[handler[h].id] EXCEPT !.deleted = TRUE]
                 \/ /\ ~Closed(bookings[handler[h].id])
                    /\ ~handler[h].row.deleted
                    /\ \/ SameSlot(handler[h].row, bookings[handler[h].id])
                       \/ ~Conflict(handler[h].id, handler[h].row)
<1>1. InWindow(h) /\ handler[h] \in Work /\ handler[h] # Idle
  BY Busy DEF Safe, Typed, Overwrite, At, InWindow
<1>2. OnRow(h)
  BY <1>1 DEF Safe, Typed, HandlersOK, Overwrite
<1>3. handler[h].row.service \notin raced => FreshWork(handler[h])
  BY <1>1 DEF Safe, Fresh
<1>4. handler[h].op \in {"update", "cancel", "remove"} /\ handler[h].step = "save"
  BY <1>1 DEF Work, Op, Overwrite, At
<1>5. handler[h].row \in Row
  BY <1>1 DEF Work
<1> QED BY <1>1, <1>2, <1>3, <1>4, <1>5 DEF FreshWork

LEMMA OverwriteSafe ==
  ASSUME Safe, Typed', NEW h \in Handlers, Overwrite(h)
  PROVE  Safe'
<1> DEFINE b == handler[h].id
           r == handler[h].row
           next == IF handler[h].op = "update" THEN "notify" ELSE "audit"
<1>1. handler[h] \in Work /\ OnRow(h) /\ InWindow(h)
  BY OverwriteFresh
<1>2. /\ bookings' = [bookings EXCEPT ![b] = r]
      /\ handler' = [handler EXCEPT ![h].step = next]
      /\ UNCHANGED raced
  BY DEF Overwrite, Goto, history
<1>3. ~InWindow(h)' /\ \A g \in Handlers \ {h} : handler'[g] = handler[g]
  BY <1>1, <1>2 DEF Safe, Typed, TypeOK, InWindow, Work
<1>4. b \in BookingIds /\ bookings[b] \in Row /\ bookings[b].service = r.service
  BY <1>1 DEF OnRow, Safe, Typed, TypeOK
<1>5. ASSUME r.service \notin raced, Live(r), NEW a \in BookingIds \ {b}, Taken(a)
      PROVE  ~Overlap(bookings[a], r)
  <2>1. CASE ~Conflict(b, r)
    BY <1>5, <2>1 DEF Conflict, Taken
  <2>2. CASE SameSlot(r, bookings[b]) /\ ~Closed(bookings[b]) /\ ~bookings[b].deleted
    <3>1. Taken(b)
      BY <1>4, <2>2, BookingsAssumption DEF Taken, Live, Closed
    <3>2. ~Overlap(bookings[a], bookings[b])
      BY <1>4, <1>5, <3>1 DEF Safe, NoDoubleBookingUnlessRaced, Overlap
    <3> QED BY <1>4, <2>2, <3>2 DEF SameSlot, Overlap
  <2>3. ~(r = [bookings[b] EXCEPT !.deleted = TRUE])
    BY <1>4, <1>5 DEF Live, Row
  <2> QED BY <1>5, <2>1, <2>2, <2>3, OverwriteFresh
<1>6. handler[h].row.service \notin raced /\ Live(handler[h].row) =>
        \A a \in BookingIds \ {b} :
          Taken(a) => ~Overlap(bookings[a], handler[h].row)
  BY <1>5
<1> HIDE DEF next
<1> QED BY <1>1, <1>2, <1>3, <1>4, <1>6, WriteSafe

\* Every other step leaves the rows and raced alone.
Other ==
  \/ \E h \in Handlers : \/ CheckSlot(h) \/ WriteAudit(h) \/ NotifyOwner(h)
                        \/ Reload(h) \/ Emit(h) \/ Fail(h)
  \/ \E t \in tasks : NotifyAdmins(t)
  \/ \E s \in EditedServices : UpdateService(s) \/ RemoveService(s)
  \/ \E u \in RemovedUsers : RemoveUser(u) \/ RestoreUser(u)
  \/ Tick
  \/ UNCHANGED vars

LEMMA NextCases ==
  ASSUME [Next]_vars
  PROVE  \/ \E h \in Handlers : Arrive(h) \/ Insert(h) \/ Overwrite(h)
         \/ Other
  BY DEF Next, Proceed, Other

LEMMA OtherQuiet ==
  ASSUME Other PROVE UNCHANGED <<bookings, raced>>
  BY DEF Other, CheckSlot, WriteAudit, NotifyOwner, Reload, Emit, Fail,
         NotifyAdmins, UpdateService, RemoveService, RemoveUser, RestoreUser,
         Tick, vars, history

LEMMA OtherSafe ==
  ASSUME Safe, Typed', Other
  PROVE  Safe'
<1>1. ASSUME NEW h \in Handlers, CheckSlot(h) PROVE Safe'
  <2>1. InWindow(h) /\ handler[h] \in Work
    BY <1>1, Busy DEF CheckSlot, At, InWindow, Safe, Typed
  <2>2. CASE Goto(h, "save") /\ ~Conflict(handler[h].id, handler[h].row)
    <3>1. /\ handler'[h] = [handler[h] EXCEPT !.step = "save"]
          /\ \A g \in Handlers \ {h} : handler'[g] = handler[g]
      <4>1. handler' = [handler EXCEPT ![h].step = "save"]
        BY <2>2 DEF Goto
      <4> QED BY <4>1 DEF Safe, Typed, TypeOK
    <3>2. \A g \in Handlers : InWindow(g)' =>
            \/ handler'[g] = handler[g]
            \/ /\ InWindow(g)
               /\ handler'[g] = [handler[g] EXCEPT !.step = "save"]
               /\ ~Conflict(handler[g].id, handler[g].row)
      BY <2>1, <2>2, <3>1
    <3>3. UNCHANGED <<bookings, raced>>
      BY <1>1 DEF CheckSlot, history
    <3> QED BY <3>2, <3>3, QuietSafe
  <2>3. CASE Finish(h)
    <3>1. \A g \in Handlers : handler'[g] = handler[g] \/ ~InWindow(g)'
      BY <2>3 DEF Finish, Safe, Typed, TypeOK, InWindow, Idle
    <3>2. UNCHANGED <<bookings, raced>>
      BY <1>1 DEF CheckSlot, history
    <3> QED BY <3>1, <3>2, QuietSafe
  <2> QED BY <1>1, <2>2, <2>3 DEF CheckSlot
<1>2. ASSUME NEW h \in Handlers,
             WriteAudit(h) \/ NotifyOwner(h) \/ Reload(h) \/ Emit(h) \/ Fail(h)
      PROVE  Safe'
  <2>1. handler[h] \in Work
    BY <1>2, Busy DEF WriteAudit, NotifyOwner, Reload, Emit, Fail, At, Safe, Typed
  <2>2. \A g \in Handlers : handler'[g] = handler[g] \/ ~InWindow(g)'
    BY <1>2, <2>1 DEF WriteAudit, NotifyOwner, Reload, Emit, Fail, Goto, Finish,
                      Safe, Typed, TypeOK, InWindow, Idle, Work
  <2>3. UNCHANGED <<bookings, raced>>
    BY <1>2, OtherQuiet DEF Other
  <2> QED BY <2>2, <2>3, QuietSafe
<1>3. ASSUME \/ \E t \in tasks : NotifyAdmins(t)
             \/ \E s \in EditedServices : UpdateService(s) \/ RemoveService(s)
             \/ \E u \in RemovedUsers : RemoveUser(u) \/ RestoreUser(u)
             \/ Tick
             \/ UNCHANGED vars
      PROVE  Safe'
  <2>1. UNCHANGED handler
    BY <1>3 DEF NotifyAdmins, UpdateService, RemoveService, RemoveUser,
                RestoreUser, Tick, vars
  <2> QED BY <2>1, OtherQuiet, QuietSafe
<1> QED BY <1>1, <1>2, <1>3 DEF Other

LEMMA NextSafe ==
  ASSUME Safe, [Next]_vars PROVE Safe'
<1>1. Typed'
  BY NextTyped DEF Safe
<1> QED BY <1>1, NextCases, ArriveSafe, InsertSafe, OverwriteSafe, OtherSafe

LEMMA InitSafe == Init => Safe
<1> SUFFICES ASSUME Init PROVE Safe
  OBVIOUS
<1>1. \A h \in Handlers : ~InWindow(h)
  BY DEF Init, InWindow, Idle
<1> QED BY <1>1, InitTyped
    DEF Init, Safe, Alone, Fresh, NoDoubleBookingUnlessRaced, Taken

\* A service is not double booked unless two requests on it raced: the query
\* for a conflicting booking is enough when windows do not overlap.
THEOREM NotDoubleBooked == Spec => []NoDoubleBookingUnlessRaced
<1>1. Safe => NoDoubleBookingUnlessRaced
  BY DEF Safe
<1> QED BY <1>1, InitSafe, NextSafe, PTL DEF Spec

\* A step of a safe state writes over no closed row of an unraced service.
LEMMA ClosedKept ==
  ASSUME Safe, [Next]_vars,
         NEW b \in BookingIds, bookings[b] # NONE,
         bookings[b].service \notin raced
  PROVE  KeepsClosed(b)
<1>1. ASSUME NEW h \in Handlers, Overwrite(h) PROVE KeepsClosed(b)
  <2>1. bookings' = [bookings EXCEPT ![handler[h].id] = handler[h].row]
    BY <1>1 DEF Overwrite
  <2>2. CASE handler[h].id = b
    <3>1. bookings'[b] = handler[h].row
      BY <2>1, <2>2 DEF Safe, Typed, TypeOK
    <3>2. handler[h].row.service = bookings[b].service
      BY <1>1, <2>2, OverwriteFresh DEF OnRow
    <3>3. ~bookings[b].deleted
          /\ \/ handler[h].row = [bookings[b] EXCEPT !.deleted = TRUE]
             \/ ~Closed(bookings[b])
      BY <1>1, <2>2, <3>2, OverwriteFresh
    <3> QED BY <3>1, <3>3 DEF KeepsClosed
  <2>3. CASE handler[h].id # b
    <3>1. bookings'[b] = bookings[b]
      BY <2>1, <2>3 DEF Safe, Typed, TypeOK
    <3> QED BY <3>1 DEF KeepsClosed
  <2> QED BY <2>2, <2>3
<1>2. ASSUME NEW h \in Handlers, Insert(h) PROVE KeepsClosed(b)
  <2>1. PICK a \in BookingIds :
          /\ bookings[a] = NONE
          /\ bookings' = [bookings EXCEPT ![a] = handler[h].row]
    BY <1>2 DEF Insert
  <2>2. bookings'[b] = bookings[b]
    BY <2>1 DEF Safe, Typed, TypeOK
  <2> QED BY <2>2 DEF KeepsClosed
<1>3. ASSUME NEW h \in Handlers, Arrive(h) PROVE KeepsClosed(b)
  <2>1. UNCHANGED bookings
    BY <1>3, ArriveBegins DEF Begin
  <2> QED BY <2>1 DEF KeepsClosed
<1>4. ASSUME Other PROVE KeepsClosed(b)
  BY <1>4, OtherQuiet DEF KeepsClosed
<1> QED BY <1>1, <1>2, <1>3, <1>4, NextCases

\* Without a race nothing writes over a cancelled, completed or removed
\* booking: the statuses checked on the loaded copy are those of the row.
THEOREM ClosedStaysClosed == Spec => ClosedIsFinalUnlessRaced
<1>1. Safe /\ [Next]_vars =>
        [\A b \in BookingIds :
           bookings[b] # NONE /\ bookings[b].service \notin raced
           => KeepsClosed(b)]_bookings
  BY ClosedKept
<1> QED BY <1>1, InitSafe, NextSafe, PTL DEF Spec, ClosedIsFinalUnlessRaced

-----------------------------------------------------------------------------
\* The bookings handlers implement the calendar: the steps of a request other
\* than the save are stutters, and the save of a request that raced with
\* nobody is the calendar's atomic operation.

\* The entry the calendar has for b.
EntryOf(b) == IF bookings[b] # NONE /\ bookings[b].service \in raced
              THEN LOST ELSE bookings[b]

Entries == [b \in BookingIds |-> EntryOf(b)]

\* Where the calendar knows an entry, it is the row.
LEMMA KnownEntry ==
  ASSUME TypeOK, NEW b \in BookingIds
  PROVE  /\ EntryOf(b) \notin {NONE, LOST}
            <=> bookings[b] # NONE /\ bookings[b].service \notin raced
         /\ EntryOf(b) \notin {NONE, LOST}
              => EntryOf(b) = bookings[b] /\ bookings[b] \in Row
         /\ EntryOf(b) = NONE <=> bookings[b] = NONE
BY BookingsAssumption DEF TypeOK, EntryOf

\* A request that begins loses its service, or leaves the calendar as it is.
LEMMA BeginLoses ==
  ASSUME TypeOK, TypeOK', NEW h \in Handlers, NEW w, Begin(h, w)
  PROVE  (\E s \in Services : Calendar!Lose(s)) \/ UNCHANGED <<Entries, raced>>
<1> DEFINE s == w.row.service
<1>1. UNCHANGED bookings
  BY DEF Begin
<1>2. CASE raced' = raced
  BY <1>1, <1>2 DEF Entries, EntryOf
<1>3. CASE raced' = raced \cup {s}
  <2>1. s \in Services
    BY <1>3 DEF TypeOK
  <2>2. ASSUME NEW b \in BookingIds
        PROVE  EntryOf(b)' =
                 IF EntryOf(b) \notin {NONE, LOST} /\ EntryOf(b).service = s
                 THEN LOST ELSE EntryOf(b)
    BY <1>1, <1>3, KnownEntry DEF EntryOf
  <2>3. Entries' = [b \in BookingIds |->
                      IF Entries[b] \notin {NONE, LOST} /\ Entries[b].service = s
                      THEN LOST ELSE Entries[b]]
    BY <2>2 DEF Entries
  <2>4. Calendar!Lose(s)
    BY <1>3, <2>3 DEF Calendar!Lose, Calendar!Known, Entries, EntryOf
  <2> QED BY <2>1, <2>4
<1> QED BY <1>2, <1>3 DEF Begin

\* What a row that conflicts with nothing is for the calendar.
LEMMA FreeSlot ==
  ASSUME TypeOK, NEW b \in BookingIds, NEW id, NEW r,
         ~Conflict(id, r), id \in {b, NONE}
  PROVE  Calendar!Free(b, r)
<1>1. ASSUME NEW a \in BookingIds \ {b}, EntryOf(a) \notin {NONE, LOST},
             Calendar!Live(EntryOf(a))
      PROVE  ~Calendar!Overlap(EntryOf(a), r)
  <2>1. bookings[a] # NONE /\ EntryOf(a) = bookings[a] /\ a # id
    BY <1>1, KnownEntry, BookingsAssumption
  <2>2. Live(bookings[a])
    BY <1>1, <2>1 DEF Live, Calendar!Live
  <2>3. ~Overlap(bookings[a], r)
    BY <2>1, <2>2 DEF Conflict
  <2> QED BY <2>1, <2>3 DEF Overlap, Calendar!Overlap
<1>2. \A a \in BookingIds \ {b} :
        Entries[a] \notin {NONE, LOST} /\ Calendar!Live(Entries[a])
        => ~Calendar!Overlap(Entries[a], r)
  BY <1>1 DEF Entries
<1> QED BY <1>2 DEF Calendar!Free, Calendar!Known, Entries, EntryOf

\* An insertion books a free slot, or an entry of a lost service.
LEMMA InsertBooks ==
  ASSUME Safe, Safe', NEW h \in Handlers, Insert(h)
  PROVE  \E b \in BookingIds : Calendar!Book(b) \/ Calendar!BookLost(b)
<1> DEFINE r == handler[h].row
<1>1. PICK b \in BookingIds :
        bookings[b] = NONE /\ bookings' = [bookings EXCEPT ![b] = r]
  BY DEF Insert
<1>2. handler[h] \in Work /\ InWindow(h) /\ handler[h].op = "create"
      /\ handler[h].step = "save" /\ handler[h].id = NONE
  <2>1. handler[h] \in Work /\ InWindow(h)
    BY Busy DEF Safe, Typed, Insert, At, InWindow
  <2> QED BY <2>1 DEF Safe, Typed, HandlersOK, Insert, At, Idle
<1>3. r \in Row /\ r # NONE /\ r # LOST
  BY <1>2, BookingsAssumption DEF Work
<1>4. raced' = raced
  BY DEF Insert, history
<1>5. TypeOK
  BY DEF Safe, Typed
<1>6. Entries[b] = NONE /\ LOST # NONE
  BY <1>1, BookingsAssumption DEF Entries, EntryOf
<1>7. /\ EntryOf(b)' = IF r.service \in raced THEN LOST ELSE r
      /\ \A a \in BookingIds \ {b} : EntryOf(a)' = EntryOf(a)
  BY <1>1, <1>3, <1>4, <1>5 DEF EntryOf, TypeOK
<1>8. Entries' = [Entries EXCEPT ![b] = IF r.service \in raced THEN LOST ELSE r]
  BY <1>7 DEF Entries
<1>9. CASE r.service \in raced
  BY <1>4, <1>6, <1>8, <1>9 DEF Calendar!BookLost, Entries, EntryOf
<1>10. CASE r.service \notin raced
  <2>1. FreshWork(handler[h])
    BY <1>2, <1>10 DEF Safe, Fresh
  <2>2. r.status = "PENDING" /\ ~r.deleted /\ ~Conflict(NONE, r)
    BY <1>2, <2>1 DEF FreshWork
  <2>3. Calendar!Free(b, r)
    BY <1>5, <2>2, FreeSlot
  <2>4. Entries'[b] = r /\ Entries' = [Entries EXCEPT ![b] = r]
    BY <1>8, <1>10 DEF Entries
  <2>5. r \in Calendar!Entry
    BY <1>3 DEF Row, Status, Calendar!Entry, Calendar!Status
  <2>6. Calendar!Rewrite(b)
    BY <1>4, <2>4, <2>5 DEF Calendar!Rewrite, Entries, EntryOf
  <2>7. Calendar!Book(b)
    BY <1>6, <1>10, <2>2, <2>3, <2>4, <2>6 DEF Calendar!Book, Entries, EntryOf
  <2> QED BY <2>7
<1> QED BY <1>9, <1>10

\* The save of a loaded row changes or removes its entry, if it is known.
LEMMA OverwriteChanges ==
  ASSUME Safe, Safe', NEW h \in Handlers, Overwrite(h)
  PROVE  \/ \E b \in BookingIds : Calendar!Change(b) \/ Calendar!Remove(b)
         \/ UNCHANGED <<Entries, raced>>
<1>1. PICK b \in BookingIds, r \in Row :
        /\ b = handler[h].id /\ r = handler[h].row /\ OnRow(h)
        /\ bookings' = [bookings EXCEPT ![b] = r]
        /\ raced' = raced
  BY OverwriteFresh DEF Overwrite, history, OnRow
<1>2. /\ TypeOK
      /\ bookings[b] \in Row
      /\ bookings[b].owner = r.owner /\ bookings[b].service = r.service
      /\ bookings[b] # NONE /\ bookings[b] # LOST /\ r # NONE
  BY <1>1, BookingsAssumption DEF OnRow, Safe, Typed, TypeOK
<1>3. /\ EntryOf(b)' = IF r.service \in raced THEN LOST ELSE r
      /\ \A a \in BookingIds \ {b} : EntryOf(a)' = EntryOf(a)
  BY <1>1, <1>2 DEF EntryOf, TypeOK
<1>4. CASE r.service \in raced
  <2>1. \A a \in BookingIds : EntryOf(a)' = EntryOf(a)
    BY <1>2, <1>3, <1>4 DEF EntryOf
  <2> QED BY <1>1, <2>1 DEF Entries
<1>5. CASE r.service \notin raced
  <2>1. Entries[b] = bookings[b] /\ Calendar!Known(b)
    BY <1>2, <1>5 DEF Entries, EntryOf, Calendar!Known
  <2>2. Entries' = [Entries EXCEPT ![b] = r] /\ Entries'[b] = r
    BY <1>2, <1>3, <1>5 DEF Entries
  <2>3. r \in Calendar!Entry
    BY <1>1 DEF Row, Status, Calendar!Entry, Calendar!Status
  <2>4. ~bookings[b].deleted
    BY <1>1, <1>5, OverwriteFresh
  <2>5. CASE r = [bookings[b] EXCEPT !.deleted = TRUE]
    <3>1. Calendar!Remove(b)
      BY <1>1, <2>1, <2>2, <2>4, <2>5 DEF Calendar!Remove, Entries, EntryOf
    <3> QED BY <1>2, <3>1
  <2>6. CASE /\ ~Closed(bookings[b]) /\ ~r.deleted
             /\ SameSlot(r, bookings[b]) \/ ~Conflict(b, r)
    <3>1. Calendar!Rewrite(b)
      BY <1>1, <2>2, <2>3 DEF Calendar!Rewrite, Entries, EntryOf
    <3>2. SameSlot(r, bookings[b]) \/ Calendar!Free(b, r)
      BY <1>2, <2>6, FreeSlot
    <3>3. Calendar!Change(b)
      BY <1>2, <2>1, <2>2, <2>4, <2>6, <3>1, <3>2
         DEF Calendar!Change, Closed, SameSlot, Entries, EntryOf
    <3> QED BY <1>2, <3>3
  <2> QED BY <1>1, <1>5, <2>5, <2>6, OverwriteFresh
<1> QED BY <1>4, <1>5

\* Every behaviour of the handlers is one of the calendar: up to races, what
\* the clients see is a calendar that gives out each slot once.
THEOREM RefinesCalendar == Spec => ImplementsCalendar
<1>1. Init => Calendar!Init
  BY DEF Init, Calendar!Init
<1>2. ASSUME Safe, Safe', [Next]_vars
      PROVE  [Calendar!Next]_(Calendar!vars)
  <2>1. CASE \E h \in Handlers : Arrive(h)
    <3>1. (\E s \in Services : Calendar!Lose(s)) \/ UNCHANGED <<Entries, raced>>
      BY <1>2, <2>1, ArriveBegins, BeginLoses DEF Safe, Typed
    <3> QED BY <3>1 DEF Calendar!Next, Calendar!vars, Entries, EntryOf
  <2>2. CASE \E h \in Handlers : Insert(h)
    BY <1>2, <2>2, InsertBooks DEF Calendar!Next
  <2>3. CASE \E h \in Handlers : Overwrite(h)
    <3>1. \/ \E b \in BookingIds : Calendar!Change(b) \/ Calendar!Remove(b)
          \/ UNCHANGED <<Entries, raced>>
      BY <1>2, <2>3, OverwriteChanges
    <3> QED BY <3>1 DEF Calendar!Next, Calendar!vars, Entries, EntryOf
  <2>4. CASE Other
    BY <2>4, OtherQuiet DEF Calendar!vars
  <2> QED BY <1>2, <2>1, <2>2, <2>3, <2>4, NextCases
<1> QED BY <1>1, <1>2, InitSafe, NextSafe, PTL
    DEF Spec, ImplementsCalendar, Calendar!Spec

=============================================================================
