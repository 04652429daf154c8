------------------------------ MODULE Bookings ------------------------------
(***************************************************************************)
(* The booking handlers of one tenant, with the reads and writes of each   *)
(* HTTP request as separate steps.                                         *)
(*                                                                         *)
(* A request is served by an asynchronous function.  Node runs one at a    *)
(* time between two awaits, and every await on the database is a point     *)
(* where other requests run, so a handler works on a copy of the row that  *)
(* may be stale by the time it is saved.  There is no transaction, no row  *)
(* version and no exclusion constraint on the table.                       *)
(*                                                                         *)
(* Simplifications:                                                        *)
(*  - One tenant: every query filters on tenantId.                         *)
(*  - repository.save(entity) writes every column that differs from the    *)
(*    stored row, so afterwards the row is the entity; it is one step.     *)
(*  - A request refused before its first write changes nothing and is a    *)
(*    stuttering step.                                                     *)
(*  - notes, names, prices and the text of mails are left out.             *)
(***************************************************************************)
EXTENDS Integers

CONSTANTS
  Handlers,      \* concurrent executions the server interleaves
  BookingIds,    \* the uuids the database may hand out
  Services,      \* the tenant's services
  EditedServices,\* bound: the services an administrator edits meanwhile
  Users,         \* users allowed to book
  Admins,        \* the users with MANAGE_BOOKINGS
  RemovedUsers,  \* bound: the users whose account is removed meanwhile
  Times,         \* start times a request may ask for
  Durations,     \* durations a service may have
  AskedStatuses, \* statuses a PUT may carry
  MaxNow,        \* bound on the clock
  MaxRequests,   \* bound on the requests that begin
  NONE,          \* null / absent
  LOST           \* stands for the rows of a service that raced, in the calendar

Status == {"PENDING", "CONFIRMED", "CANCELLED", "COMPLETED", "NO_SHOW"}

ServiceRow == [duration: Durations, active: BOOLEAN, deleted: BOOLEAN]

Row == [owner: Users, service: Services, start: Nat, end: Nat,
        status: Status, deleted: BOOLEAN]

ASSUME BookingsAssumption ==
  /\ EditedServices \subseteq Services
  /\ Admins \subseteq Users
  /\ RemovedUsers \subseteq Users
  /\ Times \subseteq Nat
  /\ Durations \subseteq Nat \ {0}
  /\ AskedStatuses \subseteq Status
  /\ MaxNow \in Nat
  /\ MaxRequests \in Nat
  /\ NONE \notin Row \cup BookingIds \cup Times \cup Status
  /\ LOST \notin Row \cup {NONE}

Op == {"create", "update", "cancel", "remove"}

(***************************************************************************)
(* A request being served: what it does, its next step, who asked, the row *)
(* it works on, the copy of that row with its own changes applied, the     *)
(* status the row was loaded with, the status its audit entry will carry,  *)
(* whether the rows it notifies with were joined, and the status it        *)
(* re-read for the answer.                                                 *)
(***************************************************************************)
Work == [op: Op,
         step: {"check", "save", "audit", "notify", "load", "emit"},
         user: Users, id: BookingIds \cup {NONE}, row: Row, was: Status,
         asked: Status \cup {NONE}, joined: BOOLEAN,
         seen: Status \cup {NONE}]

Idle == [step |-> "idle"]

\* An entry's status is the one in its newValue: for an update the one asked
\* for, also when it was ignored.
AuditEntry == [action: {"CREATE", "UPDATE", "DELETE"}, id: BookingIds,
               status: Status \cup {NONE}, user: Users]

Kind == {"CREATED", "CONFIRMED", "CANCELLED"}
Notice == [to: Users, kind: Kind, id: BookingIds]
Task == [kind: Kind, id: BookingIds, by: Users]

\* A removed account keeps its row, which the queries no longer find, and its
\* access tokens, which nobody checks against the table.
Account == {"used", "removed", "restored"}

VARIABLES
  now,        \* the wall clock
  accounts,   \* table users: soft deletion
  services,   \* table services
  bookings,   \* table bookings
  handler,    \* what each execution is doing
  audit,      \* table audit_logs, entity 'Booking'
  notices,    \* table notifications, with the mail that goes with each
  tasks,      \* notifyAdmins... calls in flight: nobody awaits them
  shown,      \* status in the last booking event sent to the tenant's room
  started,    \* requests begun so far
  raced,      \* history: services where two load-to-save windows overlapped
  unlogged,   \* history: bookings saved by a request that failed before its
              \* audit entry
  faulty      \* history: bookings on which a request failed after its save,
              \* or the notices to the administrators did

effects == <<audit, notices, tasks, shown>>
history == <<raced, unlogged, faulty>>
vars == <<now, accounts, services, bookings, handler, effects, started,
          history>>

TypeOK ==
  /\ now \in Nat
  /\ accounts \in [Users -> Account]
  /\ services \in [Services -> ServiceRow]
  /\ bookings \in [BookingIds -> Row \cup {NONE}]
  /\ handler \in [Handlers -> Work \cup {Idle}]
  /\ audit \subseteq AuditEntry
  /\ notices \subseteq Notice
  /\ tasks \subseteq Task
  /\ shown \in [BookingIds -> Status \cup {NONE}]
  /\ started \in Nat
  /\ raced \subseteq Services
  /\ unlogged \subseteq BookingIds
  /\ faulty \subseteq BookingIds

Init ==
  /\ now = 0
  /\ accounts = [u \in Users |-> "used"]
  /\ services \in [Services -> [duration: Durations, active: {TRUE},
                                deleted: {FALSE}]]
  /\ bookings = [b \in BookingIds |-> NONE]
  /\ handler = [h \in Handlers |-> Idle]
  /\ audit = {}
  /\ notices = {}
  /\ tasks = {}
  /\ shown = [b \in BookingIds |-> NONE]
  /\ started = 0
  /\ raced = {}
  /\ unlogged = {}
  /\ faulty = {}

-----------------------------------------------------------------------------
\* Queries

\* what a find with deletedAt IS NULL returns
AnyRow(b) == bookings[b] # NONE

Visible(b) == bookings[b] # NONE /\ ~bookings[b].deleted

\* a user that a find returns
Found(u) == accounts[u] # "removed"

\* a row that takes up its slot
Live(r) == ~r.deleted /\ r.status # "CANCELLED"

\* startTime < end AND endTime > start, on the same service
Overlap(r, q) == /\ r.service = q.service
                 /\ r.start < q.end
                 /\ q.start < r.end

\* conflictingBooking: another live row in the way of row r of booking id
ConfirmedConflictOnly(id, r) ==
  \E b \in BookingIds \ {id} :
    /\ bookings[b] # NONE
    /\ Live(bookings[b]) /\ bookings[b].status = "CONFIRMED"
    /\ Overlap(bookings[b], r)

Conflict(id, r) ==
  \E b \in BookingIds \ {id} :
    /\ bookings[b] # NONE
    /\ Live(bookings[b])
    /\ Overlap(bookings[b], r)

\* the owner, or an administrator
MayTouch(u, r) == u \in Admins \/ u = r.owner

\* the statuses update and cancel refuse to touch
ClosedButCancelled(r) == r.status = "COMPLETED"

Closed(r) == r.status \in {"CANCELLED", "COMPLETED"}

\* the status an update applies: a client's is ignored
AskedByAnyone(u, st) == st # NONE

Granted(u, st) == st # NONE /\ u \in Admins

\* between its load and its save, a handler holds a copy that may go stale
InWindow(h) == handler[h].step \in {"check", "save"}

-----------------------------------------------------------------------------
\* The first query of a request: a handler takes it up with work w.
Begin(h, w) ==
  /\ handler[h] = Idle
  /\ started < MaxRequests
  /\ started' = started + 1
  /\ handler' = [handler EXCEPT ![h] = w]
  /\ raced' = IF \E g \in Handlers \ {h} :
                   InWindow(g) /\ handler[g].row.service = w.row.service
                THEN raced \cup {w.row.service} ELSE raced
  /\ UNCHANGED <<now, accounts, services, bookings, effects, unlogged, faulty>>

CreateLoad(h, u, s, t) ==
  /\ services[s].active
  /\ ~services[s].deleted
  /\ Begin(h, [op |-> "create", step |-> "check", user |-> u, id |-> NONE,
               row |-> [owner |-> u, service |-> s, start |-> t,
                        end |-> t + services[s].duration,
                        status |-> "PENDING", deleted |-> FALSE],
               was |-> "PENDING", asked |-> "PENDING", joined |-> TRUE,
               seen |-> NONE])

\* update: start time and status are both optional.  With the service deleted
\* booking.service is null, and reading its duration ends the request.
UpdateLoad(h, u, b, t, st) ==
  /\ Visible(b)
  /\ MayTouch(u, bookings[b])
  /\ ~Closed(bookings[b])
  /\ LET service == services[bookings[b].service]
         moved == IF t = NONE THEN bookings[b]
                  ELSE [bookings[b] EXCEPT !.start = t,
                                           !.end = t + service.duration]
     IN  /\ t # NONE => ~service.deleted
         /\ Begin(h, [op |-> "update",
                      step |-> IF t = NONE THEN "save" ELSE "check",
                      user |-> u, id |-> b,
                      row |-> IF Granted(u, st)
                              THEN [moved EXCEPT !.status = st] ELSE moved,
                      was |-> bookings[b].status, asked |-> st,
                      joined |-> ~service.deleted, seen |-> NONE])

CancelLoad(h, u, b) ==
  /\ Visible(b)
  /\ MayTouch(u, bookings[b])
  /\ ~Closed(bookings[b])
  /\ Begin(h, [op |-> "cancel", step |-> "save", user |-> u, id |-> b,
               row |-> [bookings[b] EXCEPT !.status = "CANCELLED"],
               was |-> bookings[b].status, asked |-> "CANCELLED",
               joined |-> /\ ~services[bookings[b].service].deleted
                          /\ Found(bookings[b].owner),
               seen |-> NONE])

RemoveLoad(h, u, b) ==
  /\ u \in Admins
  /\ Visible(b)
  /\ Begin(h, [op |-> "remove", step |-> "save", user |-> u, id |-> b,
               row |-> [bookings[b] EXCEPT !.deleted = TRUE],
               was |-> bookings[b].status, asked |-> NONE, joined |-> FALSE,
               seen |-> NONE])

-----------------------------------------------------------------------------
\* The rest of a request

At(h, step) == handler[h].step = step
Goto(h, step) == handler' = [handler EXCEPT ![h].step = step]
Finish(h) == handler' = [handler EXCEPT ![h] = Idle]

\* The past check and the query for a conflicting booking.
CheckSlot(h) ==
  /\ At(h, "check")
  /\ LET w == handler[h]
     IN  IF w.row.start < now \/ Conflict(w.id, w.row)
           THEN Finish(h) ELSE Goto(h, "save")
  /\ UNCHANGED <<now, accounts, services, bookings, effects, started, history>>

\* save() of a new entity: the database hands out an unused id.
Insert(h) ==
  /\ At(h, "save")
  /\ handler[h].op = "create"
  /\ \E b \in BookingIds :
       /\ bookings[b] = NONE
       /\ bookings' = [bookings EXCEPT ![b] = handler[h].row]
       /\ handler' = [handler EXCEPT ![h].step = "audit", ![h].id = b]
  /\ UNCHANGED <<now, accounts, services, effects, started, history>>

\* save() of a loaded entity: the copy replaces the row.
Overwrite(h) ==
  /\ At(h, "save")
  /\ handler[h].op # "create"
  /\ bookings' = [bookings EXCEPT ![handler[h].id] = handler[h].row]
  /\ Goto(h, IF handler[h].op = "update" THEN "notify" ELSE "audit")
  /\ UNCHANGED <<now, accounts, services, effects, started, history>>

OperationName(op) == op

RemovalLoggedAsUpdate(op) == IF op = "create" THEN "CREATE" ELSE "UPDATE"

AuditAction(op) == CASE op = "create" -> "CREATE"
                     [] op = "remove" -> "DELETE"
                     [] OTHER -> "UPDATE"

WriteAudit(h) ==
  /\ At(h, "audit")
  /\ LET w == handler[h]
     IN  /\ audit' = audit \cup {[action |-> AuditAction(w.op), id |-> w.id,
                                  status |-> w.asked, user |-> w.user]}
         /\ CASE w.op = "update" -> Goto(h, "load")
              [] w.op = "remove" -> Finish(h)
              [] OTHER -> Goto(h, "notify")
  /\ UNCHANGED <<now, accounts, services, bookings, notices, tasks, shown,
                 started, history>>

\* The message for the booking's owner, if the request has one: none for an
\* owner whose account is removed, none for an administrator acting on their
\* own booking, none for an update that does not confirm, none for an update
\* whose service is gone.
OwnerNotices(w) ==
  IF ~Found(w.row.owner) \/ (w.user = w.row.owner /\ w.user \in Admins) THEN {}
  ELSE CASE w.op = "create" ->
              {[to |-> w.row.owner, kind |-> "CREATED", id |-> w.id]}
         [] w.op = "update" ->
              IF w.was # "CONFIRMED" /\ w.row.status = "CONFIRMED" /\ w.joined
              THEN {[to |-> w.row.owner, kind |-> "CONFIRMED", id |-> w.id]}
              ELSE {}
         [] OTHER ->
              IF services[w.row.service].deleted THEN {}
              ELSE {[to |-> w.row.owner, kind |-> "CANCELLED", id |-> w.id]}

\* sendBooking...Email: errors are caught, so the request goes on either way.
NotifyOwner(h) ==
  /\ At(h, "notify")
  /\ LET w == handler[h]
     IN  /\ \E sent \in {{}, OwnerNotices(w)} : notices' = notices \cup sent
         /\ Goto(h, CASE w.op = "create" -> "load"
                      [] w.op = "update" -> "audit"
                      [] OTHER -> "emit")
  /\ UNCHANGED <<now, accounts, services, bookings, audit, tasks, shown, started,
                 history>>

\* create looks its user up and, if there is one, starts
\* notifyAdminsOfNewBooking without awaiting it; create and update then
\* re-read the row, which finds nothing once it is soft-deleted.
Reload(h) ==
  /\ At(h, "load")
  /\ LET w == handler[h]
     IN  /\ tasks' = IF w.op = "create" /\ Found(w.user)
                     THEN tasks \cup {[kind |-> "CREATED", id |-> w.id,
                                       by |-> w.user]}
                     ELSE tasks
         /\ handler' = [handler EXCEPT
                          ![h].step = "emit",
                          ![h].seen = IF Visible(w.id)
                                      THEN bookings[w.id].status ELSE NONE]
  /\ UNCHANGED <<now, accounts, services, bookings, audit, notices, shown,
                 started, history>>

\* The event's content: the row as re-read or, for cancel, the id alone.
OldValue(w) == w.was

Announced(w) == IF w.op = "cancel" THEN "CANCELLED" ELSE w.seen

\* The event to the tenant's room, and the answer.
Emit(h) ==
  /\ At(h, "emit")
  /\ LET w == handler[h]
     IN  /\ shown' = IF Announced(w) = NONE THEN shown
                     ELSE [shown EXCEPT ![w.id] = Announced(w)]
         /\ tasks' = IF w.op = "cancel" /\ w.joined
                     THEN tasks \cup {[kind |-> "CANCELLED", id |-> w.id,
                                       by |-> w.user]}
                     ELSE tasks
  /\ Finish(h)
  /\ UNCHANGED <<now, accounts, services, bookings, audit, notices, started,
                 history>>

\* saved, with the audit entry still to write
Unlogged(h) == \/ At(h, "audit")
               \/ At(h, "notify") /\ handler[h].op = "update"

\* An await that rejects, or a crash of the process, ends the request where
\* it is: nothing is rolled back.
Fail(h) ==
  /\ ~At(h, "idle")
  /\ unlogged' = IF Unlogged(h) THEN unlogged \cup {handler[h].id} ELSE unlogged
  /\ faulty' = IF InWindow(h) THEN faulty ELSE faulty \cup {handler[h].id}
  /\ Finish(h)
  /\ UNCHANGED <<now, accounts, services, bookings, effects, started, raced>>

\* the administrators a background task writes to
NoOtherAdmin(t) == Admins \ Admins

Others(t) == {a \in Admins : a # t.by /\ Found(a)}

\* notifyAdmins...: a loop over the other administrators, cut short by the
\* first error, which is only logged.
NotifyAdmins(t) ==
  /\ t \in tasks
  /\ tasks' = tasks \ {t}
  /\ \E reached \in SUBSET Others(t) :
       /\ notices' = notices \cup
            {[to |-> a, kind |-> t.kind, id |-> t.id] : a \in reached}
       /\ faulty' = IF reached = Others(t) THEN faulty
                    ELSE faulty \cup {t.id}
  /\ UNCHANGED <<now, accounts, services, bookings, handler, audit, shown,
                 started, raced, unlogged>>

-----------------------------------------------------------------------------
\* What happens around the requests

\* ServicesService.update and remove, as one step each
UpdateService(s) ==
  /\ ~services[s].deleted
  /\ \E d \in Durations, a \in BOOLEAN :
       services' = [services EXCEPT ![s].duration = d, ![s].active = a]
  /\ UNCHANGED <<now, accounts, bookings, handler, effects, started, history>>

RemoveService(s) ==
  /\ ~services[s].deleted
  /\ services' = [services EXCEPT ![s].deleted = TRUE]
  /\ UNCHANGED <<now, accounts, bookings, handler, effects, started, history>>

\* UsersService.remove, as one step
RemoveUser(u) ==
  /\ Found(u)
  /\ accounts' = [accounts EXCEPT ![u] = "removed"]
  /\ UNCHANGED <<now, services, bookings, handler, effects, started, history>>

\* UsersService.update saving a row it had loaded before the removal
RestoreUser(u) ==
  /\ ~Found(u)
  /\ accounts' = [accounts EXCEPT ![u] = "restored"]
  /\ UNCHANGED <<now, services, bookings, handler, effects, started, history>>

Tick ==
  /\ now < MaxNow
  /\ now' = now + 1
  /\ UNCHANGED <<accounts, services, bookings, handler, effects, started, history>>

-----------------------------------------------------------------------------
Arrive(h) ==
  \/ \E u \in Users, s \in Services, t \in Times : CreateLoad(h, u, s, t)
  \/ \E u \in Users, b \in BookingIds, t \in Times \cup {NONE},
        st \in AskedStatuses \cup {NONE} : UpdateLoad(h, u, b, t, st)
  \/ \E u \in Users, b \in BookingIds : CancelLoad(h, u, b)
  \/ \E u \in Users, b \in BookingIds : RemoveLoad(h, u, b)

Proceed(h) ==
  \/ CheckSlot(h)
  \/ Insert(h)
  \/ Overwrite(h)
  \/ WriteAudit(h)
  \/ NotifyOwner(h)
  \/ Reload(h)
  \/ Emit(h)
  \/ Fail(h)

Next ==
  \/ \E h \in Handlers : Arrive(h) \/ Proceed(h)
  \/ \E t \in tasks : NotifyAdmins(t)
  \/ \E s \in EditedServices : UpdateService(s) \/ RemoveService(s)
  \/ \E u \in RemovedUsers : RemoveUser(u) \/ RestoreUser(u)
  \/ Tick

Spec == Init /\ [][Next]_vars

\* The event loop resumes every handler and every background task.
FairSpec ==
  /\ Spec
  /\ \A h \in Handlers : WF_vars(Proceed(h))
  /\ \A t \in Task : WF_vars(NotifyAdmins(t))

-----------------------------------------------------------------------------
\* Properties

Taken(b) == bookings[b] # NONE /\ Live(bookings[b])

\* No two live bookings of a service overlap: what the comment on the query
\* for conflictingBooking claims, "que no haya otra reserva en ese horario".
NoDoubleBooking ==
  \A a, b \in BookingIds :
    a # b /\ Taken(a) /\ Taken(b) => ~Overlap(bookings[a], bookings[b])

\* The part of it the code does ensure: a service is never double booked
\* unless two requests on it were between their load and their save at once.
NoDoubleBookingUnlessRaced ==
  \A a, b \in BookingIds :
    /\ a # b /\ Taken(a) /\ Taken(b)
    /\ bookings[a].service \notin raced
    => ~Overlap(bookings[a], bookings[b])

\* A save that leaves a closed row as it is, or removes it.
KeepsClosed(b) ==
  bookings[b] # NONE /\ (Closed(bookings[b]) \/ bookings[b].deleted)
  => \/ bookings'[b] = bookings[b]
     \/ bookings'[b] = [bookings[b] EXCEPT !.deleted = TRUE]

\* "No permitir modificar reservas canceladas o completadas": the checks of
\* update and cancel keep closed bookings as they are, and nothing brings a
\* removed one back.
ClosedIsFinal == [][\A b \in BookingIds : KeepsClosed(b)]_bookings

\* The part of it the code does ensure: it takes two requests on the service
\* at work at once to write over a closed booking.
ClosedIsFinalUnlessRaced ==
  [][\A b \in BookingIds :
       bookings[b] # NONE /\ bookings[b].service \notin raced
       => KeepsClosed(b)]_bookings

\* a handler that has saved b and not yet written its audit entry
Owes(h, b) == Unlogged(h) /\ handler[h].id = b

\* b's log has the action, with the status, by one of these users, or is
\* about to have it
Logged(b, action, status, who) ==
  \/ \E e \in audit : /\ e.id = b
                      /\ e.action = action
                      /\ e.status = status
                      /\ e.user \in who
  \/ \E h \in Handlers : /\ Owes(h, b)
                         /\ AuditAction(handler[h].op) = action
                         /\ handler[h].asked = status
                         /\ handler[h].user \in who

\* Unless a request ended between its save and its audit entry, the log
\* accounts for the state of every booking, whatever the races: who made it,
\* that an administrator asked for the very status it has or, if it is
\* cancelled, an administrator or the owner did, and that an administrator
\* removed it.
AuditTrail ==
  \A b \in BookingIds \ unlogged : bookings[b] # NONE =>
    LET r == bookings[b]
    IN  /\ Logged(b, "CREATE", "PENDING", {r.owner})
        /\ r.status \in {"CONFIRMED", "COMPLETED", "NO_SHOW"}
             => Logged(b, "UPDATE", r.status, Admins)
        /\ r.status = "CANCELLED"
             => Logged(b, "UPDATE", "CANCELLED", Admins \cup {r.owner})
        /\ r.deleted => Logged(b, "DELETE", NONE, Admins)

\* A client told that their booking is cancelled can rely on it, unless two
\* requests on the service raced.
CancelNoticeTrue ==
  \A n \in notices :
    /\ n.kind = "CANCELLED"
    /\ bookings[n.id].service \notin raced
    => bookings[n.id].status = "CANCELLED"

\* Whoever is told that a booking is confirmed finds, in its log or about to
\* be written to it, the update by which an administrator made it CONFIRMED,
\* whatever the races: the notice goes out before the entry is written, so
\* only a request that ended in between leaves one without the other.
ConfirmationIsAdmins ==
  \A n \in notices : n.kind = "CONFIRMED" =>
    n.id \in unlogged \/ Logged(n.id, "UPDATE", "CONFIRMED", Admins)

\* With no request at work on it, the last event sent to the tenant's room
\* shows the booking's status.  update and cancel send theirs last, after
\* the save; remove sends none.
BroadcastIsCurrent ==
  \A b \in BookingIds :
    /\ Visible(b) /\ b \notin faulty
    /\ \A h \in Handlers : At(h, "idle") \/ handler[h].id # b
    => shown[b] = bookings[b].status

\* b's creation has reached the tenant's room and, unless the account of its
\* owner was removed, the other administrators whose account was not
Heard(b) ==
  /\ bookings[b] # NONE
  /\ shown[b] # NONE
  /\ accounts[bookings[b].owner] = "used" =>
       \A a \in Admins \ {bookings[b].owner} :
         \/ accounts[a] # "used"
         \/ [to |-> a, kind |-> "CREATED", id |-> b] \in notices

\* A saved booking is announced, in the room and to every administrator but
\* the one who made it, unless it is removed or a failure comes first: nobody
\* awaits the notices to the administrators, but nothing drops them either.
\* The one who made it must still have an account: create tells no
\* administrator of a booking made with the token of a removed user.
EveryBookingAnnounced ==
  \A b \in BookingIds :
    Visible(b) ~> b \in faulty \/ ~Visible(b) \/ Heard(b)

\* The calendar this module implements.
Calendar == INSTANCE Calendar WITH
  entries <- [b \in BookingIds |->
                IF bookings[b] # NONE /\ bookings[b].service \in raced
                THEN LOST ELSE bookings[b]],
  lost <- raced

\* Every step of every handler is a step of the calendar, or none.
ImplementsCalendar == Calendar!Spec

=============================================================================
