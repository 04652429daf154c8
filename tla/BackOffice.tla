----------------------------- MODULE BackOffice -----------------------------
(***************************************************************************)
(* The tables an administrator keeps: users, services and roles of one     *)
(* tenant, the tenants themselves, and the bookings as far as the plan     *)
(* counts them.  A behaviour is about one of them, `table', chosen once:   *)
(* their services have the same shape (find, check, save) and differ in    *)
(* what they check, as the definitions below say table by table.           *)
(*                                                                         *)
(* The subscription guard runs before create and counts the rows; the      *)
(* service saves later.  Each await on the database ends a step.  save()   *)
(* of TypeORM leaves the row equal to the copy, deleted_at included.       *)
(*                                                                         *)
(* Bounds: requests (MaxRequests).                                         *)
(***************************************************************************)
EXTENDS Integers, Sequences, FiniteSets

CONSTANTS
  Handlers,    \* requests that may be under way at once
  Tables,      \* the tables behaviours are about
  Names,       \* e-mails, names or slugs
  Reserved,    \* the reserved names of roles
  Limit,       \* the plan's limit for the table's rows
  MaxRequests  \* bound on the requests of a behaviour

AllTables == {"users", "services", "roles", "tenants", "bookings"}

ASSUME BackOfficeAssumption ==
  /\ IsFiniteSet(Handlers) /\ Handlers # {}
  /\ Tables \subseteq AllTables
  /\ Reserved \subseteq Names
  /\ Limit \in Int
  /\ MaxRequests \in Nat

VARIABLES
  table,     \* the table this behaviour is about
  rows,      \* its rows, in the order of their creation
  handler,   \* the local state of each request
  requests,  \* requests so far
  raced,     \* history: names that two requests were to write at once
  reopened   \* history: removed tenants a checkout has made active

vars == <<table, rows, handler, requests, raced, reopened>>

\* on is is_active, or the status ACTIVE of a tenant; recent is a created_at
\* of this month.
Row == [name : Names, on : BOOLEAN, deleted : BOOLEAN, recent : BOOLEAN]

Operations == {"create", "update", "settings", "remove"}

Idle == [step |-> "idle"]

\* id is 0 for a row to be created.
Working == [step : {"check", "save"}, op : Operations, id : Nat, copy : Row]

Visible(i) == ~rows[i].deleted

\* A request is under way that may write the name.
Claimed(name) == \E h \in Handlers : handler[h] # Idle /\ handler[h].copy.name = name

\* A request goes on to its next await with a copy of the row to save.
Start(h, op, step, id, copy) ==
  /\ handler[h] = Idle
  /\ requests < MaxRequests
  /\ requests' = requests + 1
  /\ handler' = [handler EXCEPT ![h] =
       [step |-> step, op |-> op, id |-> id, copy |-> copy]]
  /\ raced' = IF Claimed(copy.name) THEN raced \cup {copy.name} ELSE raced
  /\ UNCHANGED reopened

Done(h) == handler' = [handler EXCEPT ![h] = Idle]

----------------------------------------------------------------------------
(* What differs from table to table.                                       *)

\* The routes that carry CheckPlanLimits.
Guarded == table \in {"users", "services", "bookings"}

\* calculateUsage: bookings are counted by the month of their creation.
Counted == {i \in DOMAIN rows : Visible(i) /\ (table = "bookings" => rows[i].recent)}

\* checkPlanLimit: a limit of -1 or 0 means unlimited.
AllowedAtLimit == Limit <= 0 \/ Cardinality(Counted) <= Limit

Allowed == Limit <= 0 \/ Cardinality(Counted) < Limit

\* The names role creation and update refuse; nothing else is refused.
Refused(name) == table = "roles" /\ name \in Reserved

\* Whether an update looks for another row before it takes a new name.
UnverifiedRename(copy, name) == FALSE

VerifiedRename(copy, name) == table = "services" /\ name # copy.name

\* What an update may be asked: users have no name to change, tenants take
\* all but the slug, roles and bookings have no switch.
RenamesToNothing == {""}

Renames == IF table \in {"services", "roles"} THEN Names ELSE {}

Switches == IF table \in {"roles", "bookings"} THEN {} ELSE BOOLEAN

\* A removed user is switched off and a removed tenant suspended.
OnlyDeleted(row) == [row EXCEPT !.deleted = TRUE]

Removed(row) ==
  [row EXCEPT !.deleted = TRUE,
              !.on = @ /\ table \notin {"users", "tenants"}]

----------------------------------------------------------------------------
(* Requests.  One that is refused changes nothing.                         *)

\* SubscriptionGuard, then the call of create.  Bookings have no name of
\* their own: their conflicts are Bookings' subject.
BeginCreate(h) ==
  /\ Guarded => Allowed
  /\ \E name \in Names :
       /\ ~Refused(name)
       /\ Start(h, "create", IF table = "bookings" THEN "save" ELSE "check", 0,
                [name |-> name, on |-> TRUE, deleted |-> FALSE, recent |-> TRUE])
  /\ UNCHANGED <<table, rows>>

\* The row with the same name is looked for and not found.
NameFree(h) ==
  \A i \in DOMAIN rows : Visible(i) => rows[i].name # handler[h].copy.name

CheckName(h) ==
  /\ handler[h].step = "check"
  /\ IF NameFree(h) THEN handler' = [handler EXCEPT ![h].step = "save"]
                    ELSE Done(h)
  /\ UNCHANGED <<table, rows, requests, raced, reopened>>

\* tenants.slug is unique in the database, removed rows included.
Insert(h) ==
  /\ handler[h].step = "save" /\ handler[h].op = "create"
  /\ rows' = IF table = "tenants"
                /\ \E i \in DOMAIN rows : rows[i].name = handler[h].copy.name
             THEN rows
             ELSE Append(rows, handler[h].copy)
  /\ Done(h)
  /\ UNCHANGED <<table, requests, raced, reopened>>

\* The row is found and the fields asked for are changed in the copy.
BeginUpdate(h) ==
  /\ \E i \in {j \in DOMAIN rows : Visible(j)} :
     \E name \in Renames \cup {rows[i].name}, on \in Switches \cup {rows[i].on} :
       /\ ~Refused(name)
       /\ Start(h, "update",
                IF VerifiedRename(rows[i], name) THEN "check" ELSE "save", i,
                [rows[i] EXCEPT !.name = name, !.on = on])
  /\ UNCHANGED <<table, rows>>

\* updateMyTenant, and the profile of a user: the switch is not asked for.
BeginSettings(h) ==
  /\ table \in {"users", "tenants"}
  /\ \E i \in {j \in DOMAIN rows : Visible(j)} :
       Start(h, "settings", "save", i, rows[i])
  /\ UNCHANGED <<table, rows>>

BeginRemove(h) ==
  /\ \E i \in {j \in DOMAIN rows : Visible(j)} :
       Start(h, "remove", "save", i, Removed(rows[i]))
  /\ UNCHANGED <<table, rows>>

Overwrite(h) ==
  /\ handler[h].step = "save" /\ handler[h].op # "create"
  /\ rows' = [rows EXCEPT ![handler[h].id] = handler[h].copy]
  /\ reopened' = reopened \ {handler[h].id}
  /\ Done(h)
  /\ UNCHANGED <<table, requests, raced>>

\* Stripe tells that a tenant has paid: its status is set by the id alone,
\* and neither a removal nor a suspension since the checkout began is asked
\* about.
CheckoutCompleted ==
  /\ table = "tenants"
  /\ \E i \in DOMAIN rows :
       /\ ~rows[i].on
       /\ rows' = [rows EXCEPT ![i].on = TRUE]
       /\ reopened' = IF rows[i].deleted THEN reopened \cup {i} ELSE reopened
  /\ UNCHANGED <<table, handler, requests, raced>>

\* An await rejects, or the process dies.
Fail(h) ==
  /\ handler[h] # Idle
  /\ Done(h)
  /\ UNCHANGED <<table, rows, requests, raced, reopened>>

\* A new month begins.  A row to be created gets its created_at when saved.
NewMonth ==
  /\ table = "bookings"
  /\ \E i \in DOMAIN rows : rows[i].recent
  /\ rows' = [i \in DOMAIN rows |-> [rows[i] EXCEPT !.recent = FALSE]]
  /\ handler' = [h \in Handlers |->
       IF handler[h] = Idle \/ handler[h].op = "create" THEN handler[h]
       ELSE [handler[h] EXCEPT !.copy.recent = FALSE]]
  /\ UNCHANGED <<table, requests, raced, reopened>>

----------------------------------------------------------------------------
Init ==
  /\ table \in Tables
  /\ rows = <<>>
  /\ handler = [h \in Handlers |-> Idle]
  /\ requests = 0 /\ raced = {} /\ reopened = {}

Next ==
  \/ \E h \in Handlers :
       \/ BeginCreate(h) \/ CheckName(h) \/ Insert(h)
       \/ BeginUpdate(h) \/ BeginSettings(h) \/ BeginRemove(h) \/ Overwrite(h)
       \/ Fail(h)
  \/ CheckoutCompleted
  \/ NewMonth

Spec == Init /\ [][Next]_vars

----------------------------------------------------------------------------
(* Properties.                                                             *)

\* Every variable keeps its type, and a request that overwrites a row has
\* found one.
TypeOK ==
  /\ table \in Tables
  /\ rows \in Seq(Row)
  /\ handler \in [Handlers -> Working \cup {Idle}]
  /\ requests \in Nat
  /\ raced \subseteq Names
  /\ reopened \subseteq DOMAIN rows
  /\ \A h \in Handlers :
       handler[h] # Idle /\ handler[h].op # "create" => handler[h].id \in DOMAIN rows

\* The guard counts before the service saves, so parallel creations pass it
\* together, and updates save removed rows back: but however long that goes
\* on, a tenant never has more rows than its limit plus the number of other
\* requests that run at once (canActivate, checkPlanLimit).
OvershootBounded ==
  Guarded /\ Limit > 0 =>
    Cardinality(Counted) <= Limit + Cardinality(Handlers) - 1

\* No two users, services or tenants in use share a name, unless two
\* requests that were to write that name overlapped.  Roles are left out: their
\* update takes any name.
NamesUniqueUnlessRaced ==
  table \in {"users", "services", "tenants"} =>
    \A i, j \in DOMAIN rows :
      Visible(i) /\ Visible(j) /\ rows[i].name = rows[j].name =>
        i = j \/ rows[i].name \in raced

\* A user or tenant that was removed is switched off, whatever copies are
\* saved in whatever order (remove, update, changePassword); only a checkout
\* that completes after the removal of its tenant makes the removed row
\* active again (handleCheckoutCompleted).
RemovedIsOff ==
  table \in {"users", "tenants"} =>
    \A i \in DOMAIN rows : rows[i].deleted /\ rows[i].on => i \in reopened

=============================================================================
