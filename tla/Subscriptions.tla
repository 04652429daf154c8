---------------------------- MODULE Subscriptions ----------------------------
(***************************************************************************)
(* The subscription of one tenant: its rows in the database, written by    *)
(* the webhooks of Stripe, the calls of the tenant's users and the expiry  *)
(* cron, against the subscriptions Stripe holds.                           *)
(*                                                                         *)
(* Each call to Stripe and each save is a step of its own: other requests  *)
(* run in between, and save copies of rows they have loaded before.        *)
(*                                                                         *)
(* Stripe is external.  It charges a subscription once a cycle, ends it    *)
(* when told to or when it cannot be charged, and sends an event each      *)
(* time: at least once, in any order, or never, since the controller       *)
(* answers 200 even when a handler fails.                                  *)
(*                                                                         *)
(* Left out: audit entries, mails and events to the browser, the tenant's  *)
(* stripeCustomerId, amounts, and the trial status, which nothing sets.    *)
(***************************************************************************)
EXTENDS Integers, Sequences, FiniteSets

CONSTANTS
  Handlers,    \* concurrent executions the server interleaves
  Sids,        \* ids of Stripe subscriptions
  Plans,       \* the plans on sale, those with a stripePriceId
  FREE,        \* the plan without one
  MaxEvents,   \* bound: no renewal once Stripe has sent this many events
  MaxNow,      \* bound on the clock, in billing cycles
  MaxRequests, \* bound on the requests, webhooks and cron runs
  NONE

ASSUME SubscriptionsAssumption ==
  /\ FREE \notin Plans
  /\ NONE \notin Plans \cup Sids \cup Nat \cup {FREE}
  /\ MaxEvents \in Nat
  /\ MaxNow \in Nat
  /\ MaxRequests \in Nat

Status == {"ACTIVE", "PAST_DUE", "CANCELED"}

Row == [plan: Plans \cup {FREE}, status: Status, sid: Sids \cup {NONE},
        end: Nat \cup {NONE}, atEnd: BOOLEAN]

\* paid until, and whether to end then
Held == [state: {"none", "active", "unpaid", "ended"},
         plan: Plans \cup {NONE}, until: Nat, atEnd: BOOLEAN]

\* cycle tells the invoices of a subscription apart
Event == [type: {"completed", "paid", "failed", "deleted"}, sid: Sids,
          plan: Plans \cup {NONE}, cycle: Nat]

UserOp == {"cancel", "cancelNow", "resume", "change"}

\* what save() is to write: a row, over the one at this place or a new one
Write == [at: Nat, row: Row]

Work == [op: UserOp \cup {"webhook", "expire"},
         step: {"stripe", "save", "payment", "downgrade"},
         plan: Plans \cup {NONE}, event: Event \cup {NONE},
         writes: SUBSET Write]

Idle == [step |-> "idle"]

VARIABLES
  now,       \* the clock
  rows,      \* table subscriptions, oldest first
  payments,  \* table payments: the events a payment was recorded for
  handler,   \* what each execution is doing
  stripe,    \* Stripe: the subscriptions
  events,    \* Stripe: the events sent
  started,   \* requests begun
  raced,     \* history: two load-to-save windows have overlapped
  faulty     \* history: a request has failed

history == <<raced, faulty>>
vars == <<now, rows, payments, handler, stripe, events, started, history>>

TypeOK ==
  /\ now \in Nat
  /\ rows \in Seq(Row)
  /\ payments \subseteq Event
  /\ handler \in [Handlers -> Work \cup {Idle}]
  /\ stripe \in [Sids -> Held]
  /\ events \subseteq Event
  /\ started \in Nat
  /\ raced \in BOOLEAN
  /\ faulty \in BOOLEAN

FreeRow == [plan |-> FREE, status |-> "ACTIVE", sid |-> NONE, end |-> NONE,
            atEnd |-> FALSE]

\* a registered tenant has no row; the demonstration tenant has a FREE one
Init ==
  /\ now = 0
  /\ rows \in {<< >>, <<FreeRow>>}
  /\ payments = {}
  /\ handler = [h \in Handlers |-> Idle]
  /\ stripe = [s \in Sids |-> [state |-> "none", plan |-> NONE, until |-> 0,
                               atEnd |-> FALSE]]
  /\ events = {}
  /\ started = 0
  /\ raced = FALSE
  /\ faulty = FALSE

-----------------------------------------------------------------------------
\* Stripe

Running(s) == stripe[s].state \in {"active", "unpaid"}

Sent(type, s, p, n) == [type |-> type, sid |-> s, plan |-> p, cycle |-> n]

\* The tenant pays a checkout session for plan p.
Buy(s, p) ==
  /\ stripe[s].state = "none"
  /\ stripe' = [stripe EXCEPT ![s] = [state |-> "active", plan |-> p,
                                      until |-> now + 1, atEnd |-> FALSE]]
  /\ events' = events \cup {Sent("completed", s, p, 0),
                            Sent("paid", s, NONE, now + 1)}
  /\ UNCHANGED <<now, rows, payments, handler, started, history>>

\* The end of a cycle.
Renew(s) ==
  /\ Running(s)
  /\ stripe[s].until <= now
  /\ Cardinality(events) < MaxEvents
  /\ \/ /\ ~stripe[s].atEnd
        /\ stripe' = [stripe EXCEPT ![s].state = "active", ![s].until = now + 1]
        /\ events' = events \cup {Sent("paid", s, NONE, now + 1)}
     \/ /\ ~stripe[s].atEnd
        /\ stripe' = [stripe EXCEPT ![s].state = "unpaid"]
        /\ events' = events \cup {Sent("failed", s, NONE, now + 1)}
     \/ /\ stripe[s].atEnd \/ stripe[s].state = "unpaid"
        /\ stripe' = [stripe EXCEPT ![s].state = "ended"]
        /\ events' = events \cup {Sent("deleted", s, NONE, 0)}
  /\ UNCHANGED <<now, rows, payments, handler, started, history>>

\* Stripe charges on time.
Tick ==
  /\ now < MaxNow
  /\ \A s \in Sids : stripe[s].state = "active" => stripe[s].until > now
  /\ now' = now + 1
  /\ UNCHANGED <<rows, payments, handler, stripe, events, started, history>>

-----------------------------------------------------------------------------
\* The first query of a request

\* between its load and its last save, a handler holds copies of rows
InWindow(h) == handler[h].step \in {"stripe", "save"}

Begin(h, w) ==
  /\ handler[h] = Idle
  /\ started < MaxRequests
  /\ started' = started + 1
  /\ handler' = [handler EXCEPT ![h] = w]
  /\ raced' = (raced \/ \E g \in Handlers \ {h} : InWindow(g))
  /\ UNCHANGED <<now, rows, payments, stripe, events, faulty>>

OnEvent(e, i, r) ==
  [op |-> "webhook", step |-> "save", plan |-> NONE, event |-> e,
   writes |-> {[at |-> i, row |-> r]}]

\* The session's subscription is written over a row of the tenant, whichever
\* an unordered findOne returns, or into a new one.
CheckoutCompleted(h, e) ==
  /\ e.type = "completed"
  /\ \E i \in IF rows = << >> THEN {0} ELSE DOMAIN rows :
       Begin(h, OnEvent(e, i, [plan |-> e.plan, status |-> "ACTIVE",
                               sid |-> e.sid, end |-> now + 1,
                               atEnd |-> FALSE]))

\* the status the other events give the row
StripesWord(type) == CASE type = "paid" -> "ACTIVE"
                       [] type = "failed" -> "past_due"
                       [] type = "deleted" -> "CANCELED"

StatusOf(type) == CASE type = "paid" -> "ACTIVE"
                    [] type = "failed" -> "PAST_DUE"
                    [] type = "deleted" -> "CANCELED"

\* handleInvoicePaid, handleInvoicePaymentFailed, handleSubscriptionDeleted:
\* the row is looked up by the subscription's id.  An event that finds none
\* is dropped for good.
SubscriptionEvent(h, e) ==
  /\ e.type # "completed"
  /\ \E i \in DOMAIN rows :
       /\ rows[i].sid = e.sid
       /\ Begin(h, OnEvent(e, i, [rows[i] EXCEPT !.status = StatusOf(e.type)]))

\* getCurrentSubscription: the newest row
Current == rows[Len(rows)]

OnCurrent(op, step, p, r) ==
  [op |-> op, step |-> step, plan |-> p, event |-> NONE,
   writes |-> {[at |-> Len(rows), row |-> r]}]

\* the copy cancelSubscription saves
CanceledEitherWay(r, immediate) == [r EXCEPT !.status = "CANCELED",
                                             !.atEnd = ~immediate]

Cancelled(r, immediate) ==
  IF immediate THEN [r EXCEPT !.status = "CANCELED", !.atEnd = FALSE]
  ELSE [r EXCEPT !.atEnd = TRUE]

CancelSubscription(h) ==
  /\ rows # << >>
  /\ Current.plan # FREE
  /\ Current.sid # NONE
  /\ \/ Begin(h, OnCurrent("cancel", "stripe", NONE, Cancelled(Current, FALSE)))
     \/ Begin(h, OnCurrent("cancelNow", "stripe", NONE, Cancelled(Current, TRUE)))

\* the copy resumeSubscription saves
StillCancelled(r) == r

Resumed(r) == [r EXCEPT !.atEnd = FALSE]

ResumeSubscription(h) ==
  /\ rows # << >>
  /\ Current.atEnd
  /\ Current.sid # NONE
  /\ Begin(h, OnCurrent("resume", "stripe", NONE, Resumed(Current)))

\* changePlan assigns planId in an entity loaded with its relation plan.  The
\* two share a column, and save() takes the relation: the old plan.
AssignedPlan(r, p) == p

SavedPlan(r, p) == r.plan

ChangePlan(h, p) ==
  /\ rows # << >>
  /\ Current.plan # p
  /\ Begin(h, OnCurrent("change", IF Current.sid = NONE THEN "save" ELSE "stripe",
                        p, [Current EXCEPT !.plan = SavedPlan(Current, p)]))

\* the cron's query; a row with no end is not compared
Expired == {i \in DOMAIN rows : /\ rows[i].status = "ACTIVE"
                                /\ rows[i].end # NONE
                                /\ rows[i].end < now}

HandleExpired(h) ==
  /\ Expired # {}
  /\ Begin(h, [op |-> "expire", step |-> "save", plan |-> NONE, event |-> NONE,
               writes |-> {[at |-> i,
                            row |-> [rows[i] EXCEPT !.status = "PAST_DUE"]]
                             : i \in Expired}])

-----------------------------------------------------------------------------
\* The rest of a request

At(h, step) == handler[h].step = step
Goto(h, step) == handler' = [handler EXCEPT ![h].step = step]

Finish(h) == handler' = [handler EXCEPT ![h] = Idle]

\* the subscription as the user's call leaves it at Stripe
Told(w, s) ==
  CASE w.op = "cancel" -> [stripe[s] EXCEPT !.atEnd = TRUE]
    [] w.op = "cancelNow" -> [stripe[s] EXCEPT !.state = "ended"]
    [] w.op = "resume" -> [stripe[s] EXCEPT !.atEnd = FALSE]
    [] w.op = "change" -> [stripe[s] EXCEPT !.plan = w.plan]

\* The call of StripeService: an error, and one for a subscription that has
\* ended, is Fail.
CallStripe(h) ==
  /\ At(h, "stripe")
  /\ \E c \in handler[h].writes :
       LET s == c.row.sid
       IN  /\ Running(s)
           /\ stripe' = [stripe EXCEPT ![s] = Told(handler[h], s)]
           /\ events' = IF handler[h].op = "cancelNow"
                        THEN events \cup {Sent("deleted", s, NONE, 0)}
                        ELSE events
  /\ Goto(h, "save")
  /\ UNCHANGED <<now, rows, payments, started, history>>

\* what a handler does when it has saved
After(w) == CASE w.event = NONE -> "done"
              [] w.event # NONE /\ w.event.type = "deleted" -> "downgrade"
              [] OTHER -> "payment"

\* save(): the copy replaces the row, or becomes a new one.  The cron saves
\* its rows one by one.
Save(h) ==
  /\ At(h, "save")
  /\ \E c \in handler[h].writes :
       /\ rows' = IF c.at = 0 THEN Append(rows, c.row)
                  ELSE [rows EXCEPT ![c.at] = c.row]
       /\ IF handler[h].writes # {c}
            THEN handler' = [handler EXCEPT ![h].writes = @ \ {c}]
            ELSE IF After(handler[h]) = "done" THEN Finish(h)
            ELSE Goto(h, After(handler[h]))
  /\ UNCHANGED <<now, payments, stripe, events, started, history>>

RecordPayment(h) ==
  /\ At(h, "payment")
  /\ payments' = payments \cup {handler[h].event}
  /\ Finish(h)
  /\ UNCHANGED <<now, rows, stripe, events, started, history>>

\* handleSubscriptionDeleted goes on to give the tenant a FREE row.
Downgrade(h) ==
  /\ At(h, "downgrade")
  /\ rows' = Append(rows, FreeRow)
  /\ Finish(h)
  /\ UNCHANGED <<now, payments, stripe, events, started, history>>

\* An await that rejects, or a crash: nothing is undone, and an event is not
\* sent again.
Fail(h) ==
  /\ ~At(h, "idle")
  /\ Finish(h)
  /\ faulty' = TRUE
  /\ UNCHANGED <<now, rows, payments, stripe, events, started, raced>>

-----------------------------------------------------------------------------
Arrive(h) ==
  \/ \E e \in events : CheckoutCompleted(h, e) \/ SubscriptionEvent(h, e)
  \/ CancelSubscription(h)
  \/ ResumeSubscription(h)
  \/ \E p \in Plans : ChangePlan(h, p)
  \/ HandleExpired(h)

Proceed(h) ==
  \/ CallStripe(h)
  \/ Save(h)
  \/ RecordPayment(h)
  \/ Downgrade(h)
  \/ Fail(h)

Next ==
  \/ \E h \in Handlers : Arrive(h) \/ Proceed(h)
  \/ \E s \in Sids : Renew(s) \/ \E p \in Plans : Buy(s, p)
  \/ Tick

Spec == Init /\ [][Next]_vars

-----------------------------------------------------------------------------
\* Properties

\* A subscription shown as cancelled is never one Stripe goes on charging,
\* whatever races, fails, or arrives twice or late: cancelSubscription tells
\* Stripe before it saves.
CancelledIsEnded ==
  \A i \in DOMAIN rows :
    rows[i].status = "CANCELED" =>
      rows[i].sid # NONE /\ stripe[rows[i].sid].state = "ended"

\* A paid plan was paid for: whatever happens, the row that grants it has a
\* subscription bought at Stripe.  changePlan alone would grant one for
\* nothing to a tenant on the FREE plan.
PaidPlanWasBought ==
  \A i \in DOMAIN rows :
    rows[i].plan # FREE =>
      rows[i].sid # NONE /\ stripe[rows[i].sid].state # "none"

\* a resume that has told Stripe and not yet saved
Resuming == \E h \in Handlers : At(h, "save") /\ handler[h].op = "resume"

\* "Tu suscripción se cancelará al final del período actual": while the row
\* the tenant is shown says so, Stripe will not renew, unless requests raced or
\* failed.  An older row may say so of a subscription that has been resumed
\* since: a checkout event delivered twice gives a subscription two rows.
NoRenewalAfterCancel ==
  rows # << >> /\ Current.atEnd /\ ~raced /\ ~faulty =>
    \/ Resuming
    \/ stripe[Current.sid].atEnd
    \/ stripe[Current.sid].state = "ended"

Quiet == \A h \in Handlers : At(h, "idle")

\* "Tu suscripción tiene pagos pendientes": a tenant that PAST_DUE locks out
\* has not paid for the time ahead, or had a charge fail, or Stripe has sent an
\* event that was not recorded yet.
PastDueMeansUnpaid ==
  \A i \in DOMAIN rows :
    rows[i].status = "PAST_DUE" /\ Quiet =>
      \/ stripe[rows[i].sid].until <= now
      \/ \E e \in events : /\ e.sid = rows[i].sid
                           /\ e.type = "failed" \/ e \notin payments

\* "Plan actualizado a": the plan the row grants is the one Stripe charges
\* for, once all is handled and nothing raced or failed.
PlanIsStripes ==
  \A i \in DOMAIN rows :
    /\ rows[i].sid # NONE
    /\ Quiet /\ ~raced /\ ~faulty
    => rows[i].plan = stripe[rows[i].sid].plan

=============================================================================
