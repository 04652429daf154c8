------------------------- MODULE SubscriptionsProofs -------------------------
(***************************************************************************)
(* What the rows say of the subscriptions at Stripe, for any number of     *)
(* handlers, subscriptions, plans and events.                              *)
(***************************************************************************)
EXTENDS Subscriptions, TLAPS

Bought(st, s) == s # NONE /\ st[s].state # "none"

Ended(st, s) == s # NONE /\ st[s].state = "ended"

RowOK(st, r) ==
  /\ r.status = "CANCELED" => Ended(st, r.sid)
  /\ r.plan # FREE => Bought(st, r.sid)

\* What a handler is about to save is as true as a row, but for the row of an
\* immediate cancellation, which is once Stripe has been told.
WriteOK(st, n, w, c) ==
  /\ c.at \in 0..n
  /\ c.row.status = "CANCELED" =>
       Ended(st, c.row.sid) \/ (w.op = "cancelNow" /\ w.step = "stripe")
  /\ c.row.plan # FREE => Bought(st, c.row.sid)
  /\ w.step = "stripe" => c.row.sid # NONE

WorkOK(st, n, w) ==
  /\ \A c \in w.writes : WriteOK(st, n, w, c)
  /\ w.op \in {"cancel", "cancelNow"} => \A c, d \in w.writes : c = d
  /\ w.op = "change" => w.plan # NONE
  /\ w.step = "stripe" => w.op \in UserOp
  /\ w.step = "payment" => w.event # NONE

EventOK(st, e) ==
  /\ Bought(st, e.sid)
  /\ e.type = "deleted" => Ended(st, e.sid)
  /\ e.type = "completed" => e.plan # NONE

Safe ==
  /\ TypeOK
  /\ \A i \in DOMAIN rows : RowOK(stripe, rows[i])
  /\ \A h \in Handlers : handler[h] # Idle =>
       WorkOK(stripe, Len(rows), handler[h])
  /\ \A e \in events : EventOK(stripe, e)

LEMMA InitSafe == Init => Safe
<1> SUFFICES ASSUME Init PROVE Safe
  OBVIOUS
<1> USE SubscriptionsAssumption
<1>1. FreeRow \in Row
  BY DEF FreeRow, Row, Status
<1>2. rows \in Seq(Row) /\ \A i \in DOMAIN rows : rows[i] = FreeRow
  <2>1. CASE rows = << >>
    BY <2>1
  <2>2. CASE rows = <<FreeRow>>
    BY <1>1, <2>2
  <2> QED BY <2>1, <2>2 DEF Init
<1>3. TypeOK
  BY <1>2 DEF Init, TypeOK, Held
<1>4. RowOK(stripe, FreeRow)
  BY DEF RowOK, FreeRow
<1> QED BY <1>2, <1>3, <1>4 DEF Init, Safe

\* A subscription bought stays bought, one ended stays ended.
Later(st, tt) ==
  \A s \in Sids : /\ st[s].state # "none" => tt[s].state # "none"
                  /\ st[s].state = "ended" => tt[s].state = "ended"

LEMMA Keep ==
  ASSUME NEW st, NEW tt, Later(st, tt), NEW n \in Nat, NEW m \in Nat, n <= m
  PROVE  /\ \A r \in Row : RowOK(st, r) => RowOK(tt, r)
         /\ \A w \in Work : WorkOK(st, n, w) => WorkOK(tt, m, w)
         /\ \A e \in Event : EventOK(st, e) => EventOK(tt, e)
<1>1. \A s \in Sids \cup {NONE} : /\ Bought(st, s) => Bought(tt, s)
                                  /\ Ended(st, s) => Ended(tt, s)
  BY DEF Later, Bought, Ended
<1>2. \A r \in Row : r.sid \in Sids \cup {NONE}
  BY DEF Row
<1>3. ASSUME NEW w \in Work, WorkOK(st, n, w)
      PROVE  WorkOK(tt, m, w)
  <2>1. ASSUME NEW c \in w.writes
        PROVE  WriteOK(tt, m, w, c)
    <3>1. c.row \in Row
      BY DEF Work, Write
    <3>2. WriteOK(st, n, w, c)
      BY <1>3 DEF WorkOK
    <3> QED BY <1>1, <1>2, <3>1, <3>2 DEF WriteOK
  <2> QED BY <1>3, <2>1 DEF WorkOK
<1>4. \A e \in Event : e.sid \in Sids
  BY DEF Event
<1> QED BY <1>1, <1>2, <1>3, <1>4 DEF RowOK, EventOK

LEMMA BeginSafe ==
  ASSUME Safe, NEW h \in Handlers, NEW w \in Work,
         WorkOK(stripe, Len(rows), w), Begin(h, w)
  PROVE  Safe'
<1>1. /\ handler' = [handler EXCEPT ![h] = w]
      /\ UNCHANGED <<now, rows, payments, stripe, events, faulty>>
  BY DEF Begin
<1>2. started' \in Nat /\ raced' \in BOOLEAN
  BY DEF Begin, Safe, TypeOK
<1>3. handler \in [Handlers -> Work \cup {Idle}]
  BY DEF Safe, TypeOK
<1>4. TypeOK'
  BY <1>1, <1>2, <1>3 DEF Safe, TypeOK
<1>5. \A g \in Handlers : handler'[g] # Idle =>
        WorkOK(stripe, Len(rows), handler'[g])
  BY <1>1, <1>3 DEF Safe
<1> QED BY <1>1, <1>4, <1>5 DEF Safe

-----------------------------------------------------------------------------
\* What a request begins with

LEMMA EventWork ==
  ASSUME Safe, NEW e \in events, NEW i \in 0..Len(rows), NEW r \in Row,
         RowOK(stripe, r)
  PROVE  /\ OnEvent(e, i, r) \in Work
         /\ WorkOK(stripe, Len(rows), OnEvent(e, i, r))
<1>1. e \in Event
  BY DEF Safe, TypeOK
<1>2. i \in Nat
  BY DEF Safe, TypeOK
<1>3. [at |-> i, row |-> r] \in Write
  BY <1>2 DEF Write
<1>4. OnEvent(e, i, r) \in Work
  BY <1>1, <1>3 DEF OnEvent, Work
<1> DEFINE w == OnEvent(e, i, r)
<1>5. /\ w.op = "webhook" /\ w.step = "save"
      /\ w.writes = {[at |-> i, row |-> r]}
  BY DEF OnEvent
<1>6. WriteOK(stripe, Len(rows), w, [at |-> i, row |-> r])
  BY <1>5 DEF WriteOK, RowOK
<1> HIDE DEF w
<1>7. WorkOK(stripe, Len(rows), w)
  BY <1>5, <1>6 DEF WorkOK
<1> QED BY <1>4, <1>7 DEF w

LEMMA UserWork ==
  ASSUME Safe, rows # << >>, NEW op \in UserOp, NEW step \in {"stripe", "save"},
         NEW p \in Plans \cup {NONE}, NEW r \in Row,
         r.status = "CANCELED" =>
           Ended(stripe, r.sid) \/ (op = "cancelNow" /\ step = "stripe"),
         r.plan # FREE => Bought(stripe, r.sid),
         step = "stripe" => r.sid # NONE,
         op = "change" => p # NONE
  PROVE  /\ OnCurrent(op, step, p, r) \in Work
         /\ WorkOK(stripe, Len(rows), OnCurrent(op, step, p, r))
<1>1. Len(rows) \in Nat /\ Len(rows) \in 0..Len(rows)
  BY DEF Safe, TypeOK
<1>2. [at |-> Len(rows), row |-> r] \in Write
  BY <1>1 DEF Write
<1>3. OnCurrent(op, step, p, r) \in Work
  BY <1>2 DEF OnCurrent, Work
<1> QED BY <1>1, <1>3 DEF OnCurrent, WorkOK, WriteOK

LEMMA CurrentRow ==
  ASSUME Safe, rows # << >>
  PROVE  Current \in Row /\ RowOK(stripe, Current)
<1>1. rows \in Seq(Row) /\ Len(rows) \in DOMAIN rows
  BY DEF Safe, TypeOK
<1> QED BY <1>1 DEF Safe, Current

LEMMA CheckoutSafe ==
  ASSUME Safe, NEW h \in Handlers, NEW e \in events, CheckoutCompleted(h, e)
  PROVE  Safe'
<1> DEFINE r == [plan |-> e.plan, status |-> "ACTIVE", sid |-> e.sid,
                 end |-> now + 1, atEnd |-> FALSE]
<1>1. e \in Event /\ EventOK(stripe, e) /\ e.plan \in Plans /\ e.sid \in Sids
  BY DEF CheckoutCompleted, Safe, TypeOK, EventOK, Event
<1>2. r \in Row
  BY <1>1 DEF Row, Status, Safe, TypeOK
<1>3. RowOK(stripe, r)
  BY <1>1 DEF RowOK, EventOK
<1>4. PICK i \in IF rows = << >> THEN {0} ELSE DOMAIN rows :
        Begin(h, OnEvent(e, i, r))
  BY DEF CheckoutCompleted
<1>5. i \in 0..Len(rows)
  BY DEF Safe, TypeOK
<1> HIDE DEF r
<1> QED BY <1>2, <1>3, <1>4, <1>5, EventWork, BeginSafe

LEMMA SubscriptionEventSafe ==
  ASSUME Safe, NEW h \in Handlers, NEW e \in events, SubscriptionEvent(h, e)
  PROVE  Safe'
<1>1. PICK i \in DOMAIN rows :
        /\ rows[i].sid = e.sid
        /\ Begin(h, OnEvent(e, i, [rows[i] EXCEPT !.status = StatusOf(e.type)]))
  BY DEF SubscriptionEvent
<1> DEFINE r == [rows[i] EXCEPT !.status = StatusOf(e.type)]
<1>2. e \in Event /\ EventOK(stripe, e)
  BY DEF Safe, TypeOK
<1>3. i \in 0..Len(rows) /\ rows[i] \in Row /\ RowOK(stripe, rows[i])
  BY DEF Safe, TypeOK
<1>4. /\ StatusOf(e.type) \in Status
      /\ StatusOf(e.type) = "CANCELED" => e.type = "deleted"
  BY <1>2 DEF SubscriptionEvent, StatusOf, Status, Event
<1>5. /\ r \in Row
      /\ r.status = StatusOf(e.type)
      /\ r.plan = rows[i].plan
      /\ r.sid = rows[i].sid
  BY <1>3, <1>4 DEF Row
<1>6. RowOK(stripe, r)
  BY <1>1, <1>2, <1>3, <1>4, <1>5 DEF RowOK, EventOK
<1>7. Begin(h, OnEvent(e, i, r))
  BY <1>1
<1> HIDE DEF r
<1> QED BY <1>3, <1>5, <1>6, <1>7, EventWork, BeginSafe

LEMMA CancelSafe ==
  ASSUME Safe, NEW h \in Handlers, CancelSubscription(h)
  PROVE  Safe'
<1> USE DEF UserOp
<1>1. rows # << >> /\ Current.sid # NONE
  BY DEF CancelSubscription
<1>2. Current \in Row /\ RowOK(stripe, Current)
  BY <1>1, CurrentRow
<1> DEFINE r(immediate) == Cancelled(Current, immediate)
<1>3. \A b \in BOOLEAN : /\ r(b) \in Row
                         /\ r(b).plan = Current.plan
                         /\ r(b).sid = Current.sid
                         /\ b \/ r(b).status = Current.status
  BY <1>2 DEF Cancelled, Row, Status
<1>4. \/ Begin(h, OnCurrent("cancel", "stripe", NONE, r(FALSE)))
      \/ Begin(h, OnCurrent("cancelNow", "stripe", NONE, r(TRUE)))
  BY DEF CancelSubscription
<1> HIDE DEF r
<1>5. CASE Begin(h, OnCurrent("cancel", "stripe", NONE, r(FALSE)))
  BY <1>1, <1>2, <1>3, <1>5, UserWork, BeginSafe DEF RowOK
<1>6. CASE Begin(h, OnCurrent("cancelNow", "stripe", NONE, r(TRUE)))
  BY <1>1, <1>2, <1>3, <1>6, UserWork, BeginSafe DEF RowOK
<1> QED BY <1>4, <1>5, <1>6

LEMMA ResumeSafe ==
  ASSUME Safe, NEW h \in Handlers, ResumeSubscription(h)
  PROVE  Safe'
<1> DEFINE r == Resumed(Current)
<1>1. /\ rows # << >> /\ Current.sid # NONE
      /\ Begin(h, OnCurrent("resume", "stripe", NONE, r))
  BY DEF ResumeSubscription
<1>2. Current \in Row /\ RowOK(stripe, Current)
  BY <1>1, CurrentRow
<1>3. r \in Row /\ r.plan = Current.plan /\ r.sid = Current.sid
      /\ r.status = Current.status
  BY <1>2 DEF Resumed, Row
<1> HIDE DEF r
<1> QED BY <1>1, <1>2, <1>3, UserWork, BeginSafe DEF RowOK, UserOp

LEMMA ChangeSafe ==
  ASSUME Safe, NEW h \in Handlers, NEW p \in Plans, ChangePlan(h, p)
  PROVE  Safe'
<1> DEFINE r == [Current EXCEPT !.plan = SavedPlan(Current, p)]
           step == IF Current.sid = NONE THEN "save" ELSE "stripe"
<1>1. rows # << >> /\ Begin(h, OnCurrent("change", step, p, r))
  BY DEF ChangePlan
<1>2. Current \in Row /\ RowOK(stripe, Current)
  BY <1>1, CurrentRow
<1>3. r \in Row /\ r.plan = Current.plan /\ r.sid = Current.sid
      /\ r.status = Current.status
  BY <1>2 DEF SavedPlan, Row
<1>4. p # NONE
  BY SubscriptionsAssumption
<1>5. step \in {"stripe", "save"} /\ (step = "stripe" => r.sid # NONE)
  BY <1>3
<1> HIDE DEF r, step
<1>6. "change" \in UserOp /\ "change" # "cancelNow"
  BY DEF UserOp
<1>7. /\ OnCurrent("change", step, p, r) \in Work
      /\ WorkOK(stripe, Len(rows), OnCurrent("change", step, p, r))
  BY <1>1, <1>2, <1>3, <1>4, <1>5, <1>6, UserWork DEF RowOK
<1> QED BY <1>1, <1>7, BeginSafe

LEMMA HandleExpiredSafe ==
  ASSUME Safe, NEW h \in Handlers, HandleExpired(h)
  PROVE  Safe'
<1> DEFINE late(i) == [rows[i] EXCEPT !.status = "PAST_DUE"]
           ws == {[at |-> i, row |-> late(i)] : i \in Expired}
           w == [op |-> "expire", step |-> "save", plan |-> NONE,
                 event |-> NONE, writes |-> ws]
<1>1. Begin(h, w)
  BY DEF HandleExpired
<1>2. \A i \in Expired : i \in 0..Len(rows) /\ rows[i] \in Row
                         /\ RowOK(stripe, rows[i])
  BY DEF Expired, Safe, TypeOK
<1>3. \A i \in Expired : /\ late(i) \in Row
                         /\ late(i).status = "PAST_DUE"
                         /\ late(i).plan = rows[i].plan
                         /\ late(i).sid = rows[i].sid
  BY <1>2 DEF Row, Status
<1>4. Len(rows) \in Nat
  BY DEF Safe, TypeOK
<1> HIDE DEF late
<1>5. ws \subseteq Write
  BY <1>2, <1>3, <1>4 DEF Write
<1>6. w \in Work
  BY <1>5 DEF Work
<1>7. /\ w.op = "expire" /\ w.step = "save" /\ w.writes = ws
  OBVIOUS
<1>8. \A c \in ws : /\ c.at \in 0..Len(rows)
                    /\ c.row.status = "PAST_DUE"
                    /\ c.row.plan # FREE => Bought(stripe, c.row.sid)
  BY <1>2, <1>3 DEF RowOK
<1> HIDE DEF w, ws
<1>9. WorkOK(stripe, Len(rows), w)
  BY <1>7, <1>8 DEF WorkOK, WriteOK
<1> QED BY <1>1, <1>6, <1>9, BeginSafe

LEMMA ArriveSafe ==
  ASSUME Safe, NEW h \in Handlers, Arrive(h)
  PROVE  Safe'
BY CheckoutSafe, SubscriptionEventSafe, CancelSafe, ResumeSafe, ChangeSafe,
   HandleExpiredSafe
   DEF Arrive

-----------------------------------------------------------------------------
\* What happens at Stripe

\* What was true of rows, work and events stays true as Stripe moves on.
LEMMA Advance ==
  ASSUME Safe, Later(stripe, stripe'), UNCHANGED rows
  PROVE  /\ \A i \in DOMAIN rows : RowOK(stripe', rows[i])
         /\ \A h \in Handlers : handler[h] # Idle =>
              WorkOK(stripe', Len(rows), handler[h])
         /\ \A e \in events : EventOK(stripe', e)
<1>1. Len(rows) \in Nat /\ Len(rows) <= Len(rows)
  BY DEF Safe, TypeOK
<1>2. /\ \A r \in Row : RowOK(stripe, r) => RowOK(stripe', r)
      /\ \A w \in Work : WorkOK(stripe, Len(rows), w) =>
           WorkOK(stripe', Len(rows), w)
      /\ \A e \in Event : EventOK(stripe, e) => EventOK(stripe', e)
  BY <1>1, Keep
<1>3. /\ \A i \in DOMAIN rows : rows[i] \in Row
      /\ \A h \in Handlers : handler[h] # Idle => handler[h] \in Work
      /\ events \subseteq Event
  BY DEF Safe, TypeOK
<1> QED BY <1>2, <1>3 DEF Safe

LEMMA BuySafe ==
  ASSUME Safe, NEW s \in Sids, NEW p \in Plans, Buy(s, p)
  PROVE  Safe'
<1> USE SubscriptionsAssumption
<1> DEFINE new == [state |-> "active", plan |-> p, until |-> now + 1,
                   atEnd |-> FALSE]
           sent == {Sent("completed", s, p, 0), Sent("paid", s, NONE, now + 1)}
<1>1. /\ stripe' = [stripe EXCEPT ![s] = new]
      /\ events' = events \cup sent
      /\ stripe[s].state = "none"
      /\ UNCHANGED <<now, rows, payments, handler, started, history>>
  BY DEF Buy
<1>2. new \in Held /\ new.state = "active"
  BY DEF Held, Safe, TypeOK
<1>3. sent \subseteq Event
  BY DEF Sent, Event, Safe, TypeOK
<1>4. \A e \in sent : e.sid = s /\ e.type # "deleted"
                      /\ (e.type = "completed" => e.plan # NONE)
  BY DEF Sent
<1> HIDE DEF new, sent
<1>5. TypeOK'
  BY <1>1, <1>2, <1>3 DEF Safe, TypeOK, history
<1>6. Later(stripe, stripe') /\ stripe'[s].state = "active"
  BY <1>1, <1>2 DEF Later, Safe, TypeOK
<1>7. \A e \in sent : EventOK(stripe', e)
  BY <1>4, <1>6 DEF EventOK, Bought
<1> QED BY <1>1, <1>5, <1>6, <1>7, Advance DEF Safe

LEMMA RenewSafe ==
  ASSUME Safe, NEW s \in Sids, Renew(s)
  PROVE  Safe'
<1> USE SubscriptionsAssumption
<1>1. /\ stripe[s].state \in {"active", "unpaid"}
      /\ stripe[s] \in Held
      /\ stripe \in [Sids -> Held]
      /\ now + 1 \in Nat
  BY DEF Renew, Running, Safe, TypeOK
<1>2. PICK x \in Held, e \in Event :
        /\ stripe' = [stripe EXCEPT ![s] = x]
        /\ events' = events \cup {e}
        /\ x.state # "none"
        /\ e.sid = s
        /\ e.type # "completed"
        /\ e.type = "deleted" => x.state = "ended"
  <2>1. CASE /\ stripe' = [stripe EXCEPT ![s].state = "active",
                                         ![s].until = now + 1]
             /\ events' = events \cup {Sent("paid", s, NONE, now + 1)}
    <3> DEFINE x == [stripe[s] EXCEPT !.state = "active", !.until = now + 1]
               e == Sent("paid", s, NONE, now + 1)
    <3>1. e \in Event /\ e.sid = s /\ e.type = "paid"
      BY <1>1 DEF Sent, Event
    <3>2. x \in Held /\ x.state = "active"
      BY <1>1 DEF Held
    <3>3. stripe' = [stripe EXCEPT ![s] = x] /\ events' = events \cup {e}
      BY <1>1, <2>1
    <3> HIDE DEF x, e
    <3> QED BY <3>1, <3>2, <3>3
  <2>2. CASE /\ stripe' = [stripe EXCEPT ![s].state = "unpaid"]
             /\ events' = events \cup {Sent("failed", s, NONE, now + 1)}
    <3> DEFINE x == [stripe[s] EXCEPT !.state = "unpaid"]
               e == Sent("failed", s, NONE, now + 1)
    <3>1. e \in Event /\ e.sid = s /\ e.type = "failed"
      BY <1>1 DEF Sent, Event
    <3>2. x \in Held /\ x.state = "unpaid"
      BY <1>1 DEF Held
    <3>3. stripe' = [stripe EXCEPT ![s] = x] /\ events' = events \cup {e}
      BY <1>1, <2>2
    <3> HIDE DEF x, e
    <3> QED BY <3>1, <3>2, <3>3
  <2>3. CASE /\ stripe' = [stripe EXCEPT ![s].state = "ended"]
             /\ events' = events \cup {Sent("deleted", s, NONE, 0)}
    <3> DEFINE x == [stripe[s] EXCEPT !.state = "ended"]
               e == Sent("deleted", s, NONE, 0)
    <3>1. e \in Event /\ e.sid = s /\ e.type = "deleted"
      BY <1>1 DEF Sent, Event
    <3>2. x \in Held /\ x.state = "ended"
      BY <1>1 DEF Held
    <3>3. stripe' = [stripe EXCEPT ![s] = x] /\ events' = events \cup {e}
      BY <1>1, <2>3
    <3> HIDE DEF x, e
    <3> QED BY <3>1, <3>2, <3>3
  <2> QED BY <2>1, <2>2, <2>3 DEF Renew
<1>3. /\ stripe' \in [Sids -> Held]
      /\ stripe'[s] = x
      /\ \A t \in Sids \ {s} : stripe'[t] = stripe[t]
  BY <1>1, <1>2
<1>4. TypeOK'
  BY <1>2, <1>3 DEF Renew, Safe, TypeOK, history
<1>5. Later(stripe, stripe')
  BY <1>1, <1>2, <1>3 DEF Later
<1>6. EventOK(stripe', e)
  BY <1>2, <1>3 DEF EventOK, Bought, Ended
<1>7. UNCHANGED <<rows, handler>>
  BY DEF Renew
<1> QED BY <1>2, <1>4, <1>5, <1>6, <1>7, Advance DEF Safe

LEMMA TickSafe ==
  ASSUME Safe, Tick
  PROVE  Safe'
BY DEF Safe, TypeOK, Tick, history

-----------------------------------------------------------------------------
\* The rest of a request

\* Work that goes on with other steps, or fewer writes, promises no less.
LEMMA OnlyHandler ==
  ASSUME Safe, NEW h \in Handlers, NEW w \in Work \cup {Idle},
         handler' = [handler EXCEPT ![h] = w],
         w # Idle => WorkOK(stripe, Len(rows), w)
  PROVE  /\ handler' \in [Handlers -> Work \cup {Idle}]
         /\ \A g \in Handlers : handler'[g] # Idle =>
              WorkOK(stripe, Len(rows), handler'[g])
BY DEF Safe, TypeOK

LEMMA Busy ==
  ASSUME Safe, NEW h \in Handlers, NEW step \in {"stripe", "save", "payment",
         "downgrade"}, At(h, step)
  PROVE  /\ handler[h] \in Work
         /\ handler[h] # Idle
         /\ WorkOK(stripe, Len(rows), handler[h])
<1>1. handler[h] \in Work \cup {Idle} /\ handler[h] # Idle
  BY DEF At, Idle, Safe, TypeOK
<1> QED BY <1>1 DEF Safe

\* The step after the call to Stripe.
LEMMA CallStripeSafe ==
  ASSUME Safe, NEW h \in Handlers, CallStripe(h)
  PROVE  Safe'
<1> USE SubscriptionsAssumption
<1> DEFINE w == handler[h]
           v == [handler[h] EXCEPT !.step = "save"]
<1>1. /\ w \in Work /\ w # Idle /\ w.step = "stripe"
      /\ WorkOK(stripe, Len(rows), w)
  BY Busy DEF CallStripe, At
<1>2. PICK c \in w.writes :
        /\ Running(c.row.sid)
        /\ stripe' = [stripe EXCEPT ![c.row.sid] = Told(w, c.row.sid)]
        /\ events' = IF w.op = "cancelNow"
                     THEN events \cup {Sent("deleted", c.row.sid, NONE, 0)}
                     ELSE events
  BY DEF CallStripe
<1> DEFINE s == c.row.sid
<1>3. c \in Write /\ c.row \in Row /\ WriteOK(stripe, Len(rows), w, c)
  BY <1>1 DEF Work, Write, WorkOK
<1>4. s \in Sids
  BY <1>1, <1>3 DEF Row, WriteOK
<1>5. /\ stripe \in [Sids -> Held] /\ stripe[s] \in Held
      /\ stripe[s].state \in {"active", "unpaid"}
  BY <1>2, <1>4 DEF Running, Safe, TypeOK
<1>6. w.op \in {"cancel", "cancelNow", "resume", "change"}
  BY <1>1 DEF WorkOK, UserOp
<1>7. /\ Told(w, s) \in Held
      /\ Told(w, s).state = IF w.op = "cancelNow" THEN "ended"
                            ELSE stripe[s].state
  <2>1. CASE w.op = "cancel"
    BY <1>5, <2>1 DEF Told, Held
  <2>2. CASE w.op = "cancelNow"
    BY <1>5, <2>2 DEF Told, Held
  <2>3. CASE w.op = "resume"
    BY <1>5, <2>3 DEF Told, Held
  <2>4. CASE w.op = "change"
    <3>1. w.plan \in Plans
      BY <1>1, <2>4 DEF Work, WorkOK
    <3> QED BY <1>5, <2>4, <3>1 DEF Told, Held
  <2> QED BY <1>6, <2>1, <2>2, <2>3, <2>4
<1>8. /\ stripe' \in [Sids -> Held]
      /\ stripe'[s] = Told(w, s)
      /\ \A t \in Sids \ {s} : stripe'[t] = stripe[t]
  BY <1>2, <1>4, <1>5, <1>7
<1>9. Later(stripe, stripe')
  BY <1>5, <1>7, <1>8 DEF Later
<1>10. events' \subseteq Event /\ \A e \in events' : EventOK(stripe', e)
  <2> DEFINE d == Sent("deleted", s, NONE, 0)
  <2>1. d \in Event /\ d.type = "deleted" /\ d.sid = s
    BY <1>4 DEF Sent, Event
  <2>2. w.op = "cancelNow" => EventOK(stripe', d)
    BY <1>4, <1>7, <1>8, <2>1 DEF EventOK, Bought, Ended
  <2>3. events \subseteq Event /\ \A e \in events : EventOK(stripe', e)
    BY <1>9, Advance DEF CallStripe, Safe, TypeOK
  <2> HIDE DEF d
  <2>4. events' = IF w.op = "cancelNow" THEN events \cup {d} ELSE events
    BY <1>2 DEF d
  <2> QED BY <2>1, <2>2, <2>3, <2>4
<1>11. v \in Work /\ WorkOK(stripe', Len(rows), v)
  <2>1. /\ v \in Work /\ v.step = "save" /\ v.op = w.op /\ v.plan = w.plan
        /\ v.writes = w.writes
    BY <1>1 DEF Work
  <2>2. WorkOK(stripe', Len(rows), w)
    BY <1>1, <1>9, Advance DEF CallStripe
  <2>3. ASSUME NEW x \in v.writes
        PROVE  WriteOK(stripe', Len(rows), v, x)
    <3>1. WriteOK(stripe', Len(rows), w, x)
      BY <2>1, <2>2 DEF WorkOK
    <3>2. CASE w.op = "cancelNow"
      <4>1. x = c
        BY <1>1, <2>1, <3>2 DEF WorkOK
      <4>2. Ended(stripe', x.row.sid)
        BY <1>4, <1>7, <1>8, <3>2, <4>1 DEF Ended
      <4> QED BY <2>1, <3>1, <4>2 DEF WriteOK
    <3>3. CASE w.op # "cancelNow"
      BY <2>1, <3>1, <3>3 DEF WriteOK
    <3> QED BY <3>2, <3>3
  <2> HIDE DEF v, w
  <2> QED BY <2>1, <2>2, <2>3 DEF WorkOK
<1>12. /\ handler' = [handler EXCEPT ![h] = v]
       /\ UNCHANGED <<now, rows, payments, started, history>>
  BY DEF CallStripe, Goto
<1> HIDE DEF v, w, s
<1>13. /\ handler' \in [Handlers -> Work \cup {Idle}]
       /\ \A g \in Handlers : handler'[g] # Idle =>
            WorkOK(stripe', Len(rows), handler'[g])
  <2>1. \A g \in Handlers : handler[g] # Idle =>
          WorkOK(stripe', Len(rows), handler[g])
    BY <1>9, <1>12, Advance
  <2> QED BY <1>11, <1>12, <2>1 DEF Safe, TypeOK
<1>14. TypeOK'
  BY <1>8, <1>10, <1>12, <1>13 DEF Safe, TypeOK, history
<1>15. \A i \in DOMAIN rows : RowOK(stripe', rows[i])
  BY <1>9, <1>12, Advance
<1> QED BY <1>10, <1>12, <1>13, <1>14, <1>15 DEF Safe

\* What save() leaves: the copy in its place, or at the end.
LEMMA WriteRow ==
  ASSUME Safe, NEW w \in Work, NEW c \in w.writes, w.step = "save",
         WorkOK(stripe, Len(rows), w),
         rows' = IF c.at = 0 THEN Append(rows, c.row)
                 ELSE [rows EXCEPT ![c.at] = c.row]
  PROVE  /\ rows' \in Seq(Row)
         /\ Len(rows) <= Len(rows')
         /\ \A i \in DOMAIN rows' : RowOK(stripe, rows'[i])
<1>1. /\ c.row \in Row
      /\ c.at \in 0..Len(rows)
      /\ RowOK(stripe, c.row)
  BY DEF Work, Write, WorkOK, WriteOK, RowOK
<1>2. rows \in Seq(Row) /\ Len(rows) \in Nat
  BY DEF Safe, TypeOK
<1>3. CASE c.at = 0
  <2>1. rows' = Append(rows, c.row)
    BY <1>3
  <2>2. /\ rows' \in Seq(Row)
        /\ Len(rows') = Len(rows) + 1
        /\ \A i \in 1..Len(rows) : rows'[i] = rows[i]
        /\ rows'[Len(rows) + 1] = c.row
    BY <1>1, <1>2, <2>1
  <2> QED BY <1>1, <1>2, <2>2 DEF Safe
<1>4. CASE c.at # 0
  <2>1. c.at \in 1..Len(rows) /\ rows' = [rows EXCEPT ![c.at] = c.row]
    BY <1>1, <1>2, <1>4
  <2>2. /\ rows' \in Seq(Row)
        /\ Len(rows') = Len(rows)
        /\ \A i \in 1..Len(rows) :
             rows'[i] = IF i = c.at THEN c.row ELSE rows[i]
    BY <1>1, <1>2, <2>1
  <2> QED BY <1>1, <1>2, <2>2 DEF Safe
<1> QED BY <1>3, <1>4

\* Longer tables and no change at Stripe: the other handlers' work stands.
LEMMA Longer ==
  ASSUME Safe, UNCHANGED stripe, rows' \in Seq(Row), Len(rows) <= Len(rows')
  PROVE  \A g \in Handlers : handler[g] # Idle =>
           WorkOK(stripe, Len(rows'), handler[g])
<1>1. Len(rows) \in Nat /\ Len(rows') \in Nat /\ Later(stripe, stripe)
  BY DEF Safe, TypeOK, Later
<1>2. \A w \in Work : WorkOK(stripe, Len(rows), w) =>
        WorkOK(stripe, Len(rows'), w)
  BY <1>1, Keep
<1> QED BY <1>2 DEF Safe, TypeOK

LEMMA SaveSafe ==
  ASSUME Safe, NEW h \in Handlers, Save(h)
  PROVE  Safe'
<1> DEFINE w == handler[h]
<1>1. w \in Work /\ w.step = "save" /\ WorkOK(stripe, Len(rows), w)
  BY Busy DEF Save, At
<1>2. PICK c \in w.writes :
        /\ rows' = IF c.at = 0 THEN Append(rows, c.row)
                   ELSE [rows EXCEPT ![c.at] = c.row]
        /\ IF w.writes # {c}
           THEN handler' = [handler EXCEPT ![h].writes = @ \ {c}]
           ELSE IF After(w) = "done" THEN Finish(h)
           ELSE Goto(h, After(w))
  BY DEF Save
<1>3. UNCHANGED <<now, payments, stripe, events, started, history>>
  BY DEF Save
<1>4. /\ rows' \in Seq(Row)
      /\ Len(rows) <= Len(rows')
      /\ \A i \in DOMAIN rows' : RowOK(stripe, rows'[i])
  BY <1>1, <1>2, WriteRow
<1>5. PICK v \in Work \cup {Idle} :
        /\ handler' = [handler EXCEPT ![h] = v]
        /\ v # Idle => WorkOK(stripe, Len(rows), v)
  <2>1. CASE w.writes # {c}
    <3> DEFINE v == [w EXCEPT !.writes = @ \ {c}]
    <3>1. /\ v \in Work /\ v.writes = w.writes \ {c} /\ v.op = w.op
          /\ v.step = w.step /\ v.plan = w.plan /\ v.event = w.event
      BY <1>1 DEF Work
    <3>2. handler' = [handler EXCEPT ![h] = v]
      BY <1>2, <2>1
    <3> HIDE DEF v
    <3>3. WorkOK(stripe, Len(rows), v)
      BY <1>1, <3>1 DEF WorkOK, WriteOK
    <3> QED BY <3>1, <3>2, <3>3
  <2>2. CASE w.writes = {c} /\ After(w) = "done"
    BY <1>2, <2>2 DEF Finish
  <2>3. CASE w.writes = {c} /\ After(w) # "done"
    <3> DEFINE v == [w EXCEPT !.step = After(w)]
    <3>1. After(w) \in {"payment", "downgrade"} /\ w.event # NONE
      BY <2>3 DEF After
    <3>2. /\ v \in Work /\ v.writes = w.writes /\ v.op = w.op
          /\ v.step = After(w) /\ v.plan = w.plan /\ v.event = w.event
      BY <1>1, <3>1 DEF Work
    <3>3. handler' = [handler EXCEPT ![h] = v]
      BY <1>2, <2>3 DEF Goto
    <3> HIDE DEF v
    <3>4. WorkOK(stripe, Len(rows), v)
      BY <1>1, <3>1, <3>2 DEF WorkOK, WriteOK
    <3> QED BY <3>2, <3>3, <3>4
  <2> QED BY <2>1, <2>2, <2>3
<1>6. \A n \in Nat : Len(rows) <= n => (v # Idle => WorkOK(stripe, n, v))
  <2>1. Len(rows) \in Nat /\ Later(stripe, stripe)
    BY DEF Safe, TypeOK, Later
  <2> QED BY <1>5, <2>1, Keep
<1>7. \A g \in Handlers : handler[g] # Idle =>
        WorkOK(stripe, Len(rows'), handler[g])
  BY <1>3, <1>4, Longer
<1>8. /\ handler' \in [Handlers -> Work \cup {Idle}]
      /\ \A g \in Handlers : handler'[g] # Idle =>
           WorkOK(stripe, Len(rows'), handler'[g])
  <2>1. Len(rows') \in Nat
    BY <1>4
  <2> QED BY <1>4, <1>5, <1>6, <1>7, <2>1 DEF Safe, TypeOK
<1>9. TypeOK'
  BY <1>3, <1>4, <1>8 DEF Safe, TypeOK, history
<1> QED BY <1>3, <1>4, <1>8, <1>9 DEF Safe

LEMMA RecordPaymentSafe ==
  ASSUME Safe, NEW h \in Handlers, RecordPayment(h)
  PROVE  Safe'
<1>1. /\ handler[h] \in Work
      /\ handler[h].event # NONE
  BY Busy DEF RecordPayment, At, WorkOK
<1>2. handler[h].event \in Event
  BY <1>1 DEF Work
<1>3. /\ handler' \in [Handlers -> Work \cup {Idle}]
      /\ \A g \in Handlers : handler'[g] # Idle =>
           WorkOK(stripe, Len(rows), handler'[g])
  BY OnlyHandler DEF RecordPayment, Finish
<1> QED BY <1>2, <1>3 DEF RecordPayment, Safe, TypeOK, history

LEMMA DowngradeSafe ==
  ASSUME Safe, NEW h \in Handlers, Downgrade(h)
  PROVE  Safe'
<1> USE SubscriptionsAssumption
<1>1. FreeRow \in Row /\ RowOK(stripe, FreeRow)
  BY DEF FreeRow, Row, Status, RowOK
<1>2. /\ rows \in Seq(Row) /\ Len(rows) \in Nat
      /\ rows' = Append(rows, FreeRow)
      /\ UNCHANGED <<now, payments, stripe, events, started, history>>
  BY DEF Downgrade, Safe, TypeOK
<1>3. /\ rows' \in Seq(Row)
      /\ Len(rows') = Len(rows) + 1
      /\ \A i \in 1..Len(rows) : rows'[i] = rows[i]
      /\ rows'[Len(rows) + 1] = FreeRow
  BY <1>1, <1>2
<1>4. \A i \in DOMAIN rows' : RowOK(stripe, rows'[i])
  BY <1>1, <1>2, <1>3 DEF Safe
<1>5. \A g \in Handlers : handler[g] # Idle =>
        WorkOK(stripe, Len(rows'), handler[g])
  BY <1>2, <1>3, Longer
<1>6. /\ handler' \in [Handlers -> Work \cup {Idle}]
      /\ \A g \in Handlers : handler'[g] # Idle =>
           WorkOK(stripe, Len(rows'), handler'[g])
  BY <1>5 DEF Downgrade, Finish, Safe, TypeOK
<1>7. TypeOK'
  BY <1>2, <1>3, <1>6 DEF Safe, TypeOK, history
<1> QED BY <1>2, <1>4, <1>6, <1>7 DEF Safe

LEMMA FailSafe ==
  ASSUME Safe, NEW h \in Handlers, Fail(h)
  PROVE  Safe'
<1>1. /\ handler' \in [Handlers -> Work \cup {Idle}]
      /\ \A g \in Handlers : handler'[g] # Idle =>
           WorkOK(stripe, Len(rows), handler'[g])
  BY OnlyHandler DEF Fail, Finish
<1> QED BY <1>1 DEF Fail, Safe, TypeOK

-----------------------------------------------------------------------------

LEMMA NextSafe == Safe /\ [Next]_vars => Safe'
<1> SUFFICES ASSUME Safe, [Next]_vars PROVE Safe'
  OBVIOUS
<1>1. ASSUME NEW h \in Handlers, Arrive(h) PROVE Safe'
  BY <1>1, ArriveSafe
<1>2. ASSUME NEW h \in Handlers, Proceed(h) PROVE Safe'
  BY <1>2, CallStripeSafe, SaveSafe, RecordPaymentSafe, DowngradeSafe, FailSafe
     DEF Proceed
<1>3. ASSUME NEW s \in Sids, Renew(s) PROVE Safe'
  BY <1>3, RenewSafe
<1>4. ASSUME NEW s \in Sids, NEW p \in Plans, Buy(s, p) PROVE Safe'
  BY <1>4, BuySafe
<1>5. CASE Tick
  BY <1>5, TickSafe
<1>6. CASE UNCHANGED vars
  BY <1>6 DEF vars, history, Safe, TypeOK
<1> QED BY <1>1, <1>2, <1>3, <1>4, <1>5, <1>6 DEF Next

\* Every variable keeps its type, whatever the requests and Stripe do.
THEOREM SubscriptionTypes == Spec => []TypeOK
<1>1. Safe => TypeOK
  BY DEF Safe
<1> QED BY <1>1, InitSafe, NextSafe, PTL DEF Spec

\* cancelSubscription and handleSubscriptionDeleted: a row shown as cancelled
\* names a subscription that Stripe has ended.
THEOREM CancelledNotCharged == Spec => []CancelledIsEnded
<1>1. Safe => CancelledIsEnded
  BY DEF Safe, RowOK, Ended, CancelledIsEnded
<1> QED BY <1>1, InitSafe, NextSafe, PTL DEF Spec

\* changePlan, checkout and the downgrade: a row that grants a paid plan names
\* a subscription that was bought.
THEOREM PaidPlansBought == Spec => []PaidPlanWasBought
<1>1. Safe => PaidPlanWasBought
  BY DEF Safe, RowOK, Bought, PaidPlanWasBought
<1> QED BY <1>1, InitSafe, NextSafe, PTL DEF Spec

-----------------------------------------------------------------------------
\* What the tenant is shown as cancelled will not be renewed.

\* Stripe knows that subscription s is to end, or has ended it.
CancelTold(st, s) ==
  s # NONE /\ (st[s].state = "ended" \/ (st[s].atEnd /\ st[s].state # "none"))

LastCancelled(rs) == rs # << >> /\ rs[Len(rs)].atEnd

\* A copy about to become, or to stay, the newest row says no more than Stripe
\* knows, but for a cancellation that is about to be told; a resumption clears
\* the newest row, unless a row without the flag came after it.
CopyOK(st, rs, w) ==
  \A c \in w.writes :
    /\ c.at \in {0, Len(rs)} /\ c.row.atEnd =>
         \/ CancelTold(st, c.row.sid)
         \/ w.op = "cancel" /\ w.step = "stripe"
    /\ w.op = "resume" =>
         ~c.row.atEnd /\ (c.at = Len(rs) \/ ~LastCancelled(rs))

Alone == \A g, h \in Handlers : InWindow(g) /\ InWindow(h) => g = h

NewestOK ==
  LastCancelled(rows) => Resuming \/ CancelTold(stripe, rows[Len(rows)].sid)

CopiesOK == \A h \in Handlers : InWindow(h) => CopyOK(stripe, rows, handler[h])

Orderly == ~raced /\ ~faulty => Alone /\ NewestOK /\ CopiesOK

LEMMA RacedStays ==
  ASSUME Safe, [Next]_vars, ~raced', ~faulty'
  PROVE  ~raced /\ ~faulty
<1>1. ASSUME NEW h \in Handlers, Arrive(h) PROVE ~raced /\ ~faulty
  <2>1. PICK w : Begin(h, w)
    BY <1>1 DEF Arrive, CheckoutCompleted, SubscriptionEvent,
                CancelSubscription, ResumeSubscription, ChangePlan,
                HandleExpired
  <2>2. raced \in BOOLEAN
    BY DEF Safe, TypeOK
  <2> QED BY <2>1, <2>2 DEF Begin
<1>2. ASSUME NEW h \in Handlers, Proceed(h) PROVE ~raced /\ ~faulty
  BY <1>2 DEF Proceed, CallStripe, Save, RecordPayment, Downgrade, Fail, history
<1>3. ASSUME NEW s \in Sids, Renew(s) \/ \E p \in Plans : Buy(s, p)
      PROVE  ~raced /\ ~faulty
  BY <1>3 DEF Renew, Buy, history
<1>4. CASE Tick \/ UNCHANGED vars
  BY <1>4 DEF Tick, vars, history
<1> QED BY <1>1, <1>2, <1>3, <1>4 DEF Next

\* What Stripe does by itself takes back no cancellation.
LEMMA StripeOrderly ==
  ASSUME Safe, Alone, NewestOK, CopiesOK,
         UNCHANGED <<rows, handler>>,
         \A s \in Sids : CancelTold(stripe, s) => CancelTold(stripe', s)
  PROVE  (Alone /\ NewestOK /\ CopiesOK)'
<1>1. \A r \in Row : CancelTold(stripe, r.sid) => CancelTold(stripe', r.sid)
  BY DEF CancelTold, Row
<1>2. Alone' /\ (Resuming => Resuming')
  BY DEF Alone, InWindow, Resuming, At
<1>3. NewestOK'
  <2>1. LastCancelled(rows) => rows[Len(rows)] \in Row
    BY DEF LastCancelled, Safe, TypeOK
  <2> QED BY <1>1, <1>2, <2>1 DEF NewestOK
<1>4. ASSUME NEW h \in Handlers, InWindow(h)
      PROVE  CopyOK(stripe', rows, handler[h])
  <2>1. handler[h] \in Work
    BY <1>4, Busy DEF InWindow, At
  <2>2. \A c \in handler[h].writes : c.row \in Row
    BY <2>1 DEF Work, Write
  <2> QED BY <1>1, <1>4, <2>2 DEF CopiesOK, CopyOK
<1> QED BY <1>2, <1>3, <1>4 DEF CopiesOK, InWindow

LEMMA RenewOrderly ==
  ASSUME Safe, Alone, NewestOK, CopiesOK, NEW s \in Sids,
         Renew(s) \/ \E p \in Plans : Buy(s, p)
  PROVE  (Alone /\ NewestOK /\ CopiesOK)'
<1>1. stripe \in [Sids -> Held] /\ stripe[s] \in Held
  BY DEF Safe, TypeOK
<1>2. PICK x : /\ stripe' = [stripe EXCEPT ![s] = x]
               /\ CancelTold(stripe, s) =>
                    x.state = "ended" \/ (x.atEnd /\ x.state # "none")
  <2>1. CASE Renew(s)
    <3>1. CASE /\ ~stripe[s].atEnd
               /\ stripe[s].state # "ended"
               /\ \E x : stripe' = [stripe EXCEPT ![s] = x]
      BY <3>1 DEF CancelTold
    <3>2. CASE stripe' = [stripe EXCEPT ![s].state = "ended"]
      <4>1. [stripe[s] EXCEPT !.state = "ended"].state = "ended"
        BY <1>1 DEF Held
      <4> QED BY <3>2, <4>1
    <3>3. stripe[s].state # "ended"
      BY <2>1 DEF Renew, Running
    <3> QED BY <2>1, <3>1, <3>2, <3>3 DEF Renew
  <2>2. CASE \E p \in Plans : Buy(s, p)
    BY <2>2 DEF Buy, CancelTold
  <2> QED BY <2>1, <2>2
<1>3. \A t \in Sids : CancelTold(stripe, t) => CancelTold(stripe', t)
  BY <1>1, <1>2 DEF CancelTold
<1>4. UNCHANGED <<rows, handler>>
  BY DEF Renew, Buy
<1> QED BY <1>3, <1>4, StripeOrderly

\* A request alone in its window begins with copies that say what Stripe knows.
LEMMA BeginOrderly ==
  ASSUME Safe, Safe', Alone, NewestOK, CopiesOK, ~raced',
         NEW h \in Handlers, NEW w, Begin(h, w),
         (LastCancelled(rows) => CancelTold(stripe, rows[Len(rows)].sid))
           => CopyOK(stripe, rows, w)
  PROVE  (Alone /\ NewestOK /\ CopiesOK)'
<1>1. /\ handler[h] = Idle
      /\ handler' = [handler EXCEPT ![h] = w]
      /\ handler \in [Handlers -> Work \cup {Idle}]
      /\ UNCHANGED <<rows, stripe>>
      /\ \A g \in Handlers \ {h} : ~InWindow(g)
  BY DEF Begin, Safe, TypeOK
<1>2. \A g \in Handlers : ~InWindow(g)
  BY <1>1 DEF InWindow, Idle
<1>3. \A g \in Handlers \ {h} : ~InWindow(g)'
  BY <1>1 DEF InWindow
<1>4. ~Resuming
  BY <1>2 DEF Resuming, InWindow, At
<1>5. CopyOK(stripe, rows, w)
  BY <1>4 DEF NewestOK
<1>6. handler'[h] = w
  BY <1>1
<1>7. CopiesOK'
  BY <1>1, <1>3, <1>5, <1>6 DEF CopiesOK
<1> QED BY <1>1, <1>3, <1>4, <1>7 DEF Alone, NewestOK

LEMMA ArriveOrderly ==
  ASSUME Safe, Safe', Alone, NewestOK, CopiesOK, ~raced',
         NEW h \in Handlers, Arrive(h)
  PROVE  (Alone /\ NewestOK /\ CopiesOK)'
<1> DEFINE Known == LastCancelled(rows) => CancelTold(stripe, rows[Len(rows)].sid)
<1>1. ASSUME NEW e \in events, CheckoutCompleted(h, e)
      PROVE  (Alone /\ NewestOK /\ CopiesOK)'
  <2> DEFINE r == [plan |-> e.plan, status |-> "ACTIVE", sid |-> e.sid,
                   end |-> now + 1, atEnd |-> FALSE]
  <2>1. PICK i : Begin(h, OnEvent(e, i, r))
    BY <1>1 DEF CheckoutCompleted
  <2>2. CopyOK(stripe, rows, OnEvent(e, i, r))
    BY DEF CopyOK, OnEvent
  <2> HIDE DEF r
  <2> QED BY <2>1, <2>2, BeginOrderly
<1>2. ASSUME NEW e \in events, SubscriptionEvent(h, e)
      PROVE  (Alone /\ NewestOK /\ CopiesOK)'
  <2>1. PICK i \in DOMAIN rows :
          Begin(h, OnEvent(e, i, [rows[i] EXCEPT !.status = StatusOf(e.type)]))
    BY <1>2 DEF SubscriptionEvent
  <2> DEFINE r == [rows[i] EXCEPT !.status = StatusOf(e.type)]
  <2>2. rows[i] \in Row /\ i # 0 /\ rows # << >>
    BY DEF Safe, TypeOK
  <2>3. r.sid = rows[i].sid /\ r.atEnd = rows[i].atEnd
    BY <2>2 DEF Row
  <2>4. Begin(h, OnEvent(e, i, r))
    BY <2>1
  <2> HIDE DEF r
  <2>5. Known => CopyOK(stripe, rows, OnEvent(e, i, r))
    BY <2>2, <2>3 DEF CopyOK, OnEvent, LastCancelled
  <2> QED BY <2>4, <2>5, BeginOrderly
<1>3. ASSUME CancelSubscription(h)
      PROVE  (Alone /\ NewestOK /\ CopiesOK)'
  <2> DEFINE r(b) == Cancelled(Current, b)
  <2>1. \/ Begin(h, OnCurrent("cancel", "stripe", NONE, r(FALSE)))
        \/ Begin(h, OnCurrent("cancelNow", "stripe", NONE, r(TRUE)))
    BY <1>3 DEF CancelSubscription
  <2>2. ~r(TRUE).atEnd
    BY <1>3, CurrentRow DEF CancelSubscription, Cancelled, Row
  <2> HIDE DEF r
  <2>3. ASSUME NEW x PROVE CopyOK(stripe, rows, OnCurrent("cancel", "stripe", NONE, x))
    BY DEF CopyOK, OnCurrent
  <2>4. ASSUME NEW x, ~x.atEnd
        PROVE  CopyOK(stripe, rows, OnCurrent("cancelNow", "stripe", NONE, x))
    BY <2>4 DEF CopyOK, OnCurrent
  <2>5. CASE Begin(h, OnCurrent("cancel", "stripe", NONE, r(FALSE)))
    BY <2>3, <2>5, BeginOrderly
  <2>6. CASE Begin(h, OnCurrent("cancelNow", "stripe", NONE, r(TRUE)))
    BY <2>2, <2>4, <2>6, BeginOrderly
  <2> QED BY <2>1, <2>5, <2>6
<1>4. ASSUME ResumeSubscription(h)
      PROVE  (Alone /\ NewestOK /\ CopiesOK)'
  <2> DEFINE r == Resumed(Current)
  <2>1. Begin(h, OnCurrent("resume", "stripe", NONE, r))
    BY <1>4 DEF ResumeSubscription
  <2>2. ~r.atEnd
    BY <1>4, CurrentRow DEF ResumeSubscription, Resumed, Row
  <2> HIDE DEF r
  <2>3. CopyOK(stripe, rows, OnCurrent("resume", "stripe", NONE, r))
    BY <2>2 DEF CopyOK, OnCurrent
  <2> QED BY <2>1, <2>3, BeginOrderly
<1>5. ASSUME NEW q \in Plans, ChangePlan(h, q)
      PROVE  (Alone /\ NewestOK /\ CopiesOK)'
  <2> DEFINE r == [Current EXCEPT !.plan = SavedPlan(Current, q)]
             step == IF Current.sid = NONE THEN "save" ELSE "stripe"
  <2>1. rows # << >> /\ Begin(h, OnCurrent("change", step, q, r))
    BY <1>5 DEF ChangePlan
  <2>2. Current \in Row
    BY <2>1, CurrentRow
  <2>3. r.sid = Current.sid /\ r.atEnd = Current.atEnd
    BY <2>2 DEF Row
  <2> HIDE DEF r, step
  <2>4. Known => CopyOK(stripe, rows, OnCurrent("change", step, q, r))
    BY <2>1, <2>3 DEF CopyOK, OnCurrent, LastCancelled, Current
  <2> QED BY <2>1, <2>4, BeginOrderly
<1>6. ASSUME HandleExpired(h)
      PROVE  (Alone /\ NewestOK /\ CopiesOK)'
  <2> DEFINE late(i) == [rows[i] EXCEPT !.status = "PAST_DUE"]
             ws == {[at |-> i, row |-> late(i)] : i \in Expired}
             w == [op |-> "expire", step |-> "save", plan |-> NONE,
                   event |-> NONE, writes |-> ws]
  <2>1. Begin(h, w)
    BY <1>6 DEF HandleExpired
  <2>2. \A i \in Expired : i # 0 /\ i \in DOMAIN rows /\ rows[i] \in Row
                           /\ rows # << >>
    BY DEF Expired, Safe, TypeOK
  <2>3. \A i \in Expired : /\ late(i).sid = rows[i].sid
                           /\ late(i).atEnd = rows[i].atEnd
    BY <2>2 DEF Row
  <2> HIDE DEF late
  <2>4. Known => \A c \in ws : c.at \in {0, Len(rows)} /\ c.row.atEnd =>
                   CancelTold(stripe, c.row.sid)
    BY <2>2, <2>3 DEF LastCancelled
  <2>5. w.writes = ws /\ w.op = "expire"
    OBVIOUS
  <2> HIDE DEF ws, w
  <2>6. Known => CopyOK(stripe, rows, w)
    BY <2>4, <2>5 DEF CopyOK
  <2> QED BY <2>1, <2>6, BeginOrderly
<1> QED BY <1>1, <1>2, <1>3, <1>4, <1>5, <1>6 DEF Arrive

\* Stripe is told before the row says so.
LEMMA CallStripeOrderly ==
  ASSUME Safe, Safe', Alone, NewestOK, CopiesOK,
         NEW h \in Handlers, CallStripe(h)
  PROVE  (Alone /\ NewestOK /\ CopiesOK)'
<1> DEFINE w == handler[h]
           v == [handler[h] EXCEPT !.step = "save"]
<1>1. /\ w \in Work /\ w # Idle /\ w.step = "stripe"
      /\ WorkOK(stripe, Len(rows), w) /\ InWindow(h)
  BY Busy DEF CallStripe, At, InWindow
<1>2. PICK c \in w.writes :
        /\ Running(c.row.sid)
        /\ stripe' = [stripe EXCEPT ![c.row.sid] = Told(w, c.row.sid)]
  BY DEF CallStripe
<1> DEFINE s == c.row.sid
<1>3. c.row \in Row /\ s \in Sids
  BY <1>1, <1>2 DEF Work, Write, WorkOK, WriteOK, Row
<1>4. /\ stripe \in [Sids -> Held] /\ stripe[s] \in Held
      /\ stripe[s].state \in {"active", "unpaid"}
  BY <1>2, <1>3 DEF Running, Safe, TypeOK
<1>5. /\ v.step = "save" /\ v.op = w.op /\ v.writes = w.writes
      /\ handler'[h] = v
      /\ \A g \in Handlers \ {h} : handler'[g] = handler[g] /\ ~InWindow(g)
      /\ UNCHANGED rows
  <2>1. handler' = [handler EXCEPT ![h] = v]
    BY DEF CallStripe, Goto
  <2>2. v.step = "save" /\ v.op = w.op /\ v.writes = w.writes
    BY <1>1 DEF Work
  <2> HIDE DEF v
  <2> QED BY <1>1, <2>1, <2>2 DEF Alone, CallStripe, Safe, TypeOK
<1>6. w.op \in {"cancel", "cancelNow", "resume", "change"}
  BY <1>1 DEF WorkOK, UserOp
<1>7. /\ w.op = "cancel" => Told(w, s).atEnd
      /\ w.op = "cancelNow" => Told(w, s).state = "ended"
      /\ w.op = "change" => Told(w, s).atEnd = stripe[s].atEnd
      /\ w.op # "cancelNow" => Told(w, s).state = stripe[s].state
  <2>1. CASE w.op = "cancel"
    BY <1>4, <2>1 DEF Told, Held
  <2>2. CASE w.op = "cancelNow"
    BY <1>4, <2>2 DEF Told, Held
  <2>3. CASE w.op = "resume"
    BY <1>4, <2>3 DEF Told, Held
  <2>4. CASE w.op = "change"
    BY <1>4, <2>4 DEF Told, Held
  <2> QED BY <1>6, <2>1, <2>2, <2>3, <2>4
<1>8. stripe'[s] = Told(w, s) /\ \A t \in Sids \ {s} : stripe'[t] = stripe[t]
  BY <1>2, <1>3, <1>4
<1>9. w.op # "resume" =>
        \A t \in Sids \cup {NONE} : CancelTold(stripe, t) => CancelTold(stripe', t)
  BY <1>4, <1>6, <1>7, <1>8 DEF CancelTold
<1>10. w.op = "cancel" => CancelTold(stripe', s)
  BY <1>3, <1>4, <1>7, <1>8, SubscriptionsAssumption DEF CancelTold
<1>11. CopyOK(stripe, rows, w)
  BY <1>1 DEF CopiesOK
<1>12. CopyOK(stripe', rows, v)
  <2>1. ASSUME NEW d \in w.writes, d.at \in {0, Len(rows)}, d.row.atEnd
        PROVE  CancelTold(stripe', d.row.sid)
    <3>1. d.row.sid \in Sids \cup {NONE} /\ w.op # "resume"
      BY <1>1, <1>11, <2>1 DEF Work, Write, Row, CopyOK
    <3>2. CASE w.op = "cancel"
      BY <1>1, <1>10, <3>2 DEF WorkOK
    <3>3. CASE w.op # "cancel"
      BY <1>9, <1>11, <2>1, <3>1, <3>3 DEF CopyOK
    <3> QED BY <3>2, <3>3
  <2> HIDE DEF v, w
  <2> QED BY <1>5, <1>11, <2>1 DEF CopyOK
<1>13. NewestOK'
  <2>1. CASE w.op = "resume"
    BY <1>5, <2>1 DEF NewestOK, Resuming, At
  <2>2. CASE w.op # "resume"
    <3>1. ~Resuming
      BY <1>1, <1>5 DEF Resuming, At, InWindow
    <3>2. LastCancelled(rows) => rows[Len(rows)] \in Row
      BY DEF LastCancelled, Safe, TypeOK
    <3> QED BY <1>5, <1>9, <2>2, <3>1, <3>2 DEF NewestOK, Row
  <2> QED BY <2>1, <2>2
<1> HIDE DEF v
<1>14. Alone' /\ CopiesOK'
  BY <1>5, <1>12 DEF Alone, CopiesOK, InWindow
<1> QED BY <1>13, <1>14

\* What becomes the newest row says what Stripe knows.
LEMMA SaveOrderly ==
  ASSUME Safe, Safe', Alone, NewestOK, CopiesOK,
         NEW h \in Handlers, Save(h)
  PROVE  (Alone /\ NewestOK /\ CopiesOK)'
<1> DEFINE w == handler[h]
           n == Len(rows)
<1>1. /\ w \in Work /\ w.step = "save" /\ WorkOK(stripe, n, w) /\ InWindow(h)
      /\ CopyOK(stripe, rows, w)
  BY Busy DEF Save, At, InWindow, CopiesOK
<1>2. PICK c \in w.writes :
        /\ rows' = IF c.at = 0 THEN Append(rows, c.row)
                   ELSE [rows EXCEPT ![c.at] = c.row]
        /\ IF w.writes # {c}
           THEN handler' = [handler EXCEPT ![h].writes = @ \ {c}]
           ELSE IF After(w) = "done" THEN Finish(h)
           ELSE Goto(h, After(w))
  BY DEF Save
<1>3. /\ UNCHANGED stripe
      /\ rows \in Seq(Row) /\ rows' \in Seq(Row)
      /\ handler \in [Handlers -> Work \cup {Idle}]
      /\ c \in Write /\ c.at \in 0..n /\ c.row \in Row /\ n \in Nat
  BY <1>1 DEF Save, Safe, TypeOK, Work, Write, WorkOK, WriteOK
<1>4. /\ c.at = 0 => Len(rows') = n + 1 /\ rows'[n + 1] = c.row
      /\ c.at # 0 => /\ Len(rows') = n
                     /\ rows'[n] = IF c.at = n THEN c.row ELSE rows[n]
                     /\ rows # << >>
  BY <1>2, <1>3
<1>5. /\ \A g \in Handlers \ {h} : handler'[g] = handler[g] /\ ~InWindow(g)
      /\ InWindow(h)' => /\ handler'[h].op = w.op /\ handler'[h].step = "save"
                         /\ handler'[h].writes \subseteq w.writes
  <2>1. \A g \in Handlers \ {h} : handler'[g] = handler[g] /\ ~InWindow(g)
    BY <1>1, <1>2, <1>3 DEF Finish, Goto, Alone
  <2>2. CASE w.writes # {c}
    <3>1. handler'[h] = [w EXCEPT !.writes = @ \ {c}]
      BY <1>2, <1>3, <2>2
    <3> QED BY <1>1, <2>1, <3>1 DEF Work
  <2>3. CASE w.writes = {c} /\ After(w) = "done"
    BY <1>2, <1>3, <2>1, <2>3 DEF Finish, InWindow, Idle
  <2>4. CASE w.writes = {c} /\ After(w) # "done"
    <3>1. handler'[h] = [w EXCEPT !.step = After(w)]
      BY <1>2, <1>3, <2>4 DEF Goto
    <3>2. After(w) \in {"payment", "downgrade"}
      BY <2>4 DEF After
    <3> QED BY <1>1, <2>1, <3>1, <3>2 DEF InWindow, Work
  <2> QED BY <2>2, <2>3, <2>4
<1>6. /\ LastCancelled(rows') =>
           w.op # "resume" /\ CancelTold(stripe, rows'[Len(rows')].sid)
  <2>1. CASE c.at \in {0, n}
    <3>1. rows'[Len(rows')] = c.row
      BY <1>3, <1>4, <2>1
    <3> QED BY <1>1, <2>1, <3>1 DEF LastCancelled, CopyOK
  <2>2. CASE c.at \notin {0, n}
    <3>1. rows'[Len(rows')] = rows[n] /\ rows # << >>
      BY <1>4, <2>2
    <3>2. ASSUME LastCancelled(rows)
          PROVE  w.op # "resume" /\ CancelTold(stripe, rows[n].sid)
      <4>1. w.op # "resume"
        BY <1>1, <2>2, <3>2 DEF CopyOK
      <4>2. ~Resuming
        BY <1>5, <4>1 DEF Resuming, InWindow, At
      <4> QED BY <3>2, <4>1, <4>2 DEF NewestOK
    <3> QED BY <3>1, <3>2 DEF LastCancelled
  <2> QED BY <2>1, <2>2
<1>7. ASSUME InWindow(h)'
      PROVE  CopyOK(stripe, rows', handler'[h])
  <2>1. ASSUME NEW d \in w.writes, d.at \in {0, Len(rows')}, d.row.atEnd
        PROVE  CancelTold(stripe, d.row.sid)
    <3>1. d.at \in {0, n}
      <4>1. d.at \in 0..n
        BY <1>1 DEF WorkOK, WriteOK
      <4> QED BY <1>3, <1>4, <2>1, <4>1
    <3> QED BY <1>1, <2>1, <3>1 DEF CopyOK
  <2>2. ASSUME NEW d \in w.writes, w.op = "resume"
        PROVE  ~d.row.atEnd /\ ~LastCancelled(rows')
    BY <1>1, <1>6, <2>2 DEF CopyOK
  <2> QED BY <1>5, <1>7, <2>1, <2>2 DEF CopyOK
<1>8. Alone' /\ CopiesOK'
  BY <1>3, <1>5, <1>7 DEF Alone, CopiesOK, InWindow
<1>9. NewestOK'
  BY <1>3, <1>6 DEF NewestOK
<1> QED BY <1>8, <1>9

\* The tail of a webhook, when its window is over.
LEMMA TailOrderly ==
  ASSUME Safe, Safe', Alone, NewestOK, CopiesOK,
         NEW h \in Handlers, RecordPayment(h) \/ Downgrade(h)
  PROVE  (Alone /\ NewestOK /\ CopiesOK)'
<1>1. /\ ~InWindow(h) /\ ~InWindow(h)' /\ UNCHANGED stripe
      /\ \A g \in Handlers \ {h} : handler'[g] = handler[g]
      /\ ~At(h, "save")
  BY DEF RecordPayment, Downgrade, Finish, At, InWindow, Idle, Safe, TypeOK
<1>2. Alone' /\ (Resuming => Resuming')
  BY <1>1 DEF Alone, InWindow, Resuming, At
<1>3. CASE RecordPayment(h)
  BY <1>1, <1>2, <1>3 DEF RecordPayment, NewestOK, CopiesOK, InWindow
<1>4. CASE Downgrade(h)
  <2>1. rows \in Seq(Row) /\ FreeRow \in Row /\ rows' = Append(rows, FreeRow)
    BY <1>4, SubscriptionsAssumption
       DEF Downgrade, Safe, TypeOK, FreeRow, Row, Status
  <2>2. Len(rows') = Len(rows) + 1 /\ rows'[Len(rows) + 1] = FreeRow
    BY <2>1
  <2>3. ~LastCancelled(rows')
    BY <2>2 DEF LastCancelled, FreeRow
  <2>4. ASSUME NEW g \in Handlers, InWindow(g)'
        PROVE  CopyOK(stripe, rows', handler'[g])
    <3>1. g # h /\ handler'[g] = handler[g] /\ InWindow(g)
      BY <1>1, <2>4 DEF InWindow
    <3>2. CopyOK(stripe, rows, handler[g]) /\ WorkOK(stripe, Len(rows), handler[g])
      BY <3>1, Busy DEF CopiesOK, InWindow, At
    <3>3. ASSUME NEW c \in handler[g].writes, c.at \in {0, Len(rows')}
          PROVE  c.at = 0
      <4>1. c.at \in 0..Len(rows) /\ Len(rows) \in Nat
        BY <2>1, <3>2 DEF WorkOK, WriteOK
      <4> QED BY <2>2, <3>3, <4>1
    <3> QED BY <2>3, <3>1, <3>2, <3>3 DEF CopyOK
  <2> QED BY <1>1, <1>2, <2>3, <2>4 DEF NewestOK, CopiesOK
<1> QED BY <1>3, <1>4

LEMMA NextOrderly ==
  ASSUME Safe, Orderly, [Next]_vars
  PROVE  Orderly'
<1> SUFFICES ASSUME ~raced', ~faulty' PROVE (Alone /\ NewestOK /\ CopiesOK)'
  BY DEF Orderly
<1>1. Safe' /\ Alone /\ NewestOK /\ CopiesOK
  BY NextSafe, RacedStays DEF Orderly
<1>2. ASSUME NEW h \in Handlers, Arrive(h)
      PROVE  (Alone /\ NewestOK /\ CopiesOK)'
  BY <1>1, <1>2, ArriveOrderly
<1>3. ASSUME NEW h \in Handlers, Proceed(h)
      PROVE  (Alone /\ NewestOK /\ CopiesOK)'
  <2>1. ~Fail(h)
    BY DEF Fail
  <2> QED BY <1>1, <1>3, <2>1, CallStripeOrderly, SaveOrderly, TailOrderly
      DEF Proceed
<1>4. ASSUME NEW s \in Sids, Renew(s) \/ \E q \in Plans : Buy(s, q)
      PROVE  (Alone /\ NewestOK /\ CopiesOK)'
  BY <1>1, <1>4, RenewOrderly
<1>5. CASE Tick \/ UNCHANGED vars
  <2>1. UNCHANGED <<rows, handler, stripe>>
    BY <1>5 DEF Tick, vars
  <2>2. \A s \in Sids : CancelTold(stripe, s) => CancelTold(stripe', s)
    BY <2>1
  <2> QED BY <1>1, <2>1, <2>2, StripeOrderly
<1> QED BY <1>2, <1>3, <1>4, <1>5 DEF Next

LEMMA InitOrderly == Init => Orderly
<1> SUFFICES ASSUME Init PROVE Orderly
  OBVIOUS
<1>1. \A h \in Handlers : ~InWindow(h)
  BY DEF Init, InWindow, Idle
<1>2. ~LastCancelled(rows)
  BY DEF Init, LastCancelled, FreeRow
<1> QED BY <1>1, <1>2 DEF Orderly, Alone, NewestOK, CopiesOK

\* cancelSubscription and resumeSubscription: what the tenant is shown as
\* cancelled at the end of the period Stripe will not renew, unless requests
\* raced or failed, however often and however late its events arrive.
THEOREM CancelledNotRenewed == Spec => []NoRenewalAfterCancel
<1>1. Orderly => NoRenewalAfterCancel
  BY DEF Orderly, NewestOK, LastCancelled, CancelTold, NoRenewalAfterCancel,
         Current
<1>2. Safe /\ Orderly /\ [Next]_vars => (Safe /\ Orderly)'
  BY NextSafe, NextOrderly
<1> QED BY <1>1, <1>2, InitSafe, InitOrderly, PTL DEF Spec

=============================================================================
