# Turnify in TLA+

Turnify is a multi-tenant booking system: a NestJS backend over PostgreSQL (TypeORM), Redis and Stripe, and
an Angular frontend. These modules model the parts of it whose correctness depends on the order in which
concurrent steps happen. TLC checks them on small instances; TLAPS proves the main results for every
instance. Paths below are relative to the repository.

## 1. Inventory

Everything runs in one Node process. It executes one JavaScript callback at a time; each `await` on the
database, Redis, Stripe or mail is a point where the code of other requests runs. No handler opens a
transaction, takes a lock or uses a row version, so a value read before an `await` may be stale after it.
There are no tests to speak of (`backend/test` holds the generated "Hello World"), so what the code is meant to
do is taken from its comments.

| Component (source) | State | Operations | What is hard | What makes it correct |
|---|---|---|---|---|
| Bookings (`backend/src/modules/bookings`) | table `bookings`; audit rows and notices it writes | create, update (move, change status), cancel, remove | check-then-save, saves of stale copies, effects after the save that may fail, notices nobody awaits | a slot is given once; closed bookings stay closed; audit and notices tell the truth |
| Services (`modules/services`) | table `services` | create, update, soft delete | edits between the steps of a booking; unique name by check-then-save | one name per tenant |
| Subscriptions (`modules/subscriptions`) | tables `subscriptions`, `payments`; the subscription Stripe holds | checkout, cancel, resume, change plan; four webhooks | webhooks lost (every error is answered 200), duplicated, out of order; two writers; two rows after a downgrade | a cancelled tenant is not charged, a paying one not locked out; a plan granted was bought |
| Subscription guard (`subscriptions/guards`) | none (counts rows) | admits or refuses a request | the count is read before the row is created | no more rows than the plan allows |
| Scheduler (`modules/jobs/services`) | none | hourly reminders, daily expiry and warnings | inclusive window, missed runs, stale rows saved in a loop | each booking is reminded once; only what expired is marked |
| Auth (`modules/auth`) | refresh tokens, reset tokens, audit; failed attempts in Redis | login, register, refresh, logout, forgot/reset password, sessions | lookup by a salted hash, parallel attempts, a lock for each address, revocation in several steps | the lock holds; a used or revoked token is refused |
| Users, profile, roles, tenants | their tables | CRUD | stale copies, as in Bookings, the hash of the password included; a webhook that writes a tenant's status too | what was removed stays off; names are unique |
| Notifications (`modules/notifications`) and header badge (`frontend/.../header.component.ts`) | table `notifications`; the counter a page shows | create, mark, remove; load, event, click | the click and its event both decrement; a late answer overwrites; two sockets deliver one event twice | the badge shows the unread count |
| WebSocket gateway (`modules/websockets`) and `websocket.service.ts` | rooms, map of sockets; the socket of a tab | connect, disconnect, emit | reconnection, sockets replaced while they open | a page hears its own user's events, and no other's |
| HTTP interceptor (`frontend/.../auth.interceptor.ts`) | `localStorage`, `isRefreshing`, `refreshTokenSubject` | attach a token, refresh, wait, retry, forced logout | several requests fail at once, late 401s, other tabs, refused refresh | one refresh at a time; nobody waits for ever |
| Lists, forms and password pages (`frontend/.../features`) | what each page loaded, typed and is waiting for | load, filter, type, save, leave | late and lost answers, double clicks, forms sent before their row came | a page shows the table; what nobody touched is kept |
| Dashboard and reports page | figures last loaded | load, reload on an event | events lost, loads that overlap | they end at what is stored |
| Routes, menus, controllers and guards | permissions in the database, in the token, in the browser | login, refresh, links, changes of a role | three copies of a permission | what is offered works; what is taken away ends |
| Reports (`modules/reports`) | none | statistics, trend, revenue | UTC keys with local days, month ends | each booking counts once |
| Audit, Redis client, seed, styles | — | logging, counters, start-up | — | — |

How they interact: a controller passes a request through the JWT guard, the permissions guard and the subscription
guard to its service; the service reads and saves rows, then calls the audit service, the notifications service, the mail service and
the gateway directly. The gateway sends events to the tenant's room; the frontend reloads on them. Stripe calls the
webhook controller. Cron methods read and save the same tables. The Bull processors in `jobs/processors` are
not registered by `jobs.module.ts` and never run.

`PROJECT.json` lists under `hazards` each place where one of these difficulties bites, with the properties that cover it, or a note
saying why none does.

## 2. The modules

| Modules | Subject | Section |
|---|---|---|
| `Calendar`, `Bookings`, `MCBookings`; `BookingsProofs`, `BookingsTrail` | bookings, and what a calendar promises | 3 |
| `TokenRefresh`; `TokenRefreshProofs` | the HTTP interceptor in the tabs of a browser | 4 |
| `Subscriptions`, `MCSubscriptions`; `SubscriptionsProofs` | a tenant's rows against the subscriptions Stripe holds | 5 |
| `Sessions`, `MCSessions`; `SessionsProofs` | logins, locks, refresh tokens, passwords | 6 |
| `BackOffice`, `MCBackOffice`; `BackOfficeProofs` | users, services, roles, tenants: plan limits, names, removals | 7 |
| `Badge`, `ListPages`, `EditForms`, `PasswordForms`, `LiveSocket`, `LiveBoards`, `Reminders`, `Dates`, `Endpoints`, `Navigation`; `Surroundings`, `MCSurroundings`; `PagesProofs`, `SurroundingsProofs` | the frontend, the live connection, the scheduler's reminders, the reports' dates, permissions | 8 |

They were written in this order, the core of the product first. Section 9 says what
is proved and what only checked.

## 3. Bookings

`Bookings.tla` models `bookings.service.ts` for one tenant. An execution of a handler is an element of `Handlers`;
`handler[h]` is its local state, above all the copy of the row it loaded with its own changes applied. Each
`await` that reads or writes shared state ends a step:

| Action | Code (`bookings.service.ts`) |
|---|---|
| `CreateLoad` | `create`: the service is found active |
| `UpdateLoad`, `CancelLoad`, `RemoveLoad` | the row is found; permission and status are checked; the copy is changed |
| `CheckSlot` | past check and query for `conflictingBooking` |
| `Insert`, `Overwrite` | `save` |
| `WriteAudit` | `createAuditLog` |
| `NotifyOwner` | `sendBooking…Email`, errors caught |
| `Reload`, `Emit` | the row is read again; event to the room; background notices started |
| `NotifyAdmins` | the loop nobody awaits, cut short by its first error |
| `Fail` | an `await` that rejects, or a crash: nothing is rolled back |
| `UpdateService`, `RemoveService`, `RemoveUser`, `RestoreUser`, `Tick` | what happens around the requests; a removed user comes back when `UsersService.update` saves the row it had loaded |

The order of the steps differs between the operations as it does in the code: `update` writes to the owner before
its audit entry, the others after it. An entry carries the status of its `newValue`: for an update the one the request asked for, also
when it was ignored.

Decisions a reader should know:

- `save(entity)` of TypeORM reads the row and updates the columns that differ, so the row ends up equal to the
  copy; it is one step. This is what lets a stale copy undo another request's change, `deletedAt` included.
- A request refused before its first write changes nothing, and is a stutter.
- `Admins` are the users with `MANAGE_BOOKINGS`; the code also looks at role names for the notices, and the seed gives
  that permission to those roles.
- With a service soft-deleted, `booking.service` loads as null: moving the booking ends in a `TypeError` (a
  guard of `UpdateLoad`), and its confirmation mail is skipped.
- `ServicesService.update` and `remove` are one step each. The subscription guard is in `BackOffice`. The
  `AuditInterceptor` also logs each call, but always without a user; it is left out.
- The removal of a user does not end the access token, and no guard looks the user up: bookings go on. But `create` finds no user to announce
  (`if (clientUser)`), and so starts no notices to the administrators; the owner of a booking gets no mail either, and neither does a
  removed administrator. `accounts` is the soft deletion of each user.
- A removed row is re-read as null, and its event carries no booking: `shown` keeps its value.

`Calendar.tla` is the promise: `Book`, `Change` and `Remove` are single steps that take only a free slot and leave closed
entries alone. The code does not keep that promise under races. Instead of weakening it everywhere, the abstract specification gives up a
service (`Lose`) as soon as two requests on it have been between load and save at once, the history variable `raced`; everything
else is promised for ever.

### Runs

| Run | Shows | Bounds |
|---|---|---|
| `bookings_races` | with requests interleaved at every `await` and failing anywhere: `AuditTrail` (the log says which administrator asked for the very status a row has) and `ConfirmationIsAdmins` (who is told of a confirmation finds that entry, written or about to be) hold whatever the races, but for a request that ended between its save and its entry; `NoDoubleBookingUnlessRaced`, `ClosedIsFinalUnlessRaced`, `CancelNoticeTrue` without races; and `ImplementsCalendar` | 2 handlers, 3 requests, 2 bookings, a client and an administrator, 2 start times, 1 service, fixed clock |
| `bookings_alone` | one request at a time, with the clock running, the service edited or removed and a client's account removed and brought back between its steps: `NoDoubleBooking` and `BroadcastIsCurrent` outright, and `EveryBookingAnnounced`, which asks for the notices to the administrators only while the owner's account was never removed | 1 handler, 2 requests, 2 bookings, 2 start times, durations 1 and 2, clock 0..1, liveness |
| `bookings_double_booking` | two requests both find the slot free and both save (violation) | as races |
| `bookings_closed_final` | an update saves its stale copy over a cancellation (violation) | as races |

Two handlers suffice for every hazard found: each needs one request between another's load and save. Three requests let a
booking be made and then be fought over by two; alone, the two sides of a conflict are the two requests. Start times 0 and 1 give equal
and touching slots with duration 1, overlapping and nested ones where the service's duration changes between 1 and 2 (alone). One account is removed
and brought back: the client's, who then still books with a token; a removed administrator only receives less. Longer
histories of one request at a time are left to the theorems `NotDoubleBookedAlone` and `EventsCurrentAlone`, which have no bounds. `CHECK_DEADLOCK FALSE` is stated because `MaxRequests` makes a
run end. Handlers and ids are symmetric in `bookings_races`; in `bookings_alone`, which checks liveness, symmetry is off.

With two handlers `BroadcastIsCurrent` does not hold either: both re-read, and the older reading may be sent
last. No text of the repository promises the order, so it is not listed as a finding; the frontend reloads on each event.

Fairness, used by `bookings_alone` only: weak fairness of each handler's `Proceed` and of each background `NotifyAdmins`. The
event loop resumes every function whose promise has settled, and database calls settle or reject (`Fail` is part of `Proceed`).

### Findings

- **A slot can be given twice.** `create` and `update` query for a conflict and save later, with nothing in between to stop
  another request ("Verificar disponibilidad (que no haya otra reserva en ese horario)", line 109).
- **Closed bookings can be reopened.** `update` and `cancel` test the status of the copy they loaded and save that copy later ("No
  permitir modificar reservas canceladas o completadas", line 193). A removed booking comes back the same way.

### Proofs

All from `BookingsAssumption`: administrators are users, durations are positive naturals, and `NONE` and `LOST` are not rows, ids, times or
statuses. No bound on handlers, ids, services, times or requests is used.

- `BookingsProofs!TypeCorrect`. `TypeOK` is not inductive: a save indexes `bookings` by the handler's id, which must be an
  id, and the audit step needs one too. `Typed` adds `HandlersOK`: a create has no id until its insert, and any other handler
  at work is on an existing row of the same owner and service.
- `BookingsProofs!NotDoubleBooked` and `ClosedStaysClosed`. A save is safe only if what was checked is still true when it happens. `Safe`
  adds `Alone` (two handlers in their windows on one service have marked it raced) and `Fresh` (outside raced services, a
  handler's copy differs from the row only by its own changes, and a slot found free still is). `Alone` is why no other
  save can disturb `Fresh`; `Fresh` is why the save keeps slots disjoint and closed rows closed.
- `BookingsProofs!RefinesCalendar`: `Spec => ImplementsCalendar`. The mapping shows a service's rows as they are until
  it is raced, then as `LOST`. `Begin` maps to `Lose` or a stutter, `Insert` to `Book` or `BookLost`, `Overwrite` to `Change`,
  `Remove` or a stutter, everything else to a stutter.
- `BookingsTrail!AuditTrailKept` and `ConfirmationsTrue` hold whatever races. The rows and the log alone are not inductive: a stale copy
  may bring a status back long after it was logged. `Trail` says of every copy about to be saved that its status is that of a
  row the log accounted for, or the very one its user asked for and was entitled to set (`Entitled`), and will log (`CopiesAccounted`); a
  request that ends before it has logged puts its booking in the history `unlogged`, and so do the notices it sent. Since the log
  only grows, a copy that was accounted for stays so.
- `BookingsTrail!CancelNoticesTrue` joins `Safe` and `Trail`: off raced services a cancelled row is final, so who is told of a cancellation,
  by the request or by a task that runs any time later, may rely on it (`CancelsTold`).
- `BookingsTrail!EventsCurrentAlone` and `NotDoubleBookedAlone` are about one request at a time, as the run `bookings_alone` is: their hypothesis
  is `Handlers = {h}`, and everything else is arbitrary. With one handler a row that was saved is still the row when it is re-read
  (`SavedIsStored`), and nothing is ever raced.

## 4. TokenRefresh

`TokenRefresh.tla` models `auth.interceptor.ts` in the tabs of one browser. The tabs share `storage` (`localStorage`);
`isRefreshing` and `subject` are module variables, one per tab. `request[r]` is where a request of a page is: sent,
doing the refresh, waiting for it, retried, or resent after waiting. JavaScript of one tab does not interleave with itself, and each
action is what runs between two answers: `Send`, `Deliver`, `StartRefresh`, `NoRefreshToken`, `Wait`, `Refreshed`, `ForcedLogout`, each a
branch of `authInterceptor` or `handle401Error`. `Refreshed` includes the emission on the subject, which sends
the waiting requests synchronously before the original one is retried. `Login` and `Logout` are those of the frontend's
`AuthService` and may happen in any tab at any time.

Of the server the model keeps what the interceptor depends on. `Serve`: a request with an expired access token is answered 401, and
anything may fail. `Rotate`, `Refuse`: `POST /auth/refresh`. The constant `FindsTokens` is how
`AuthService.refreshTokens` looks a token up. As written it hashes the token with a new bcrypt salt and searches for an equal
hash, which never matches, so every refresh is refused: `FindsTokens = FALSE`. With `TRUE` the service finds what it
issued; the interceptor is written for that, and its properties must not depend on the other module's fault. Which refresh tokens are
revoked is left open, which covers two tabs that rotate one token at once. An access token and the refresh token issued with it are one
token of the model, since the code always stores and removes them together. A login's `POST` and its storing are one
step: until it is stored no tab knows the new pair.

| Run | Shows | Bounds |
|---|---|---|
| `token_refresh_tabs` | `FlagMeansRefresh`: the flag is up only while a refresh of the tab is under way, so it never sticks; `NeverReposted`: a tab posts a refresh token once, even for a 401 that arrives after the refresh; `WaitersReleasedUnlessRefused`: a waiting request goes on unless the refresh fails | 2 tabs, 2 requests, 3 pairs, 2 logins, liveness |
| `token_refresh_stuck` | the refresh fails and the waiting request never ends (violation) | 1 tab, 2 requests, `FindsTokens = FALSE` |

Of two requests one refreshes, and the other waits or gets its 401 late. Two tabs share the storage; more add
nothing, since a tab acts on another through the storage only. Fairness: every request is answered or ends
in an error (browsers time out), and the browser runs the callback of each answer. No fairness is assumed of the user.

Finding: **waiting requests can hang.** A failed refresh emits nothing on `refreshTokenSubject`, so the requests waiting on it neither
complete nor fail ("esperar a que termine y usar el nuevo token", line 93); only a later successful refresh in the same
tab releases them. With the salted lookup every refresh fails.

One behaviour is modelled and worth knowing: the `catchError` of line 73 is on the whole chain, so an error of any kind in the
retried request (a 400, a 500) logs the user out after a refresh that succeeded, and takes the flag of a later refresh down with
it. `FlagMeansRefresh` and `NeverReposted` hold nevertheless, because that logout also empties the storage.

`TokenRefreshProofs` proves `TokenTypes`, `FlagComesDown` and `PostedOnce` for any number of tabs, requests and tokens, from
`TokenRefreshAssumption` (`NONE` and the answers are not tokens). The invariant `Safe` adds `StepOK` (what a request's step says of its other fields) and
`Rotation`: a token answered by the server is in no other place, and a posted token that is still stored belongs to a refresh under
way with the flag up. `Rotation` is why a refresh that starts with the flag down posts a token nobody posted in that tab.

## 5. Subscriptions

`Subscriptions.tla` models, for one tenant, every operation that writes its rows of `subscriptions`: the four webhooks and
the users' calls of `subscriptions.service.ts`, and the expiry cron of `scheduler.service.ts`. As in Bookings, `handler[h]` is one execution.
It holds what it will save, as `writes`: copies of rows, each with its place in the table (0 for a new row).

| Action | Code |
|---|---|
| `CheckoutCompleted` | `handleCheckoutCompleted` up to its save: the row is overwritten or a new one made |
| `SubscriptionEvent` | the other three handlers up to their save, which differ in the status they set |
| `CancelSubscription`, `ResumeSubscription`, `ChangePlan` | the methods of those names up to the call of `StripeService` |
| `HandleExpired` | `handleExpiredSubscriptions`: its query |
| `CallStripe` | the call of `StripeService` |
| `Save` | one `save`; the cron has several, in any order |
| `RecordPayment`, `Downgrade` | what the webhook handlers write next |
| `Fail` | an `await` that rejects, or a crash |
| `Buy`, `Renew`, `Tick` | the tenant pays a checkout; Stripe renews, fails to, or ends a subscription; a billing cycle passes |

Decisions a reader should know:

- `events` is the set of events Stripe has sent. Nothing takes one out, so a handler may get it twice, late, in any order, or
  never. This covers Stripe's own guarantee (at least once, unordered) and the controller's answer of 200 to every error, after which
  Stripe does not try again. An event that finds no row is dropped by the code, and is a stutter.
- `createCheckoutSession` writes no subscription and is the precondition of `Buy`: a plan with a `stripePriceId`. Nothing in it looks for
  an existing subscription, so a tenant may hold several.
- `findOne` without an order may return any row that fits: a tenant has more than one after a downgrade.
- `save(entity)` leaves the row equal to the copy. Where the entity was loaded with its relation `plan`, TypeORM takes `plan_id` from
  the relation and not from the assigned `planId`. `SavedPlan` says so: `changePlan` keeps the plan it loaded. The checkout loads no
  relation, and its assignment is saved.
- `updateSubscription` asks Stripe twice, a read and a write; it is one step, since only the write matters here.
- A registered tenant starts with no row (`createFreeSubscription` is never called), the demonstration tenant with a FREE one.
- The clock counts billing cycles. The 30 days the checkout writes and Stripe's month are both one cycle.

| Run | Shows | Bounds |
|---|---|---|
| `subscriptions_safe` | whatever races, fails, or arrives twice, late or never: `CancelledIsEnded`, a row shown as cancelled is no longer charged, and `PaidPlanWasBought`; without races and failures `NoRenewalAfterCancel`: what the tenant is shown as cancelled Stripe will not renew | 2 handlers, 3 requests, 2 subscriptions, 2 plans, 5 events, clock 0..2 |
| `subscriptions_past_due` | a tenant who has paid every invoice is marked `PAST_DUE` (violation) | 1 handler, 5 requests, 1 subscription |
| `subscriptions_plan_change` | the row keeps the old plan while Stripe charges for the new one (violation) | 1 handler, 3 requests, 1 subscription |

Two handlers race for a row; the third request is the one that made it or finds it damaged. Two subscriptions are an old
and a new one of the same tenant. Two plans are what a change needs. Clock 2 and 5 events allow two renewals. `CHECK_DEADLOCK FALSE` is
stated because the bounds make a run end.

`NoRenewalAfterCancel` is about `Current`, the newest row, which is what the tenant is shown and what is resumed. Of an older row it does not hold: a checkout
event delivered twice gives a subscription two rows, and a resumption clears the newer one.

Findings:

- **Paying tenants are locked out.** `handleInvoicePaid` sets the status and not `currentPeriodEnd`, which only the checkout
  sets. After the first period the cron finds the row expired at each run, and `subscription.guard.ts` refuses writes: "Tu
  suscripción tiene pagos pendientes".
- **A change of plan is not saved.** The answer says "Plan actualizado a", Stripe charges for the new plan, the row keeps the old one.
  The same slip is why `PaidPlanWasBought` holds: a FREE tenant with no subscription at Stripe passes every check of `changePlan`, and
  would be given a paid plan if the assignment were saved. The mutant of that property shows it.

`SubscriptionsProofs` proves `SubscriptionTypes`, `CancelledNotCharged`, `PaidPlansBought` and `CancelledNotRenewed` for any number of handlers, subscriptions, plans,
events and rows, from `SubscriptionsAssumption`. The rows alone are not inductive, since a handler may save what it decided long ago. `Safe` says the same of every
copy about to be saved (`WorkOK`) and of what each event reports (`EventOK`), for an event sent once may be handled at any later
time. Both last because a subscription once bought stays bought and once ended stays ended (`Keep`). The one
exception is the copy of an immediate cancellation, which is ahead of Stripe until `CallStripe`. `CancelledNotRenewed` needs `Orderly` besides: until
something races or fails, one handler at a time is between its load and its save (`Alone`), a copy that becomes or stays the
newest row says no more than Stripe was told, but for a cancellation about to tell it, and a resumption clears the newest row (`CopiesOK`).

## 6. Sessions

`Sessions.tla` models `auth.service.ts`, with what `profile.service.ts` and `users.service.ts` do to the row of the user, for one account.
As in Bookings, `handler[h]` is one execution and each `await` on PostgreSQL or Redis ends a step. `user` is the row: whether it is
active, inactive or removed, and the hash of the password, which stands as the number of the change that set it. `sessions` is the table
`refresh_tokens` and `resets` `password_reset_tokens`, both in the order of creation; `attempts` and `locked` are the two keys of
Redis, which are those of the e-mail *and* the address a login comes from, so there is one of each for every element of `Addresses`.

| Action | Code (`auth.service.ts`) |
|---|---|
| `BeginLogin`, `WrongPassword`, `RightPassword`, `CountFailure`, `LockOut`, `ClearAttempts` | `login` and `handleFailedLogin`, one step per `await`; the password is compared between the lock's reading and the counter |
| `RevokeDevice`, `OpenSession` | `generateTokens`: the device's sessions are revoked, then one is saved |
| `FindToken`, `RetireToken` | `refreshTokens` |
| `Logout`, `LogoutAll`, `RevokeSession` | the single updates of those names |
| `BeginForgot`, `CancelResets`, `IssueReset` | `forgotPassword` |
| `FindReset`, `ResetPassword`, `UseReset`, `CloseSessions` | `resetPassword` |
| `BeginChange`, `SavePassword`, `CloseSessions` | `changePassword` |
| `BeginEdit`, `SaveEdit` | `update` and `remove` of `users.service.ts`, and the saves of the profile and the preferences: a copy of the row is loaded, changed and saved whole |
| `SetSuspended`, `Expire`, `Fail` | the tenant's status, the TTLs of Redis, an `await` that rejects |

Decisions a reader should know:

- `hashToken` takes a new bcrypt salt at each call, so the lookups by hash of `refreshTokens` and `resetPassword` find nothing.
  `finds` is chosen once per behaviour, so every property holds with the lookup as written and with one that works.
- A user agent is the set of the marks `parseUserAgent` looks for. The first mark found decides, which makes Opera Chrome ("Chrome/" is
  looked for before "OPR/") and iPhones macOS ("Mac OS X" before "iPhone"): devices that are not the same share their session.
- `refreshTokens` does not look at the tenant's status, `login` does.
- `save(user)` writes every column that differs from the stored row, `password` included. An edit that loaded the row before the password
  was changed or reset puts the old hash back, and the old password opens sessions again. `resetPassword` updates the one column.
- `changePassword` says it revokes every session but the current one ("Revocar todas las sesiones excepto la actual"); it revokes all, as its
  answer says. The page of the sessions takes the first of the list as the current one.
- `Expire` assumes that the counter outlives the logins it counts. A process that dies between `INCR` and `EXPIRE` would leave a counter
  without a TTL; that is not modelled.

The run `sessions` has 2 handlers, 2 addresses, 5 requests, lock after 2 attempts, and three agents on two devices. It shows `GuessesBounded`
(from one address, overlapping logins cost at most one extra attempt each; an account may be guessed at from any number of addresses, and
no bound is claimed over them), `TokensBounded` (no more live sessions of a device or reset tokens than
requests can overlap) and `OldPasswordOpensNothing` (what an earlier password opened is closed once the change is answered, except
what a request under way at that moment opens, and what is opened with a password that a stale copy has put back and no change or reset has
closed since: the history `revived`). Two handlers overlap in every pair of steps, an edit and a change of the password among them; five
requests are three logins and a reset asked for and used. `epoch`, `closed`, `late`, `revived` and `lockLost` are history.

`SessionsProofs` proves the three properties and the types for any number of requests, addresses, devices and attempts. None of them is inductive
alone. For the guesses, address by address: while the account is open to it, every failure counted past the limit belongs to a login about
to set the lock (`OpenBound`); once it is locked, only the logins that were already past the check may still count (`LockedBound`). For the tokens: who is about to
save one has none left (`NoneYet`), so the live ones have different openers and are no more than there are. For the passwords: the one in force is the newest or one that was put back
(`PasswordOK`), no copy holds one yet to be set (`CopyOK`), and every execution under way carries an epoch that no change has closed, or is
marked late, or has one that was put back (`EpochsOK`); what it opens inherits that.

## 7. Back office

Users, services, roles and tenants are kept by services of one shape: find the row, check, change the copy, save. `BackOffice.tla` says it
once and gives, table by table, what differs: which routes carry `CheckPlanLimits` (`Guarded`), what is counted (`Counted`), which names
are refused or looked up (`Refused`, `VerifiedRename`), what an update may change (`Renames`, `Switches`) and what a removal switches
off (`Removed`). Bookings appear as far as the plan counts them. `BeginCreate` is the guard and the start of the service, for the
count is read long before `Insert`; `Overwrite` is the `save` of every other request.

- A tenant's slug is unique in the database, removed rows included; other names are unique only as far as the services look.
- A role's update looks for no other role of that name. A user's e-mail is looked for within the tenant, while the login looks for it alone.
- `updateMyTenant` saves a copy with the status it loaded, so it can undo a suspension made meanwhile. It can bring a removed
  tenant back too, but as a whole: its marks are saved together, which is why `RemovedIsOff` holds against stale copies.
- `CheckoutCompleted` is the one line of `subscriptions.service.ts` that writes a tenant: `handleCheckoutCompleted` sets its status to
  `ACTIVE` by the id in the event. It asks neither whether the tenant was removed nor whether it was suspended since the checkout began, so it
  lifts a suspension, and makes a removed tenant active again. The history `reopened` names those, and `RemovedIsOff` excepts them.

The run `backoffice` has 3 handlers, 6 requests, two free names and a reserved one, and a limit of 1. `OvershootBounded`: a
tenant never has more rows than its limit and the other requests that overlap, although stale copies bring removed rows
back. `NamesUniqueUnlessRaced`: two rows share a name only if two requests were to write it at once. `RemovedIsOff`: a removed user
is inactive and a removed tenant suspended, except a tenant a checkout was completed for after its removal. With a limit of 1 three handlers pass the guard at once; six requests
let rows be made, removed, brought back and made again.

`BackOfficeProofs` proves the three for any requests, names and limit. For the limit the invariant counts what may still be
counted: the rows in the plan, the removed rows that some request holds a copy of in the plan, and the creations under way; these are
together at most the limit and the other requests (`Bounded`). The guard lets a creation in only when the counted rows are below the limit, and
whatever else may come back is then held by a request of its own (`GuardCounts`). For the names: a copy about to be saved finds its
name free but for its own row (`SaveFree`), and two requests that were to write one name have marked it (`ClaimsRaced`).

## 8. Surroundings

These parts share no state with one another. `Surroundings.tla` composes their modules so that a behaviour is one of a single
part, `component`, while the others stay in one initial state: the run `surroundings` checks the union of
their behaviours (about two and a half million states), and each module's properties on its own. Each has its variables, `Init` and `Next` under names of its own.

| Module | Models | Properties | Bounds |
|---|---|---|---|
| `Badge` | `header.component.ts` and the page of notifications of one tab, the rows behind them, calls answered in any order or lost, events of the tab's sockets, of which `connect` may leave two | `BadgeWithinClicks`: at rest the badge promises no more than there is to read and one for each copy of an event a second socket was sent, and is short by no more than the clicks it counted twice and the events it missed; `ShownReadWasRead` | 2 calls, 2 sockets, 2 rows, 2 clicks, 2 shown |
| `ListPages` | the five list pages: load, filter, search, page, buttons, dialogs | `ListIsTable`: at rest the page shows the table through its filters; `OneFlipPerIntent`: a button pressed twice flips once | 2 rows, 1 per page, 3 acts, 1 change by others, 2 calls |
| `EditForms` | the seven forms over a stored row, with the header that shows two of them | `UntouchedKept`, `CreatedOnce`, `HeaderIsStored` | 2 values, 4 acts |
| `PasswordForms` | the three pages where a new password is typed twice | `ValidWhenAgreed`: a form is valid with twice one acceptable password, and blocked only where the code blocks it | passwords that lack at most two kinds of characters, 2 submissions |
| `LiveSocket` | `websocket.service.ts` in a tab and the registry of `websockets.gateway.ts` | `OneSocketOfOnesOwn`: the current socket alone is in a room, its user's | 2 accounts, 3 sockets, 2 retries, 2 visits |
| `LiveBoards` | dashboard and reports page: events and reloads | `BoardSettles`: they end at what is stored, unless not told | 3 changes, 3 loads, 1 loss |
| `Reminders` | `handleBookingReminders` of `scheduler.service.ts` and the mails it starts | `RemindersFollowDelays`: never more than two reminders; two only if a run was prompter than the last; none only if one was later, missed or lost | hours of 3 ticks, delay 1, 3 starts, 1 crash |
| `Dates` | the windows of `reports.service.ts`, the dates of the booking form | `ReportsCountOnce`, `UntouchedStartKept` | days of 4 ticks, months of 3 days, five time zones, two of them with a change of the clock |
| `Endpoints`, `Navigation` | the permissions every handler asks for; routes, guards, menus, and the three copies of a role: database, token, browser | `OfferedIsServed`, `RefusedWithinLife` | token life 1 period, 3 custom roles, 2 changes |

Each bound is the least at which every action and every exception named in a property occurs. What the modules found out about the code,
stated as exceptions in the properties:

- *Badge.* A click in the dropdown lowers the badge, and so does the event it causes in the page. With two sockets in the room every new notice
  arrives twice, is listed twice and raises the badge twice (`doubled`), until the next count is loaded. Other tabs are not modelled. `setupWebSocket`
  overwrites the function that ends the header's subscriptions, so two of them outlive it.
- *Lists.* Answers of overlapping loads are applied as they come, an answer to one dialog closes a later one, and a list that shrinks leaves the
  pager beyond its last page. A behaviour ends once an older list has overtaken a newer one (`disorder`). The page of tenants acts
  as that of users and is not run twice.
- *Forms.* The service, booking, branding and preferences forms can be sent before their row has come, and then save their own defaults. The
  general and branding pages announce to the header what the form says when the answer comes, not what was sent. A removed logo is never saved.
  A user's form sends one role and drops the others. The service form allows a price of 0, which the server refuses.
- *Passwords.* The validator of the registration and reset pages sets an error on the second field; correcting the first field does not take it away.
- *Socket.* `connect` lets go of a socket that is still opening. Opening the app on the reports page does that: the
  first goes on delivering, every event comes twice, and it survives a logout. A session that ends without the header's logout keeps its socket. A refused
  socket never tries again, and one that does uses the token it was made with.
- *Boards.* The dashboard does not listen for cancellations, a removal is announced to nobody, and an event lost is not made up.
- *Reminders.* The window is inclusive at both ends and one hour long, while runs are one hour apart give or take: a booking on the
  hour is reminded twice when the second run is no later in its hour, and one is left out when it is later. Nothing records
  what was sent, so a missed run is not made up.
- *Dates.* The last day of last month ends at its midnight. The trend has UTC keys and steps by local days. The booking form shows
  the UTC day with the local hour, so that saving an untouched booking near midnight moves it by a day, each time. The statistics mix windows on
  `startTime` and on `createdAt`, and `NO_SHOW` counts in the total only.
- *Navigation.* "Crear reserva" is offered to company administrators, whose role lacks `CREATE_BOOKING`. A refresh stores a new token
  and leaves the user of the login, so menus and the server disagree until the next login. `/admin/stats` is in no controller. Mails and Stripe
  lead back to addresses that no route has, and end on the dashboard. Only links are followed: no page links to `bookings/:id/edit`, so its
  offers are never shown. Roles made by a tenant are left out of `OfferedIsServed`, for the menus check other permissions than the routes
  (`services` is in the menu for `MANAGE_SERVICES`, while the route wants `VIEW_SERVICES`); they are in `RefusedWithinLife`.

### Proofs

`PagesProofs` (lists, forms, badge) and `SurroundingsProofs` (the rest) prove every property of the table for every value of the constants, and then of the
composition: a behaviour of `SurroundingsSpec` is one of each part (`PartsImplemented`), so the types (`PartsTyped`) and all properties
(`PartsCorrect`) hold of what the run checks. Each part has an invariant of its own:

- *Lists* (`ListInv`). `TableShown`: a page that does not show the table has a call under way that will bring it, or will tell that
  it could not (`TableOrNews`). `PressedTwiceChangesOnce` counts: the calls can be numbered by the wishes they were sent under, and the changes that
  others do not account for are paid for by distinct wishes, none of which a later call undoes (`FlipsPaid`).
- *Forms* (`FormInv`). At most one save is under way, and the form says so (`OneSave`); a visit that has created a row is about to leave
  (`RowCreated`); the form's own values are neither stored nor on their way unless it was sent early (`OwnValues`); the header shows what is stored
  or a call under way will tell it (`HeaderOK`).
- *Badge* (`BadgeInv`). A list or an answer shows as read only what is read, unless an answer crossed a click (`ShownTrue`). The balance: the badge and the events on their way
  are at most the unread rows, those whose marking is answered and not applied yet, and the doubled copies (`NotOver`), and no less than the rows without
  the clicks and the missed events, except while a count is on its way (`NotUnder`). A count that replaces the badge keeps the balance because the events still
  on their way are of rows that nothing in the tab shows or asks about, or are doubled copies (`EventsCovered`). Marking all read suspends the balance until it is applied.
- *Socket* (`SocketInv`): while `connect` has let go of no socket that was trying, every other socket is dead (`Held`). *Passwords*
  (`PasswordInv`): an error stands only where the validators, run in the order of the edits, left it. *Boards* (`BoardInv`): if the newest load is
  behind what is stored, something is on its way that will bring it (`NewsPending`).
- *Reminders* (`ReminderInv`): runs are nearly an hour apart (`RunsApart`), mails stay in the window of their run (`MailsOK`), and a booking confirmed in time
  is `Covered` from the run before its start on. Two mails of one start are then of runs an hour apart or less, and there cannot be three.
- *Dates*. These properties follow from the types and from arithmetic: a quotient is determined by its bounds (`QuotientIs`), an instant of the local clock reads back as it
  was written unless the clock skipped it (`ReadBack`), the trend's keys are consecutive days (`TrendIsDays`), and what lies between the two months'
  windows reads as the last day of the earlier one (`LastDay`). `DateAssumption` says that a clock is shifted by less than a day.
- *Navigation*. `LifeInv` rests on the history `recent`: a token of some age was granted that many periods ago (`TokenFromHistory`), a change of the
  role joins this period's grants, and a new token takes the grant of today. `NavInv` says that users are on pages whose
  guard lets them pass and which some link leads them to (`EarnedBy`): the pages of reports, of the audit log and of the administration have no
  permission in their routes, and what they load is answered only because links to them are shown to those who may load it.

Three statements were sharpened on the way, because they held on the run's instance and not for every constant. `ReportsCountOnce` and `UntouchedStartKept`
name the case of a shift within a day (`Shifted`): a clock put forward over midnight skips the first instant of a month, and an edit may
move a booking into the hour that was skipped. `NoRenewalAfterCancel` is about the newest row (section 5). `FormAssumption` keeps the marks of the
model (nothing typed, not sent) apart from what is typed, and `BadgeAssumption` wants finitely many calls and sockets, since they are counted.

## 9. What is proved, what is only model-checked, and what is not modelled

Proved for every value of the constants, with only the assumptions the modules name: every property of the passing runs but two, the refinement of
the calendar among them. `BroadcastIsCurrent` and `NoDoubleBooking` are proved, as they are checked, for one request at a time.

Model-checked only: liveness, `EveryBookingAnnounced` of `Bookings` and `WaitersReleasedUnlessRefused` of `TokenRefresh`. Both rest on fairness, which is beyond
the prover. Inductions over data are beyond it too; where a proof counts, it uses the library's theorems on the cardinality of finite sets
or the lengths of sequences.

The runs that end in a violation show what the code does on one instance; nothing is proved of them.

Not modelled, and why:

- The Bull processors and `jobs.service.ts` (registered nowhere), `subscriptionGuard` and the permission directive of the frontend and
  the removal of notifications (used by nothing), the roles named in the admin routes' data (read by no guard): code that never runs.
- Rendering and sending of mail, styles, layouts and static pages, the figures the administrator's report page makes up: no state.
- Registration (one transaction), the throttling guard (a library's counters), demo data, configuration.
- Reports other than statistics, trend and revenue: read-only queries of the same shape.
- Of subscriptions: audit entries, mails and events, the tenant's `stripeCustomerId`, amounts, the billing portal (where a tenant may change a
  subscription at Stripe directly), and `TRIALING`, which nothing sets. Payments are kept as the set of events recorded, so an event
  recorded twice does not show.
- Several roles of one user, several tabs except in `TokenRefresh`, and addresses typed by hand.

`PROJECT.json` gives each component's status and, under `map`, the lines each definition stands for.
