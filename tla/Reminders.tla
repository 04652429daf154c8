------------------------------ MODULE Reminders ------------------------------
(***************************************************************************)
(* The hourly reminders of the scheduler, for one booking: each run takes  *)
(* the time, reads the confirmed bookings that start between one and two   *)
(* hours from then, both ends included, and queues their mails, which are  *)
(* sent by themselves and are lost with the process.  Nothing records that *)
(* a booking has been reminded.                                            *)
(*                                                                         *)
(* A run takes the time some moments after the full hour.  Time is counted *)
(* in ticks, Hour to the hour; the delay, and the time to read, are at     *)
(* most MaxDelay.                                                          *)
(*                                                                         *)
(* Bounds: the clock (MaxTime), the times a booking may start (Starts) and *)
(* the crashes (MaxCrashes).                                               *)
(***************************************************************************)
EXTENDS Integers, FiniteSets

CONSTANTS
  Hour,       \* ticks in an hour
  MaxDelay,   \* bound on the delay of a run, and on its query
  Starts,     \* times the booking may start at
  MaxTime,    \* bound on the clock
  MaxCrashes  \* bound on crashes of the server

ASSUME ReminderAssumption ==
  /\ Hour \in Nat \ {0} /\ MaxDelay \in Nat /\ 2 * MaxDelay < Hour
  /\ Starts \subseteq Nat
  /\ {MaxTime, MaxCrashes} \subseteq Nat

VARIABLES
  clock,     \* the time
  alive,     \* the server is up
  due,       \* the full hour the next run is for
  run,       \* `now' of a run that has not read yet, or IDLE
  mails,     \* mails queued by setImmediate, as [at, start]
  sent,      \* mails the provider has taken
  start,     \* the booking's startTime
  status,    \* its status
  since,     \* history: when its status or its start last changed
  lastDelay, \* history: the delay of the last run
  slipped,   \* history: a run came later in its hour than the one before
  repeated,  \* history: a run did not
  disturbed, \* history: a run was missed, or a mail was lost
  crashes    \* crashes so far

reminderVars == <<clock, alive, due, run, mails, sent, start, status, since, lastDelay,
                  slipped, repeated, disturbed, crashes>>

bookingVars == <<start, status, since>>

IDLE == -1

BookingStatuses == {"PENDING", "CONFIRMED", "CANCELLED", "COMPLETED"}

----------------------------------------------------------------------------
(* handleBookingReminders                                                  *)

\* Between(inOneHour, inTwoHours) is inclusive.
StrictWindow(at) == at + Hour + 1 .. at + 2 * Hour - 1

Window(at) == at + Hour .. at + 2 * Hour

\* The cron job takes the time.
Fire ==
  /\ alive /\ run = IDLE
  /\ clock >= due * Hour
  /\ run' = clock
  /\ due' = due + 1
  /\ lastDelay' = clock - due * Hour
  /\ slipped' = (slipped \/ lastDelay' > lastDelay)
  /\ repeated' = (repeated \/ lastDelay' <= lastDelay)
  /\ UNCHANGED <<clock, alive, mails, sent, bookingVars, disturbed, crashes>>

\* The query is answered and the mails are queued, without a pause between.
Read ==
  /\ run # IDLE
  /\ run' = IDLE
  /\ mails' = IF status = "CONFIRMED" /\ start \in Window(run)
              THEN mails \cup {[at |-> run, start |-> start]} ELSE mails
  /\ UNCHANGED <<clock, alive, due, sent, bookingVars, lastDelay, slipped, repeated,
                 disturbed, crashes>>

\* sendAsync, sendEmail: a failure is logged, never retried.
Mail ==
  /\ \E m \in mails :
       /\ mails' = mails \ {m}
       /\ \/ sent' = sent \cup {m} /\ UNCHANGED disturbed
          \/ disturbed' = TRUE /\ UNCHANGED sent
  /\ UNCHANGED <<clock, alive, due, run, bookingVars, lastDelay, slipped, repeated,
                 crashes>>

----------------------------------------------------------------------------
(* The server and the clock.                                               *)

Crash ==
  /\ alive
  /\ crashes < MaxCrashes
  /\ crashes' = crashes + 1
  /\ alive' = FALSE
  /\ disturbed' = (disturbed \/ run # IDLE \/ mails # {})
  /\ run' = IDLE /\ mails' = {}
  /\ UNCHANGED <<clock, due, sent, bookingVars, lastDelay, slipped, repeated>>

\* The next run is at the next full hour; those missed are not made up.
Restart ==
  /\ ~alive
  /\ alive' = TRUE
  /\ due' = (clock \div Hour) + 1
  /\ disturbed' = (disturbed \/ due' # due)
  /\ UNCHANGED <<clock, run, mails, sent, bookingVars, lastDelay, slipped, repeated,
                 crashes>>

Tick ==
  /\ clock < MaxTime
  /\ clock' = clock + 1
  /\ alive => clock < due * Hour + MaxDelay
  /\ run # IDLE => clock < run + MaxDelay
  /\ UNCHANGED <<alive, due, run, mails, sent, bookingVars, lastDelay, slipped, repeated,
                 disturbed, crashes>>

----------------------------------------------------------------------------
(* The bookings: update and cancel, as far as reminders go.                *)

Unmoving == UNCHANGED <<clock, alive, due, run, mails, sent, lastDelay, slipped,
                        repeated, disturbed, crashes>>

SetStatus(to) ==
  /\ alive
  /\ status \notin {"CANCELLED", "COMPLETED"} /\ to # status
  /\ status' = to /\ since' = clock
  /\ UNCHANGED start /\ Unmoving

Move(to) ==
  /\ alive
  /\ status \notin {"CANCELLED", "COMPLETED"}
  /\ to >= clock /\ to # start
  /\ start' = to /\ since' = clock
  /\ UNCHANGED status /\ Unmoving

----------------------------------------------------------------------------
\* Hour 0 had its run on time.
ReminderInit ==
  /\ clock = 0 /\ alive = TRUE /\ due = 1 /\ run = IDLE
  /\ mails = {} /\ sent = {}
  /\ start \in Starts /\ status = "PENDING" /\ since = 0
  /\ lastDelay = 0 /\ slipped = FALSE /\ repeated = FALSE
  /\ disturbed = FALSE /\ crashes = 0

ReminderNext ==
  \/ Fire \/ Read \/ Mail \/ Crash \/ Restart \/ Tick
  \/ \E to \in BookingStatuses : SetStatus(to)
  \/ \E to \in Starts : Move(to)

ReminderSpec == ReminderInit /\ [][ReminderNext]_reminderVars

----------------------------------------------------------------------------
(* Properties.                                                             *)

Mails == [at : 0 .. MaxTime, start : Starts]

ReminderTypeOK ==
  /\ clock \in 0 .. MaxTime /\ since \in 0 .. clock
  /\ due \in Nat /\ run \in {IDLE} \cup 0 .. clock
  /\ mails \subseteq Mails /\ sent \subseteq Mails
  /\ start \in Starts /\ status \in BookingStatuses
  /\ lastDelay \in 0 .. MaxDelay
  /\ {alive, slipped, repeated, disturbed} \subseteq BOOLEAN
  /\ crashes \in 0 .. MaxCrashes

\* A start is announced at most twice, and twice only if some run came no
\* later in its hour than the one before.  A booking that was confirmed in
\* time is announced at least once, unless a run was missed, a mail was lost,
\* or some run came later in its hour than the one before.
RemindersFollowDelays ==
  /\ \A s \in Starts :
       LET told == Cardinality({m \in sent : m.start = s})
       IN  told <= 2 /\ (told = 2 => repeated)
  /\ /\ status = "CONFIRMED" /\ since < start - 2 * Hour
     /\ alive /\ run = IDLE /\ mails = {}
     /\ due * Hour > start - Hour
     /\ ~disturbed /\ ~slipped
     => \E m \in sent : m.start = start

=============================================================================
