-------------------------------- MODULE Dates --------------------------------
(***************************************************************************)
(* What the code does with days and months: the windows of the reports on  *)
(* the bookings, and the date and the time into which the booking form     *)
(* splits the start of a booking and from which it puts it together again. *)
(*                                                                         *)
(* Instants are counted in ticks, Day to the day, Month days to the month. *)
(* JavaScript's dates count days and months on the local clock, which is   *)
(* some ticks ahead of UTC, and others from the instant Shift on (summer   *)
(* time); toISOString gives the UTC day.  A behaviour has one zone.        *)
(*                                                                         *)
(* Bounds: the clock (MaxNow), the edits with the form (MaxEdits).         *)
(***************************************************************************)
EXTENDS Integers, FiniteSetsExt

CONSTANTS
  Day,       \* ticks in a day
  Month,     \* days in a month
  TrendDays, \* days of the trend, 15
  Zones,     \* how far local clocks are ahead of UTC: [before, after] the shift
  Shift,     \* the instant the local clock is put forward or back
  DatedRows, \* bookings
  MaxNow,    \* bound on the clock
  MaxEdits   \* bound on edits with the form

ASSUME DateAssumption ==
  /\ {Day, Month, TrendDays} \subseteq Nat \ {0}
  /\ Zones \subseteq [before : (-Day) .. Day, after : (-Day) .. Day]
  /\ \A z \in Zones : z.after - z.before \in (1 - Day) .. (Day - 1)
  /\ {Shift, MaxNow, MaxEdits} \subseteq Nat

VARIABLES
  zone,   \* the zone of this behaviour
  now,    \* the time
  row,    \* the bookings: [created, start, status], or NO_ROW
  edits   \* edits made with the form

dateVars == <<zone, now, row, edits>>

NO_ROW == [created |-> -1, start |-> -1, status |-> "NONE"]

Stored == {b \in DatedRows : row[b] # NO_ROW}

RowStatuses == {"PENDING", "CONFIRMED", "CANCELLED", "COMPLETED", "NO_SHOW"}

----------------------------------------------------------------------------
(* Dates of JavaScript.                                                    *)

Offset(t) == IF t < Shift THEN zone.before ELSE zone.after

Local(t) == t + Offset(t)

\* The instant a local reading stands for: the earlier one when there are
\* two, and by the old clock when there is none.
FromLocal(w) ==
  IF w - zone.before >= Shift /\ w - zone.after >= Shift
  THEN w - zone.after ELSE w - zone.before

DayOf(t) == t \div Day

\* setDate(getDate() + n), on the local clock
AddDays(t, n) == FromLocal(Local(t) + n * Day)

MonthOf(t) == (Local(t) \div Day) \div Month

\* new Date(year, month, 1)
FirstOf(m) == FromLocal(m * Month * Day)

NextFirst(m) == FirstOf(m + 1)

\* new Date(year, month + 1, 0): the last day of the month begins
LastOf(m) == FromLocal((m + 1) * Month * Day - Day)

----------------------------------------------------------------------------
(* ReportsService.                                                         *)

\* Between
CreatedIn(from, to) == {b \in Stored : from <= row[b].created /\ row[b].created <= to}

StartsIn(from, to) == {b \in Stored : from <= row[b].start /\ row[b].start <= to}

Completed(bs) == {b \in bs : row[b].status = "COMPLETED"}

\* getBookingsTrend: the keys are UTC days, and a booking of another day is
\* left out.
TrendStart == AddDays(now, -(TrendDays - 1))

TrendKeys == {DayOf(AddDays(TrendStart, i)) : i \in 0 .. TrendDays - 1}

Trend ==
  [d \in TrendKeys |-> {b \in CreatedIn(TrendStart, now) : DayOf(row[b].created) = d}]

\* getRevenueStats: the bookings of either month
CurrentMonth == Completed(StartsIn(FirstOf(MonthOf(now)), now))

LastMonth ==
  Completed(StartsIn(FirstOf(MonthOf(now) - 1), LastOf(MonthOf(now) - 1)))

----------------------------------------------------------------------------
(* The booking form.                                                       *)

\* loadBooking: the date is the UTC day, the time is local.
FormDate(t) == DayOf(t)

FormTimeUTC(t) == t % Day

FormTime(t) == Local(t) % Day

\* onSubmit: new Date(`${date}T${time}`) is local.
FormInstant(date, time) == FromLocal(date * Day + time)

----------------------------------------------------------------------------
NextInstant ==
  /\ now < MaxNow
  /\ now' = now + 1
  /\ UNCHANGED <<zone, row, edits>>

\* create: not in the past
Book(b) ==
  /\ row[b] = NO_ROW
  /\ \E t \in now .. MaxNow :
       row' = [row EXCEPT ![b] = [created |-> now, start |-> t, status |-> "PENDING"]]
  /\ UNCHANGED <<zone, now, edits>>

SetRowStatus(b) ==
  /\ b \in Stored /\ row[b].status \notin {"CANCELLED", "COMPLETED"}
  /\ \E s \in RowStatuses \ {row[b].status} : row' = [row EXCEPT ![b].status = s]
  /\ UNCHANGED <<zone, now, edits>>

\* A booking is opened in the form and saved with its date and time as they
\* are; the server refuses a start in the past.
SaveUntouched(b) ==
  /\ edits < MaxEdits
  /\ b \in Stored /\ row[b].status \notin {"CANCELLED", "COMPLETED"}
  /\ LET t == FormInstant(FormDate(row[b].start), FormTime(row[b].start))
     IN  t >= now /\ row' = [row EXCEPT ![b].start = t]
  /\ edits' = edits + 1
  /\ UNCHANGED <<zone, now>>

DateInit ==
  /\ zone \in Zones
  /\ now = 0
  /\ row = [b \in DatedRows |-> NO_ROW] /\ edits = 0

DateNext ==
  \/ NextInstant
  \/ \E b \in DatedRows : Book(b) \/ SetRowStatus(b) \/ SaveUntouched(b)

DateSpec == DateInit /\ [][DateNext]_dateVars

----------------------------------------------------------------------------
(* Properties.                                                             *)

DateTypeOK ==
  /\ zone \in Zones
  /\ now \in 0 .. MaxNow /\ edits \in 0 .. MaxEdits
  /\ \A b \in Stored :
       /\ row[b].created \in 0 .. now /\ row[b].start \in Int
       /\ row[b].status \in RowStatuses

\* The clock was put forward or back within the day before t.
Shifted(t) == Offset(t - Day) # Offset(t)

\* The reports count a booking once.  The trend has a point for each of its
\* days and counts every booking made in its window, unless the local clock was
\* shifted within it: then a UTC day may have no point.  A completed booking
\* that began last month or this month counts in exactly one of them, except
\* that one of the last day of last month counts in neither after midnight.
\* (So does one of the day of a shift that skipped or doubled that midnight.)
ReportsCountOnce ==
  /\ Offset(TrendStart) = Offset(now) =>
       /\ Cardinality(TrendKeys) = TrendDays
       /\ UNION {Trend[d] : d \in TrendKeys} = CreatedIn(TrendStart, now)
  /\ CurrentMonth \cap LastMonth = {}
  /\ \A b \in Completed(StartsIn(FirstOf(MonthOf(now) - 1), now))
                 \ (CurrentMonth \cup LastMonth) :
       \/ DayOf(Local(row[b].start)) = MonthOf(now) * Month - 1
       \/ Shifted(row[b].start)

\* Saving a booking as the form shows it leaves its start, unless the local
\* and the UTC day of the start differ: then it moves by that day, at every
\* save.  (In the hour a clock put back shows twice it may move by the hour,
\* and so it may when it moves into the hour a clock put forward skips.)
UntouchedStartKept ==
  [][\A b \in Stored :
       LET t == row[b].start
           u == row'[b].start
       IN  u # t =>
             \/ FromLocal(Local(t)) # t
             \/ /\ DayOf(t) # DayOf(Local(t))
                /\ Local(u) = Local(t) + Day * (DayOf(t) - DayOf(Local(t)))
                     \/ Shifted(u)]_dateVars

=============================================================================
