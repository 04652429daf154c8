------------------------------ MODULE ListPages ------------------------------
(***************************************************************************)
(* The pages that list a table and change its rows: bookings, services,    *)
(* users, tenants and the audit log.  A behaviour is about one of them,    *)
(* `screen', chosen once.  They load the table, show what passes their     *)
(* filters, send what a button or a confirmed dialog asks for, and load    *)
(* the table again when that succeeds.  Calls are answered in any order    *)
(* and their answers come back in any order.                               *)
(*                                                                         *)
(* A row is a number, in the order the table is listed in, and what the    *)
(* page shows of it is its status.  Whether the server takes a change is   *)
(* its own affair: here it takes or refuses any.                           *)
(*                                                                         *)
(* Bounds: rows (MaxRows); what the user does (MaxActs); what others do    *)
(* (MaxOthers); calls at once (MaxCalls).  A behaviour ends when calls or   *)
(* answers overtake each other: nothing is claimed after that.             *)
(***************************************************************************)
EXTENDS Integers, FiniteSets, SequencesExt

CONSTANTS
  Screens,   \* the pages behaviours are about
  PageSize,  \* rows on one page of bookings
  MaxRows,   \* rows of the table
  MaxActs,   \* bound on the clicks of the user
  MaxOthers, \* bound on the changes others make
  MaxCalls   \* bound on the calls under way

AllScreens == {"bookings", "services", "users", "tenants", "audit"}

ASSUME ListAssumption ==
  /\ Screens \subseteq AllScreens
  /\ PageSize \in Nat \ {0}
  /\ {MaxRows, MaxActs, MaxOthers, MaxCalls} \subseteq Nat

VARIABLES
  screen,    \* the page this behaviour is about
  stored,    \* the table: the status of each row, "none" if it has no row
  loaded,    \* the rows of the last list that came
  filtered,  \* filteredUsers, filteredTenants, filteredLogs
  filter,    \* the status filter, "all" if none
  sought,    \* the rows the search term matches
  pageNo,    \* currentPage of the bookings
  loading,   \* isLoading
  dialog,    \* the row and the status the open dialog asks about
  http,      \* the calls under way, in the order they were sent
  acts,      \* clicks so far
  others,    \* changes by others so far
  wish,      \* history: what the user asked for last
  intents,   \* history: how often that changed
  flips,     \* history: rows the user's calls have changed
  behind,    \* history: the table changed and the page was not told to reload
  disorder   \* history: calls or answers overtook each other

listVars == <<screen, stored, loaded, filtered, filter, sought, pageNo, loading,
              dialog, http, acts, others, wish, intents, flips, behind, disorder>>

userVars == <<screen, filter, sought, pageNo, acts, wish, intents>>

Rows == 1..MaxRows

Statuses ==
  CASE screen = "bookings" -> {"PENDING", "CONFIRMED", "CANCELLED"}
    [] screen = "audit"    -> {"CREATE", "UPDATE"}
    [] OTHER               -> {"on", "off"}

Item == [row : Rows, status : {"PENDING", "CONFIRMED", "CANCELLED", "CREATE",
                               "UPDATE", "on", "off"}]

NoDialog == [row |-> 0, status |-> "none"]

Listed == {[row |-> r, status |-> stored[r]] : r \in {s \in Rows : stored[s] # "none"}}

\* A load keeps the list it was answered with; stale says that the table
\* has changed since, old that a later list has come.
Load == [kind |-> "load", row |-> 0, status |-> "none", answer |-> "none",
         list |-> {}, stale |-> FALSE, old |-> FALSE]

Save(item) == [Load EXCEPT !.kind = "save", !.row = item.row, !.status = item.status]

Answers == {"none", "ok", "error"}

----------------------------------------------------------------------------
(* What each page shows and offers.                                        *)

\* filteredBookings, and applyFilters of the users, tenants and audit pages.
Matches(item, status, rows) ==
  (status = "all" \/ item.status = status) /\ item.row \in rows

Matching(list, status, rows) == {item \in list : Matches(item, status, rows)}

BookingsMatching == Matching(loaded, filter, sought)

TotalPages == (Cardinality(BookingsMatching) + PageSize - 1) \div PageSize

\* paginatedBookings
OnPage ==
  LET Rank(item) == Cardinality({other \in BookingsMatching : other.row <= item.row})
  IN  {item \in BookingsMatching :
         Rank(item) > (pageNo - 1) * PageSize /\ Rank(item) <= pageNo * PageSize}

InView ==
  CASE screen = "bookings" -> OnPage
    [] screen = "services" -> loaded
    [] OTHER               -> filtered

\* Buttons that send at once, and buttons that open the dialog first.
BookingButtons(status) == IF status = "PENDING" THEN {"CONFIRMED"} ELSE {}

BookingDialogs(status) == IF status # "CANCELLED" THEN {"CANCELLED"} ELSE {}

Switched(status) == IF status = "on" THEN "off" ELSE "on"

ServiceDialogs == {"none"}

Buttons(status) ==
  CASE screen = "bookings" -> BookingButtons(status)
    [] screen = "services" -> {Switched(status)}
    [] OTHER               -> {}

Dialogs(status) ==
  CASE screen = "bookings"             -> BookingDialogs(status)
    [] screen = "services"             -> ServiceDialogs
    [] screen \in {"users", "tenants"} -> {Switched(status)}
    [] OTHER                           -> {}

----------------------------------------------------------------------------
(* The server.                                                             *)

Outdated(calls) ==
  [i \in DOMAIN calls |-> [calls[i] EXCEPT !.stale = @ \/ calls[i].answer # "none"]]

AnswerLoad(i) ==
  /\ http[i].kind = "load" /\ http[i].answer = "none"
  /\ \E answer \in {"ok", "error"} :
       http' = [http EXCEPT ![i].answer = answer,
                            ![i].list = IF answer = "ok" THEN Listed ELSE {}]
  /\ UNCHANGED <<userVars, stored, loaded, filtered, loading, dialog, others,
                 flips, behind, disorder>>

\* The call says which status the row is to have.
Toggled(call) ==
  IF call.status \in {"on", "off"} THEN Switched(stored[call.row]) ELSE call.status

Taken(call) == call.status

\* A change is taken, or refused, or taken although the answer gets lost.
AnswerSave(i) ==
  /\ http[i].kind = "save" /\ http[i].answer = "none"
  /\ \/ http' = [http EXCEPT ![i].answer = "error"]
        /\ UNCHANGED <<stored, flips, behind, disorder>>
     \/ \E answer \in {"ok", "error"} :
          /\ stored' = [stored EXCEPT ![http[i].row] = Taken(http[i])]
          /\ flips' = flips + (IF stored' = stored THEN 0 ELSE 1)
          /\ http' = [Outdated(http) EXCEPT ![i].answer = answer]
          /\ behind' = (behind \/ answer = "error")
          /\ disorder' = (disorder \/ \E j \in 1..(i - 1) :
                            http[j].kind = "save" /\ http[j].answer = "none")
  /\ UNCHANGED <<userVars, loaded, filtered, loading, dialog, others>>

\* Somebody else changes, adds or removes a row.
ChangeElsewhere ==
  /\ others < MaxOthers /\ others' = others + 1
  /\ \E r \in Rows, s \in Statuses \cup {"none"} :
       s # stored[r] /\ stored' = [stored EXCEPT ![r] = s]
  /\ http' = Outdated(http)
  /\ behind' = TRUE
  /\ UNCHANGED <<userVars, loaded, filtered, loading, dialog, flips, disorder>>

----------------------------------------------------------------------------
(* The page.                                                               *)

\* The pages with a filtered list of their own filter again when a list comes.
Unfiltered(list) == list

Filtered(list) ==
  IF screen \in {"users", "tenants", "audit"} THEN Matching(list, filter, sought) ELSE {}

DeliverLoad(i) ==
  /\ http[i].kind = "load" /\ http[i].answer # "none"
  /\ LET rest == RemoveAt(http, i)
     IN  IF http[i].answer = "ok"
         THEN /\ loaded' = http[i].list
              /\ filtered' = Filtered(http[i].list)
              /\ behind' = (behind /\ http[i].stale)
              /\ disorder' = (disorder \/ http[i].old)
              /\ http' = [j \in DOMAIN rest |->
                            [rest[j] EXCEPT !.old = @ \/ rest[j].answer # "none"]]
         ELSE /\ behind' = TRUE
              /\ http' = rest
              /\ UNCHANGED <<loaded, filtered, disorder>>
  /\ loading' = FALSE
  /\ UNCHANGED <<userVars, stored, dialog, others, flips>>

\* What a page does with the answer to a change.  Only the calls a dialog
\* sent close the dialog, whichever is open by then.
ReloadsAfter(answer) == answer = "ok"

SentByDialog(call) ==
  \/ screen \in {"users", "tenants"}
  \/ screen = "services" /\ call.status = "none"
  \/ screen = "bookings" /\ call.status = "CANCELLED"

DeliverSave(i) ==
  /\ http[i].kind = "save" /\ http[i].answer # "none"
  /\ dialog' = IF SentByDialog(http[i]) THEN NoDialog ELSE dialog
  /\ IF ReloadsAfter(http[i].answer)
     THEN http' = Append(RemoveAt(http, i), Load) /\ loading' = TRUE
     ELSE http' = RemoveAt(http, i) /\ UNCHANGED loading
  /\ UNCHANGED <<userVars, stored, loaded, filtered, others, flips, behind,
                 disorder>>

----------------------------------------------------------------------------
(* The user.  An open dialog covers the page.                              *)

Act == acts < MaxActs /\ acts' = acts + 1

\* The rows are hidden while the table loads.
Clickable == IF loading \/ dialog # NoDialog THEN {} ELSE InView

\* confirmBooking, toggleServiceStatus: sent at once.  Clicking again before
\* the list comes back asks for the same thing.
Wish(item, again) ==
  /\ wish' = item
  /\ intents' = intents + (IF again /\ wish = item THEN 0 ELSE 1)

PressButton ==
  /\ Act
  /\ Len(http) < MaxCalls
  /\ \E item \in Clickable : \E status \in Buttons(item.status) :
       LET asked == [row |-> item.row, status |-> status]
       IN  http' = Append(http, Save(asked)) /\ Wish(asked, TRUE)
  /\ UNCHANGED <<screen, filter, sought, pageNo, stored, loaded, filtered, loading,
                 dialog, others, flips, behind, disorder>>

\* showCancelDialog, showDeleteDialog, toggleUserStatus, toggleTenantStatus
OpenDialog ==
  /\ Act
  /\ \E item \in Clickable : \E status \in Dialogs(item.status) :
       dialog' = [row |-> item.row, status |-> status]
  /\ Wish(dialog', FALSE)
  /\ UNCHANGED <<screen, filter, sought, pageNo, stored, loaded, filtered, loading,
                 http, others, flips, behind, disorder>>

\* cancelBooking, deleteService, confirmToggle: the dialog stays open until
\* the answer comes, and can be confirmed again.
ConfirmDialog ==
  /\ Act
  /\ Len(http) < MaxCalls
  /\ dialog # NoDialog
  /\ http' = Append(http, Save(dialog))
  /\ UNCHANGED <<screen, filter, sought, pageNo, stored, loaded, filtered, loading,
                 dialog, others, wish, intents, flips, behind, disorder>>

CloseDialog ==
  /\ Act
  /\ dialog # NoDialog
  /\ dialog' = NoDialog
  /\ UNCHANGED <<screen, filter, sought, pageNo, stored, loaded, filtered, loading,
                 http, others, wish, intents, flips, behind, disorder>>

\* The first page of the bookings is shown after a change of filter.
FirstPage == 1

\* filterByStatus loads the bookings again; applyFilters filters what it has.
ChooseFilter ==
  /\ Act
  /\ screen # "services" /\ dialog = NoDialog
  /\ \E status \in Statuses \cup {"all"} :
       /\ filter' = status
       /\ filtered' = IF screen = "bookings" THEN {}
                      ELSE Matching(loaded, status, sought)
  /\ IF screen = "bookings"
     THEN /\ Len(http) < MaxCalls
          /\ http' = Append(http, Load) /\ loading' = TRUE
          /\ pageNo' = FirstPage
     ELSE UNCHANGED <<http, loading, pageNo>>
  /\ UNCHANGED <<screen, sought, stored, loaded, dialog, others, wish,
                 intents, flips, behind, disorder>>

\* onSearch, the search box of users and tenants, the entity filter of the log
Search ==
  /\ Act
  /\ screen # "services" /\ dialog = NoDialog
  /\ \E rows \in {Rows} \cup {{r} : r \in Rows} :
       /\ sought' = rows
       /\ filtered' = IF screen = "bookings" THEN {}
                      ELSE Matching(loaded, filter, rows)
  /\ pageNo' = IF screen = "bookings" THEN FirstPage ELSE pageNo
  /\ UNCHANGED <<screen, filter, stored, loaded, loading, dialog, http, others,
                 wish, intents, flips, behind, disorder>>

\* The pager is shown with two pages or more; each of its ends is disabled
\* on exactly that page.
CanTurnTo(n) ==
  \/ n = pageNo - 1 /\ pageNo # 1
  \/ n = pageNo + 1 /\ pageNo # TotalPages

GoToPage ==
  /\ Act
  /\ screen = "bookings" /\ dialog = NoDialog
  /\ TotalPages > 1
  /\ Len(http) < MaxCalls
  /\ \E n \in {pageNo - 1, pageNo + 1} : CanTurnTo(n) /\ pageNo' = n
  /\ http' = Append(http, Load) /\ loading' = TRUE
  /\ UNCHANGED <<screen, filter, sought, stored, loaded, filtered, dialog, others,
                 wish, intents, flips, behind, disorder>>

----------------------------------------------------------------------------
ListInit ==
  /\ screen \in Screens
  /\ stored \in [Rows -> Statuses]
  /\ loaded = {} /\ filtered = {} /\ filter = "all" /\ sought = Rows
  /\ pageNo = 1 /\ loading = TRUE /\ dialog = NoDialog
  /\ http = <<Load>>
  /\ acts = 0 /\ others = 0 /\ wish = NoDialog /\ intents = 0 /\ flips = 0
  /\ behind = FALSE /\ disorder = FALSE

ListNext ==
  /\ ~disorder
  /\ \/ \E i \in DOMAIN http :
          AnswerLoad(i) \/ AnswerSave(i) \/ DeliverLoad(i) \/ DeliverSave(i)
     \/ ChangeElsewhere
     \/ PressButton \/ OpenDialog \/ ConfirmDialog \/ CloseDialog
     \/ ChooseFilter \/ Search \/ GoToPage

ListSpec == ListInit /\ [][ListNext]_listVars

----------------------------------------------------------------------------
(* Properties.                                                             *)

ListTypeOK ==
  /\ screen \in Screens
  /\ stored \in [Rows -> Statuses \cup {"none"}]
  /\ loaded \subseteq Item /\ filtered \subseteq Item
  /\ filter \in Statuses \cup {"all"} /\ sought \subseteq Rows
  /\ dialog = NoDialog \/ dialog.row \in Rows
  /\ wish = NoDialog \/ wish.row \in Rows
  /\ {loading, behind, disorder} \subseteq BOOLEAN
  /\ pageNo \in Nat \ {0}
  /\ {acts, others, intents, flips} \subseteq Nat
  /\ \A i \in DOMAIN http :
       http[i].answer \in Answers /\ http[i].list \subseteq Item

\* With no call under way the page has the table as it is, changed by the
\* user's own actions however many overlapped, and shows of it what passes
\* the filters as they are now, unless somebody else or a lost answer changed
\* the table behind its back, or an older list came after a newer one.
ListIsTable ==
  http = <<>> /\ ~behind /\ ~disorder =>
    /\ loaded = Listed
    /\ screen \in {"users", "tenants", "audit"} =>
         filtered = Matching(Listed, filter, sought)

\* A dialog or button changes its row once, however often it is pressed
\* before the answer comes, unless others change rows too or the calls
\* overtake each other: what is sent is fixed when the row is shown.
OneFlipPerIntent == ~disorder => flips <= intents + others

=============================================================================
