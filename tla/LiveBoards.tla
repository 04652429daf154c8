----------------------------- MODULE LiveBoards -----------------------------
(***************************************************************************)
(* The two pages that follow the bookings live, the dashboard and the      *)
(* reports: they load the bookings when they are opened, and again at the  *)
(* events they listen for.                                                 *)
(*                                                                         *)
(* What is stored is stood for by the number of changes made to it.  An    *)
(* event is sent after its change; it is lost while the connection is down *)
(* and never sent again.  Loads run side by side and their answers come in *)
(* any order: the page shows the one that came last.                       *)
(*                                                                         *)
(* Bounds: the changes (MaxChanges), the loads under way (MaxLoads), the   *)
(* times the connection is lost (MaxLosses).                               *)
(***************************************************************************)
EXTENDS Integers, SequencesExt

CONSTANTS
  MaxChanges, \* bound on the changes made to the bookings
  MaxLoads,   \* bound on the loads under way
  MaxLosses   \* bound on the times the connection is lost

ASSUME BoardAssumption ==
  {MaxChanges, MaxLoads, MaxLosses} \subseteq Nat

VARIABLES
  board,     \* the page this behaviour is about
  committed, \* changes made to the bookings so far
  unsent,    \* changes whose event has not been sent yet
  online,    \* the socket is connected
  arriving,  \* events on their way to the page, in order
  loads,     \* loads under way, in the order they were begun: what each has
             \* read, UNREAD, or FAILED
  shown,     \* what the page shows, NOTHING before the first answer
  busy,      \* isLoading, isLoadingBookings
  newest,    \* history: the newest answer the page has had
  unheard,   \* history: a change the page was not told of since its last load
  failed,    \* history: a load has failed
  losses     \* times the connection was lost

boardVars == <<board, committed, unsent, online, arriving, loads, shown, busy, newest,
               unheard, failed, losses>>

Boards == {"dashboard", "reports"}

NOTHING == -1

UNREAD == -2

FAILED == -3

Events == {"created", "updated", "cancelled"}

\* A removed booking is announced to nobody.
Changes == Events \cup {"removed"}

----------------------------------------------------------------------------
\* setupWebSocket: the dashboard does not listen for cancellations.
NotUpdates == {"created"}

Listened ==
  {"created", "updated"} \cup (IF board = "reports" THEN {"cancelled"} ELSE {})

\* loadData, loadReports.  The dashboard shows that it is loading only once.
BeginLoad ==
  /\ Len(loads) < MaxLoads
  /\ loads' = Append(loads, UNREAD)
  /\ busy' = (busy \/ board = "reports")
  /\ unheard' = FALSE

----------------------------------------------------------------------------
(* The server.                                                             *)

\* create, update, cancel and remove of the bookings, up to their commit
Change(kind) ==
  /\ committed < MaxChanges
  /\ committed' = committed + 1
  /\ IF kind \in Events
     THEN unsent' = Append(unsent, kind) /\ UNCHANGED unheard
     ELSE unheard' = TRUE /\ UNCHANGED unsent
  /\ UNCHANGED <<board, online, arriving, loads, shown, busy, newest, failed, losses>>

\* emitBookingCreated, emitBookingUpdated, emitBookingCancelled, of requests
\* that run side by side
Emit(i) ==
  /\ unsent' = RemoveAt(unsent, i)
  /\ arriving' = IF online /\ unsent[i] \in Listened
                 THEN Append(arriving, unsent[i]) ELSE arriving
  /\ unheard' = (unheard \/ ~online
                  \/ (board = "dashboard" /\ unsent[i] = "cancelled"))
  /\ UNCHANGED <<board, committed, online, loads, shown, busy, newest, failed, losses>>

\* findAll, getFullReport
AnswerBoard(i) ==
  /\ loads[i] = UNREAD
  /\ \E answer \in {committed, FAILED} : loads' = [loads EXCEPT ![i] = answer]
  /\ UNCHANGED <<board, committed, unsent, online, arriving, shown, busy, newest, unheard,
                 failed, losses>>

----------------------------------------------------------------------------
(* The connection and the page.                                            *)

LoseConnection ==
  /\ online
  /\ losses < MaxLosses
  /\ losses' = losses + 1
  /\ online' = FALSE
  /\ arriving' = <<>>
  /\ unheard' = (unheard \/ arriving # <<>>)
  /\ UNCHANGED <<board, committed, unsent, loads, shown, busy, newest, failed>>

\* The socket reconnects; no page loads again for it.
Reconnect ==
  /\ ~online
  /\ online' = TRUE
  /\ UNCHANGED <<board, committed, unsent, arriving, loads, shown, busy, newest, unheard,
                 failed, losses>>

\* the callback of an event
Hear ==
  /\ arriving # <<>>
  /\ arriving' = Tail(arriving)
  /\ BeginLoad
  /\ UNCHANGED <<board, committed, unsent, online, shown, newest, failed, losses>>

\* The answers come in any order.
Displayed(answer) == IF answer = FAILED THEN shown ELSE answer

DeliverBoard(i) ==
  /\ loads[i] # UNREAD
  /\ loads' = RemoveAt(loads, i)
  /\ shown' = Displayed(loads[i])
  /\ newest' = IF loads[i] > newest THEN loads[i] ELSE newest
  /\ failed' = (failed \/ loads[i] = FAILED)
  /\ busy' = FALSE
  /\ UNCHANGED <<board, committed, unsent, online, arriving, unheard, losses>>

----------------------------------------------------------------------------
\* ngOnInit
BoardInit ==
  /\ board \in Boards
  /\ committed = 0 /\ unsent = <<>> /\ online = TRUE /\ arriving = <<>>
  /\ loads = <<UNREAD>> /\ shown = NOTHING /\ busy = TRUE
  /\ newest = NOTHING /\ unheard = FALSE /\ failed = FALSE /\ losses = 0

BoardNext ==
  \/ \E kind \in Changes : Change(kind)
  \/ \E i \in DOMAIN unsent : Emit(i)
  \/ \E i \in DOMAIN loads : AnswerBoard(i) \/ DeliverBoard(i)
  \/ Hear \/ LoseConnection \/ Reconnect

BoardSpec == BoardInit /\ [][BoardNext]_boardVars

----------------------------------------------------------------------------
(* Properties.                                                             *)

BoardTypeOK ==
  /\ board \in Boards
  /\ committed \in 0 .. MaxChanges
  /\ unsent \in Seq(Events)
  /\ arriving \in Seq(Events)
  /\ loads \in Seq(0 .. MaxChanges \cup {UNREAD, FAILED})
  /\ {shown, newest} \subseteq 0 .. MaxChanges \cup {NOTHING}
  /\ {online, busy, unheard, failed} \subseteq BOOLEAN
  /\ losses \in 0 .. MaxLosses

\* When everything has arrived the page shows what is stored, unless it was
\* not told of a change (a removal, a cancellation on the dashboard, an event
\* lost with the connection), a load failed, or an older answer came last.
\* It then says that it is loading no more.
BoardSettles ==
  unsent = <<>> /\ arriving = <<>> /\ loads = <<>> =>
    /\ shown = committed \/ unheard \/ failed \/ shown < newest
    /\ ~busy

=============================================================================
