-------------------------------- MODULE Badge --------------------------------
(***************************************************************************)
(* The notifications of one user: the rows of notifications.service.ts,    *)
(* and what one browser tab shows of them, in the dropdown and badge of    *)
(* header.component.ts and on the page of notifications-list.component.ts. *)
(* The tab learns of changes from the answers to its HTTP calls, which     *)
(* come in any order, and from the events of its sockets: it has two when  *)
(* connect is called again before the first one is up, and each delivers   *)
(* every event.  One socket keeps the order of its events, which is        *)
(* unrelated to the answers and to the other's; a socket that is down      *)
(* loses them.                                                             *)
(*                                                                         *)
(* Bounds: notifications (MaxNotes); the user's calls (MaxClicks), of      *)
(* which those of Calls may be under way at once.  A behaviour ends when   *)
(* an answer is overtaken, or lost with what the tab had to learn from it: *)
(* nothing is claimed after that.                                          *)
(***************************************************************************)
EXTENDS Integers, Sequences, FiniteSets

CONSTANTS
  Calls,    \* HTTP calls that may be under way at once
  Lines,    \* the tab's sockets: those connect has let go of stay subscribed
  Shown,    \* rows the dropdown shows
  MaxNotes, \* bound on the notifications of a behaviour
  MaxClicks \* bound on the calls the user makes

ASSUME BadgeAssumption ==
  /\ IsFiniteSet(Calls) /\ IsFiniteSet(Lines)
  /\ Shown \in Nat \ {0} /\ {MaxNotes, MaxClicks} \subseteq Nat

VARIABLES
  notes,      \* the table: is_read of each row, in the order of created_at
  connected,  \* the sockets that are in the user's room
  events,     \* notification.new on its way: each socket's copy of the row
  call,       \* the HTTP calls under way
  dropdown,   \* notifications of HeaderComponent, newest first
  badge,      \* unreadCount of HeaderComponent
  page,       \* notifications of NotificationsListComponent, newest first
  pageOpen,   \* that page is the one shown
  asked,      \* calls the user has made
  clicks,     \* history: unread notifications clicked in the dropdown
  missed,     \* history: events and copies of them that were lost
  doubled,    \* history: copies sent to a second socket
  crossed     \* history: an answer was overtaken or lost, or a row marked twice

badgeVars == <<notes, connected, events, call, dropdown, badge, page, pageOpen,
               asked, clicks, missed, doubled, crossed>>

Entry == [id : 1..MaxNotes, read : BOOLEAN]

Kinds == {"top", "count", "page", "read", "all"}

\* A call is answered by the server first and delivered to the tab later.
\* stale says that the table changed since it was answered.
NoCall == [kind |-> "none"]

Call == [kind : Kinds, id : 0..MaxNotes, header : BOOLEAN, answered : BOOLEAN,
         stale : BOOLEAN, count : 0..MaxNotes, list : Seq(Entry)]

\* countUnread
Unread == Cardinality({i \in DOMAIN notes : ~notes[i]})

\* findAllForUser: ordered by created_at, newest first, at most `limit'
Newest(limit) ==
  LET n == IF Len(notes) < limit THEN Len(notes) ELSE limit
  IN  [k \in 1..n |-> [id |-> Len(notes) + 1 - k, read |-> notes[Len(notes) + 1 - k]]]

Request(kind, id, header) ==
  [kind |-> kind, id |-> id, header |-> header, answered |-> FALSE,
   stale |-> FALSE, count |-> 0, list |-> <<>>]

Send(c, kind, id, header) ==
  /\ call[c] = NoCall
  /\ call' = [call EXCEPT ![c] = Request(kind, id, header)]

\* The table changes: what was answered before is out of date.
OlderAnswer(calls) ==
  [c \in Calls |-> IF calls[c] = NoCall THEN NoCall
                   ELSE [calls[c] EXCEPT !.stale = @ \/ calls[c].answered]]

MarkRead(list, ids) ==
  [k \in DOMAIN list |-> [list[k] EXCEPT !.read = @ \/ list[k].id \in ids]]

----------------------------------------------------------------------------
(* The server.                                                             *)

\* create saves the row, then emits it to the user's room.
Create ==
  /\ Len(notes) < MaxNotes
  /\ notes' = Append(notes, FALSE)
  /\ \/ /\ connected # {}
        /\ events' = events \cup {[line |-> s, id |-> Len(notes')] : s \in connected}
        /\ doubled' = doubled + Cardinality(connected) - 1
        /\ UNCHANGED missed
     \/ /\ connected = {}
        /\ missed' = missed + 1
        /\ UNCHANGED <<events, doubled>>
  /\ call' = OlderAnswer(call)
  /\ UNCHANGED <<connected, dropdown, badge, page, pageOpen, clicks, crossed, asked>>

\* findAllForUser and countUnread
AnswerQuery(c) ==
  /\ call[c].kind \in {"top", "count", "page"} /\ ~call[c].answered
  /\ call' = [call EXCEPT
       ![c].answered = TRUE,
       ![c].count = IF call[c].kind = "count" THEN Unread ELSE 0,
       ![c].list = CASE call[c].kind = "top"  -> Newest(Shown)
                     [] call[c].kind = "page" -> Newest(MaxNotes)
                     [] OTHER                 -> <<>>]
  /\ UNCHANGED <<notes, connected, events, dropdown, badge, page, pageOpen,
                 clicks, missed, doubled, crossed, asked>>

\* markAsRead and markAllAsRead
NewestMarked(kind, id) == IF kind = "read" THEN {id} ELSE {Len(notes)}

RowsMarked(kind, id) == IF kind = "read" THEN {id} ELSE DOMAIN notes

AnswerMark(c) ==
  /\ call[c].kind \in {"read", "all"} /\ ~call[c].answered
  /\ notes' = [i \in DOMAIN notes |->
                 notes[i] \/ i \in RowsMarked(call[c].kind, call[c].id)]
  /\ call' = [OlderAnswer(call) EXCEPT ![c].answered = TRUE]
  /\ crossed' = (crossed \/ (call[c].kind = "read" /\ notes[call[c].id]))
  /\ UNCHANGED <<connected, events, dropdown, badge, page, pageOpen, clicks,
                 missed, doubled, asked>>

CopiesOf(s) == {e \in events : e.line = s}

LoseSocket(s) ==
  /\ s \in connected
  /\ connected' = connected \ {s}
  /\ events' = events \ CopiesOf(s)
  /\ missed' = missed + Cardinality(CopiesOf(s))
  /\ UNCHANGED <<notes, call, dropdown, badge, page, pageOpen, clicks, doubled,
                 crossed, asked>>

RegainSocket(s) ==
  /\ s \notin connected
  /\ connected' = connected \cup {s}
  /\ UNCHANGED <<notes, events, call, dropdown, badge, page, pageOpen, clicks,
                 missed, doubled, crossed, asked>>

----------------------------------------------------------------------------
(* The tab.                                                                *)

LoweredFreely(n) == n - 1

Lowered(n) == IF n > 0 THEN n - 1 ELSE 0

\* An answer is applied although something that belongs before or after it
\* is still on its way, or the table has changed since.
Overtaken(c) ==
  \/ call[c].stale
  \/ events # {}
  \/ \E b \in Calls \ {c} : call[b].kind \in {"read", "all"} /\ call[b].answered

\* The subscribers of notification.new, the header and the page, add every copy
\* to what they show, whether they show its row or not.
DeliverEvent(s) ==
  \E e \in CopiesOf(s) :
    /\ \A f \in CopiesOf(s) : e.id <= f.id
    /\ LET new  == [id |-> e.id, read |-> FALSE]
           kept == IF Len(dropdown) < Shown - 1 THEN Len(dropdown) ELSE Shown - 1
       IN  /\ dropdown' = <<new>> \o SubSeq(dropdown, 1, kept)
           /\ page' = IF pageOpen THEN <<new>> \o page ELSE page
    /\ badge' = badge + 1
    /\ events' = events \ {e}
    /\ UNCHANGED <<notes, connected, call, pageOpen, clicks, missed, doubled, crossed,
                   asked>>

DeliverQuery(c) ==
  /\ call[c].kind \in {"top", "count", "page"} /\ call[c].answered
  /\ dropdown' = IF call[c].kind = "top" THEN call[c].list ELSE dropdown
  /\ badge' = IF call[c].kind = "count" THEN call[c].count ELSE badge
  /\ page' = IF call[c].kind = "page" /\ pageOpen THEN call[c].list ELSE page
  /\ crossed' = (crossed \/ Overtaken(c))
  /\ call' = [call EXCEPT ![c] = NoCall]
  /\ UNCHANGED <<notes, connected, events, pageOpen, clicks, missed, doubled, asked>>

\* notificationRead$ lowers the badge; the click's own handler does it again.
LoweredTwice(header, n) == Lowered(Lowered(n))

LoweredBy(header, n) == IF header THEN Lowered(Lowered(n)) ELSE Lowered(n)

DeliverRead(c) ==
  /\ call[c].kind = "read" /\ call[c].answered
  /\ dropdown' = MarkRead(dropdown, {call[c].id})
  /\ page' = MarkRead(page, {call[c].id})
  /\ badge' = LoweredBy(call[c].header, badge)
  /\ call' = [call EXCEPT ![c] = NoCall]
  /\ UNCHANGED <<notes, connected, events, pageOpen, clicks, missed, doubled,
                 crossed, asked>>

DeliverAll(c) ==
  /\ call[c].kind = "all" /\ call[c].answered
  /\ dropdown' = MarkRead(dropdown, DOMAIN notes)
  /\ page' = MarkRead(page, DOMAIN notes)
  /\ badge' = 0
  /\ crossed' = (crossed \/ Overtaken(c))
  /\ call' = [call EXCEPT ![c] = NoCall]
  /\ UNCHANGED <<notes, connected, events, pageOpen, clicks, missed, doubled, asked>>

\* A call fails, before or after the server has done what it asks: the tab
\* stays as it is.
LoseAnswer(c) ==
  /\ call[c] # NoCall
  /\ call' = [call EXCEPT ![c] = NoCall]
  /\ crossed' = (crossed \/ call[c].kind = "count"
                         \/ (call[c].kind \in {"read", "all"} /\ call[c].answered))
  /\ UNCHANGED <<notes, connected, events, dropdown, badge, page, pageOpen,
                 clicks, missed, doubled, asked>>

\* onNotificationClick
ClickInDropdown(c) ==
  /\ \E k \in DOMAIN dropdown :
       /\ ~dropdown[k].read
       /\ Send(c, "read", dropdown[k].id, TRUE)
  /\ clicks' = clicks + 1
  /\ asked < MaxClicks /\ asked' = asked + 1
  /\ UNCHANGED <<notes, connected, events, dropdown, badge, page, pageOpen,
                 missed, doubled, crossed>>

\* markAsRead of the page
ClickOnPage(c) ==
  /\ pageOpen
  /\ \E k \in DOMAIN page :
       /\ ~page[k].read
       /\ Send(c, "read", page[k].id, FALSE)
  /\ asked < MaxClicks /\ asked' = asked + 1
  /\ UNCHANGED <<notes, connected, events, dropdown, badge, page, pageOpen,
                 clicks, missed, doubled, crossed>>

\* "Marcar todas", in the dropdown or on the page
ClickAll(c) ==
  /\ \E b \in BOOLEAN : Send(c, "all", 0, b)
  /\ asked < MaxClicks /\ asked' = asked + 1
  /\ UNCHANGED <<notes, connected, events, dropdown, badge, page, pageOpen,
                 clicks, missed, doubled, crossed>>

OpenPage(c) ==
  /\ ~pageOpen
  /\ Send(c, "page", 0, FALSE)
  /\ pageOpen' = TRUE /\ page' = <<>>
  /\ asked < MaxClicks /\ asked' = asked + 1
  /\ UNCHANGED <<notes, connected, events, dropdown, badge, clicks, missed, doubled,
                 crossed>>

ClosePage ==
  /\ pageOpen
  /\ pageOpen' = FALSE /\ page' = <<>>
  /\ UNCHANGED <<notes, connected, events, call, dropdown, badge, clicks,
                 missed, doubled, crossed, asked>>

----------------------------------------------------------------------------
\* ngOnInit of the header: both queries are sent, the socket connects later.
BadgeInit ==
  /\ \E n \in 0..MaxNotes : notes = [i \in 1..n |-> FALSE]
  /\ connected = {} /\ events = {}
  /\ \E c, d \in Calls :
       /\ c # d
       /\ call = [b \in Calls |-> CASE b = c -> Request("top", 0, TRUE)
                                    [] b = d -> Request("count", 0, TRUE)
                                    [] OTHER -> NoCall]
  /\ dropdown = <<>> /\ badge = 0
  /\ page = <<>> /\ pageOpen = FALSE
  /\ asked = 0 /\ clicks = 0 /\ missed = 0 /\ doubled = 0
  /\ crossed = FALSE

BadgeNext ==
  /\ ~crossed
  /\ \/ Create \/ ClosePage
     \/ \E s \in Lines : LoseSocket(s) \/ RegainSocket(s) \/ DeliverEvent(s)
     \/ \E c \in Calls :
          \/ AnswerQuery(c) \/ AnswerMark(c)
          \/ DeliverQuery(c) \/ DeliverRead(c) \/ DeliverAll(c)
          \/ LoseAnswer(c)
          \/ ClickInDropdown(c) \/ ClickOnPage(c) \/ ClickAll(c)
          \/ OpenPage(c)

BadgeSpec == BadgeInit /\ [][BadgeNext]_badgeVars

----------------------------------------------------------------------------
(* Properties.                                                             *)

BadgeTypeOK ==
  /\ notes \in Seq(BOOLEAN) /\ Len(notes) <= MaxNotes
  /\ {pageOpen, crossed} \subseteq BOOLEAN
  /\ connected \subseteq Lines
  /\ events \subseteq [line : Lines, id : DOMAIN notes]
  /\ call \in [Calls -> Call \cup {NoCall}]
  /\ dropdown \in Seq(Entry) /\ Len(dropdown) <= Shown
  /\ page \in Seq(Entry)
  /\ {badge, asked, clicks, missed, doubled} \subseteq Nat

Quiet == events = {} /\ \A c \in Calls : call[c] = NoCall

\* With nothing on its way, no answer overtaken or lost and no row marked twice,
\* which nothing in the tab prevents before the first answer, the badge promises
\* no more than there is to read and one for each copy of an event a second
\* socket was sent, and falls short by at most one for each click in the
\* dropdown, which lowers it twice, and each event or copy that was lost.
BadgeWithinClicks ==
  Quiet /\ ~crossed => badge <= Unread + doubled /\ Unread <= badge + clicks + missed

\* What the dropdown or the page shows as read was read, unless an answer
\* was overtaken (markAllAsRead marks whatever is shown when it is answered).
ShownReadWasRead ==
  ~crossed =>
    /\ \A k \in DOMAIN dropdown : dropdown[k].read => notes[dropdown[k].id]
    /\ \A k \in DOMAIN page : page[k].read => notes[page[k].id]

=============================================================================
