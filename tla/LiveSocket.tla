----------------------------- MODULE LiveSocket -----------------------------
(***************************************************************************)
(* The live connection of one browser tab: the sockets the websocket       *)
(* service opens, the gateway's handshake, and what opening the app,       *)
(* logging in and out, and the two places that ask for a connection (the   *)
(* header of the main layout and the reports page) do to them.             *)
(*                                                                         *)
(* The service keeps one socket, the `current' one, but io() gives a new   *)
(* one at every call and only a connected socket stops connect from        *)
(* calling it.  A socket the service has let go of goes on by itself: its  *)
(* listeners still feed the service.                                       *)
(*                                                                         *)
(* Bounds: the sockets of one visit (MaxSockets) and the loads of the app  *)
(* (MaxVisits).  MaxTries is reconnectionAttempts.                         *)
(***************************************************************************)
EXTENDS Integers, FiniteSets

CONSTANTS
  Accounts,   \* the people who log in on this tab
  MaxSockets, \* bound on the sockets of one visit
  MaxTries,   \* reconnectionAttempts
  MaxVisits,  \* bound on page loads
  NOBODY      \* no account, no socket

Sockets == 1 .. MaxSockets

ASSUME SocketAssumption ==
  /\ MaxSockets \in Nat \ {0} /\ MaxTries \in Nat /\ MaxVisits \in Nat
  /\ NOBODY \notin Accounts \cup Sockets

VARIABLES
  account,     \* whose accessToken is in localStorage
  layout,      \* the main layout is shown: its header listens for events
  socket,      \* this.socket
  life,        \* what each socket is doing
  owner,       \* whose token each socket was opened with
  rooms,       \* the sockets the gateway has put in their user's room
  tries,       \* the reconnections each socket has tried in a row
  connectedUp, \* connectedSignal
  visits,      \* page loads so far
  replaced,    \* history: connect let go of a socket that was still trying
  dropped      \* history: a session ended without the header's logout

socketVars == <<account, layout, socket, life, owner, rooms, tries, connectedUp,
                visits, replaced, dropped>>

Lives == {"unused", "connecting", "connected", "waiting", "dead"}

Fresh == {s \in Sockets : life[s] = "unused"}

----------------------------------------------------------------------------
\* connect: a new socket unless the current one is connected.
KeepsSocket == socket # NOBODY /\ life[socket] = "connected"

Connect(user) ==
  IF KeepsSocket
  THEN UNCHANGED <<socket, life, owner, tries, replaced>>
  ELSE \E s \in Fresh :
         /\ \A t \in Fresh : s <= t
         /\ socket' = s
         /\ life' = [life EXCEPT ![s] = "connecting"]
         /\ owner' = [owner EXCEPT ![s] = user]
         /\ tries' = [tries EXCEPT ![s] = 0]
         /\ replaced' = (replaced \/ (socket # NOBODY
                                       /\ life[socket] \in {"connecting", "waiting"}))

DisconnectForgets ==
  /\ connectedUp' = FALSE /\ socket' = NOBODY
  /\ UNCHANGED <<life, rooms>>

\* disconnect
Disconnect ==
  /\ life' = IF socket = NOBODY THEN life ELSE [life EXCEPT ![socket] = "dead"]
  /\ rooms' = rooms \ {socket}
  /\ connectedUp' = (connectedUp /\ socket = NOBODY)
  /\ socket' = NOBODY

----------------------------------------------------------------------------
(* The user.                                                               *)

\* The page is loaded again: nothing is left of the visit before.
OpenApp ==
  /\ visits < MaxVisits
  /\ visits' = visits + 1
  /\ rooms' = {} /\ connectedUp' = FALSE
  /\ replaced' = FALSE /\ dropped' = FALSE
  /\ tries' = [s \in Sockets |-> 0]
  /\ layout' = (account # NOBODY)
  /\ IF account # NOBODY
     THEN /\ socket' = 1
          /\ life' = [s \in Sockets |-> IF s = 1 THEN "connecting" ELSE "unused"]
          /\ owner' = [s \in Sockets |-> IF s = 1 THEN account ELSE NOBODY]
     ELSE /\ socket' = NOBODY
          /\ life' = [s \in Sockets |-> "unused"]
          /\ owner' = [s \in Sockets |-> NOBODY]
  /\ UNCHANGED account

\* login, then the dashboard in the main layout
LogIn(user) ==
  /\ account = NOBODY
  /\ account' = user
  /\ layout' = TRUE
  /\ Connect(user)
  /\ UNCHANGED <<rooms, connectedUp, visits, dropped>>

\* The reports page asks for a connection as the header did.
OpenReports ==
  /\ layout
  /\ Connect(account)
  /\ UNCHANGED <<account, layout, rooms, connectedUp, visits, dropped>>

\* HeaderComponent.logout
LogOut ==
  /\ layout
  /\ Disconnect
  /\ account' = NOBODY
  /\ layout' = FALSE
  /\ UNCHANGED <<owner, tries, visits, replaced, dropped>>

\* The refresh is refused, or every session is closed on the security page:
\* the stored tokens go and the login page is shown; the socket is not told.
LoseSession ==
  /\ layout
  /\ account' = NOBODY
  /\ layout' = FALSE
  /\ dropped' = TRUE
  /\ UNCHANGED <<socket, life, owner, rooms, tries, connectedUp, visits, replaced>>

----------------------------------------------------------------------------
(* The socket's client and the gateway.                                    *)

\* connect is reported before the gateway has looked at the token.
Opened(s) ==
  /\ life[s] = "connecting"
  /\ life' = [life EXCEPT ![s] = "connected"]
  /\ tries' = [tries EXCEPT ![s] = 0]
  /\ connectedUp' = TRUE
  /\ UNCHANGED <<account, layout, socket, owner, rooms, visits, replaced, dropped>>

\* handleConnection: the token is good, the socket joins its user's room.
Admit(s) ==
  /\ life[s] = "connected" /\ s \notin rooms
  /\ rooms' = rooms \cup {s}
  /\ UNCHANGED <<account, layout, socket, life, owner, tries, connectedUp, visits,
                 replaced, dropped>>

\* handleConnection: the token has expired.  The client does not try again
\* after the server has disconnected it.
Refuse(s) ==
  /\ life[s] = "connected" /\ s \notin rooms
  /\ life' = [life EXCEPT ![s] = "dead"]
  /\ connectedUp' = FALSE
  /\ UNCHANGED <<account, layout, socket, owner, rooms, tries, visits, replaced,
                 dropped>>

\* The transport is lost, or could not be opened.
Lose(s) ==
  /\ life[s] \in {"connecting", "connected"}
  /\ life' = [life EXCEPT ![s] = IF tries[s] < MaxTries THEN "waiting" ELSE "dead"]
  /\ rooms' = rooms \ {s}
  /\ connectedUp' = FALSE
  /\ UNCHANGED <<account, layout, socket, owner, tries, visits, replaced, dropped>>

\* reconnectionDelay has passed; the token is the one it was opened with.
Retry(s) ==
  /\ life[s] = "waiting"
  /\ life' = [life EXCEPT ![s] = "connecting"]
  /\ tries' = [tries EXCEPT ![s] = @ + 1]
  /\ UNCHANGED <<account, layout, socket, owner, rooms, connectedUp, visits, replaced,
                 dropped>>

----------------------------------------------------------------------------
SocketInit ==
  /\ account = NOBODY /\ layout = FALSE /\ socket = NOBODY
  /\ life = [s \in Sockets |-> "unused"]
  /\ owner = [s \in Sockets |-> NOBODY]
  /\ tries = [s \in Sockets |-> 0]
  /\ rooms = {} /\ connectedUp = FALSE /\ visits = 0
  /\ replaced = FALSE /\ dropped = FALSE

SocketNext ==
  \/ OpenApp \/ OpenReports \/ LogOut \/ LoseSession
  \/ \E user \in Accounts : LogIn(user)
  \/ \E s \in Sockets : Opened(s) \/ Admit(s) \/ Refuse(s) \/ Lose(s) \/ Retry(s)

SocketSpec == SocketInit /\ [][SocketNext]_socketVars

----------------------------------------------------------------------------
(* Properties.                                                             *)

SocketTypeOK ==
  /\ account \in Accounts \cup {NOBODY}
  /\ socket \in Sockets \cup {NOBODY}
  /\ life \in [Sockets -> Lives]
  /\ owner \in [Sockets -> Accounts \cup {NOBODY}]
  /\ rooms \subseteq Sockets
  /\ tries \in [Sockets -> 0 .. MaxTries]
  /\ {layout, connectedUp, replaced, dropped} \subseteq BOOLEAN
  /\ visits \in 0 .. MaxVisits

\* What reaches the page is what its user is owed, once: only the current
\* socket is in a room, and it is its user's; and the dot of the header is lit
\* exactly while that socket is connected.  Not so once connect has let go of a
\* socket that was still trying, which is what opening the app on the reports
\* page does; nor, for whose events they are, after a session that ended
\* without the header's logout.
OneSocketOfOnesOwn ==
  ~replaced =>
    /\ rooms \subseteq {socket}
    /\ ~dropped => \A s \in rooms : owner[s] = account
    /\ connectedUp <=> socket # NOBODY /\ life[socket] = "connected"

=============================================================================
