---------------------------- MODULE TokenRefresh ----------------------------
(***************************************************************************)
(* The frontend's HTTP interceptor in the tabs of one browser: a request   *)
(* answered 401 starts a refresh of the tokens, or waits for the one under *)
(* way, and is sent again with the new token.                              *)
(*                                                                         *)
(* The tabs share localStorage; the flag isRefreshing and the subject      *)
(* refreshTokenSubject are one per tab.  Code of a tab runs between two    *)
(* answers of the server without interruption.                             *)
(*                                                                         *)
(* Of the server: a request is served if its access token is live; a       *)
(* refresh token is rotated, if the server finds it, or refused; any call  *)
(* may end in an error.  Which refresh tokens are revoked is left open, as *)
(* two rotations of one token may both read it before either revokes it.   *)
(* An access token and the refresh token issued with it are one token.     *)
(***************************************************************************)
EXTENDS Integers

CONSTANTS
  Tabs,        \* tabs of the browser
  Requests,    \* requests of the pages, other than those to /auth/
  Tokens,      \* bound: the token pairs the server may issue
  MaxLogins,   \* bound on the logins of the user
  FindsTokens, \* FALSE: refreshTokens looks a token up by a newly salted hash,
               \* as AuthService does; TRUE: it finds the tokens it issued
  NONE

Answer == {"ok", "unauthorized", "error"}

ASSUME TokenRefreshAssumption ==
  /\ NONE \notin Tokens \cup Answer \cup Tabs
  /\ Tokens \cap Answer = {}
  /\ MaxLogins \in Nat
  /\ FindsTokens \in BOOLEAN

VARIABLES
  storage,     \* localStorage: the stored pair, or NONE
  isRefreshing,\* per tab, module variable
  subject,     \* per tab, refreshTokenSubject
  request,     \* the requests
  issued,      \* server: pairs issued so far
  live,        \* server: access tokens not expired
  logins,      \* logins so far
  abandoned    \* history: requests that waited while a refresh failed

server == <<issued, live>>
vars == <<storage, isRefreshing, subject, request, server, logins, abandoned>>

\* what is under way, the tab, the token carried, the refresh token posted
\* for it, and the answer not yet handled
Request == [step: {"new", "sent", "refreshing", "waiting", "retried", "resent",
                   "done", "failed"},
            tab: Tabs \cup {NONE},
            carries: Tokens \cup {NONE},
            posted: Tokens \cup {NONE},
            answer: Answer \cup Tokens \cup {NONE}]

TypeOK ==
  /\ storage \in Tokens \cup {NONE}
  /\ isRefreshing \in [Tabs -> BOOLEAN]
  /\ subject \in [Tabs -> Tokens \cup {NONE}]
  /\ request \in [Requests -> Request]
  /\ issued \subseteq Tokens
  /\ live \subseteq issued
  /\ logins \in 0..MaxLogins
  /\ abandoned \subseteq Requests

Init ==
  /\ storage = NONE
  /\ isRefreshing = [t \in Tabs |-> FALSE]
  /\ subject = [t \in Tabs |-> NONE]
  /\ request = [r \in Requests |-> [step |-> "new", tab |-> NONE,
                                    carries |-> NONE, posted |-> NONE,
                                    answer |-> NONE]]
  /\ issued = {}
  /\ live = {}
  /\ logins = 0
  /\ abandoned = {}

-----------------------------------------------------------------------------
\* The server

\* a new pair
Issue(p) ==
  /\ p \in Tokens \ issued
  /\ issued' = issued \cup {p}
  /\ live' = live \cup {p}

Expire(p) ==
  /\ p \in live
  /\ live' = live \ {p}
  /\ UNCHANGED <<storage, isRefreshing, subject, request, issued, logins,
                 abandoned>>

\* an answer to a request, or an error on the way
Serve(r) ==
  /\ request[r].step \in {"sent", "retried", "resent"}
  /\ request[r].answer = NONE
  /\ \E a \in Answer :
       /\ a = "ok" => request[r].carries \in live
       /\ a = "unauthorized" => request[r].carries \notin live
       /\ request' = [request EXCEPT ![r].answer = a]
  /\ UNCHANGED <<storage, isRefreshing, subject, server, logins, abandoned>>

\* POST /auth/refresh: the answer may be lost after the rotation.
Rotate(r) ==
  /\ request[r].step = "refreshing"
  /\ request[r].answer = NONE
  /\ FindsTokens
  /\ \E p \in Tokens :
       /\ Issue(p)
       /\ \E a \in {p, "error"} : request' = [request EXCEPT ![r].answer = a]
  /\ UNCHANGED <<storage, isRefreshing, subject, logins, abandoned>>

Refuse(r) ==
  /\ request[r].step = "refreshing"
  /\ request[r].answer = NONE
  /\ \E a \in {"unauthorized", "error"} :
       request' = [request EXCEPT ![r].answer = a]
  /\ UNCHANGED <<storage, isRefreshing, subject, server, logins, abandoned>>

-----------------------------------------------------------------------------
\* The interceptor

\* authInterceptor: the request leaves with the stored token, if any.
Send(t, r) ==
  /\ request[r].step = "new"
  /\ request' = [request EXCEPT ![r].step = "sent", ![r].tab = t,
                                ![r].carries = storage]
  /\ UNCHANGED <<storage, isRefreshing, subject, server, logins, abandoned>>

\* An answer to pass on: any but a 401 to a first attempt or an error to the
\* request that did the refresh.
Deliver(r) ==
  /\ \/ request[r].step = "sent" /\ request[r].answer \in {"ok", "error"}
     \/ request[r].step = "resent" /\ request[r].answer \in Answer
     \/ request[r].step = "retried" /\ request[r].answer = "ok"
  /\ request' = [request EXCEPT
       ![r].step = IF request[r].answer = "ok" THEN "done" ELSE "failed",
       ![r].carries = NONE, ![r].answer = NONE]
  /\ UNCHANGED <<storage, isRefreshing, subject, server, logins, abandoned>>

Unauthorized(r) == request[r].step = "sent" /\ request[r].answer = "unauthorized"

\* the test of handle401Error
NeverBusy(t) == FALSE

Busy(t) == isRefreshing[t]

StartRefresh(r) ==
  /\ Unauthorized(r)
  /\ LET t == request[r].tab
     IN  /\ ~Busy(t)
         /\ storage # NONE
         /\ isRefreshing' = [isRefreshing EXCEPT ![t] = TRUE]
         /\ subject' = [subject EXCEPT ![t] = NONE]
  /\ request' = [request EXCEPT ![r].step = "refreshing", ![r].answer = NONE,
                                ![r].posted = storage]
  /\ UNCHANGED <<storage, server, logins, abandoned>>

NoRefreshToken(r) ==
  /\ Unauthorized(r)
  /\ LET t == request[r].tab
     IN  /\ ~Busy(t)
         /\ storage = NONE
         /\ isRefreshing' = [isRefreshing EXCEPT ![t] = FALSE]
         /\ subject' = [subject EXCEPT ![t] = NONE]
  /\ request' = [request EXCEPT ![r].step = "failed", ![r].carries = NONE,
                                ![r].answer = NONE]
  /\ UNCHANGED <<storage, server, logins, abandoned>>

\* the subject passes its value on at once if it has one
Wait(r) ==
  /\ Unauthorized(r)
  /\ LET t == request[r].tab
     IN  /\ Busy(t)
         /\ request' =
              IF subject[t] = NONE
              THEN [request EXCEPT ![r].step = "waiting", ![r].answer = NONE]
              ELSE [request EXCEPT ![r].step = "resent", ![r].answer = NONE,
                                   ![r].carries = subject[t]]
  /\ UNCHANGED <<storage, isRefreshing, subject, server, logins, abandoned>>

\* the requests of t the subject releases
ReleasedNone(t) == {}

Released(t) ==
  {q \in Requests : request[q].step = "waiting" /\ request[q].tab = t}

\* what setItem stores: any value becomes a string
MissingField(p) == "undefined"

Stored(p) == p

\* The new pair is stored, the waiting requests go first, then the request
\* itself is retried.
Refreshed(r) ==
  /\ request[r].step = "refreshing"
  /\ request[r].answer \in Tokens
  /\ LET t == request[r].tab
         p == request[r].answer
     IN  /\ isRefreshing' = [isRefreshing EXCEPT ![t] = FALSE]
         /\ subject' = [subject EXCEPT ![t] = p]
         /\ storage' = Stored(p)
         /\ request' = [q \in Requests |->
              IF q = r THEN [request[q] EXCEPT !.step = "retried",
                                               !.carries = p, !.answer = NONE]
              ELSE IF q \in Released(t)
                   THEN [request[q] EXCEPT !.step = "resent", !.carries = p]
                   ELSE request[q]]
  /\ UNCHANGED <<server, logins, abandoned>>

\* the flag after an error that reached catchError
FlagKept(t) == isRefreshing

FlagCleared(t) == [isRefreshing EXCEPT ![t] = FALSE]

\* Forced logout.  The handler is on the whole chain, so it also catches the
\* errors of the retried request.
ForcedLogout(r) ==
  /\ \/ request[r].step = "refreshing"
     \/ request[r].step = "retried"
  /\ request[r].answer \in {"unauthorized", "error"}
  /\ isRefreshing' = FlagCleared(request[r].tab)
  /\ storage' = NONE
  /\ request' = [request EXCEPT ![r].step = "failed", ![r].carries = NONE,
                                ![r].answer = NONE]
  /\ abandoned' = IF request[r].step = "refreshing"
                  THEN abandoned \cup Released(request[r].tab)
                  ELSE abandoned
  /\ UNCHANGED <<subject, server, logins>>

-----------------------------------------------------------------------------
\* AuthService in any tab

Login ==
  /\ logins < MaxLogins
  /\ logins' = logins + 1
  /\ \E p \in Tokens : Issue(p) /\ storage' = Stored(p)
  /\ UNCHANGED <<isRefreshing, subject, request, abandoned>>

Logout ==
  /\ storage # NONE
  /\ storage' = NONE
  /\ UNCHANGED <<isRefreshing, subject, request, server, logins, abandoned>>

-----------------------------------------------------------------------------
Handle(r) ==
  \/ Deliver(r)
  \/ StartRefresh(r)
  \/ NoRefreshToken(r)
  \/ Wait(r)
  \/ Refreshed(r)
  \/ ForcedLogout(r)

Next ==
  \/ \E r \in Requests :
       \/ \E t \in Tabs : Send(t, r)
       \/ Serve(r) \/ Rotate(r) \/ Refuse(r)
       \/ Handle(r)
  \/ \E p \in Tokens : Expire(p)
  \/ Login
  \/ Logout

Spec == Init /\ [][Next]_vars

\* Every request is answered or ends in an error, and the browser runs the
\* callback of every answer.
FairSpec ==
  /\ Spec
  /\ \A r \in Requests : /\ WF_vars(Serve(r))
                         /\ WF_vars(Rotate(r) \/ Refuse(r))
                         /\ WF_vars(Handle(r))

-----------------------------------------------------------------------------
\* Properties

InFlight(t, r) == request[r].step = "refreshing" /\ request[r].tab = t

\* The flag is never left up: while it is, a refresh of the tab is under way
\* and will take it down.  A flag left up would make every later 401 wait.
FlagMeansRefresh ==
  \A t \in Tabs : isRefreshing[t] => \E r \in Requests : InFlight(t, r)

\* "Flag para evitar múltiples llamadas de refresh simultáneas": a tab never
\* posts one refresh token twice, neither at once nor later.  The server
\* rotates it at its first use, so the second would end the session.
NeverReposted ==
  \A q, r \in Requests :
    /\ q # r
    /\ request[q].tab = request[r].tab
    /\ request[q].posted # NONE
    => request[q].posted # request[r].posted

Waiting(r) == request[r].step = "waiting"

\* "esperar a que termine y usar el nuevo token": a request that waits for a
\* refresh goes on once the refresh has ended.
WaitersReleased == \A r \in Requests : Waiting(r) ~> ~Waiting(r)

\* What the code does ensure: it goes on unless the refresh fails.
WaitersReleasedUnlessRefused ==
  \A r \in Requests : Waiting(r) ~> ~Waiting(r) \/ r \in abandoned

=============================================================================
