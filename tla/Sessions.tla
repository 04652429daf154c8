------------------------------ MODULE Sessions ------------------------------
(***************************************************************************)
(* The sessions of one account: auth.service.ts, and what                  *)
(* profile.service.ts and users.service.ts do to its row, over PostgreSQL  *)
(* and Redis.  An execution of a service method is an element of Handlers; *)
(* each await on the database or on Redis ends a step, and the other       *)
(* executions run in between.  Other accounts touch other rows and keys.   *)
(*                                                                         *)
(* The keys in Redis are those of the account and one address: logins are  *)
(* counted and locked out for each address on its own.                     *)
(*                                                                         *)
(* A token is found again by the hash it is stored under.  hashToken takes *)
(* a new bcrypt salt at each call, so as written no stored hash is ever    *)
(* equal to the one looked up and nothing is found.  Both a lookup that    *)
(* works and the one as written are modelled: `finds' says which, and is   *)
(* chosen once.                                                            *)
(*                                                                         *)
(* Bounds: requests (MaxRequests).                                         *)
(***************************************************************************)
EXTENDS Naturals, Sequences, FiniteSets

CONSTANTS
  Handlers,     \* executions that may be under way at once
  Addresses,    \* the ip addresses logins come from
  Agents,       \* user agents, each the set of the marks it contains
  MaxAttempts,  \* MAX_LOGIN_ATTEMPTS
  NONE,         \* what a request does not have
  Lookups,      \* the ways `finds' may be
  MaxRequests   \* bound on the requests of a behaviour

ASSUME SessionsAssumption ==
  /\ IsFiniteSet(Handlers) /\ Handlers # {}
  /\ MaxAttempts \in Nat \ {0}
  /\ Lookups \subseteq BOOLEAN
  /\ MaxRequests \in Nat

VARIABLES
  user,       \* the row of users, as far as it is used here
  suspended,  \* the tenant's status is SUSPENDED
  sessions,   \* refresh_tokens, in the order of created_at
  resets,     \* password_reset_tokens, likewise
  attempts,   \* login:attempts in Redis for each address, 0 when absent
  locked,     \* login:lock in Redis is present, for each address
  handler,    \* the local state of each execution
  finds,      \* a stored hash can be found again
  requests,   \* requests so far
  epoch,      \* history: how often the password was set
  closed,     \* history: the last epoch whose sessions were all revoked
  revived,    \* history: earlier passwords that a stale copy put back since
              \*   sessions were last closed, or that is in force still
  lockLost    \* history: addresses whose lock a failing request did not set

vars == <<user, suspended, sessions, resets, attempts, locked, handler,
          finds, requests, epoch, closed, revived, lockLost>>

\* parseUserAgent: the first mark found decides, for the browser and for the
\* system.  An agent that says "Windows NT 10" also says "Windows NT".
BrowserMarks ==
  << <<"Edg/", "Edge">>, <<"Chrome/", "Chrome">>, <<"Firefox/", "Firefox">>,
     <<"Safari/", "Safari">>, <<"Opera", "Opera">>, <<"OPR/", "Opera">> >>

SystemMarks ==
  << <<"Windows NT 10", "Windows 10/11">>, <<"Windows NT", "Windows">>,
     <<"Mac OS X", "macOS">>, <<"Android", "Android">>, <<"iPhone", "iOS">>,
     <<"iPad", "iOS">>, <<"Linux", "Linux">> >>

FirstOf(marks, agent) ==
  LET found == {i \in DOMAIN marks : marks[i][1] \in agent}
  IN  IF found = {} THEN "desconocido"
      ELSE marks[CHOOSE i \in found : \A j \in found : i <= j][2]

DeviceOf(agent) ==
  IF agent = {} THEN "Dispositivo desconocido"
  ELSE <<FirstOf(BrowserMarks, agent), FirstOf(SystemMarks, agent)>>

Devices == {DeviceOf(agent) : agent \in Agents}

Operations == {"login", "refresh", "edit", "change", "forgot", "reset"}

\* What a method has yet to do next, in the order of its awaits.
Steps == {"find", "count", "lock", "clear", "retire", "revoke", "open",
          "save", "use", "close", "cancel", "issue"}

\* The row of the account: the hash of the password stands as the epoch it
\* was set in.
UserStates == {"active", "inactive", "removed"}

User == [state : UserStates, password : Nat]

\* A row of refresh_tokens; the last three fields are history: the epoch of
\* the password it goes back to, who opened it, and whether its request was
\* under way when all sessions were revoked.
Session == [device : Devices, revoked : BOOLEAN, epoch : Nat,
            opener : Handlers, late : BOOLEAN]

\* A row of password_reset_tokens, and who issued it.
Reset == [used : BOOLEAN, issuer : Handlers]

Idle == [step |-> "idle"]

\* A login keeps its address, a login or a refresh its device, an edit or a
\* change of the password the copy of the user's row it will save; of is the
\* row a refresh or a reset has found.
Working == [op : Operations, step : Steps, ip : Addresses \cup {NONE},
            device : Devices \cup {NONE}, copy : User \cup {NONE},
            of : Nat, epoch : Nat, late : BOOLEAN]

At(h, op, step) == handler[h].step = step /\ handler[h].op = op

Goto(h, step) == handler' = [handler EXCEPT ![h].step = step]

Done(h) == handler' = [handler EXCEPT ![h] = Idle]

\* A request arrives: its method is about to take the given step.
Start(h, op, step, ip, device, copy, of) ==
  /\ handler[h] = Idle
  /\ requests < MaxRequests
  /\ requests' = requests + 1
  /\ handler' = [handler EXCEPT ![h] =
       [op |-> op, step |-> step, ip |-> ip, device |-> device, copy |-> copy,
        of |-> of,
        epoch |-> IF op = "refresh" THEN sessions[of].epoch ELSE epoch,
        late |-> op = "refresh" /\ sessions[of].late]]

Live(i) == ~sessions[i].revoked

\* UPDATE refresh_tokens SET is_revoked = TRUE for the rows given
Revoke(rows) ==
  sessions' = [i \in DOMAIN sessions |->
                 [sessions[i] EXCEPT !.revoked = @ \/ i \in rows]]

----------------------------------------------------------------------------
(* Login.  A request that finds the lock is refused and changes nothing.   *)

BeginLogin(h) ==
  /\ \E ip \in Addresses, d \in Devices :
       /\ ~locked[ip]
       /\ Start(h, "login", "find", ip, d, NONE, 0)
  /\ UNCHANGED <<user, suspended, sessions, resets, attempts, locked, finds,
                 epoch, closed, revived, lockLost>>

\* The user is loaded and the password compared with the hash loaded.  One
\* that was removed is not found, which counts as a wrong password.
WrongPassword(h) ==
  /\ At(h, "login", "find")
  /\ Goto(h, "count")
  /\ UNCHANGED <<user, suspended, sessions, resets, attempts, locked, finds,
                 requests, epoch, closed, revived, lockLost>>

RightPassword(h) ==
  /\ At(h, "login", "find")
  /\ user.state # "removed"
  /\ IF user.state = "active" /\ ~suspended
     THEN handler' = [handler EXCEPT ![h].step = "clear", ![h].epoch = user.password]
     ELSE Done(h)
  /\ UNCHANGED <<user, suspended, sessions, resets, attempts, locked, finds,
                 requests, epoch, closed, revived, lockLost>>

\* the count at which the account is locked for an address
LocksLate(n) == n > MaxAttempts

MustLock(n) == n >= MaxAttempts

\* handleFailedLogin: INCR answers the number that decides about the lock.
CountFailure(h) ==
  /\ At(h, "login", "count")
  /\ attempts' = [attempts EXCEPT ![handler[h].ip] = @ + 1]
  /\ IF MustLock(attempts'[handler[h].ip]) THEN Goto(h, "lock") ELSE Done(h)
  /\ UNCHANGED <<user, suspended, sessions, resets, locked, finds, requests,
                 epoch, closed, revived, lockLost>>

LockOut(h) ==
  /\ At(h, "login", "lock")
  /\ locked' = [locked EXCEPT ![handler[h].ip] = TRUE]
  /\ Done(h)
  /\ UNCHANGED <<user, suspended, sessions, resets, attempts, finds,
                 requests, epoch, closed, revived, lockLost>>

ClearAttempts(h) ==
  /\ At(h, "login", "clear")
  /\ attempts' = [attempts EXCEPT ![handler[h].ip] = 0]
  /\ Goto(h, "revoke")
  /\ UNCHANGED <<user, suspended, sessions, resets, locked, finds, requests,
                 epoch, closed, revived, lockLost>>

----------------------------------------------------------------------------
(* generateTokens: the sessions of the device are revoked, then a new one  *)
(* is saved.                                                               *)

OtherDevices(d) == {i \in DOMAIN sessions : sessions[i].device # d}

OfDevice(d) == {i \in DOMAIN sessions : sessions[i].device = d}

RevokeDevice(h) ==
  /\ handler[h].step = "revoke"
  /\ Revoke(OfDevice(handler[h].device))
  /\ Goto(h, "open")
  /\ UNCHANGED <<user, suspended, resets, attempts, locked, finds, requests,
                 epoch, closed, revived, lockLost>>

OpenSession(h) ==
  /\ handler[h].step = "open"
  /\ sessions' = Append(sessions,
       [device |-> handler[h].device, revoked |-> FALSE,
        epoch |-> handler[h].epoch, opener |-> h, late |-> handler[h].late])
  /\ Done(h)
  /\ UNCHANGED <<user, suspended, resets, attempts, locked, finds, requests,
                 epoch, closed, revived, lockLost>>

----------------------------------------------------------------------------
(* Refresh, from any device, and the ends of sessions.                     *)

\* The tenant's status is not looked at; an expired token is refused.
FindToken(h) ==
  /\ finds /\ user.state = "active"
  /\ \E i \in DOMAIN sessions, d \in Devices :
       /\ Live(i)
       /\ Start(h, "refresh", "retire", NONE, d, NONE, i)
  /\ UNCHANGED <<user, suspended, sessions, resets, attempts, locked, finds,
                 epoch, closed, revived, lockLost>>

\* The copy of the row is saved, revoked.
RetireToken(h) ==
  /\ At(h, "refresh", "retire")
  /\ Revoke({handler[h].of})
  /\ Goto(h, "revoke")
  /\ UNCHANGED <<user, suspended, resets, attempts, locked, finds, requests,
                 epoch, closed, revived, lockLost>>

Logout ==
  /\ finds
  /\ requests < MaxRequests /\ requests' = requests + 1
  /\ \E i \in DOMAIN sessions : Live(i) /\ Revoke({i})
  /\ UNCHANGED <<user, suspended, resets, attempts, locked, handler, finds,
                 epoch, closed, revived, lockLost>>

LogoutAll ==
  /\ requests < MaxRequests /\ requests' = requests + 1
  /\ Revoke(DOMAIN sessions)
  /\ UNCHANGED <<user, suspended, resets, attempts, locked, handler, finds,
                 epoch, closed, revived, lockLost>>

\* By the id of the row, which getSessions lists.
RevokeSession ==
  /\ requests < MaxRequests /\ requests' = requests + 1
  /\ \E i \in DOMAIN sessions : Live(i) /\ Revoke({i})
  /\ UNCHANGED <<user, suspended, resets, attempts, locked, handler, finds,
                 epoch, closed, revived, lockLost>>

----------------------------------------------------------------------------
(* Passwords.                                                              *)

\* profile.service: the user is loaded and the current password is right.
BeginChange(h) ==
  /\ user.state # "removed"
  /\ Start(h, "change", "save", NONE, NONE, user, 0)
  /\ UNCHANGED <<user, suspended, sessions, resets, attempts, locked, finds,
                 epoch, closed, revived, lockLost>>

\* The whole copy is saved, the state as it was loaded included.
SavePassword(h) ==
  /\ At(h, "change", "save")
  /\ user' = [handler[h].copy EXCEPT !.password = epoch + 1]
  /\ epoch' = epoch + 1
  /\ handler' = [handler EXCEPT ![h].step = "close", ![h].epoch = epoch + 1]
  /\ UNCHANGED <<suspended, sessions, resets, attempts, locked, finds,
                 requests, closed, revived, lockLost>>

\* An administrator (de)activates or removes the user, or the user saves the
\* profile or the preferences: the row is loaded and its copy changed.
BeginEdit(h) ==
  /\ user.state # "removed"
  /\ \E state \in UserStates :
       Start(h, "edit", "save", NONE, NONE, [user EXCEPT !.state = state], 0)
  /\ UNCHANGED <<user, suspended, sessions, resets, attempts, locked, finds,
                 epoch, closed, revived, lockLost>>

\* The whole copy is saved, the hash as it was loaded included.
SaveEdit(h) ==
  /\ At(h, "edit", "save")
  /\ user' = handler[h].copy
  /\ revived' = IF user'.password < epoch THEN revived \cup {user'.password}
                                          ELSE revived
  /\ Done(h)
  /\ UNCHANGED <<suspended, sessions, resets, attempts, locked, finds,
                 requests, epoch, closed, lockLost>>

\* forgotPassword, whose answer is the same when the user does not exist
BeginForgot(h) ==
  /\ user.state # "removed"
  /\ Start(h, "forgot", "cancel", NONE, NONE, NONE, 0)
  /\ UNCHANGED <<user, suspended, sessions, resets, attempts, locked, finds,
                 epoch, closed, revived, lockLost>>

\* the tokens a new one replaces
OldResets == DOMAIN resets

CancelResets(h) ==
  /\ At(h, "forgot", "cancel")
  /\ resets' = [i \in DOMAIN resets |->
                  [resets[i] EXCEPT !.used = @ \/ i \in OldResets]]
  /\ Goto(h, "issue")
  /\ UNCHANGED <<user, suspended, sessions, attempts, locked, finds,
                 requests, epoch, closed, revived, lockLost>>

UnmarkedReset(h) == [issuer |-> h]

NewReset(h) == [used |-> FALSE, issuer |-> h]

IssueReset(h) ==
  /\ At(h, "forgot", "issue")
  /\ resets' = Append(resets, NewReset(h))
  /\ Done(h)
  /\ UNCHANGED <<user, suspended, sessions, attempts, locked, finds,
                 requests, epoch, closed, revived, lockLost>>

FindReset(h) ==
  /\ finds
  /\ \E i \in DOMAIN resets :
       /\ ~resets[i].used
       /\ Start(h, "reset", "save", NONE, NONE, NONE, i)
  /\ UNCHANGED <<user, suspended, sessions, resets, attempts, locked, finds,
                 epoch, closed, revived, lockLost>>

\* Only the column of the password is updated.
ResetPassword(h) ==
  /\ At(h, "reset", "save")
  /\ user' = [user EXCEPT !.password = epoch + 1]
  /\ epoch' = epoch + 1
  /\ handler' = [handler EXCEPT ![h].step = "use", ![h].epoch = epoch + 1]
  /\ UNCHANGED <<suspended, sessions, resets, attempts, locked, finds,
                 requests, closed, revived, lockLost>>

UseReset(h) ==
  /\ At(h, "reset", "use")
  /\ resets' = [resets EXCEPT ![handler[h].of].used = TRUE]
  /\ Goto(h, "close")
  /\ UNCHANGED <<user, suspended, sessions, attempts, locked, finds,
                 requests, epoch, closed, revived, lockLost>>

\* The newest session is taken for the current one and kept.
SweptButNewest ==
  [i \in DOMAIN sessions |->
     [sessions[i] EXCEPT !.revoked = @ \/ i # Len(sessions)]]

Swept == [i \in DOMAIN sessions |-> [sessions[i] EXCEPT !.revoked = TRUE]]

\* Both methods end by revoking every session.  Requests that are under way
\* now may still save one: they are marked.
CloseSessions(h) ==
  /\ handler[h].step = "close"
  /\ sessions' = Swept
  /\ handler' = [g \in Handlers |->
       IF g = h THEN Idle
       ELSE IF handler[g] = Idle THEN Idle
       ELSE [handler[g] EXCEPT !.late = TRUE]]
  /\ closed' = IF handler[h].epoch > closed THEN handler[h].epoch ELSE closed
  /\ revived' = revived \cap {user.password}
  /\ UNCHANGED <<user, suspended, resets, attempts, locked, finds, requests,
                 epoch, lockLost>>

----------------------------------------------------------------------------
(* Around the requests.                                                    *)

\* An await rejects, or the process dies: nothing is rolled back.
Fail(h) ==
  /\ handler[h] # Idle
  /\ Done(h)
  /\ lockLost' = IF handler[h].step = "lock" THEN lockLost \cup {handler[h].ip}
                                            ELSE lockLost
  /\ UNCHANGED <<user, suspended, sessions, resets, attempts, locked, finds,
                 requests, epoch, closed, revived>>

\* The tenant is suspended or not.
SetSuspended ==
  /\ requests < MaxRequests /\ requests' = requests + 1
  /\ suspended' = ~suspended
  /\ UNCHANGED <<user, sessions, resets, attempts, locked, handler, finds,
                 epoch, closed, revived, lockLost>>

\* The keys live 15 minutes, longer than any login runs.  The lock is set
\* after the counter's time to live was, so it is the last to go.
Expire(ip) ==
  /\ \A h \in Handlers : handler[h] # Idle => handler[h].ip # ip
  /\ \/ /\ attempts[ip] > 0
        /\ attempts' = [attempts EXCEPT ![ip] = 0]
        /\ UNCHANGED locked
     \/ /\ attempts[ip] = 0 /\ locked[ip]
        /\ locked' = [locked EXCEPT ![ip] = FALSE]
        /\ UNCHANGED attempts
  /\ UNCHANGED <<user, suspended, sessions, resets, handler, finds,
                 requests, epoch, closed, revived, lockLost>>

----------------------------------------------------------------------------
Init ==
  /\ user = [state |-> "active", password |-> 0] /\ suspended = FALSE
  /\ sessions = <<>> /\ resets = <<>>
  /\ attempts = [ip \in Addresses |-> 0]
  /\ locked = [ip \in Addresses |-> FALSE]
  /\ handler = [h \in Handlers |-> Idle]
  /\ finds \in Lookups
  /\ requests = 0 /\ epoch = 0 /\ closed = 0
  /\ revived = {} /\ lockLost = {}

Next ==
  \/ \E h \in Handlers :
       \/ BeginLogin(h) \/ WrongPassword(h) \/ RightPassword(h)
       \/ CountFailure(h) \/ LockOut(h) \/ ClearAttempts(h)
       \/ RevokeDevice(h) \/ OpenSession(h)
       \/ FindToken(h) \/ RetireToken(h)
       \/ BeginChange(h) \/ SavePassword(h) \/ BeginEdit(h) \/ SaveEdit(h)
       \/ BeginForgot(h) \/ CancelResets(h) \/ IssueReset(h)
       \/ FindReset(h) \/ ResetPassword(h) \/ UseReset(h)
       \/ CloseSessions(h) \/ Fail(h)
  \/ Logout \/ LogoutAll \/ RevokeSession
  \/ SetSuspended
  \/ \E ip \in Addresses : Expire(ip)

Spec == Init /\ [][Next]_vars

----------------------------------------------------------------------------
(* Properties.                                                             *)

\* Every variable keeps its type, and a request at a step that needs a row,
\* an address or a device has it.
TypeOK ==
  /\ user \in User /\ suspended \in BOOLEAN
  /\ finds \in Lookups
  /\ sessions \in Seq(Session) /\ resets \in Seq(Reset)
  /\ attempts \in [Addresses -> Nat] /\ locked \in [Addresses -> BOOLEAN]
  /\ {requests, epoch, closed} \subseteq Nat
  /\ revived \subseteq Nat /\ lockLost \subseteq Addresses
  /\ handler \in [Handlers -> Working \cup {Idle}]
  /\ \A h \in Handlers :
       /\ handler[h].step \in {"find", "count", "lock", "clear"} =>
            handler[h].op = "login" /\ handler[h].ip \in Addresses
       /\ handler[h].step \in {"find", "clear", "retire", "revoke", "open"} =>
            handler[h].device \in Devices
       /\ handler[h].step = "save" /\ handler[h].op # "reset" =>
            handler[h].copy \in User
       /\ handler[h].step = "retire" => handler[h].of \in DOMAIN sessions
       /\ handler[h].step = "use" => handler[h].of \in DOMAIN resets

\* Parallel logins all pass the lock before any of them counts its failure,
\* so from one address more passwords are tried than MAX_LOGIN_ATTEMPTS: but
\* never more than one extra for each other request under way, unless a
\* request dies between counting and locking (login, handleFailedLogin).
\* The account has this bound once for each address, and none over them all.
GuessesBounded ==
  \A ip \in Addresses \ lockLost :
    attempts[ip] <= MaxAttempts - 1 + Cardinality(Handlers)

\* generateTokens revokes the device's sessions and saves its own later, so
\* logins and refreshes that overlap leave several; forgotPassword does the
\* same with the tokens it mails.  But there are never more than the requests
\* that can overlap, however long they go on.
TokensBounded ==
  /\ \A d \in Devices :
       Cardinality({i \in DOMAIN sessions : Live(i) /\ sessions[i].device = d})
         <= Cardinality(Handlers)
  /\ Cardinality({i \in DOMAIN resets : ~resets[i].used}) <= Cardinality(Handlers)

\* Once a change or a reset of the password is answered, no session opened
\* with an earlier password is left, nor one refreshed from such a session:
\* except through a request that was under way at that moment, or with an
\* earlier password that the save of a stale copy of the row has put back
\* and no change or reset has closed since (changePassword, resetPassword,
\* refreshTokens; update, updateProfile).
OldPasswordOpensNothing ==
  \A i \in DOMAIN sessions :
    Live(i) => \/ sessions[i].epoch >= closed
               \/ sessions[i].late
               \/ sessions[i].epoch \in revived

=============================================================================
