-------------------------- MODULE TokenRefreshProofs --------------------------
(***************************************************************************)
(* The interceptor's flag and its use of refresh tokens, for any number of *)
(* tabs, requests and tokens.                                              *)
(***************************************************************************)
EXTENDS TokenRefresh, TLAPS

\* What a request's step says of its other fields.
StepOK(q) ==
  /\ q.step = "new" \/ q.tab \in Tabs
  /\ q.step = "refreshing" => q.posted # NONE
  /\ q.posted # NONE => q.step \in {"refreshing", "retried", "done", "failed"}
  /\ q.answer \in Tokens => q.step = "refreshing"

Typed == TypeOK /\ \A r \in Requests : StepOK(request[r])

LEMMA InitTyped == Init => Typed
BY TokenRefreshAssumption DEF Init, Typed, TypeOK, Request, StepOK

\* The refresh tokens: an issued one is stored, in an answer under way, or
\* posted, and no longer stored once its refresh has ended.
Rotation ==
  /\ storage # NONE => storage \in issued
  /\ \A r \in Requests :
       /\ request[r].posted # NONE => request[r].posted \in issued
       /\ request[r].posted # NONE /\ request[r].posted = storage =>
            request[r].step = "refreshing" /\ isRefreshing[request[r].tab]
       /\ request[r].answer \in Tokens =>
            /\ request[r].answer \in issued
            /\ request[r].answer # storage
            /\ \A q \in Requests :
                 /\ request[q].posted # request[r].answer
                 /\ q # r => request[q].answer # request[r].answer

Safe == Typed /\ FlagMeansRefresh /\ Rotation /\ NeverReposted

LEMMA InitSafe == Init => Safe
BY InitTyped, TokenRefreshAssumption
   DEF Init, Safe, FlagMeansRefresh, Rotation, NeverReposted

\* A request that moves on without touching its refresh.
Quiet(old, new) ==
  /\ new.posted = old.posted
  /\ new.step = "refreshing" <=> old.step = "refreshing"
  /\ old.step # "new" => new.tab = old.tab
  /\ new.answer \notin Tokens

\* The steps that change one request only.
LEMMA QuietRequest ==
  ASSUME Typed, NEW r \in Requests,
         \/ \E t \in Tabs : Send(t, r)
         \/ Serve(r) \/ Refuse(r) \/ Deliver(r) \/ Wait(r)
  PROVE  /\ UNCHANGED <<storage, isRefreshing, subject, server, logins, abandoned>>
         /\ \E q \in Request : /\ StepOK(q) /\ Quiet(request[r], q)
                             /\ request' = [request EXCEPT ![r] = q]
<1> USE TokenRefreshAssumption
<1>1. request[r] \in Request /\ StepOK(request[r])
  BY DEF Typed, TypeOK
<1>2. CASE \E t \in Tabs : Send(t, r)
  <2>1. PICK t \in Tabs : Send(t, r)
    BY <1>2
  <2> DEFINE q == [request[r] EXCEPT !.step = "sent", !.tab = t,
                                     !.carries = storage]
  <2>2. q \in Request /\ StepOK(q) /\ Quiet(request[r], q)
    BY <1>1, <2>1 DEF Send, Typed, TypeOK, Request, StepOK, Quiet
  <2>3. request' = [request EXCEPT ![r] = q]
    BY <2>1 DEF Send, Typed, TypeOK
  <2> QED BY <2>1, <2>2, <2>3 DEF Send
<1>3. CASE Serve(r)
  <2>1. PICK a \in Answer : request' = [request EXCEPT ![r].answer = a]
    BY <1>3 DEF Serve
  <2> DEFINE q == [request[r] EXCEPT !.answer = a]
  <2>2. q \in Request /\ StepOK(q) /\ Quiet(request[r], q)
    BY <1>1, <2>1 DEF Request, StepOK, Quiet, Serve, Refuse
  <2>3. request' = [request EXCEPT ![r] = q]
    BY <2>1 DEF Typed, TypeOK
  <2> QED BY <1>3, <2>2, <2>3 DEF Serve
<1>4. CASE Refuse(r)
  <2>1. PICK a \in Answer : request' = [request EXCEPT ![r].answer = a]
    BY <1>4 DEF Refuse, Answer
  <2> DEFINE q == [request[r] EXCEPT !.answer = a]
  <2>2. q \in Request /\ StepOK(q) /\ Quiet(request[r], q)
    BY <1>1, <2>1 DEF Request, StepOK, Quiet, Serve, Refuse
  <2>3. request' = [request EXCEPT ![r] = q]
    BY <2>1 DEF Typed, TypeOK
  <2> QED BY <1>4, <2>2, <2>3 DEF Refuse
<1>5. CASE Deliver(r)
  <2> DEFINE q == [request[r] EXCEPT
                     !.step = IF request[r].answer = "ok" THEN "done"
                              ELSE "failed",
                     !.carries = NONE, !.answer = NONE]
  <2>1. q \in Request /\ StepOK(q) /\ Quiet(request[r], q)
    BY <1>1, <1>5 DEF Deliver, Request, StepOK, Quiet
  <2>2. request' = [request EXCEPT ![r] = q]
    BY <1>5 DEF Deliver, Typed, TypeOK
  <2> QED BY <1>5, <2>1, <2>2 DEF Deliver
<1>6. CASE Wait(r)
  <2> DEFINE t == request[r].tab
             q == IF subject[t] = NONE
                  THEN [request[r] EXCEPT !.step = "waiting", !.answer = NONE]
                  ELSE [request[r] EXCEPT !.step = "resent", !.answer = NONE,
                                          !.carries = subject[t]]
  <2>1. t \in Tabs /\ subject[t] \in Tokens \cup {NONE}
    BY <1>1, <1>6 DEF Wait, Unauthorized, StepOK, Typed, TypeOK
  <2>2. q \in Request /\ StepOK(q) /\ Quiet(request[r], q)
    BY <1>1, <1>6, <2>1 DEF Wait, Unauthorized, Request, StepOK, Quiet
  <2>3. request' = [request EXCEPT ![r] = q]
    BY <1>6 DEF Wait, Typed, TypeOK
  <2> QED BY <1>6, <2>2, <2>3 DEF Wait
<1> QED BY <1>2, <1>3, <1>4, <1>5, <1>6

\* The five of them, and NoRefreshToken, keep the invariant.
LEMMA QuietSafe ==
  ASSUME Safe, NEW r \in Requests, NEW q \in Request, StepOK(q),
         Quiet(request[r], q), request' = [request EXCEPT ![r] = q],
         subject' \in [Tabs -> Tokens \cup {NONE}],
         UNCHANGED <<storage, isRefreshing, server, logins, abandoned>>
  PROVE  Safe'
<1> USE TokenRefreshAssumption
<1>1. /\ request \in [Requests -> Request] /\ request' \in [Requests -> Request]
      /\ request'[r] = q
      /\ \A s \in Requests \ {r} : request'[s] = request[s]
      /\ \A s \in Requests : StepOK(request[s])
  BY DEF Safe, Typed, TypeOK
<1>2. /\ storage' = storage /\ isRefreshing' = isRefreshing
      /\ issued' = issued /\ live' = live
      /\ logins' = logins /\ abandoned' = abandoned
  BY DEF server
<1>3. Typed'
  BY <1>1, <1>2 DEF Safe, Typed, TypeOK, StepOK
<1>4. FlagMeansRefresh'
  <2>1. \A t \in Tabs, s \in Requests : InFlight(t, s) => InFlight(t, s)'
    BY <1>1 DEF InFlight, Quiet
  <2> QED BY <1>2, <2>1 DEF Safe, FlagMeansRefresh
<1>5. /\ q.posted = request[r].posted
      /\ q.answer \notin Tokens
      /\ q.posted # NONE => q.tab = request[r].tab
      /\ q.step = "refreshing" <=> request[r].step = "refreshing"
  BY <1>1 DEF Quiet, StepOK
<1>6. Rotation'
  BY <1>1, <1>2, <1>5 DEF Safe, Rotation, Typed, TypeOK
<1>7. NeverReposted'
  BY <1>1, <1>5 DEF Safe, NeverReposted
<1> QED BY <1>3, <1>4, <1>6, <1>7 DEF Safe

LEMMA NoRefreshTokenSafe ==
  ASSUME Safe, NEW r \in Requests, NoRefreshToken(r)
  PROVE  Safe'
<1> USE TokenRefreshAssumption
<1> DEFINE t == request[r].tab
           q == [request[r] EXCEPT !.step = "failed", !.carries = NONE,
                                   !.answer = NONE]
<1>1. request[r] \in Request /\ StepOK(request[r])
  BY DEF Safe, Typed, TypeOK
<1>2. t \in Tabs /\ isRefreshing \in [Tabs -> BOOLEAN] /\ ~isRefreshing[t]
  BY <1>1 DEF NoRefreshToken, Unauthorized, Busy, StepOK, Safe, Typed, TypeOK
<1>3. isRefreshing' = isRefreshing
  BY <1>2 DEF NoRefreshToken
<1>4. subject' \in [Tabs -> Tokens \cup {NONE}]
  BY <1>2 DEF NoRefreshToken, Safe, Typed, TypeOK
<1>5. q \in Request /\ StepOK(q) /\ Quiet(request[r], q)
  BY <1>1 DEF NoRefreshToken, Unauthorized, Request, StepOK, Quiet
<1>6. request' = [request EXCEPT ![r] = q]
  BY DEF NoRefreshToken, Safe, Typed, TypeOK
<1>7. UNCHANGED <<storage, isRefreshing, server, logins, abandoned>>
  BY <1>3 DEF NoRefreshToken
<1> HIDE DEF q, t
<1> QED BY <1>4, <1>5, <1>6, <1>7, QuietSafe

\* Rotation at the server: the new pair is in no other place.
LEMMA RotateSafe ==
  ASSUME Safe, NEW r \in Requests, Rotate(r)
  PROVE  Safe'
<1> USE TokenRefreshAssumption
<1>0. PICK p \in Tokens :
        /\ Issue(p)
        /\ \E a \in {p, "error"} : request' = [request EXCEPT ![r].answer = a]
  BY DEF Rotate
<1>1. PICK a \in {p, "error"} : request' = [request EXCEPT ![r].answer = a]
  BY <1>0
<1>2. /\ storage' = storage /\ isRefreshing' = isRefreshing
      /\ subject' = subject /\ logins' = logins /\ abandoned' = abandoned
  BY DEF Rotate
<1>3. /\ p \notin issued /\ issued' = issued \cup {p}
      /\ live' = live \cup {p}
  BY <1>0 DEF Issue
<1>4. /\ request \in [Requests -> Request]
      /\ request'[r] = [request[r] EXCEPT !.answer = a]
      /\ \A s \in Requests \ {r} : request'[s] = request[s]
      /\ request' = [request EXCEPT ![r] = [request[r] EXCEPT !.answer = a]]
  BY <1>1 DEF Safe, Typed, TypeOK
<1>5. [request[r] EXCEPT !.answer = a] \in Request
  BY <1>4 DEF Request, Answer
<1>6. request' \in [Requests -> Request]
  BY <1>4, <1>5
<1>7. \A s \in Requests : /\ request'[s].step = request[s].step
                          /\ request'[s].tab = request[s].tab
                          /\ request'[s].posted = request[s].posted
  BY <1>4 DEF Request
<1>8. request'[r].answer = a
  BY <1>4 DEF Request
<1>9. Typed'
  <2>1. TypeOK'
    BY <1>2, <1>3, <1>6 DEF Safe, Typed, TypeOK
  <2>2. \A s \in Requests : StepOK(request'[s])
    BY <1>4, <1>7 DEF Rotate, Safe, Typed, StepOK
  <2> QED BY <2>1, <2>2 DEF Typed, StepOK
<1>10. FlagMeansRefresh'
  BY <1>2, <1>7 DEF Safe, FlagMeansRefresh, InFlight
<1>11. Rotation'
  <2>1. /\ storage # p
        /\ \A s \in Requests : request[s].posted # p /\ request[s].answer # p
    BY <1>3 DEF Safe, Rotation
  <2> QED BY <1>2, <1>3, <1>4, <1>7, <1>8, <2>1 DEF Safe, Rotation, Answer
<1>12. NeverReposted'
  BY <1>7 DEF Safe, NeverReposted
<1> QED BY <1>9, <1>10, <1>11, <1>12 DEF Safe

\* A refresh starts only while the tab has none, and what it posts is what is
\* stored, which no earlier refresh of the tab posted.
LEMMA StartRefreshSafe ==
  ASSUME Safe, NEW r \in Requests, StartRefresh(r)
  PROVE  Safe'
<1> USE TokenRefreshAssumption
<1>1. PICK t \in Tabs : t = request[r].tab
  BY DEF StartRefresh, Unauthorized, Safe, Typed, StepOK
<1> DEFINE n == [request[r] EXCEPT !.step = "refreshing", !.answer = NONE,
                                   !.posted = storage]
<1>2. /\ request[r].step = "sent" /\ ~isRefreshing[t] /\ storage # NONE
      /\ isRefreshing' = [isRefreshing EXCEPT ![t] = TRUE]
      /\ subject' = [subject EXCEPT ![t] = NONE]
      /\ storage' = storage /\ issued' = issued /\ live' = live
      /\ logins' = logins /\ abandoned' = abandoned
  BY <1>1 DEF StartRefresh, Unauthorized, Busy, server
<1>3. /\ request \in [Requests -> Request]
      /\ request' = [request EXCEPT ![r] = n]
      /\ \A s \in Requests \ {r} : request'[s] = request[s]
      /\ request'[r] = n
  BY DEF StartRefresh, Safe, Typed, TypeOK
<1>4. /\ n \in Request
      /\ n.step = "refreshing" /\ n.posted = storage /\ n.answer = NONE
      /\ n.tab = t
  <2>1. request[r] \in Request /\ storage \in Tokens \cup {NONE}
    BY DEF Safe, Typed, TypeOK
  <2>2. n \in Request
    BY <2>1 DEF Request
  <2>3. n.step = "refreshing" /\ n.posted = storage /\ n.answer = NONE
    BY <2>1 DEF Request
  <2>4. n.tab = t
    BY <1>1, <2>1 DEF Request
  <2> QED BY <2>2, <2>3, <2>4
<1> HIDE DEF n
<1>5. request' \in [Requests -> Request]
  BY <1>3, <1>4
<1>6. /\ isRefreshing \in [Tabs -> BOOLEAN]
      /\ isRefreshing'[t] = TRUE
      /\ \A u \in Tabs \ {t} : isRefreshing'[u] = isRefreshing[u]
  BY <1>2 DEF Safe, Typed, TypeOK
<1>7. Typed'
  <2>1. TypeOK'
    BY <1>2, <1>5 DEF Safe, Typed, TypeOK
  <2>2. \A s \in Requests : StepOK(request'[s])
    BY <1>2, <1>3, <1>4 DEF Safe, Typed, StepOK
  <2> QED BY <2>1, <2>2 DEF Typed, StepOK
<1>8. FlagMeansRefresh'
  BY <1>2, <1>3, <1>4, <1>6 DEF Safe, FlagMeansRefresh, InFlight
<1>9. \A s \in Requests \ {r} :
        request[s].posted # storage \/ request[s].tab # t
  BY <1>2 DEF Safe, Rotation
<1>10. Rotation'
  <2>1. \A s \in Requests : StepOK(request[s])
    BY DEF Safe, Typed
  <2> QED BY <1>2, <1>3, <1>4, <1>6, <2>1 DEF Safe, Rotation, StepOK
<1>11. NeverReposted'
  BY <1>2, <1>3, <1>4, <1>9 DEF Safe, NeverReposted
<1> QED BY <1>7, <1>8, <1>10, <1>11 DEF Safe

\* The end of a refresh: the token answered was in no other place.
LEMMA RefreshedSafe ==
  ASSUME Safe, NEW r \in Requests, Refreshed(r)
  PROVE  Safe'
<1> USE TokenRefreshAssumption
<1>1. PICK t \in Tabs : t = request[r].tab
  BY DEF Refreshed, Safe, Typed, StepOK
<1>2. PICK p \in Tokens : p = request[r].answer
  BY DEF Refreshed
<1>3. /\ request[r].step = "refreshing"
      /\ isRefreshing' = [isRefreshing EXCEPT ![t] = FALSE]
      /\ subject' = [subject EXCEPT ![t] = p]
      /\ storage' = p /\ issued' = issued /\ live' = live
      /\ logins' = logins /\ abandoned' = abandoned
  BY <1>1, <1>2 DEF Refreshed, Stored, server
<1>4. /\ request \in [Requests -> Request]
      /\ \A s \in Requests : StepOK(request[s])
  BY DEF Safe, Typed, TypeOK
<1> DEFINE n(s) ==
      IF s = r THEN [request[s] EXCEPT !.step = "retried", !.carries = p,
                                       !.answer = NONE]
      ELSE IF s \in Released(t)
           THEN [request[s] EXCEPT !.step = "resent", !.carries = p]
           ELSE request[s]
<1>5. request' = [s \in Requests |-> n(s)]
  BY <1>1, <1>2 DEF Refreshed
<1>6. ASSUME NEW s \in Requests
      PROVE  /\ n(s) \in Request /\ StepOK(n(s))
             /\ n(s).posted = request[s].posted
             /\ n(s).tab = request[s].tab
             /\ s # r => n(s).answer = request[s].answer
             /\ s # r /\ request[s].step = "refreshing" =>
                  n(s).step = "refreshing"
             /\ n(r).answer = NONE
  <2>1. CASE s = r
    BY <1>3, <1>4, <2>1 DEF Request, StepOK
  <2>2. CASE s # r /\ s \in Released(t)
    BY <1>3, <1>4, <2>2 DEF Request, StepOK, Released
  <2>3. CASE s # r /\ s \notin Released(t)
    BY <1>4, <2>3 DEF Request
  <2> QED BY <2>1, <2>2, <2>3
<1>7. \A s \in Requests : request'[s] = n(s)
  BY <1>5
<1> HIDE DEF n
<1>8. Typed'
  <2>1. request' \in [Requests -> Request]
    BY <1>5, <1>6
  <2>2. TypeOK'
    BY <1>3, <2>1 DEF Safe, Typed, TypeOK
  <2>3. \A s \in Requests : StepOK(request'[s])
    BY <1>6, <1>7
  <2> QED BY <2>2, <2>3 DEF Typed, StepOK
<1>9. /\ isRefreshing'[t] = FALSE
      /\ \A u \in Tabs \ {t} : isRefreshing'[u] = isRefreshing[u]
  BY <1>3 DEF Safe, Typed, TypeOK
<1>10. FlagMeansRefresh'
  BY <1>1, <1>6, <1>7, <1>9 DEF Safe, FlagMeansRefresh, InFlight
<1>11. Rotation'
  <2>1. /\ p \in issued
        /\ \A s \in Requests : /\ request[s].posted # p
                               /\ s # r => request[s].answer # p
    BY <1>2 DEF Safe, Rotation
  <2> QED BY <1>3, <1>6, <1>7, <2>1 DEF Safe, Rotation
<1>12. NeverReposted'
  BY <1>6, <1>7 DEF Safe, NeverReposted
<1> QED BY <1>8, <1>10, <1>11, <1>12 DEF Safe

\* A forced logout empties the storage and ends a refresh, or comes after it.
LEMMA ForcedLogoutSafe ==
  ASSUME Safe, NEW r \in Requests, ForcedLogout(r)
  PROVE  Safe'
<1> USE TokenRefreshAssumption
<1>1. PICK t \in Tabs : t = request[r].tab
  BY DEF ForcedLogout, Safe, Typed, StepOK
<1> DEFINE n == [request[r] EXCEPT !.step = "failed", !.carries = NONE,
                                   !.answer = NONE]
<1>2. /\ isRefreshing' = [isRefreshing EXCEPT ![t] = FALSE]
      /\ storage' = NONE /\ subject' = subject
      /\ issued' = issued /\ live' = live
      /\ logins' = logins
  BY <1>1 DEF ForcedLogout, FlagCleared, server
<1>3. abandoned' \subseteq Requests
  BY DEF ForcedLogout, Released, Safe, Typed, TypeOK
<1>4. /\ request \in [Requests -> Request]
      /\ request' = [request EXCEPT ![r] = n]
      /\ \A s \in Requests \ {r} : request'[s] = request[s]
      /\ request'[r] = n
      /\ \A s \in Requests : StepOK(request[s])
  BY DEF ForcedLogout, Safe, Typed, TypeOK
<1>5. /\ n \in Request
      /\ n.step = "failed" /\ n.posted = request[r].posted
      /\ n.answer = NONE /\ n.tab = t
  <2>1. request[r] \in Request
    BY <1>4
  <2>2. n \in Request
    BY <2>1 DEF Request
  <2>3. n.step = "failed" /\ n.posted = request[r].posted /\ n.answer = NONE
    BY <2>1 DEF Request
  <2>4. n.tab = t
    BY <1>1, <2>1 DEF Request
  <2> QED BY <2>2, <2>3, <2>4
<1> HIDE DEF n
<1>6. Typed'
  <2>1. request' \in [Requests -> Request]
    BY <1>4, <1>5
  <2>2. TypeOK'
    BY <1>2, <1>3, <2>1 DEF Safe, Typed, TypeOK
  <2>3. \A s \in Requests : StepOK(request'[s])
    BY <1>4, <1>5 DEF StepOK
  <2> QED BY <2>2, <2>3 DEF Typed, StepOK
<1>7. /\ isRefreshing'[t] = FALSE
      /\ \A u \in Tabs \ {t} : isRefreshing'[u] = isRefreshing[u]
  BY <1>2 DEF Safe, Typed, TypeOK
<1>8. FlagMeansRefresh'
  BY <1>1, <1>4, <1>5, <1>7 DEF Safe, FlagMeansRefresh, InFlight
<1>9. Rotation'
  BY <1>2, <1>4, <1>5 DEF Safe, Rotation
<1>10. NeverReposted'
  BY <1>1, <1>4, <1>5 DEF Safe, NeverReposted
<1> QED BY <1>6, <1>8, <1>9, <1>10 DEF Safe

\* The steps that leave the requests and the flags alone.
LEMMA SessionSafe ==
  ASSUME Safe, (\E p \in Tokens : Expire(p)) \/ Login \/ Logout
  PROVE  Safe'
<1> USE TokenRefreshAssumption
<1>1. /\ request' = request /\ isRefreshing' = isRefreshing
      /\ subject' = subject /\ abandoned' = abandoned
  BY DEF Expire, Login, Logout
<1>2. FlagMeansRefresh' /\ NeverReposted'
  BY <1>1 DEF Safe, FlagMeansRefresh, InFlight, NeverReposted
<1>3. ASSUME NEW p \in Tokens, Expire(p)
      PROVE  Typed' /\ Rotation'
  BY <1>1, <1>3 DEF Expire, Safe, Typed, TypeOK, StepOK, Rotation
<1>4. ASSUME Login
      PROVE  Typed' /\ Rotation'
  <2>1. PICK p \in Tokens : Issue(p) /\ storage' = p
    BY <1>4 DEF Login, Stored
  <2>2. /\ p \notin issued /\ issued' = issued \cup {p}
        /\ live' = live \cup {p}
    BY <2>1 DEF Issue
  <2>3. Typed'
    BY <1>1, <1>4, <2>1, <2>2 DEF Login, Safe, Typed, TypeOK, StepOK
  <2>4. Rotation'
    BY <1>1, <2>1, <2>2 DEF Safe, Rotation
  <2> QED BY <2>3, <2>4
<1>5. ASSUME Logout
      PROVE  Typed' /\ Rotation'
  BY <1>1, <1>5 DEF Logout, server, Safe, Typed, TypeOK, StepOK, Rotation
<1> QED BY <1>2, <1>3, <1>4, <1>5 DEF Safe

LEMMA NextSafe == Safe /\ [Next]_vars => Safe'
<1> SUFFICES ASSUME Safe, [Next]_vars PROVE Safe'
  OBVIOUS
<1>1. ASSUME NEW r \in Requests,
             \/ \E t \in Tabs : Send(t, r)
             \/ Serve(r) \/ Refuse(r) \/ Deliver(r) \/ Wait(r)
      PROVE  Safe'
  <2>1. Typed
    BY DEF Safe
  <2>2. /\ UNCHANGED <<storage, isRefreshing, subject, server, logins,
                       abandoned>>
        /\ \E q \in Request : /\ StepOK(q) /\ Quiet(request[r], q)
                              /\ request' = [request EXCEPT ![r] = q]
    BY <1>1, <2>1, QuietRequest
  <2>3. subject' \in [Tabs -> Tokens \cup {NONE}]
    BY <2>1, <2>2 DEF Typed, TypeOK
  <2>4. UNCHANGED <<storage, isRefreshing, server, logins, abandoned>>
    BY <2>2
  <2> QED BY <2>2, <2>3, <2>4, QuietSafe
<1>2. ASSUME UNCHANGED vars
      PROVE  Safe'
  BY <1>2 DEF vars, server, Safe, Typed, TypeOK, StepOK, FlagMeansRefresh,
              InFlight, Rotation, NeverReposted
<1> QED BY <1>1, <1>2, RotateSafe, StartRefreshSafe, NoRefreshTokenSafe,
           RefreshedSafe, ForcedLogoutSafe, SessionSafe DEF Next, Handle

LEMMA Invariance == Spec => []Safe
BY InitSafe, NextSafe, PTL DEF Spec

\* Every variable keeps its type: in particular what the interceptor and the
\* login store in localStorage is a token the server issued, or nothing.
THEOREM TokenTypes == Spec => []TypeOK
<1>1. Safe => TypeOK
  BY DEF Safe, Typed
<1> QED BY <1>1, Invariance, PTL

\* However many requests fail at once, in however many tabs: isRefreshing is
\* up only while a refresh of its tab is under way.
THEOREM FlagComesDown == Spec => []FlagMeansRefresh
<1>1. Safe => FlagMeansRefresh
  BY DEF Safe
<1> QED BY <1>1, Invariance, PTL

\* However many requests fail at once and however late their 401s come, a tab
\* posts a refresh token once.
THEOREM PostedOnce == Spec => []NeverReposted
<1>1. Safe => NeverReposted
  BY DEF Safe
<1> QED BY <1>1, Invariance, PTL

=============================================================================
