--------------------------- MODULE SessionsProofs ---------------------------
(***************************************************************************)
(* Locks, sessions and passwords of an account, for any number of          *)
(* requests, devices and attempts.                                         *)
(***************************************************************************)
EXTENDS Sessions, FiniteSetTheorems, TLAPS

\* Types, and a reset about to be made has found its token.
Typed ==
  /\ TypeOK
  /\ \A h \in Handlers : At(h, "reset", "save") => handler[h].of \in DOMAIN resets

----------------------------------------------------------------------------
(* What a step does to one execution.                                      *)

Set(h, q) == q \in Working /\ handler' = [handler EXCEPT ![h] = q]

\* Everything but the step and the epoch.
Same(old, new) ==
  /\ new.op = old.op /\ new.ip = old.ip /\ new.device = old.device
  /\ new.copy = old.copy /\ new.of = old.of /\ new.late = old.late

LEMMA AtWork ==
  ASSUME TypeOK, NEW h \in Handlers, handler[h] # Idle \/ handler[h].step # "idle"
  PROVE  handler[h] \in Working /\ handler[h] # Idle
BY DEF TypeOK, Idle

LEMMA WorkingIsBusy ==
  ASSUME NEW q \in Working
  PROVE  q # Idle /\ q.step # "idle"
BY DEF Working, Idle, Steps

LEMMA SetOthers ==
  ASSUME TypeOK, NEW h \in Handlers, NEW q, Set(h, q)
  PROVE  \A g \in Handlers : handler'[g] = IF g = h THEN q ELSE handler[g]
BY DEF Set, TypeOK

LEMMA DoneOthers ==
  ASSUME TypeOK, NEW h \in Handlers, Done(h)
  PROVE  \A g \in Handlers : handler'[g] = IF g = h THEN Idle ELSE handler[g]
BY DEF Done, TypeOK

LEMMA GotoSets ==
  ASSUME TypeOK, NEW h \in Handlers, handler[h].step # "idle",
         NEW step \in Steps, Goto(h, step)
  PROVE  \E q : /\ Set(h, q) /\ Same(handler[h], q)
                /\ q.step = step /\ q.epoch = handler[h].epoch
<1> DEFINE q == [handler[h] EXCEPT !.step = step]
<1>1. handler[h] \in Working
  BY AtWork
<1>2. q \in Working /\ q.step = step /\ q.epoch = handler[h].epoch /\ Same(handler[h], q)
  BY <1>1 DEF Working, Same
<1>3. handler' = [handler EXCEPT ![h] = q]
  BY DEF Goto
<1> QED BY <1>2, <1>3 DEF Set

\* The steps that take an epoch, too.
GotoEpoch(h, step, e) == handler' = [handler EXCEPT ![h].step = step, ![h].epoch = e]

LEMMA EpochSets ==
  ASSUME TypeOK, NEW h \in Handlers, handler[h].step # "idle",
         NEW step \in Steps, NEW e \in Nat,
         GotoEpoch(h, step, e)
  PROVE  \E q : /\ Set(h, q) /\ Same(handler[h], q)
                /\ q.step = step /\ q.epoch = e
<1> DEFINE q == [handler[h] EXCEPT !.step = step, !.epoch = e]
<1>1. handler[h] \in Working
  BY AtWork
<1>2. q \in Working /\ q.step = step /\ q.epoch = e /\ Same(handler[h], q)
  BY <1>1 DEF Working, Same
<1>3. handler' = [handler EXCEPT ![h] = q]
  BY DEF TypeOK, GotoEpoch
<1> QED BY <1>2, <1>3 DEF Set

LEMMA SessionRows ==
  ASSUME TypeOK, NEW i \in DOMAIN sessions
  PROVE  /\ sessions[i] \in Session
         /\ sessions[i].epoch \in Nat /\ sessions[i].late \in BOOLEAN
         /\ sessions[i].device \in Devices /\ sessions[i].opener \in Handlers
         /\ i \in Nat /\ i \in 1..Len(sessions)
<1>1. sessions[i] \in Session
  BY DEF TypeOK
<1>2. i \in Nat /\ i \in 1..Len(sessions)
  BY DEF TypeOK
<1> HIDE DEF Devices
<1> QED BY <1>1, <1>2 DEF Session

LEMMA FreshSets ==
  ASSUME TypeOK, NEW h \in Handlers, NEW op \in Operations \ {"refresh"}, NEW step \in Steps,
         NEW ip \in Addresses \cup {NONE}, NEW d \in Devices \cup {NONE},
         NEW copy \in User \cup {NONE}, NEW of \in Nat,
         Start(h, op, step, ip, d, copy, of)
  PROVE  /\ handler[h] = Idle /\ requests' = requests + 1
         /\ \E q : /\ Set(h, q) /\ q.op = op /\ q.step = step /\ q.ip = ip
                   /\ q.device = d /\ q.copy = copy /\ q.of = of /\ q.epoch = epoch
<1> DEFINE q == [op |-> op, step |-> step, ip |-> ip, device |-> d, copy |-> copy,
                 of |-> of, epoch |-> epoch, late |-> FALSE]
<1>1. (op = "refresh" /\ sessions[of].late) = FALSE
  OBVIOUS
<1>2. (IF op = "refresh" THEN sessions[of].epoch ELSE epoch) = epoch
  OBVIOUS
<1>3. handler' = [handler EXCEPT ![h] = q] /\ handler[h] = Idle /\ requests' = requests + 1
  BY <1>1, <1>2 DEF Start
<1> HIDE DEF Devices, User
<1>4. q \in Working
  BY DEF Working, TypeOK
<1>5. /\ q.op = op /\ q.step = step /\ q.ip = ip /\ q.device = d /\ q.copy = copy
      /\ q.of = of /\ q.epoch = epoch
  OBVIOUS
<1> HIDE DEF q
<1> QED BY <1>3, <1>4, <1>5 DEF Set

LEMMA RefreshSets ==
  ASSUME TypeOK, NEW h \in Handlers, NEW step \in Steps, NEW d \in Devices,
         NEW of \in DOMAIN sessions, Start(h, "refresh", step, NONE, d, NONE, of)
  PROVE  /\ handler[h] = Idle /\ requests' = requests + 1
         /\ \E q : /\ Set(h, q) /\ q.op = "refresh" /\ q.step = step /\ q.device = d
                   /\ q.of = of /\ q.epoch = sessions[of].epoch
                   /\ q.late = sessions[of].late
<1> DEFINE q == [op |-> "refresh", step |-> step, ip |-> NONE, device |-> d,
                 copy |-> NONE, of |-> of, epoch |-> sessions[of].epoch,
                 late |-> sessions[of].late]
<1>1. of \in Nat /\ sessions[of].late \in BOOLEAN /\ sessions[of].epoch \in Nat
  BY SessionRows
<1>2. ("refresh" = "refresh" /\ sessions[of].late) = sessions[of].late
  BY <1>1
<1>3. handler' = [handler EXCEPT ![h] = q] /\ handler[h] = Idle /\ requests' = requests + 1
  BY <1>2 DEF Start
<1> HIDE DEF Devices, User
<1>4. q \in Working
  BY <1>1 DEF Working, Operations
<1>5. /\ q.op = "refresh" /\ q.step = step /\ q.device = d
      /\ q.of = of /\ q.epoch = sessions[of].epoch /\ q.late = sessions[of].late
  OBVIOUS
<1> HIDE DEF q
<1> QED BY <1>3, <1>4, <1>5 DEF Set

----------------------------------------------------------------------------
(* What a step does to the rows.                                           *)

\* Rows keep everything but their mark, which is only set.
Marked(marked) ==
  /\ sessions' \in Seq(Session) /\ DOMAIN sessions' = DOMAIN sessions
  /\ \A i \in DOMAIN sessions :
       /\ sessions'[i].device = sessions[i].device /\ sessions'[i].epoch = sessions[i].epoch
       /\ sessions'[i].opener = sessions[i].opener /\ sessions'[i].late = sessions[i].late
       /\ ~sessions'[i].revoked => ~sessions[i].revoked /\ i \notin marked

LEMMA RevokeMarks ==
  ASSUME TypeOK, NEW marked, Revoke(marked)
  PROVE  Marked(marked)
<1>1. ASSUME NEW i \in DOMAIN sessions
      PROVE  LET row == [sessions[i] EXCEPT !.revoked = @ \/ i \in marked]
             IN  /\ row \in Session
                 /\ row.device = sessions[i].device /\ row.epoch = sessions[i].epoch
                 /\ row.opener = sessions[i].opener /\ row.late = sessions[i].late
                 /\ ~row.revoked => ~sessions[i].revoked /\ i \notin marked
  <2> DEFINE mark == sessions[i].revoked \/ i \in marked
  <2>1. mark \in BOOLEAN
    OBVIOUS
  <2>2. mark = FALSE => ~sessions[i].revoked /\ i \notin marked
    OBVIOUS
  <2> HIDE DEF mark
  <2>3. sessions[i] \in Session
    BY SessionRows
  <2>4. LET row == [sessions[i] EXCEPT !.revoked = mark]
        IN  /\ row \in Session
            /\ row.device = sessions[i].device /\ row.epoch = sessions[i].epoch
            /\ row.opener = sessions[i].opener /\ row.late = sessions[i].late
            /\ row.revoked = mark
    BY <2>1, <2>3 DEF Session
  <2> QED BY <2>1, <2>2, <2>4 DEF mark
<1>2. sessions' = [i \in DOMAIN sessions |->
                     [sessions[i] EXCEPT !.revoked = @ \/ i \in marked]]
  BY DEF Revoke
<1>3. DOMAIN sessions = 1..Len(sessions) /\ Len(sessions) \in Nat
  BY DEF TypeOK
<1>4. sessions' \in Seq(Session) /\ DOMAIN sessions' = DOMAIN sessions
  BY <1>1, <1>2, <1>3
<1> QED BY <1>1, <1>2, <1>4 DEF Marked

\* A row is added.
Added(row) ==
  /\ sessions' \in Seq(Session) /\ DOMAIN sessions' = DOMAIN sessions \cup {Len(sessions) + 1}
  /\ Len(sessions) + 1 \notin DOMAIN sessions
  /\ \A i \in DOMAIN sessions : sessions'[i] = sessions[i]
  /\ sessions'[Len(sessions) + 1] = row

LEMMA OpenAdds ==
  ASSUME TypeOK, NEW h \in Handlers, OpenSession(h)
  PROVE  /\ handler[h] \in Working
         /\ \E row \in Session :
              /\ Added(row)
              /\ row.device = handler[h].device /\ row.epoch = handler[h].epoch
              /\ row.opener = h /\ row.late = handler[h].late
<1>1. handler[h] \in Working /\ handler[h].device \in Devices
  BY AtWork DEF OpenSession, TypeOK
<1> DEFINE row == [device |-> handler[h].device, revoked |-> FALSE,
                   epoch |-> handler[h].epoch, opener |-> h, late |-> handler[h].late]
<1>2. row \in Session
  <2> HIDE DEF Devices
  <2> QED BY <1>1 DEF Working, Session
<1>3. sessions' = Append(sessions, row) /\ sessions \in Seq(Session)
  BY DEF OpenSession, TypeOK
<1>4. /\ row.device = handler[h].device /\ row.epoch = handler[h].epoch
      /\ row.opener = h /\ row.late = handler[h].late
  OBVIOUS
<1> HIDE DEF row
<1>5. Added(row)
  BY <1>2, <1>3 DEF Added
<1> QED BY <1>1, <1>2, <1>4, <1>5

\* The same of the tokens that reset a password.
ResetsMarked(marked) ==
  /\ resets' \in Seq(Reset) /\ DOMAIN resets' = DOMAIN resets
  /\ \A i \in DOMAIN resets :
       /\ resets'[i].issuer = resets[i].issuer
       /\ ~resets'[i].used => ~resets[i].used /\ i \notin marked

LEMMA ResetRows ==
  ASSUME TypeOK, NEW i \in DOMAIN resets
  PROVE  /\ resets[i] \in Reset /\ resets[i].used \in BOOLEAN
         /\ resets[i].issuer \in Handlers /\ i \in Nat /\ i \in 1..Len(resets)
<1>1. resets[i] \in Reset
  BY DEF TypeOK
<1>2. i \in Nat /\ i \in 1..Len(resets)
  BY DEF TypeOK
<1> QED BY <1>1, <1>2 DEF Reset

LEMMA CancelMarks ==
  ASSUME TypeOK, NEW h \in Handlers, CancelResets(h)
  PROVE  ResetsMarked(DOMAIN resets)
<1>1. ASSUME NEW i \in DOMAIN resets
      PROVE  LET row == [resets[i] EXCEPT !.used = @ \/ i \in OldResets]
             IN  row \in Reset /\ row.issuer = resets[i].issuer /\ row.used
  <2>1. resets[i] \in Reset
    BY ResetRows
  <2>2. (resets[i].used \/ i \in OldResets) = TRUE
    BY DEF OldResets
  <2>3. LET row == [resets[i] EXCEPT !.used = TRUE]
        IN  row \in Reset /\ row.issuer = resets[i].issuer /\ row.used
    BY <2>1 DEF Reset
  <2> QED BY <2>2, <2>3
<1>2. resets' = [i \in DOMAIN resets |-> [resets[i] EXCEPT !.used = @ \/ i \in OldResets]]
  BY DEF CancelResets
<1>3. DOMAIN resets = 1..Len(resets) /\ Len(resets) \in Nat
  BY DEF TypeOK
<1>4. DOMAIN resets' = DOMAIN resets /\ resets' \in Seq(Reset)
  BY <1>1, <1>2, <1>3
<1> QED BY <1>1, <1>2, <1>4 DEF ResetsMarked

LEMMA UseMarks ==
  ASSUME Typed, NEW h \in Handlers, UseReset(h)
  PROVE  ResetsMarked({handler[h].of})
<1>1. handler[h].of \in DOMAIN resets
  BY DEF UseReset, At, Typed, TypeOK
<1> DEFINE k == handler[h].of
           row == [resets[k] EXCEPT !.used = TRUE]
<1>2. resets' = [resets EXCEPT ![k] = row]
  BY DEF UseReset
<1>3. resets \in Seq(Reset) /\ resets[k] \in Reset /\ k \in DOMAIN resets
  BY <1>1, ResetRows DEF Typed, TypeOK
<1>4. row \in Reset /\ row.issuer = resets[k].issuer /\ row.used
  BY <1>3 DEF Reset
<1> HIDE DEF row, k
<1>5. DOMAIN resets' = DOMAIN resets /\ resets' \in Seq(Reset)
  BY <1>2, <1>3, <1>4
<1>6. \A i \in DOMAIN resets : resets'[i] = IF i = k THEN row ELSE resets[i]
  BY <1>2, <1>3
<1>7. ResetsMarked({k})
  BY <1>4, <1>5, <1>6 DEF ResetsMarked
<1> QED BY <1>7 DEF k

LEMMA IssueAdds ==
  ASSUME TypeOK, NEW h \in Handlers, IssueReset(h)
  PROVE  /\ resets' \in Seq(Reset)
         /\ DOMAIN resets' = DOMAIN resets \cup {Len(resets) + 1}
         /\ Len(resets) + 1 \notin DOMAIN resets
         /\ \A i \in DOMAIN resets : resets'[i] = resets[i]
         /\ resets'[Len(resets) + 1].issuer = h
<1>1. NewReset(h) \in Reset /\ NewReset(h).issuer = h
  BY DEF NewReset, Reset
<1>2. resets' = Append(resets, NewReset(h)) /\ resets \in Seq(Reset)
  BY DEF IssueReset, TypeOK
<1> QED BY <1>1, <1>2

----------------------------------------------------------------------------
(* The kinds of steps of one execution.                                    *)

\* An execution has what the step it is at needs.
Equipped(q) ==
  /\ q.step \in {"find", "count", "lock", "clear"} => q.op = "login" /\ q.ip \in Addresses
  /\ q.step \in {"find", "clear", "retire", "revoke", "open"} => q.device \in Devices
  /\ q.step = "save" /\ q.op # "reset" => q.copy \in User
  /\ q.step = "retire" => q.of \in DOMAIN sessions
  /\ q.step = "use" => q.of \in DOMAIN resets
  /\ q.step = "save" /\ q.op = "reset" => q.of \in DOMAIN resets

\* It begins, from what the database says now or from a session that is open.
Starts(h, q) ==
  /\ handler[h] = Idle /\ Set(h, q) /\ Equipped(q)
  /\ q.step \in {"find", "retire", "save", "cancel"}
  /\ q.step = "find" => ~locked[q.ip]
  /\ q.step = "save" /\ q.op # "reset" => q.copy.password = user.password
  /\ \/ q.epoch = epoch
     \/ \E i \in DOMAIN sessions : /\ Live(i)
                                   /\ q.epoch = sessions[i].epoch /\ q.late = sessions[i].late
  /\ requests' = requests + 1
  /\ UNCHANGED <<user, suspended, sessions, resets, attempts, locked, finds,
                 epoch, closed, revived, lockLost>>

\* It goes on to another step; a password it sets is the newest.
Goes(h, q) ==
  /\ handler[h] \in Working /\ Set(h, q) /\ Same(handler[h], q)
  /\ q.epoch = handler[h].epoch \/ q.epoch = user.password \/ q.epoch = epoch'
  /\ epoch' = epoch \/ epoch' = epoch + 1
  /\ user' \in User
  /\ \/ user' = user /\ epoch' = epoch
     \/ user'.password = epoch'
  /\ UNCHANGED <<suspended, locked, finds, requests, closed, revived, lockLost>>

\* What a method loads is the newest there is, when it begins with no session.
LEMMA FreshStarts ==
  ASSUME NEW h \in Handlers, NEW q, handler[h] = Idle, Set(h, q), Equipped(q),
         q.step = "find" => ~locked[q.ip],
         q.step \in {"find", "save", "cancel"}, q.epoch = epoch,
         q.step = "save" /\ q.op # "reset" => q.copy.password = user.password,
         requests' = requests + 1,
         UNCHANGED <<user, suspended, sessions, resets, attempts, locked, finds,
                     epoch, closed, revived, lockLost>>
  PROVE  Starts(h, q)
<1> HIDE DEF Set, Equipped
<1> QED BY DEF Starts

LEMMA Starting ==
  ASSUME TypeOK, NEW h \in Handlers,
         \/ BeginLogin(h) \/ FindToken(h) \/ BeginChange(h) \/ BeginEdit(h)
         \/ BeginForgot(h) \/ FindReset(h)
  PROVE  \E q : Starts(h, q)
<1> USE DEF Operations, Steps
<1> HIDE DEF Devices
<1> HIDE DEF User
<1>0. user \in User
  BY DEF TypeOK
<1>n. /\ NONE \in Addresses \cup {NONE} /\ NONE \in Devices \cup {NONE}
      /\ NONE \in User \cup {NONE} /\ user \in User \cup {NONE} /\ 0 \in Nat
  BY <1>0
<1>1. CASE BeginLogin(h)
  <2>1. PICK ip \in Addresses, d \in Devices :
          ~locked[ip] /\ Start(h, "login", "find", ip, d, NONE, 0)
    BY <1>1 DEF BeginLogin
  <2>2. handler[h] = Idle /\ requests' = requests + 1
    BY <2>1 DEF Start
  <2>3. PICK q : /\ Set(h, q) /\ q.op = "login" /\ q.step = "find" /\ q.ip = ip
                 /\ q.device = d /\ q.epoch = epoch
    <3>1. /\ "login" \in Operations \ {"refresh"} /\ "find" \in Steps
          /\ ip \in Addresses \cup {NONE} /\ d \in Devices \cup {NONE}
      OBVIOUS
    <3> HIDE DEF Operations, Steps
    <3>2. Start(h, "login", "find", ip, d, NONE, 0)
      BY <2>1
    <3>3. \E q : /\ Set(h, q) /\ q.op = "login" /\ q.step = "find" /\ q.ip = ip
                /\ q.device = d /\ q.copy = NONE /\ q.of = 0 /\ q.epoch = epoch
      BY <1>n, <3>1, <3>2, FreshSets
    <3> QED BY <3>3
  <2>4. Equipped(q)
    BY <2>3 DEF Equipped
  <2>8. Starts(h, q)
    BY <1>1, <2>1, <2>2, <2>3, <2>4 DEF BeginLogin, Starts
  <2> QED BY <2>8
<1>2. CASE FindToken(h)
  <2>1. PICK i \in DOMAIN sessions, d \in Devices :
          Live(i) /\ Start(h, "refresh", "retire", NONE, d, NONE, i)
    BY <1>2 DEF FindToken
  <2>2. sessions[i].late \in BOOLEAN /\ i \in Nat
    BY SessionRows
  <2>3. PICK q : /\ Set(h, q) /\ q.op = "refresh" /\ q.step = "retire" /\ q.of = i
                 /\ q.device = d /\ q.epoch = sessions[i].epoch
                 /\ q.late = sessions[i].late
    BY <2>1, RefreshSets DEF Steps
  <2>4. handler[h] = Idle /\ requests' = requests + 1
    BY <2>1 DEF Start
  <2>5. Equipped(q)
    BY <2>3 DEF Equipped
  <2>8. Starts(h, q)
    BY <1>2, <2>1, <2>3, <2>4, <2>5 DEF FindToken, Starts
  <2> QED BY <2>8
<1>3. CASE BeginChange(h)
  <2>1. Start(h, "change", "save", NONE, NONE, user, 0)
    BY <1>3 DEF BeginChange
  <2>2. handler[h] = Idle /\ requests' = requests + 1
    BY <2>1 DEF Start
  <2>3. PICK q : /\ Set(h, q) /\ q.op = "change" /\ q.step = "save"
                 /\ q.copy = user /\ q.epoch = epoch
    <3>1. "change" \in Operations \ {"refresh"} /\ "save" \in Steps
      OBVIOUS
    <3> HIDE DEF Operations, Steps
    <3>2. \E q : /\ Set(h, q) /\ q.op = "change" /\ q.step = "save" /\ q.ip = NONE
                /\ q.device = NONE /\ q.copy = user /\ q.of = 0 /\ q.epoch = epoch
      BY <1>n, <2>1, <3>1, FreshSets
    <3> QED BY <3>2
  <2>4. Equipped(q)
    BY <1>0, <2>3 DEF Equipped
  <2>7. UNCHANGED <<user, suspended, sessions, resets, attempts, locked, finds,
                  epoch, closed, revived, lockLost>>
    BY <1>3 DEF BeginChange
  <2>8. Starts(h, q)
    BY <2>2, <2>3, <2>4, <2>7, FreshStarts
  <2> QED BY <2>8
<1>4. CASE BeginEdit(h)
  <2>1. PICK state \in UserStates :
          Start(h, "edit", "save", NONE, NONE, [user EXCEPT !.state = state], 0)
    BY <1>4 DEF BeginEdit
  <2>2. handler[h] = Idle /\ requests' = requests + 1
    BY <2>1 DEF Start
  <2> DEFINE copy == [user EXCEPT !.state = state]
  <2>3. copy \in User /\ copy.password = user.password
    BY <1>0 DEF User
  <2> HIDE DEF copy, User
  <2>4. Start(h, "edit", "save", NONE, NONE, copy, 0)
    BY <2>1 DEF copy
  <2>5. PICK q : /\ Set(h, q) /\ q.op = "edit" /\ q.step = "save"
                 /\ q.copy = copy /\ q.epoch = epoch
    <3>1. "edit" \in Operations \ {"refresh"} /\ "save" \in Steps
      OBVIOUS
    <3> HIDE DEF Operations, Steps
    <3>2. \E q : /\ Set(h, q) /\ q.op = "edit" /\ q.step = "save" /\ q.ip = NONE
                /\ q.device = NONE /\ q.copy = copy /\ q.of = 0 /\ q.epoch = epoch
      BY <1>n, <2>3, <2>4, <3>1, FreshSets
    <3> QED BY <3>2
  <2>6. Equipped(q)
    BY <2>3, <2>5 DEF Equipped
  <2>7. UNCHANGED <<user, suspended, sessions, resets, attempts, locked, finds,
                  epoch, closed, revived, lockLost>>
    BY <1>4 DEF BeginEdit
  <2>8. Starts(h, q)
    BY <2>2, <2>3, <2>5, <2>6, <2>7, FreshStarts
  <2> QED BY <2>8
<1>5. CASE BeginForgot(h)
  <2>1. Start(h, "forgot", "cancel", NONE, NONE, NONE, 0)
    BY <1>5 DEF BeginForgot
  <2>2. handler[h] = Idle /\ requests' = requests + 1
    BY <2>1 DEF Start
  <2>3. PICK q : Set(h, q) /\ q.op = "forgot" /\ q.step = "cancel" /\ q.epoch = epoch
    <3>1. "forgot" \in Operations \ {"refresh"} /\ "cancel" \in Steps
      OBVIOUS
    <3> HIDE DEF Operations, Steps
    <3>2. \E q : /\ Set(h, q) /\ q.op = "forgot" /\ q.step = "cancel" /\ q.ip = NONE
                /\ q.device = NONE /\ q.copy = NONE /\ q.of = 0 /\ q.epoch = epoch
      BY <1>n, <2>1, <3>1, FreshSets
    <3> QED BY <3>2
  <2>4. Equipped(q)
    BY <2>3 DEF Equipped
  <2>7. UNCHANGED <<user, suspended, sessions, resets, attempts, locked, finds,
                  epoch, closed, revived, lockLost>>
    BY <1>5 DEF BeginForgot
  <2>8. Starts(h, q)
    BY <2>2, <2>3, <2>4, <2>7, FreshStarts
  <2> QED BY <2>8
<1>6. CASE FindReset(h)
  <2>1. PICK i \in DOMAIN resets : Start(h, "reset", "save", NONE, NONE, NONE, i)
    BY <1>6 DEF FindReset
  <2>2. handler[h] = Idle /\ requests' = requests + 1
    BY <2>1 DEF Start
  <2>3. i \in Nat
    BY ResetRows
  <2>4. PICK q : /\ Set(h, q) /\ q.op = "reset" /\ q.step = "save" /\ q.of = i
                 /\ q.epoch = epoch
    <3>1. "reset" \in Operations \ {"refresh"} /\ "save" \in Steps
      OBVIOUS
    <3> HIDE DEF Operations, Steps
    <3>3. NONE \in Addresses \cup {NONE} /\ NONE \in Devices \cup {NONE} /\ NONE \in User \cup {NONE}
      OBVIOUS
    <3>4. ASSUME NEW n \in Nat, Start(h, "reset", "save", NONE, NONE, NONE, n)
          PROVE  \E q : /\ Set(h, q) /\ q.op = "reset" /\ q.step = "save" /\ q.ip = NONE
                         /\ q.device = NONE /\ q.copy = NONE /\ q.of = n /\ q.epoch = epoch
      BY <3>1, <3>3, <3>4, FreshSets
    <3>5. \E q : /\ Set(h, q) /\ q.op = "reset" /\ q.step = "save" /\ q.ip = NONE
                /\ q.device = NONE /\ q.copy = NONE /\ q.of = i /\ q.epoch = epoch
      BY <2>1, <2>3, <3>4
    <3> QED BY <3>5
  <2>5. Equipped(q)
    BY <2>4 DEF Equipped
  <2>7. UNCHANGED <<user, suspended, sessions, resets, attempts, locked, finds,
                  epoch, closed, revived, lockLost>>
    BY <1>6 DEF FindReset
  <2>8. Starts(h, q)
    BY <2>2, <2>4, <2>5, <2>7, FreshStarts
  <2> QED BY <2>8
<1> QED BY <1>1, <1>2, <1>3, <1>4, <1>5, <1>6

LEMMA Going ==
  ASSUME TypeOK, NEW h \in Handlers
  PROVE
    /\ WrongPassword(h) => \E q : Goes(h, q) /\ q.step = "count"
    /\ RightPassword(h) /\ ~Done(h) => \E q : Goes(h, q) /\ q.step = "clear"
    /\ CountFailure(h) /\ ~Done(h) => \E q : Goes(h, q) /\ q.step = "lock"
    /\ ClearAttempts(h) => \E q : Goes(h, q) /\ q.step = "revoke"
    /\ RevokeDevice(h) => \E q : Goes(h, q) /\ q.step = "open"
    /\ RetireToken(h) => \E q : Goes(h, q) /\ q.step = "revoke"
    /\ SavePassword(h) => \E q : Goes(h, q) /\ q.step = "close"
    /\ CancelResets(h) => \E q : Goes(h, q) /\ q.step = "issue"
    /\ ResetPassword(h) => \E q : Goes(h, q) /\ q.step = "use"
    /\ UseReset(h) => \E q : Goes(h, q) /\ q.step = "close"
<1>1. user \in User /\ epoch \in Nat /\ epoch + 1 \in Nat
  BY DEF TypeOK
<1>2. user.password \in Nat
  BY <1>1 DEF User
<1> USE DEF Steps
<1> HIDE DEF User
<1>3. ASSUME WrongPassword(h) PROVE \E q : Goes(h, q) /\ q.step = "count"
  <2>1. handler[h].step # "idle"
    BY <1>3 DEF WrongPassword, At
  <2>2. Goto(h, "count")
    BY <1>3 DEF WrongPassword
  <2> QED BY <1>1, <1>3, <2>1, <2>2, AtWork, GotoSets DEF WrongPassword, Goes
<1>4. ASSUME RightPassword(h) /\ ~Done(h) PROVE \E q : Goes(h, q) /\ q.step = "clear"
  <2>1. handler[h].step # "idle"
    BY <1>4 DEF RightPassword, At
  <2>2. GotoEpoch(h, "clear", user.password)
    BY <1>4 DEF RightPassword, GotoEpoch
  <2>3. PICK q : Set(h, q) /\ Same(handler[h], q) /\ q.step = "clear" /\ q.epoch = user.password
    BY <1>2, <2>1, <2>2, EpochSets
  <2> QED BY <1>1, <1>2, <1>4, <2>1, <2>3, AtWork DEF RightPassword, Goes
<1>5. ASSUME CountFailure(h) /\ ~Done(h) PROVE \E q : Goes(h, q) /\ q.step = "lock"
  <2>1. handler[h].step # "idle"
    BY <1>5 DEF CountFailure, At
  <2>2. Goto(h, "lock")
    BY <1>5 DEF CountFailure
  <2> QED BY <1>1, <1>5, <2>1, <2>2, AtWork, GotoSets DEF CountFailure, Goes
<1>6. ASSUME ClearAttempts(h) PROVE \E q : Goes(h, q) /\ q.step = "revoke"
  <2>1. handler[h].step # "idle"
    BY <1>6 DEF ClearAttempts, At
  <2>2. Goto(h, "revoke")
    BY <1>6 DEF ClearAttempts
  <2> QED BY <1>1, <1>6, <2>1, <2>2, AtWork, GotoSets DEF ClearAttempts, Goes
<1>7. ASSUME RevokeDevice(h) PROVE \E q : Goes(h, q) /\ q.step = "open"
  <2>1. handler[h].step # "idle"
    BY <1>7 DEF RevokeDevice, At
  <2>2. Goto(h, "open")
    BY <1>7 DEF RevokeDevice
  <2> QED BY <1>1, <1>7, <2>1, <2>2, AtWork, GotoSets DEF RevokeDevice, Goes
<1>8. ASSUME RetireToken(h) PROVE \E q : Goes(h, q) /\ q.step = "revoke"
  <2>1. handler[h].step # "idle"
    BY <1>8 DEF RetireToken, At
  <2>2. Goto(h, "revoke")
    BY <1>8 DEF RetireToken
  <2> QED BY <1>1, <1>8, <2>1, <2>2, AtWork, GotoSets DEF RetireToken, Goes
<1>9. ASSUME SavePassword(h) PROVE \E q : Goes(h, q) /\ q.step = "close"
  <2>1. handler[h].step # "idle"
    BY <1>9 DEF SavePassword, At
  <2>2. GotoEpoch(h, "close", epoch + 1)
    BY <1>9 DEF SavePassword, GotoEpoch
  <2>3. PICK q : Set(h, q) /\ Same(handler[h], q) /\ q.step = "close" /\ q.epoch = epoch + 1
    BY <1>1, <2>1, <2>2, EpochSets
  <2>4. user' \in User /\ user'.password = epoch'
    <3>1. handler[h].copy \in User
      BY <1>9 DEF SavePassword, At, TypeOK
    <3>2. user' = [handler[h].copy EXCEPT !.password = epoch + 1] /\ epoch' = epoch + 1
      BY <1>9 DEF SavePassword
    <3> QED BY <1>1, <3>1, <3>2 DEF User
  <2> QED BY <1>1, <1>9, <2>1, <2>3, <2>4, AtWork DEF SavePassword, Goes
<1>10. ASSUME CancelResets(h) PROVE \E q : Goes(h, q) /\ q.step = "issue"
  <2>1. handler[h].step # "idle"
    BY <1>10 DEF CancelResets, At
  <2>2. Goto(h, "issue")
    BY <1>10 DEF CancelResets
  <2> QED BY <1>1, <1>10, <2>1, <2>2, AtWork, GotoSets DEF CancelResets, Goes
<1>11. ASSUME ResetPassword(h) PROVE \E q : Goes(h, q) /\ q.step = "use"
  <2>1. handler[h].step # "idle"
    BY <1>11 DEF ResetPassword, At
  <2>2. GotoEpoch(h, "use", epoch + 1)
    BY <1>11 DEF ResetPassword, GotoEpoch
  <2>3. PICK q : Set(h, q) /\ Same(handler[h], q) /\ q.step = "use" /\ q.epoch = epoch + 1
    BY <1>1, <2>1, <2>2, EpochSets
  <2>4. user' \in User /\ user'.password = epoch'
    <3>1. user' = [user EXCEPT !.password = epoch + 1] /\ epoch' = epoch + 1
      BY <1>11 DEF ResetPassword
    <3> QED BY <1>1, <3>1 DEF User
  <2> QED BY <1>1, <1>11, <2>1, <2>3, <2>4, AtWork DEF ResetPassword, Goes
<1>12. ASSUME UseReset(h) PROVE \E q : Goes(h, q) /\ q.step = "close"
  <2>1. handler[h].step # "idle"
    BY <1>12 DEF UseReset, At
  <2>2. Goto(h, "close")
    BY <1>12 DEF UseReset
  <2> QED BY <1>1, <1>12, <2>1, <2>2, AtWork, GotoSets DEF UseReset, Goes
<1> QED BY <1>3, <1>4, <1>5, <1>6, <1>7, <1>8, <1>9, <1>10, <1>11, <1>12

----------------------------------------------------------------------------
(* Types.                                                                  *)

\* What the types say of everything but the executions.
DataOK ==
  /\ user \in User /\ suspended \in BOOLEAN /\ finds \in Lookups
  /\ sessions \in Seq(Session) /\ resets \in Seq(Reset)
  /\ attempts \in [Addresses -> Nat] /\ locked \in [Addresses -> BOOLEAN]
  /\ requests \in Nat /\ epoch \in Nat /\ closed \in Nat
  /\ revived \subseteq Nat /\ lockLost \subseteq Addresses

LEMMA TypedParts ==
  Typed <=> /\ DataOK
            /\ handler \in [Handlers -> Working \cup {Idle}]
            /\ \A h \in Handlers : Equipped(handler[h])
BY DEF Typed, TypeOK, DataOK, Equipped, At

LEMMA InitTyped == Init => Typed
<1> SUFFICES ASSUME Init PROVE Typed
  OBVIOUS
<1>1. DataOK
  <2>1. sessions \in Seq(Session) /\ resets \in Seq(Reset)
    BY DEF Init
  <2>2. /\ requests \in Nat /\ epoch \in Nat /\ closed \in Nat /\ finds \in Lookups
        /\ revived \subseteq Nat /\ lockLost \subseteq Addresses
    BY DEF Init
  <2>3. attempts \in [Addresses -> Nat] /\ locked \in [Addresses -> BOOLEAN]
    BY DEF Init
  <2>4. user \in User /\ suspended \in BOOLEAN
    BY DEF Init, User, UserStates
  <2> QED BY <2>1, <2>2, <2>3, <2>4 DEF DataOK
<1>2. \A h \in Handlers : Equipped(handler[h])
  BY DEF Init, Equipped, Idle
<1>3. handler \in [Handlers -> Working \cup {Idle}]
  BY DEF Init
<1> QED BY <1>1, <1>2, <1>3, TypedParts

\* No step loses a row.
RowsStay == DOMAIN sessions \subseteq DOMAIN sessions' /\ DOMAIN resets \subseteq DOMAIN resets'

LEMMA SetTyped ==
  ASSUME Typed, NEW h \in Handlers, NEW q, Set(h, q), DataOK', RowsStay, Equipped(q)'
  PROVE  Typed'
<1>1. handler' \in [Handlers -> Working \cup {Idle}]
  BY DEF Set, Typed, TypeOK
<1>2. \A g \in Handlers : handler'[g] = IF g = h THEN q ELSE handler[g]
  BY SetOthers DEF Typed
<1>3. \A g \in Handlers : Equipped(handler[g])'
  <2> TAKE g \in Handlers
  <2>1. CASE g = h
    BY <1>2, <2>1 DEF Equipped
  <2>2. CASE g # h
    BY <1>2, <2>2, TypedParts DEF Equipped, RowsStay
  <2> QED BY <2>1, <2>2
<1> QED BY <1>1, <1>3 DEF Typed, TypeOK, DataOK, Equipped, At

LEMMA DoneTyped ==
  ASSUME Typed, NEW h \in Handlers, Done(h), DataOK', RowsStay
  PROVE  Typed'
<1>1. handler' \in [Handlers -> Working \cup {Idle}]
  BY DEF Done, Typed, TypeOK
<1>2. \A g \in Handlers : handler'[g] = IF g = h THEN Idle ELSE handler[g]
  BY DoneOthers DEF Typed
<1>3. \A g \in Handlers : Equipped(handler[g])'
  <2> TAKE g \in Handlers
  <2>1. CASE g = h
    BY <1>2, <2>1 DEF Equipped, Idle
  <2>2. CASE g # h
    BY <1>2, <2>2, TypedParts DEF Equipped, RowsStay
  <2> QED BY <2>1, <2>2
<1> QED BY <1>1, <1>3 DEF Typed, TypeOK, DataOK, Equipped, At

\* All sessions are revoked, and the executions under way are marked.
LEMMA SweepMarks ==
  ASSUME TypeOK, sessions' = Swept
  PROVE  Marked(DOMAIN sessions)
<1>1. ASSUME NEW i \in DOMAIN sessions
      PROVE  LET row == [sessions[i] EXCEPT !.revoked = TRUE]
             IN  /\ row \in Session /\ row.revoked
                 /\ row.device = sessions[i].device /\ row.epoch = sessions[i].epoch
                 /\ row.opener = sessions[i].opener /\ row.late = sessions[i].late
  <2>1. sessions[i] \in Session
    BY SessionRows
  <2> HIDE DEF Devices
  <2> QED BY <2>1 DEF Session
<1>2. sessions' = [i \in DOMAIN sessions |-> [sessions[i] EXCEPT !.revoked = TRUE]]
  BY DEF Swept
<1>3. DOMAIN sessions = 1..Len(sessions) /\ Len(sessions) \in Nat
  BY DEF TypeOK
<1>4. sessions' \in Seq(Session) /\ DOMAIN sessions' = DOMAIN sessions
  BY <1>1, <1>2, <1>3
<1> QED BY <1>1, <1>2, <1>4 DEF Marked

MarkedLate(old, new) ==
  /\ new \in Working /\ new.op = old.op /\ new.step = old.step
  /\ new.ip = old.ip /\ new.device = old.device /\ new.copy = old.copy
  /\ new.of = old.of /\ new.epoch = old.epoch /\ new.late

LEMMA CloseOthers ==
  ASSUME TypeOK, NEW h \in Handlers, CloseSessions(h)
  PROVE  /\ handler[h] \in Working
         /\ handler' \in [Handlers -> Working \cup {Idle}]
         /\ \A g \in Handlers :
              \/ handler'[g] = Idle
              \/ g # h /\ handler[g] \in Working /\ MarkedLate(handler[g], handler'[g])
<1>1. handler[h] \in Working
  BY AtWork DEF CloseSessions
<1>2. handler' = [g \in Handlers |->
                    IF g = h THEN Idle
                    ELSE IF handler[g] = Idle THEN Idle
                    ELSE [handler[g] EXCEPT !.late = TRUE]]
  BY DEF CloseSessions
<1>3. ASSUME NEW g \in Handlers, handler[g] # Idle
      PROVE  /\ handler[g] \in Working
             /\ MarkedLate(handler[g], [handler[g] EXCEPT !.late = TRUE])
  <2>1. handler[g] \in Working
    BY <1>3 DEF TypeOK
  <2> QED BY <2>1 DEF Working, MarkedLate
<1>4. \A g \in Handlers :
        \/ handler'[g] = Idle
        \/ g # h /\ handler[g] \in Working /\ MarkedLate(handler[g], handler'[g])
  BY <1>2, <1>3
<1>5. handler' \in [Handlers -> Working \cup {Idle}]
  <2>1. handler' = [g \in Handlers |-> handler'[g]]
    BY <1>2
  <2>2. \A g \in Handlers : handler'[g] \in Working \cup {Idle}
    BY <1>4 DEF MarkedLate
  <2> QED BY <2>1, <2>2
<1> QED BY <1>1, <1>4, <1>5

LEMMA StartTyped ==
  ASSUME Typed, NEW h \in Handlers, NEW q, Starts(h, q)
  PROVE  Typed'
<1>1. DataOK' /\ RowsStay /\ Equipped(q)'
  BY TypedParts DEF Starts, DataOK, RowsStay, Equipped
<1> QED BY <1>1, SetTyped DEF Starts

\* It goes on and leaves the rows, but for their marks, as they are.
LEMMA GoTyped ==
  ASSUME Typed, NEW h \in Handlers, NEW q, Goes(h, q),
         sessions' = sessions \/ \E marked : Marked(marked),
         resets' = resets \/ \E marked : ResetsMarked(marked),
         attempts' \in [Addresses -> Nat], Equipped(q)
  PROVE  Typed'
<1>1. /\ sessions' \in Seq(Session) /\ DOMAIN sessions' = DOMAIN sessions
      /\ resets' \in Seq(Reset) /\ DOMAIN resets' = DOMAIN resets
  BY TypedParts DEF DataOK, Marked, ResetsMarked
<1>2. DataOK'
  BY <1>1, TypedParts DEF Goes, DataOK
<1>3. RowsStay /\ Equipped(q)'
  BY <1>1 DEF RowsStay, Equipped
<1> QED BY <1>2, <1>3, SetTyped DEF Goes

\* What an execution needs at its next step it has brought along.
LEMMA GoEquipped ==
  ASSUME Typed, NEW h \in Handlers, NEW q, Goes(h, q),
         \/ q.step \in {"close", "cancel", "issue"}
         \/ q.step \in {"count", "clear"} /\ At(h, "login", "find")
         \/ q.step = "lock" /\ At(h, "login", "count")
         \/ q.step = "revoke" /\ handler[h].step \in {"clear", "retire"}
         \/ q.step = "open" /\ handler[h].step = "revoke"
         \/ q.step = "use" /\ At(h, "reset", "save")
  PROVE  Equipped(q)
<1>1. Equipped(handler[h]) /\ Same(handler[h], q)
  BY TypedParts DEF Goes
<1> QED BY <1>1 DEF Equipped, Same, At

\* A wrong password is counted for its address.
LEMMA CountsOne ==
  ASSUME TypeOK, NEW h \in Handlers, CountFailure(h)
  PROVE  /\ handler[h].ip \in Addresses /\ attempts \in [Addresses -> Nat]
         /\ attempts' = [attempts EXCEPT ![handler[h].ip] = attempts[handler[h].ip] + 1]
         /\ attempts' \in [Addresses -> Nat]
<1>1. handler[h].ip \in Addresses /\ attempts \in [Addresses -> Nat]
  BY DEF CountFailure, At, TypeOK
<1>2. attempts' = [attempts EXCEPT ![handler[h].ip] = attempts[handler[h].ip] + 1]
  BY DEF CountFailure
<1>3. attempts[handler[h].ip] + 1 \in Nat
  BY <1>1
<1> QED BY <1>1, <1>2, <1>3

LEMMA GoingTyped ==
  ASSUME Typed, NEW h \in Handlers,
         \/ WrongPassword(h) \/ (RightPassword(h) /\ ~Done(h)) \/ (CountFailure(h) /\ ~Done(h))
         \/ ClearAttempts(h) \/ RevokeDevice(h) \/ RetireToken(h) \/ SavePassword(h)
         \/ CancelResets(h) \/ ResetPassword(h) \/ UseReset(h)
  PROVE  Typed'
<1>0. TypeOK /\ attempts \in [Addresses -> Nat]
  BY DEF Typed, TypeOK
<1>1. CASE WrongPassword(h)
  <2>1. PICK q : Goes(h, q) /\ q.step = "count"
    BY <1>0, <1>1, Going
  <2>2. Equipped(q)
    BY <1>1, <2>1, GoEquipped DEF WrongPassword
  <2> QED BY <1>0, <1>1, <2>1, <2>2, GoTyped DEF WrongPassword
<1>2. CASE RightPassword(h) /\ ~Done(h)
  <2>1. PICK q : Goes(h, q) /\ q.step = "clear"
    BY <1>0, <1>2, Going
  <2>2. Equipped(q)
    BY <1>2, <2>1, GoEquipped DEF RightPassword
  <2> QED BY <1>0, <1>2, <2>1, <2>2, GoTyped DEF RightPassword
<1>3. CASE CountFailure(h) /\ ~Done(h)
  <2>1. PICK q : Goes(h, q) /\ q.step = "lock"
    BY <1>0, <1>3, Going
  <2>2. Equipped(q)
    BY <1>3, <2>1, GoEquipped DEF CountFailure
  <2>3. attempts' \in [Addresses -> Nat]
    BY <1>0, <1>3, CountsOne
  <2> QED BY <1>3, <2>1, <2>2, <2>3, GoTyped DEF CountFailure
<1>4. CASE ClearAttempts(h)
  <2>1. PICK q : Goes(h, q) /\ q.step = "revoke"
    BY <1>0, <1>4, Going
  <2>2. Equipped(q)
    BY <1>4, <2>1, GoEquipped DEF ClearAttempts, At
  <2>3. attempts' \in [Addresses -> Nat]
    BY <1>0, <1>4 DEF ClearAttempts
  <2> QED BY <1>4, <2>1, <2>2, <2>3, GoTyped DEF ClearAttempts
<1>5. CASE RevokeDevice(h)
  <2>1. PICK q : Goes(h, q) /\ q.step = "open"
    BY <1>0, <1>5, Going
  <2>2. Equipped(q)
    BY <1>5, <2>1, GoEquipped DEF RevokeDevice
  <2>3. \E marked : Marked(marked)
    BY <1>0, <1>5, RevokeMarks DEF RevokeDevice
  <2> QED BY <1>0, <1>5, <2>1, <2>2, <2>3, GoTyped DEF RevokeDevice
<1>6. CASE RetireToken(h)
  <2>1. PICK q : Goes(h, q) /\ q.step = "revoke"
    BY <1>0, <1>6, Going
  <2>2. Equipped(q)
    BY <1>6, <2>1, GoEquipped DEF RetireToken, At
  <2>3. \E marked : Marked(marked)
    BY <1>0, <1>6, RevokeMarks DEF RetireToken
  <2> QED BY <1>0, <1>6, <2>1, <2>2, <2>3, GoTyped DEF RetireToken
<1>7. CASE SavePassword(h)
  <2>1. PICK q : Goes(h, q) /\ q.step = "close"
    BY <1>0, <1>7, Going
  <2>2. Equipped(q)
    BY <2>1, GoEquipped
  <2>3. sessions' = sessions /\ resets' = resets /\ attempts' = attempts
    BY <1>7 DEF SavePassword
  <2> QED BY <1>0, <2>1, <2>2, <2>3, GoTyped
<1>8. CASE CancelResets(h)
  <2>1. PICK q : Goes(h, q) /\ q.step = "issue"
    BY <1>0, <1>8, Going
  <2>2. Equipped(q)
    BY <2>1, GoEquipped
  <2>3. \E marked : ResetsMarked(marked)
    BY <1>0, <1>8, CancelMarks
  <2> QED BY <1>0, <1>8, <2>1, <2>2, <2>3, GoTyped DEF CancelResets
<1>9. CASE ResetPassword(h)
  <2>1. PICK q : Goes(h, q) /\ q.step = "use"
    BY <1>0, <1>9, Going
  <2>2. Equipped(q)
    BY <1>9, <2>1, GoEquipped DEF ResetPassword
  <2>3. sessions' = sessions /\ resets' = resets /\ attempts' = attempts
    BY <1>9 DEF ResetPassword
  <2> QED BY <1>0, <2>1, <2>2, <2>3, GoTyped
<1>10. CASE UseReset(h)
  <2>1. PICK q : Goes(h, q) /\ q.step = "close"
    BY <1>0, <1>10, Going
  <2>2. Equipped(q)
    BY <2>1, GoEquipped
  <2>3. \E marked : ResetsMarked(marked)
    BY <1>10, UseMarks
  <2>4. sessions' = sessions /\ attempts' = attempts
    BY <1>10 DEF UseReset
  <2> QED BY <1>0, <2>1, <2>2, <2>3, <2>4, GoTyped
<1> QED BY <1>1, <1>2, <1>3, <1>4, <1>5, <1>6, <1>7, <1>8, <1>9, <1>10

LEMMA EndingTyped ==
  ASSUME Typed, NEW h \in Handlers,
         \/ (RightPassword(h) /\ Done(h)) \/ (CountFailure(h) /\ Done(h))
         \/ LockOut(h) \/ OpenSession(h) \/ IssueReset(h) \/ SaveEdit(h) \/ Fail(h)
  PROVE  Typed'
<1>1. DataOK /\ TypeOK
  BY TypedParts DEF Typed
<1>2. CASE RightPassword(h) /\ Done(h)
  BY <1>1, <1>2, DoneTyped DEF RightPassword, DataOK, RowsStay
<1>3. CASE CountFailure(h) /\ Done(h)
  <2>1. attempts' \in [Addresses -> Nat]
    BY <1>1, <1>3, CountsOne
  <2> QED BY <1>1, <1>3, <2>1, DoneTyped DEF CountFailure, DataOK, RowsStay
<1>4. CASE LockOut(h)
  <2>1. locked' \in [Addresses -> BOOLEAN]
    BY <1>1, <1>4 DEF LockOut, DataOK
  <2> QED BY <1>1, <1>4, <2>1, DoneTyped DEF LockOut, DataOK, RowsStay
<1>5. CASE OpenSession(h)
  <2>1. sessions' \in Seq(Session) /\ DOMAIN sessions \subseteq DOMAIN sessions'
    BY <1>1, <1>5, OpenAdds DEF Added
  <2> QED BY <1>1, <1>5, <2>1, DoneTyped DEF OpenSession, DataOK, RowsStay
<1>6. CASE IssueReset(h)
  <2>1. resets' \in Seq(Reset) /\ DOMAIN resets \subseteq DOMAIN resets'
    BY <1>1, <1>6, IssueAdds
  <2> QED BY <1>1, <1>6, <2>1, DoneTyped DEF IssueReset, DataOK, RowsStay
<1>7. CASE Fail(h)
  <2>1. lockLost' \subseteq Addresses
    BY <1>1, <1>7 DEF Fail, DataOK, TypeOK
  <2> QED BY <1>1, <1>7, <2>1, DoneTyped DEF Fail, DataOK, RowsStay
<1>8. CASE SaveEdit(h)
  <2>1. user' \in User /\ user'.password \in Nat
    BY <1>1, <1>8 DEF SaveEdit, At, TypeOK, User
  <2>2. revived' \subseteq Nat
    BY <1>1, <1>8, <2>1 DEF SaveEdit, DataOK
  <2> QED BY <1>1, <1>8, <2>1, <2>2, DoneTyped DEF SaveEdit, DataOK, RowsStay
<1> QED BY <1>2, <1>3, <1>4, <1>5, <1>6, <1>7, <1>8

\* Steps of no execution.
Around ==
  \/ Logout \/ LogoutAll \/ RevokeSession \/ SetSuspended
  \/ \E ip \in Addresses : Expire(ip)

LEMMA AroundTyped ==
  ASSUME Typed, Around
  PROVE  Typed' /\ handler' = handler
<1>1. DataOK /\ TypeOK
  BY TypedParts DEF Typed
<1>2. handler' = handler
  BY DEF Around, Logout, LogoutAll, RevokeSession, SetSuspended, Expire
<1>3. resets' = resets /\ (sessions' = sessions \/ \E marked : Marked(marked))
  BY <1>1, RevokeMarks
     DEF Around, Logout, LogoutAll, RevokeSession, SetSuspended, Expire
<1>4. sessions' \in Seq(Session) /\ DOMAIN sessions' = DOMAIN sessions
  BY <1>1, <1>3 DEF DataOK, Marked
<1>5. /\ UNCHANGED <<user, finds, lockLost, epoch, closed, revived>>
      /\ suspended' = suspended \/ suspended' = ~suspended
      /\ requests' = requests \/ requests' = requests + 1
  BY DEF Around, Logout, LogoutAll, RevokeSession, SetSuspended, Expire
<1>6. suspended' \in BOOLEAN
  BY <1>1, <1>5, Zenon DEF DataOK
<1>7. attempts' \in [Addresses -> Nat] /\ locked' \in [Addresses -> BOOLEAN]
  <2>1. ASSUME NEW ip \in Addresses, Expire(ip)
        PROVE  attempts' \in [Addresses -> Nat] /\ locked' \in [Addresses -> BOOLEAN]
    <3>1. \/ attempts' = [attempts EXCEPT ![ip] = 0] /\ locked' = locked
          \/ locked' = [locked EXCEPT ![ip] = FALSE] /\ attempts' = attempts
      BY <2>1 DEF Expire
    <3>2. attempts \in [Addresses -> Nat] /\ locked \in [Addresses -> BOOLEAN]
      BY <1>1 DEF DataOK
    <3>3. /\ [attempts EXCEPT ![ip] = 0] \in [Addresses -> Nat]
          /\ [locked EXCEPT ![ip] = FALSE] \in [Addresses -> BOOLEAN]
      BY <3>2
    <3> QED BY <3>1, <3>2, <3>3
  <2>2. ASSUME ~\E ip \in Addresses : Expire(ip)
        PROVE  attempts' = attempts /\ locked' = locked
    BY <2>2 DEF Around, Logout, LogoutAll, RevokeSession, SetSuspended
  <2> QED BY <1>1, <2>1, <2>2 DEF DataOK
<1>8. DataOK'
  BY <1>1, <1>3, <1>4, <1>5, <1>6, <1>7 DEF DataOK
<1>9. Typed'
  BY <1>2, <1>3, <1>4, <1>8, TypedParts DEF Typed, TypeOK, DataOK, Equipped, At
<1> QED BY <1>2, <1>9

LEMMA CloseTyped ==
  ASSUME Typed, NEW h \in Handlers, CloseSessions(h)
  PROVE  Typed'
<1>1. DataOK /\ TypeOK
  BY TypedParts DEF Typed
<1>2. sessions' \in Seq(Session) /\ DOMAIN sessions' = DOMAIN sessions
  BY <1>1, SweepMarks DEF CloseSessions, Marked
<1>3. handler[h].epoch \in Nat /\ handler' \in [Handlers -> Working \cup {Idle}]
  BY <1>1, CloseOthers DEF Working
<1>4. DataOK'
  BY <1>1, <1>2, <1>3 DEF CloseSessions, DataOK
<1>5. \A g \in Handlers : Equipped(handler'[g])
  <2> TAKE g \in Handlers
  <2>1. CASE handler'[g] = Idle
    BY <2>1 DEF Equipped, Idle
  <2>2. CASE handler'[g] # Idle
    BY <1>1, <2>2, CloseOthers, TypedParts DEF Equipped, MarkedLate
  <2> QED BY <2>1, <2>2
<1>6. resets' = resets
  BY DEF CloseSessions
<1> QED BY <1>2, <1>3, <1>4, <1>5, <1>6 DEF Typed, TypeOK, DataOK, Equipped, At

Beginning(h) ==
  \/ BeginLogin(h) \/ FindToken(h) \/ BeginChange(h) \/ BeginEdit(h)
  \/ BeginForgot(h) \/ FindReset(h)

GoingOn(h) ==
  \/ WrongPassword(h) \/ (RightPassword(h) /\ ~Done(h)) \/ (CountFailure(h) /\ ~Done(h))
  \/ ClearAttempts(h) \/ RevokeDevice(h) \/ RetireToken(h) \/ SavePassword(h)
  \/ CancelResets(h) \/ ResetPassword(h) \/ UseReset(h)

Ending(h) ==
  \/ (RightPassword(h) /\ Done(h)) \/ (CountFailure(h) /\ Done(h))
  \/ LockOut(h) \/ OpenSession(h) \/ IssueReset(h) \/ SaveEdit(h) \/ Fail(h)

LEMMA Kinds ==
  ASSUME [Next]_vars
  PROVE  \/ \E h \in Handlers :
              Beginning(h) \/ GoingOn(h) \/ Ending(h) \/ CloseSessions(h)
         \/ Around
         \/ UNCHANGED vars
BY DEF Next, Beginning, GoingOn, Ending, Around

LEMMA NextTyped == Typed /\ [Next]_vars => Typed'
<1> SUFFICES ASSUME Typed, [Next]_vars PROVE Typed'
  OBVIOUS
<1>1. ASSUME NEW h \in Handlers, Beginning(h) PROVE Typed'
  BY <1>1, Starting, StartTyped DEF Beginning, Typed
<1>2. ASSUME NEW h \in Handlers, GoingOn(h) PROVE Typed'
  BY <1>2, GoingTyped DEF GoingOn
<1>3. ASSUME NEW h \in Handlers, Ending(h) PROVE Typed'
  BY <1>3, EndingTyped DEF Ending
<1>4. ASSUME NEW h \in Handlers, CloseSessions(h) PROVE Typed'
  BY <1>4, CloseTyped
<1>5. CASE Around
  BY <1>5, AroundTyped
<1>6. CASE UNCHANGED vars
  BY <1>6 DEF vars, Typed, TypeOK, At
<1> QED BY <1>1, <1>2, <1>3, <1>4, <1>5, <1>6, Kinds

\* Every variable keeps its type, and a request at a step that needs a row,
\* an address or a device has it.
THEOREM SessionTypes == Spec => []TypeOK
BY InitTyped, NextTyped, PTL DEF Spec, Typed

----------------------------------------------------------------------------
(* Old passwords.                                                          *)

\* What is opened with a password before the last one that closed the
\* sessions was under way then, or the password was put back since.
Excused(item) == item.late \/ item.epoch \in revived

EpochOK(item) == item.epoch <= epoch /\ (item.epoch >= closed \/ Excused(item))

\* The password in force is the newest or one that was put back.
PasswordOK == user.password <= epoch /\ (user.password = epoch \/ user.password \in revived)

\* No copy of the row holds a password yet to be set.
CopyOK(q) == q.step = "save" /\ q.op # "reset" => q.copy.password <= epoch

EpochsOK ==
  /\ closed <= epoch /\ PasswordOK
  /\ \A h \in Handlers : handler[h] \in Working => EpochOK(handler[h]) /\ CopyOK(handler[h])
  /\ \A i \in DOMAIN sessions : sessions[i].epoch <= epoch /\ (Live(i) => EpochOK(sessions[i]))

EpochInv == Typed /\ EpochsOK

LEMMA EpochTypes ==
  ASSUME Typed
  PROVE  /\ epoch \in Nat /\ closed \in Nat /\ user.password \in Nat /\ TypeOK
         /\ \A h \in Handlers :
              handler[h] \in Working =>
                /\ handler[h].epoch \in Nat
                /\ handler[h].step = "save" /\ handler[h].op # "reset" =>
                     handler[h].copy.password \in Nat
         /\ \A i \in DOMAIN sessions : sessions[i].epoch \in Nat
<1>1. TypeOK /\ epoch \in Nat /\ closed \in Nat /\ user \in User
  BY TypedParts DEF Typed, DataOK
<1>2. \A h \in Handlers :
        handler[h].step = "save" /\ handler[h].op # "reset" => handler[h].copy \in User
  BY <1>1 DEF TypeOK
<1>3. \A row \in User : row.password \in Nat
  BY DEF User
<1>4. \A h \in Handlers : handler[h] \in Working => handler[h].epoch \in Nat
  BY DEF Working
<1> QED BY <1>1, <1>2, <1>3, <1>4, SessionRows

\* Sessions are at most revoked.
LEMMA MarkedEpochs ==
  ASSUME EpochInv, sessions' = sessions \/ \E marked : Marked(marked),
         closed' = closed, epoch' = epoch \/ epoch' = epoch + 1, revived \subseteq revived'
  PROVE  \A i \in DOMAIN sessions' :
           sessions'[i].epoch <= epoch' /\ (Live(i)' => EpochOK(sessions[i])')
<1> TAKE i \in DOMAIN sessions'
<1>1. /\ i \in DOMAIN sessions /\ sessions'[i].epoch = sessions[i].epoch
      /\ sessions'[i].late = sessions[i].late
      /\ ~sessions'[i].revoked => ~sessions[i].revoked
  BY DEF Marked
<1>2. /\ sessions[i].epoch <= epoch
      /\ ~sessions[i].revoked => sessions[i].epoch >= closed \/ Excused(sessions[i])
  BY <1>1 DEF EpochInv, EpochsOK, EpochOK, Live
<1>3. sessions[i].epoch \in Nat /\ epoch \in Nat
  BY <1>1, EpochTypes DEF EpochInv
<1>4. sessions'[i].epoch <= epoch'
  BY <1>1, <1>2, <1>3
<1>5. Excused(sessions[i]) => Excused(sessions[i])'
  BY <1>1 DEF Excused
<1>6. ~sessions'[i].revoked => sessions'[i].epoch >= closed' \/ Excused(sessions[i])'
  BY <1>1, <1>2, <1>5, Zenon
<1> QED BY <1>4, <1>6 DEF Live, EpochOK

\* An execution takes a step; sessions are at most revoked.
LEMMA SetEpochs ==
  ASSUME EpochInv, NEW h \in Handlers, NEW q, Set(h, q),
         q.epoch \in Nat, EpochOK(q)', CopyOK(q)', PasswordOK',
         sessions' = sessions \/ \E marked : Marked(marked),
         UNCHANGED <<closed, revived>>, epoch' = epoch \/ epoch' = epoch + 1
  PROVE  EpochsOK'
<1>1. \A g \in Handlers : handler'[g] = IF g = h THEN q ELSE handler[g]
  BY SetOthers DEF EpochInv, Typed
<1>2. epoch \in Nat /\ epoch <= epoch'
  BY EpochTypes DEF EpochInv
<1>3. ASSUME NEW g \in Handlers, handler'[g] \in Working
      PROVE  EpochOK(handler[g])' /\ CopyOK(handler[g])'
  <2>1. CASE g = h
    BY <1>1, <2>1 DEF EpochOK, CopyOK, Excused
  <2>2. CASE g # h
    <3>1. handler'[g] = handler[g] /\ handler[g] \in Working
      BY <1>1, <1>3, <2>2
    <3>2. EpochOK(handler[g]) /\ CopyOK(handler[g]) /\ handler[g].epoch \in Nat
      BY <3>1, EpochTypes DEF EpochInv, EpochsOK
    <3>3. EpochOK(handler[g])'
      BY <1>2, <3>1, <3>2, EpochTypes DEF EpochOK, Excused, EpochInv
    <3>4. CopyOK(handler[g])'
      BY <1>2, <3>1, <3>2, EpochTypes DEF CopyOK, EpochInv
    <3> QED BY <3>3, <3>4
  <2> QED BY <2>1, <2>2
<1>4. \A i \in DOMAIN sessions' :
        sessions'[i].epoch <= epoch' /\ (Live(i)' => EpochOK(sessions[i])')
  BY MarkedEpochs
<1>5. closed' <= epoch'
  BY <1>2, EpochTypes DEF EpochInv, EpochsOK
<1> QED BY <1>3, <1>4, <1>5 DEF EpochsOK

\* An execution ends; the row it adds, if any, is of its epoch.
LEMMA DoneEpochs ==
  ASSUME EpochInv, NEW h \in Handlers, Done(h), UNCHANGED <<closed, epoch>>,
         revived \subseteq revived', PasswordOK',
         \A i \in DOMAIN sessions' :
           \/ i \in DOMAIN sessions /\ sessions'[i] = sessions[i]
           \/ EpochOK(sessions'[i])
  PROVE  EpochsOK'
<1>1. \A g \in Handlers : handler'[g] = IF g = h THEN Idle ELSE handler[g]
  BY DoneOthers DEF EpochInv, Typed
<1>2. \A g \in Handlers :
        handler'[g] \in Working => EpochOK(handler[g])' /\ CopyOK(handler[g])'
  BY <1>1, WorkingIsBusy DEF EpochInv, EpochsOK, EpochOK, CopyOK, Excused
<1>3. \A i \in DOMAIN sessions' :
        sessions'[i].epoch <= epoch' /\ (Live(i)' => EpochOK(sessions[i])')
  BY DEF EpochInv, EpochsOK, EpochOK, Excused, Live
<1> QED BY <1>2, <1>3 DEF EpochInv, EpochsOK

LEMMA GoingEpochs ==
  ASSUME EpochInv, NEW h \in Handlers, GoingOn(h)
  PROVE  EpochsOK'
<1>1. TypeOK
  BY EpochTypes DEF EpochInv
<1>2. PICK q : Goes(h, q) /\ q.step # "save"
  BY <1>1, Going DEF GoingOn
<1>3. sessions' = sessions \/ \E marked : Marked(marked)
  <2>1. CASE RevokeDevice(h)
    BY <1>1, <2>1, RevokeMarks DEF RevokeDevice
  <2>2. CASE RetireToken(h)
    BY <1>1, <2>2, RevokeMarks DEF RetireToken
  <2>3. CASE SavePassword(h)
    BY <2>3 DEF SavePassword
  <2>4. CASE UseReset(h)
    BY <2>4 DEF UseReset
  <2>5. CASE RightPassword(h)
    BY <2>5 DEF RightPassword
  <2>6. CASE ResetPassword(h)
    BY <2>6 DEF ResetPassword
  <2>7. CASE WrongPassword(h) \/ CountFailure(h) \/ ClearAttempts(h) \/ CancelResets(h)
    BY <2>7 DEF WrongPassword, CountFailure, ClearAttempts, CancelResets
  <2> QED BY <2>1, <2>2, <2>3, <2>4, <2>5, <2>6, <2>7 DEF GoingOn
<1>4. epoch \in Nat /\ closed \in Nat /\ handler[h].epoch \in Nat /\ closed <= epoch
      /\ EpochOK(handler[h])
  BY <1>2, EpochTypes DEF EpochInv, EpochsOK, Goes
<1>5. user.password \in Nat /\ PasswordOK
  BY EpochTypes DEF EpochInv, EpochsOK
<1>6. q.epoch \in Nat /\ EpochOK(q)'
  <2>1. CASE q.epoch = handler[h].epoch
    BY <1>2, <1>4, <2>1 DEF Goes, Same, EpochOK, Excused
  <2>2. CASE q.epoch = user.password
    BY <1>2, <1>4, <1>5, <2>2 DEF Goes, EpochOK, Excused, PasswordOK
  <2>3. CASE q.epoch = epoch'
    BY <1>2, <1>4, <2>3 DEF Goes, EpochOK
  <2> QED BY <1>2, <2>1, <2>2, <2>3 DEF Goes
<1>7. PasswordOK'
  BY <1>2, <1>4, <1>5 DEF Goes, PasswordOK
<1> QED BY <1>2, <1>3, <1>6, <1>7, SetEpochs DEF Goes, CopyOK

LEMMA EndingEpochs ==
  ASSUME EpochInv, NEW h \in Handlers, Ending(h)
  PROVE  EpochsOK'
<1>1. TypeOK /\ PasswordOK
  BY EpochTypes DEF EpochInv, EpochsOK
<1>2. CASE OpenSession(h)
  <2>1. /\ EpochOK(handler[h]) /\ Done(h)
        /\ UNCHANGED <<closed, epoch, revived, user>>
    BY <1>1, <1>2, OpenAdds DEF OpenSession, EpochInv, EpochsOK
  <2>2. \A i \in DOMAIN sessions' :
          \/ i \in DOMAIN sessions /\ sessions'[i] = sessions[i]
          \/ EpochOK(sessions'[i])
    BY <1>1, <1>2, <2>1, OpenAdds DEF Added, EpochOK, Excused
  <2> QED BY <1>1, <2>1, <2>2, DoneEpochs DEF PasswordOK
<1>3. CASE SaveEdit(h)
  <2>1. handler[h] \in Working /\ handler[h].step = "save" /\ handler[h].op # "reset"
    BY <1>1, <1>3, AtWork DEF SaveEdit, At
  <2>2. /\ handler[h].copy.password <= epoch /\ handler[h].copy.password \in Nat
        /\ epoch \in Nat
    BY <2>1, EpochTypes DEF EpochInv, EpochsOK, CopyOK
  <2>3. /\ Done(h) /\ UNCHANGED <<closed, epoch, sessions>> /\ user' = handler[h].copy
        /\ revived' = IF user'.password < epoch THEN revived \cup {user'.password}
                                                ELSE revived
    BY <1>3 DEF SaveEdit
  <2>4. revived \subseteq revived' /\ PasswordOK'
    BY <2>2, <2>3 DEF PasswordOK
  <2> QED BY <2>3, <2>4, DoneEpochs
<1>4. ASSUME ~OpenSession(h), ~SaveEdit(h)
      PROVE  Done(h) /\ UNCHANGED <<sessions, closed, epoch, revived, user>>
  BY <1>4 DEF Ending, RightPassword, CountFailure, LockOut, IssueReset, Fail
<1>5. ASSUME ~OpenSession(h), ~SaveEdit(h) PROVE EpochsOK'
  BY <1>1, <1>4, <1>5, DoneEpochs DEF PasswordOK
<1> QED BY <1>2, <1>3, <1>5

LEMMA CloseEpochs ==
  ASSUME EpochInv, NEW h \in Handlers, CloseSessions(h)
  PROVE  EpochsOK'
<1>1. TypeOK /\ epoch \in Nat /\ closed \in Nat /\ closed <= epoch
  BY EpochTypes DEF EpochInv, EpochsOK
<1>2. handler[h].epoch \in Nat /\ handler[h].epoch <= epoch
  BY <1>1, CloseOthers, EpochTypes DEF EpochInv, EpochsOK, EpochOK
<1>3. epoch' = epoch /\ closed' \in Nat /\ closed' <= epoch'
  BY <1>1, <1>2 DEF CloseSessions
<1>4. ASSUME NEW g \in Handlers, handler'[g] \in Working
      PROVE  EpochOK(handler[g])' /\ CopyOK(handler[g])'
  <2>1. handler[g] \in Working /\ MarkedLate(handler[g], handler'[g])
    BY <1>1, <1>4, CloseOthers, WorkingIsBusy
  <2>2. EpochOK(handler[g]) /\ CopyOK(handler[g])
    BY <2>1 DEF EpochInv, EpochsOK
  <2> QED BY <1>3, <2>1, <2>2 DEF EpochOK, CopyOK, Excused, MarkedLate
<1>5. Marked(DOMAIN sessions)
  BY <1>1, SweepMarks DEF CloseSessions
<1>6. \A i \in DOMAIN sessions' : sessions'[i].epoch <= epoch' /\ ~Live(i)'
  BY <1>3, <1>5 DEF Marked, Live, EpochInv, EpochsOK
<1>7. PasswordOK'
  BY DEF CloseSessions, PasswordOK, EpochInv, EpochsOK
<1> QED BY <1>3, <1>4, <1>6, <1>7 DEF EpochsOK

LEMMA NextEpochs == EpochInv /\ [Next]_vars => EpochInv'
<1> SUFFICES ASSUME EpochInv, [Next]_vars PROVE EpochsOK'
  BY NextTyped DEF EpochInv
<1>1. TypeOK /\ epoch \in Nat /\ closed \in Nat /\ closed <= epoch /\ PasswordOK
  BY EpochTypes DEF EpochInv, EpochsOK
<1>2. ASSUME NEW h \in Handlers, Beginning(h) PROVE EpochsOK'
  <2>1. PICK q : Starts(h, q)
    BY <1>1, <1>2, Starting DEF Beginning
  <2>2. UNCHANGED <<user, sessions, epoch, closed, revived>> /\ Set(h, q)
    BY <2>1 DEF Starts
  <2>3. q.epoch \in Nat /\ EpochOK(q)'
    <3>1. CASE q.epoch = epoch
      BY <1>1, <2>2, <3>1 DEF EpochOK
    <3>2. CASE q.epoch # epoch
      <4>1. PICK i \in DOMAIN sessions :
              Live(i) /\ q.epoch = sessions[i].epoch /\ q.late = sessions[i].late
        BY <2>1, <3>2 DEF Starts
      <4>2. EpochOK(sessions[i]) /\ sessions[i].epoch \in Nat
        BY <4>1, EpochTypes DEF EpochInv, EpochsOK
      <4> QED BY <2>2, <4>1, <4>2 DEF EpochOK, Excused
    <3> QED BY <3>1, <3>2
  <2>4. CopyOK(q)' /\ PasswordOK'
    BY <1>1, <2>1, <2>2 DEF Starts, CopyOK, PasswordOK
  <2> QED BY <2>2, <2>3, <2>4, SetEpochs
<1>3. CASE Around
  <2>1. sessions' = sessions \/ \E marked : Marked(marked)
    BY <1>1, <1>3, RevokeMarks
       DEF Around, Logout, LogoutAll, RevokeSession, SetSuspended, Expire
  <2>2. UNCHANGED <<handler, user, closed, epoch, revived>>
    BY <1>3 DEF Around, Logout, LogoutAll, RevokeSession, SetSuspended, Expire
  <2>3. \A i \in DOMAIN sessions' :
          sessions'[i].epoch <= epoch' /\ (Live(i)' => EpochOK(sessions[i])')
    BY <2>1, <2>2, MarkedEpochs
  <2> QED BY <2>2, <2>3 DEF EpochInv, EpochsOK, EpochOK, CopyOK, PasswordOK, Excused
<1>4. CASE UNCHANGED vars
  BY <1>4 DEF vars, EpochInv, EpochsOK, EpochOK, CopyOK, PasswordOK, Excused, Live
<1> QED BY <1>2, <1>3, <1>4, GoingEpochs, EndingEpochs, CloseEpochs, Kinds

\* Once a password was set and the sessions were closed, no earlier password
\* has one open, but for requests under way then and a password that a stale
\* copy of the row has put back: for any number of requests and addresses.
THEOREM OldPasswordsClosed == Spec => []OldPasswordOpensNothing
<1>1. Init => EpochInv
  <2>1. Init => EpochsOK
    BY WorkingIsBusy DEF Init, EpochsOK, PasswordOK
  <2> QED BY <2>1, InitTyped DEF EpochInv
<1>2. EpochInv => OldPasswordOpensNothing
  BY DEF EpochInv, EpochsOK, EpochOK, Excused, OldPasswordOpensNothing
<1> QED BY <1>1, <1>2, NextEpochs, PTL DEF Spec

----------------------------------------------------------------------------
(* Guesses.  While the account is open to an address, what was counted for *)
(* it past the limit is about to lock it; once it is locked, only the      *)
(* logins already under way may still count.                               *)

Trying(ip) ==
  {h \in Handlers : (At(h, "login", "find") \/ At(h, "login", "count")) /\ handler[h].ip = ip}

Locking(ip) == {h \in Handlers : At(h, "login", "lock") /\ handler[h].ip = ip}

OpenBound(ip) == attempts[ip] <= MaxAttempts - 1 + Cardinality(Locking(ip))

LockedBound(ip) ==
  attempts[ip] + Cardinality(Trying(ip)) <= MaxAttempts - 1 + Cardinality(Handlers)

GuessAt(ip) == ip \in lockLost \/ (IF locked[ip] THEN LockedBound(ip) ELSE OpenBound(ip))

GuessInv == Typed /\ \A ip \in Addresses : GuessAt(ip)

LEMMA Counts ==
  ASSUME NEW ip \in Addresses
  PROVE  /\ IsFiniteSet(Trying(ip)) /\ IsFiniteSet(Locking(ip))
         /\ Cardinality(Trying(ip)) \in Nat /\ Cardinality(Locking(ip)) \in Nat
         /\ Cardinality(Handlers) \in Nat /\ MaxAttempts \in Nat /\ MaxAttempts >= 1
         /\ Cardinality(Trying(ip)) + Cardinality(Locking(ip)) <= Cardinality(Handlers)
<1> DEFINE T == Trying(ip)
           L == Locking(ip)
<1>1. T \subseteq Handlers /\ L \subseteq Handlers /\ T \cap L = {}
  BY DEF Trying, Locking, At
<1> HIDE DEF T, L
<1>2. IsFiniteSet(Handlers) /\ MaxAttempts \in Nat /\ MaxAttempts >= 1
  BY SessionsAssumption
<1>3. IsFiniteSet(T) /\ IsFiniteSet(L)
  BY <1>1, <1>2, FS_Subset
<1>4. Cardinality(T) \in Nat /\ Cardinality(L) \in Nat /\ Cardinality(Handlers) \in Nat
  BY <1>2, <1>3, FS_CardinalityType
<1>5. /\ IsFiniteSet(T \cup L)
      /\ Cardinality(T \cup L) = Cardinality(T) + Cardinality(L) - Cardinality({})
  BY <1>1, <1>3, FS_Union
<1>6. Cardinality(T \cup L) <= Cardinality(Handlers)
  BY <1>1, <1>2, FS_Subset
<1>7. Cardinality(T) + Cardinality(L) <= Cardinality(Handlers)
  BY <1>4, <1>5, <1>6, FS_EmptySet
<1> QED BY <1>2, <1>3, <1>4, <1>7 DEF T, L

LEMMA PrimedCounts ==
  ASSUME NEW ip \in Addresses
  PROVE  /\ IsFiniteSet(Locking(ip)')
         /\ Cardinality(Trying(ip)') \in Nat /\ Cardinality(Locking(ip)') \in Nat
         /\ Cardinality(Trying(ip)') <= Cardinality(Handlers)
<1> DEFINE T == Trying(ip)'
           L == Locking(ip)'
<1>1. T \subseteq Handlers /\ L \subseteq Handlers
  BY DEF Trying, Locking
<1> HIDE DEF T, L
<1>2. IsFiniteSet(Handlers)
  BY SessionsAssumption
<1>3. IsFiniteSet(T) /\ IsFiniteSet(L) /\ Cardinality(T) <= Cardinality(Handlers)
  BY <1>1, <1>2, FS_Subset
<1>4. Cardinality(T) \in Nat /\ Cardinality(L) \in Nat
  BY <1>3, FS_CardinalityType
<1> QED BY <1>3, <1>4 DEF T, L

\* The two sets are told by the step, the operation and the address of each
\* execution.
IsTrying(q) == q.op = "login" /\ (q.step = "find" \/ q.step = "count")

IsLocking(q) == q.op = "login" /\ q.step = "lock"

LEMMA SetMembers ==
  ASSUME TypeOK, NEW h \in Handlers, NEW q, Set(h, q), NEW ip \in Addresses
  PROVE  /\ Trying(ip)' = IF IsTrying(q) /\ q.ip = ip THEN Trying(ip) \cup {h}
                                                    ELSE Trying(ip) \ {h}
         /\ Locking(ip)' = IF IsLocking(q) /\ q.ip = ip THEN Locking(ip) \cup {h}
                                                      ELSE Locking(ip) \ {h}
<1>1. \A g \in Handlers : handler'[g] = IF g = h THEN q ELSE handler[g]
  BY SetOthers
<1> QED BY <1>1 DEF Trying, Locking, At, IsTrying, IsLocking

LEMMA DoneMembers ==
  ASSUME TypeOK, NEW h \in Handlers, Done(h), NEW ip \in Addresses
  PROVE  Trying(ip)' = Trying(ip) \ {h} /\ Locking(ip)' = Locking(ip) \ {h}
<1>1. \A g \in Handlers : handler'[g] = IF g = h THEN Idle ELSE handler[g]
  BY DoneOthers
<1>2. Idle.step = "idle"
  BY DEF Idle
<1> QED BY <1>1, <1>2 DEF Trying, Locking, At

\* A step that counts nothing for an address.
LEMMA QuietGuess ==
  ASSUME GuessInv, NEW ip \in Addresses,
         attempts'[ip] = attempts[ip], locked'[ip] = locked[ip],
         ip \in lockLost => ip \in lockLost',
         locked[ip] => Trying(ip)' \subseteq Trying(ip),
         ip \in lockLost' \/ Locking(ip) \subseteq Locking(ip)'
  PROVE  GuessAt(ip)'
<1> SUFFICES ASSUME ip \notin lockLost'
             PROVE  IF locked'[ip] THEN LockedBound(ip)' ELSE OpenBound(ip)'
  BY DEF GuessAt
<1>1. ip \notin lockLost /\ Locking(ip) \subseteq Locking(ip)' /\ GuessAt(ip)
  BY DEF GuessInv
<1>2. attempts[ip] \in Nat
  BY TypedParts DEF GuessInv, DataOK
<1>3. CASE locked[ip]
  <2>1. LockedBound(ip)
    BY <1>1, <1>3 DEF GuessAt
  <2>2. Cardinality(Trying(ip)') <= Cardinality(Trying(ip))
    BY <1>3, Counts, FS_Subset
  <2> QED BY <1>2, <1>3, <2>1, <2>2, Counts, PrimedCounts DEF LockedBound
<1>4. CASE ~locked[ip]
  <2>1. OpenBound(ip)
    BY <1>1, <1>4 DEF GuessAt
  <2>2. Cardinality(Locking(ip)) <= Cardinality(Locking(ip)')
    BY <1>1, PrimedCounts, FS_Subset
  <2> QED BY <1>2, <1>4, <2>1, <2>2, Counts, PrimedCounts DEF OpenBound
<1> QED BY <1>3, <1>4

\* A step of a login from one address counts nothing for the others.
LEMMA OtherGuess ==
  ASSUME GuessInv, NEW h \in Handlers, handler[h].ip \in Addresses,
         NEW ip \in Addresses, ip # handler[h].ip,
         attempts'[ip] = attempts[ip], locked'[ip] = locked[ip], lockLost' = lockLost,
         Done(h) \/ \E q : Set(h, q) /\ q.ip = handler[h].ip
  PROVE  GuessAt(ip)'
<1>1. TypeOK /\ h \notin Trying(ip) /\ h \notin Locking(ip)
  BY DEF GuessInv, Typed, Trying, Locking
<1>2. Trying(ip)' = Trying(ip) /\ Locking(ip)' = Locking(ip)
  BY <1>1, SetMembers, DoneMembers
<1> QED BY <1>2, QuietGuess

LEMMA CountGuess ==
  ASSUME GuessInv, NEW h \in Handlers, CountFailure(h), NEW ip \in Addresses
  PROVE  GuessAt(ip)'
<1>1. TypeOK /\ attempts \in [Addresses -> Nat]
  BY DEF GuessInv, Typed, TypeOK
<1>2. /\ handler[h].ip \in Addresses /\ handler[h].step = "count" /\ handler[h].op = "login"
      /\ attempts' = [attempts EXCEPT ![handler[h].ip] = attempts[handler[h].ip] + 1]
      /\ locked' = locked /\ lockLost' = lockLost
  BY <1>1, CountsOne DEF CountFailure, At
<1>3. \/ Done(h) /\ ~MustLock(attempts'[handler[h].ip])
      \/ \E q : /\ Set(h, q) /\ q.ip = handler[h].ip
               /\ IsLocking(q) /\ ~IsTrying(q)
  <2>1. CASE MustLock(attempts'[handler[h].ip])
    <3>1. Goto(h, "lock")
      BY <2>1 DEF CountFailure
    <3>2. PICK q : Set(h, q) /\ Same(handler[h], q) /\ q.step = "lock"
      BY <1>1, <1>2, <3>1, GotoSets DEF Steps
    <3> QED BY <1>2, <3>2 DEF Same, IsLocking, IsTrying
  <2>2. CASE ~MustLock(attempts'[handler[h].ip])
    BY <2>2 DEF CountFailure
  <2> QED BY <2>1, <2>2
<1>4. CASE ip # handler[h].ip
  <2>1. attempts'[ip] = attempts[ip]
    BY <1>1, <1>2, <1>4
  <2> QED BY <1>2, <1>3, <1>4, <2>1, OtherGuess
<1>5. CASE ip = handler[h].ip
  <2> SUFFICES ASSUME ip \notin lockLost
               PROVE  IF locked[ip] THEN LockedBound(ip)' ELSE OpenBound(ip)'
    BY <1>2 DEF GuessAt
  <2>1. attempts'[ip] = attempts[ip] + 1 /\ attempts[ip] \in Nat
    BY <1>1, <1>2, <1>5
  <2>2. h \in Trying(ip) /\ h \notin Locking(ip) /\ GuessAt(ip)
    BY <1>2, <1>5 DEF Trying, Locking, At, GuessInv
  <2>3. /\ Trying(ip)' = Trying(ip) \ {h}
        /\ \/ Locking(ip)' = Locking(ip) \cup {h}
           \/ Locking(ip)' = Locking(ip) /\ ~MustLock(attempts'[ip])
    BY <1>1, <1>3, <1>5, <2>2, SetMembers, DoneMembers
  <2>4. CASE locked[ip]
    <3>1. LockedBound(ip)
      BY <2>2, <2>4 DEF GuessAt
    <3>2. Cardinality(Trying(ip)') = Cardinality(Trying(ip)) - 1
      BY <2>2, <2>3, Counts, FS_RemoveElement
    <3> QED BY <2>1, <2>4, <3>1, <3>2, Counts DEF LockedBound
  <2>5. CASE ~locked[ip]
    <3>1. OpenBound(ip)
      BY <2>2, <2>5 DEF GuessAt
    <3>2. CASE Locking(ip)' = Locking(ip) \cup {h}
      <4>1. Cardinality(Locking(ip)') = Cardinality(Locking(ip)) + 1
        BY <2>2, <3>2, Counts, FS_AddElement
      <4> QED BY <2>1, <2>5, <3>1, <4>1, Counts DEF OpenBound
    <3>3. CASE ~MustLock(attempts'[ip])
      BY <2>1, <2>5, <3>3, Counts, PrimedCounts DEF OpenBound, MustLock
    <3> QED BY <2>3, <3>2, <3>3
  <2> QED BY <2>4, <2>5
<1> QED BY <1>4, <1>5

LEMMA LockGuess ==
  ASSUME GuessInv, NEW h \in Handlers, LockOut(h), NEW ip \in Addresses
  PROVE  GuessAt(ip)'
<1>1. /\ TypeOK /\ attempts \in [Addresses -> Nat] /\ locked \in [Addresses -> BOOLEAN]
      /\ handler[h].ip \in Addresses
  BY DEF GuessInv, Typed, TypeOK, LockOut, At
<1>2. /\ Done(h) /\ attempts' = attempts /\ lockLost' = lockLost
      /\ locked' = [locked EXCEPT ![handler[h].ip] = TRUE]
  BY DEF LockOut
<1>3. CASE ip # handler[h].ip
  <2>1. locked'[ip] = locked[ip]
    BY <1>1, <1>2, <1>3
  <2> QED BY <1>1, <1>2, <1>3, <2>1, OtherGuess
<1>4. CASE ip = handler[h].ip
  <2>1. h \notin Trying(ip)
    BY DEF LockOut, At, Trying
  <2>2. Trying(ip)' = Trying(ip)
    BY <1>1, <1>2, <2>1, DoneMembers
  <2>3. locked'[ip] = TRUE
    BY <1>1, <1>2, <1>4
  <2>4. attempts[ip] \in Nat /\ GuessAt(ip)
    BY <1>1 DEF GuessInv
  <2>5. ip \in lockLost \/ LockedBound(ip)
    BY <2>4, Counts DEF GuessAt, LockedBound, OpenBound
  <2>6. ip \in lockLost' \/ LockedBound(ip)'
    BY <1>2, <2>2, <2>5 DEF LockedBound
  <2> QED BY <2>3, <2>6 DEF GuessAt
<1> QED BY <1>3, <1>4

\* The counter of an address is reset.
LEMMA ZeroGuess ==
  ASSUME NEW ip \in Addresses, attempts'[ip] = 0
  PROVE  GuessAt(ip)'
BY Counts, PrimedCounts DEF GuessAt, LockedBound, OpenBound

LEMMA ClearGuess ==
  ASSUME GuessInv, NEW h \in Handlers, ClearAttempts(h), NEW ip \in Addresses
  PROVE  GuessAt(ip)'
<1>1. /\ TypeOK /\ attempts \in [Addresses -> Nat] /\ handler[h].ip \in Addresses
      /\ handler[h].step = "clear"
  BY DEF GuessInv, Typed, TypeOK, ClearAttempts, At
<1>2. /\ attempts' = [attempts EXCEPT ![handler[h].ip] = 0] /\ Goto(h, "revoke")
      /\ locked' = locked /\ lockLost' = lockLost
  BY DEF ClearAttempts
<1>3. CASE ip = handler[h].ip
  <2>1. attempts'[ip] = 0
    BY <1>1, <1>2, <1>3
  <2> QED BY <2>1, ZeroGuess
<1>4. CASE ip # handler[h].ip
  <2>1. attempts'[ip] = attempts[ip]
    BY <1>1, <1>2, <1>4
  <2>2. \E q : Set(h, q) /\ q.ip = handler[h].ip
    BY <1>1, <1>2, GotoSets DEF Steps, Same
  <2> QED BY <1>1, <1>2, <1>4, <2>1, <2>2, OtherGuess
<1> QED BY <1>3, <1>4

LEMMA StartGuess ==
  ASSUME GuessInv, NEW h \in Handlers, Beginning(h), NEW ip \in Addresses
  PROVE  GuessAt(ip)'
<1>1. TypeOK
  BY DEF GuessInv, Typed
<1>2. PICK q : Starts(h, q)
  BY <1>1, Starting DEF Beginning
<1>3. ~IsLocking(q) /\ (IsTrying(q) => ~locked[q.ip]) /\ h \notin Locking(ip)
  BY <1>2 DEF Starts, IsLocking, IsTrying, Locking, At, Idle
<1>4. Locking(ip)' = Locking(ip) /\ (locked[ip] => Trying(ip)' \subseteq Trying(ip))
  BY <1>1, <1>2, <1>3, SetMembers DEF Starts
<1> QED BY <1>2, <1>4, QuietGuess DEF Starts

LEMMA GoingGuess ==
  ASSUME GuessInv, NEW h \in Handlers, GoingOn(h), ~CountFailure(h), ~ClearAttempts(h),
         NEW ip \in Addresses
  PROVE  GuessAt(ip)'
<1>1. TypeOK
  BY DEF GuessInv, Typed
<1>2. attempts' = attempts
  <2>1. CASE SavePassword(h)
    BY <2>1 DEF SavePassword
  <2>2. CASE UseReset(h)
    BY <2>2 DEF UseReset
  <2>3. CASE ResetPassword(h)
    BY <2>3 DEF ResetPassword
  <2>4. CASE RightPassword(h)
    BY <2>4 DEF RightPassword
  <2> QED BY <2>1, <2>2, <2>3, <2>4
          DEF GoingOn, WrongPassword, RevokeDevice, RetireToken, CancelResets
<1>3. PICK q : /\ Goes(h, q) /\ q.step # "lock" /\ q.step # "find"
               /\ q.step = "count" => At(h, "login", "find")
  <2>1. CASE WrongPassword(h)
    BY <1>1, <2>1, Going DEF WrongPassword
  <2>2. CASE ~WrongPassword(h)
    BY <1>1, <2>2, Going DEF GoingOn
  <2> QED BY <2>1, <2>2
<1>4. h \notin Locking(ip)
  <2>1. handler[h].step # "lock" \/ handler[h].op # "login"
    BY DEF GoingOn, WrongPassword, RightPassword, RevokeDevice, RetireToken, SavePassword,
           CancelResets, ResetPassword, UseReset, At
  <2> QED BY <2>1 DEF Locking, At
<1>5. ~IsLocking(q) /\ (IsTrying(q) /\ q.ip = ip => h \in Trying(ip))
  BY <1>3 DEF IsLocking, IsTrying, Trying, Goes, Same
<1>6. Locking(ip)' = Locking(ip) /\ Trying(ip)' \subseteq Trying(ip)
  BY <1>1, <1>3, <1>4, <1>5, SetMembers DEF Goes
<1> QED BY <1>2, <1>3, <1>6, QuietGuess DEF Goes

LEMMA EndingGuess ==
  ASSUME GuessInv, NEW h \in Handlers, Ending(h), ~CountFailure(h), ~LockOut(h),
         NEW ip \in Addresses
  PROVE  GuessAt(ip)'
<1>1. TypeOK
  BY DEF GuessInv, Typed
<1>2. Done(h) /\ attempts' = attempts /\ locked' = locked
  BY DEF Ending, RightPassword, OpenSession, IssueReset, SaveEdit, Fail
<1>3. /\ lockLost \subseteq lockLost'
      /\ ip \in lockLost' \/ h \notin Locking(ip)
  <2>1. CASE Fail(h)
    BY <2>1 DEF Fail, Locking, At
  <2>2. CASE ~Fail(h)
    BY <2>2 DEF Ending, RightPassword, OpenSession, IssueReset, SaveEdit, Locking, At
  <2> QED BY <2>1, <2>2
<1>4. Trying(ip)' \subseteq Trying(ip) /\ Locking(ip)' = Locking(ip) \ {h}
  BY <1>1, <1>2, DoneMembers
<1>5. ip \in lockLost' \/ Locking(ip) \subseteq Locking(ip)'
  BY <1>3, <1>4
<1> QED BY <1>2, <1>3, <1>4, <1>5, QuietGuess

LEMMA CloseGuess ==
  ASSUME GuessInv, NEW h \in Handlers, CloseSessions(h), NEW ip \in Addresses
  PROVE  GuessAt(ip)'
<1>1. TypeOK
  BY DEF GuessInv, Typed
<1>2. handler[h].step = "close" /\ UNCHANGED <<attempts, locked, lockLost>>
  BY DEF CloseSessions
<1>3. ASSUME NEW g \in Handlers
      PROVE  /\ g \in Locking(ip) => g \in Locking(ip)'
             /\ g \in Trying(ip)' => g \in Trying(ip)
  <2>1. handler'[g] = Idle => handler[g] = Idle \/ g = h
    <3>1. handler' = [k \in Handlers |->
                        IF k = h THEN Idle
                        ELSE IF handler[k] = Idle THEN Idle
                        ELSE [handler[k] EXCEPT !.late = TRUE]]
      BY DEF CloseSessions
    <3>2. CASE g # h /\ handler[g] # Idle
      <4>1. handler[g] \in Working /\ handler'[g] = [handler[g] EXCEPT !.late = TRUE]
        BY <1>1, <3>1, <3>2, AtWork
      <4>2. handler'[g].step = handler[g].step
        BY <4>1 DEF Working
      <4> QED BY <4>1, <4>2, WorkingIsBusy DEF Idle
    <3> QED BY <3>2
  <2>2. CASE handler'[g] = Idle
    BY <1>2, <2>1, <2>2 DEF Trying, Locking, At, Idle
  <2>3. CASE handler'[g] # Idle
    BY <1>1, <2>3, CloseOthers DEF MarkedLate, Trying, Locking, At
  <2> QED BY <2>2, <2>3
<1>4. Trying(ip)' \subseteq Trying(ip) /\ Locking(ip) \subseteq Locking(ip)'
  <2>1. Trying(ip)' \subseteq Handlers /\ Locking(ip) \subseteq Handlers
    BY DEF Trying, Locking
  <2> QED BY <1>3, <2>1
<1> QED BY <1>2, <1>4, QuietGuess

\* A key expires when no login from its address is under way.
LEMMA ExpireGuess ==
  ASSUME GuessInv, NEW gone \in Addresses, Expire(gone), NEW ip \in Addresses
  PROVE  GuessAt(ip)'
<1>1. attempts \in [Addresses -> Nat] /\ locked \in [Addresses -> BOOLEAN]
  BY DEF GuessInv, Typed, TypeOK
<1>2. /\ UNCHANGED <<handler, lockLost>>
      /\ \/ attempts' = [attempts EXCEPT ![gone] = 0] /\ locked' = locked
         \/ /\ attempts[gone] = 0 /\ attempts' = attempts
            /\ locked' = [locked EXCEPT ![gone] = FALSE]
  BY DEF Expire
<1>3. Trying(ip)' = Trying(ip) /\ Locking(ip)' = Locking(ip)
  BY <1>2 DEF Trying, Locking, At
<1>4. CASE ip = gone
  <2>1. attempts'[ip] = 0
    BY <1>1, <1>2, <1>4
  <2> QED BY <2>1, ZeroGuess
<1>5. CASE ip # gone
  <2>1. attempts'[ip] = attempts[ip] /\ locked'[ip] = locked[ip]
    BY <1>1, <1>2, <1>5
  <2> QED BY <1>2, <1>3, <2>1, QuietGuess
<1> QED BY <1>4, <1>5

LEMMA NextGuess == GuessInv /\ [Next]_vars => GuessInv'
<1> SUFFICES ASSUME GuessInv, [Next]_vars, NEW ip \in Addresses PROVE GuessAt(ip)'
  BY NextTyped DEF GuessInv
<1>1. ASSUME NEW h \in Handlers, GoingOn(h) \/ Ending(h) PROVE GuessAt(ip)'
  BY <1>1, CountGuess, LockGuess, ClearGuess, GoingGuess, EndingGuess
<1>2. CASE Around
  <2>1. ASSUME NEW gone \in Addresses, Expire(gone) PROVE GuessAt(ip)'
    BY <2>1, ExpireGuess
  <2>2. CASE ~\E gone \in Addresses : Expire(gone)
    <3>1. UNCHANGED <<attempts, locked, lockLost, handler>>
      BY <1>2, <2>2 DEF Around, Logout, LogoutAll, RevokeSession, SetSuspended
    <3>2. Trying(ip)' = Trying(ip) /\ Locking(ip)' = Locking(ip)
      BY <3>1 DEF Trying, Locking, At
    <3> QED BY <3>1, <3>2, QuietGuess
  <2> QED BY <2>1, <2>2
<1>3. CASE UNCHANGED vars
  <2>1. UNCHANGED <<attempts, locked, lockLost, handler>>
    BY <1>3 DEF vars
  <2>2. Trying(ip)' = Trying(ip) /\ Locking(ip)' = Locking(ip)
    BY <2>1 DEF Trying, Locking, At
  <2> QED BY <2>1, <2>2, QuietGuess
<1> QED BY <1>1, <1>2, <1>3, StartGuess, CloseGuess, Kinds

\* From one address parallel logins try at most one password more than
\* allowed for each other request under way, unless a request dies before it
\* sets the lock: for any limit and any number of addresses and requests.
THEOREM GuessesCorrect == Spec => []GuessesBounded
<1>1. Init => GuessInv
  <2> SUFFICES ASSUME Init, NEW ip \in Addresses PROVE GuessAt(ip)
    BY InitTyped DEF GuessInv
  <2>1. attempts[ip] = 0 /\ locked[ip] = FALSE
    BY DEF Init
  <2> QED BY <2>1, Counts DEF GuessAt, OpenBound
<1>2. GuessInv => GuessesBounded
  <2> SUFFICES ASSUME GuessInv, NEW ip \in Addresses \ lockLost
               PROVE  attempts[ip] <= MaxAttempts - 1 + Cardinality(Handlers)
    BY DEF GuessesBounded
  <2>1. attempts[ip] \in Nat /\ ip \in Addresses /\ GuessAt(ip)
    BY TypedParts DEF GuessInv, DataOK
  <2> QED BY <2>1, Counts DEF GuessAt, LockedBound, OpenBound
<1> QED BY <1>1, <1>2, NextGuess, PTL DEF Spec

----------------------------------------------------------------------------
(* Tokens.  Each execution revokes the device's sessions before it opens   *)
(* its own, so no two that are open were opened by the same; the same is   *)
(* so of the tokens that reset a password.                                 *)

OneEach ==
  /\ \A i, j \in DOMAIN sessions :
       /\ Live(i) /\ Live(j) /\ sessions[i].device = sessions[j].device
       /\ sessions[i].opener = sessions[j].opener
       => i = j
  /\ \A i, j \in DOMAIN resets :
       ~resets[i].used /\ ~resets[j].used /\ resets[i].issuer = resets[j].issuer => i = j

\* Who is about to add one has none.
NoneYet(h) ==
  /\ handler[h].step = "open" =>
       \A i \in DOMAIN sessions :
         Live(i) /\ sessions[i].opener = h => sessions[i].device # handler[h].device
  /\ handler[h].step = "issue" =>
       \A i \in DOMAIN resets : ~resets[i].used => resets[i].issuer # h

TokensOK == OneEach /\ \A h \in Handlers : NoneYet(h)

TokenInv == Typed /\ TokensOK

\* Rows that are at most marked keep it true, for executions that were not
\* about to add one before, or still are.
LEMMA MarkedOne ==
  ASSUME TokenInv,
         sessions' = sessions \/ \E marked : Marked(marked),
         resets' = resets \/ \E marked : ResetsMarked(marked)
  PROVE  /\ OneEach'
         /\ \A h \in Handlers :
              /\ handler'[h].step = handler[h].step
              /\ handler[h].step = "open" => handler'[h].device = handler[h].device
              => NoneYet(h)'
<1>1. \A i \in DOMAIN sessions' :
        /\ i \in DOMAIN sessions /\ (Live(i)' => Live(i))
        /\ sessions'[i].device = sessions[i].device /\ sessions'[i].opener = sessions[i].opener
  BY DEF Marked, Live
<1>2. \A i \in DOMAIN resets' :
        /\ i \in DOMAIN resets /\ (~resets'[i].used => ~resets[i].used)
        /\ resets'[i].issuer = resets[i].issuer
  BY DEF ResetsMarked
<1>3. OneEach'
  BY <1>1, <1>2 DEF OneEach, TokenInv, TokensOK
<1>4. ASSUME NEW h \in Handlers, handler'[h].step = handler[h].step,
             handler[h].step = "open" => handler'[h].device = handler[h].device
      PROVE  NoneYet(h)'
  BY <1>1, <1>2, <1>4 DEF NoneYet, TokenInv, TokensOK
<1> QED BY <1>3, <1>4

LEMMA GoingTokens ==
  ASSUME TokenInv, NEW h \in Handlers, NEW q, Set(h, q),
         sessions' = sessions \/ \E marked : Marked(marked),
         resets' = resets \/ \E marked : ResetsMarked(marked),
         q.step = "open" => /\ q.device = handler[h].device
                            /\ Marked(OfDevice(handler[h].device)),
         q.step = "issue" => ResetsMarked(DOMAIN resets)
  PROVE  TokensOK'
<1>1. \A g \in Handlers : handler'[g] = IF g = h THEN q ELSE handler[g]
  BY SetOthers DEF TokenInv, Typed
<1>2. NoneYet(h)'
  <2>1. CASE q.step = "open"
    <3>1. \A i \in DOMAIN sessions' : Live(i)' => sessions'[i].device # q.device
      BY <2>1 DEF Marked, OfDevice, Live
    <3> QED BY <1>1, <2>1, <3>1 DEF NoneYet
  <2>2. CASE q.step = "issue"
    <3>1. \A i \in DOMAIN resets' : resets'[i].used
      BY <2>2 DEF ResetsMarked
    <3> QED BY <1>1, <2>2, <3>1 DEF NoneYet
  <2>3. CASE q.step # "open" /\ q.step # "issue"
    BY <1>1, <2>3 DEF NoneYet
  <2> QED BY <2>1, <2>2, <2>3
<1>3. OneEach' /\ \A g \in Handlers : g # h => NoneYet(g)'
  BY <1>1, MarkedOne
<1> QED BY <1>2, <1>3 DEF TokensOK

LEMMA GoingOnTokens ==
  ASSUME TokenInv, NEW h \in Handlers, GoingOn(h)
  PROVE  TokensOK'
<1>1. Typed /\ TypeOK
  BY DEF TokenInv, Typed
<1>2. CASE RevokeDevice(h)
  <2>1. PICK q : Goes(h, q) /\ q.step = "open"
    BY <1>1, <1>2, Going
  <2>2. Marked(OfDevice(handler[h].device)) /\ resets' = resets
    BY <1>1, <1>2, RevokeMarks DEF RevokeDevice
  <2> QED BY <2>1, <2>2, GoingTokens DEF Goes, Same
<1>3. CASE CancelResets(h)
  <2>1. PICK q : Goes(h, q) /\ q.step = "issue"
    BY <1>1, <1>3, Going
  <2>2. ResetsMarked(DOMAIN resets) /\ sessions' = sessions
    BY <1>1, <1>3, CancelMarks DEF CancelResets
  <2> QED BY <2>1, <2>2, GoingTokens DEF Goes
<1>4. ASSUME ~RevokeDevice(h), ~CancelResets(h)
      PROVE  TokensOK'
  <2>1. PICK q : Goes(h, q) /\ q.step # "open" /\ q.step # "issue"
    BY <1>1, <1>4, Going DEF GoingOn
  <2>2. /\ sessions' = sessions \/ \E marked : Marked(marked)
        /\ resets' = resets \/ \E marked : ResetsMarked(marked)
    <3>1. CASE RetireToken(h)
      BY <1>1, <3>1, RevokeMarks DEF RetireToken
    <3>2. CASE UseReset(h)
      <4>1. sessions' = sessions
        BY <3>2 DEF UseReset
      <4> QED BY <1>1, <3>2, <4>1, UseMarks
    <3>3. CASE SavePassword(h)
      BY <3>3 DEF SavePassword
    <3>4. CASE ResetPassword(h)
      BY <3>4 DEF ResetPassword
    <3>5. CASE RightPassword(h)
      BY <3>5 DEF RightPassword
    <3> QED BY <1>4, <3>1, <3>2, <3>3, <3>4, <3>5
            DEF GoingOn, WrongPassword, CountFailure, ClearAttempts
  <2> QED BY <2>1, <2>2, GoingTokens DEF Goes
<1> QED BY <1>2, <1>3, <1>4

LEMMA EndingTokens ==
  ASSUME TokenInv, NEW h \in Handlers, Ending(h)
  PROVE  TokensOK'
<1>1. TypeOK /\ Done(h)
  BY DEF TokenInv, Typed, Ending, LockOut, OpenSession, IssueReset, SaveEdit, Fail
<1>2. \A g \in Handlers : handler'[g] = IF g = h THEN Idle ELSE handler[g]
  BY <1>1, DoneOthers
<1>3. NoneYet(h)'
  BY <1>2 DEF NoneYet, Idle
<1>4. CASE OpenSession(h)
  <2>1. PICK row \in Session :
          Added(row) /\ row.device = handler[h].device /\ row.opener = h
    BY <1>1, <1>4, OpenAdds
  <2> DEFINE n == Len(sessions) + 1
  <2>2. /\ DOMAIN sessions' = DOMAIN sessions \cup {n} /\ n \notin DOMAIN sessions
        /\ \A i \in DOMAIN sessions : sessions'[i] = sessions[i]
        /\ sessions'[n].device = handler[h].device /\ sessions'[n].opener = h
    BY <2>1 DEF Added
  <2>3. resets' = resets
    BY <1>4 DEF OpenSession
  <2>4. \A i \in DOMAIN sessions :
          ~sessions[i].revoked /\ sessions[i].opener = h
          => sessions[i].device # handler[h].device
    BY <1>4 DEF OpenSession, TokenInv, TokensOK, NoneYet, Live
  <2> HIDE DEF n
  <2>5. OneEach'
    BY <2>2, <2>3, <2>4 DEF OneEach, Live, TokenInv, TokensOK
  <2>6. \A g \in Handlers : g # h => NoneYet(g)'
    BY <1>2, <2>2, <2>3 DEF NoneYet, Live, TokenInv, TokensOK
  <2> QED BY <1>3, <2>5, <2>6 DEF TokensOK
<1>5. CASE IssueReset(h)
  <2> DEFINE n == Len(resets) + 1
  <2>1. /\ DOMAIN resets' = DOMAIN resets \cup {n} /\ n \notin DOMAIN resets
        /\ \A i \in DOMAIN resets : resets'[i] = resets[i]
        /\ resets'[n].issuer = h
    BY <1>1, <1>5, IssueAdds
  <2>2. sessions' = sessions
    BY <1>5 DEF IssueReset
  <2>3. \A i \in DOMAIN resets : ~resets[i].used => resets[i].issuer # h
    BY <1>5 DEF IssueReset, At, TokenInv, TokensOK, NoneYet
  <2> HIDE DEF n
  <2>4. OneEach'
    BY <2>1, <2>2, <2>3 DEF OneEach, Live, TokenInv, TokensOK
  <2>5. \A g \in Handlers : g # h => NoneYet(g)'
    BY <1>2, <2>1, <2>2 DEF NoneYet, Live, TokenInv, TokensOK
  <2> QED BY <1>3, <2>4, <2>5 DEF TokensOK
<1>6. ASSUME ~OpenSession(h), ~IssueReset(h) PROVE TokensOK'
  <2>1. sessions' = sessions /\ resets' = resets
    BY <1>6 DEF Ending, RightPassword, CountFailure, LockOut, SaveEdit, Fail
  <2>2. OneEach' /\ \A g \in Handlers : g # h => NoneYet(g)'
    BY <1>2, <2>1, MarkedOne
  <2> QED BY <1>3, <2>2 DEF TokensOK
<1> QED BY <1>4, <1>5, <1>6

LEMMA CloseTokens ==
  ASSUME TokenInv, NEW h \in Handlers, CloseSessions(h)
  PROVE  TokensOK'
<1>1. TypeOK /\ resets' = resets
  BY DEF TokenInv, Typed, CloseSessions
<1>2. Marked(DOMAIN sessions)
  BY <1>1, SweepMarks DEF CloseSessions
<1>3. OneEach' /\ \A g \in Handlers :
        /\ handler'[g].step = handler[g].step
        /\ handler[g].step = "open" => handler'[g].device = handler[g].device
        => NoneYet(g)'
  BY <1>1, <1>2, MarkedOne
<1>4. \A g \in Handlers : NoneYet(g)'
  <2> TAKE g \in Handlers
  <2>1. CASE handler'[g] = Idle
    BY <2>1 DEF NoneYet, Idle
  <2>2. CASE handler'[g] # Idle
    BY <1>1, <1>3, <2>2, CloseOthers DEF MarkedLate
  <2> QED BY <2>1, <2>2
<1> QED BY <1>3, <1>4 DEF TokensOK

LEMMA NextTokens == TokenInv /\ [Next]_vars => TokenInv'
<1> SUFFICES ASSUME TokenInv, [Next]_vars PROVE TokensOK'
  BY NextTyped DEF TokenInv
<1>1. TypeOK
  BY DEF TokenInv, Typed
<1>2. ASSUME NEW h \in Handlers, Beginning(h) PROVE TokensOK'
  <2>1. PICK q : Starts(h, q)
    BY <1>1, <1>2, Starting DEF Beginning
  <2> QED BY <2>1, GoingTokens DEF Starts
<1>3. CASE Around
  <2>1. sessions' = sessions \/ \E marked : Marked(marked)
    BY <1>1, <1>3, RevokeMarks
       DEF Around, Logout, LogoutAll, RevokeSession, SetSuspended, Expire
  <2>2. handler' = handler /\ resets' = resets
    BY <1>3 DEF Around, Logout, LogoutAll, RevokeSession, SetSuspended, Expire
  <2> QED BY <2>1, <2>2, MarkedOne DEF TokensOK
<1>4. CASE UNCHANGED vars
  BY <1>4, MarkedOne DEF vars, TokensOK
<1> QED BY <1>2, <1>3, <1>4, GoingOnTokens, EndingTokens, CloseTokens, Kinds

\* However long requests go on, a device has no more sessions open, and the
\* account no more tokens to reset its password, than requests can overlap.
THEOREM TokensCorrect == Spec => []TokensBounded
<1>1. Init => TokenInv
  <2>1. Init => OneEach
    BY DEF Init, OneEach
  <2>2. Init => \A h \in Handlers : NoneYet(h)
    BY DEF Init, NoneYet, Idle
  <2> QED BY <2>1, <2>2, InitTyped DEF TokenInv, TokensOK
<1>2. ASSUME TokenInv PROVE TokensBounded
  <2>1. TypeOK /\ OneEach /\ IsFiniteSet(Handlers)
    BY <1>2, SessionsAssumption DEF TokenInv, TokensOK, Typed
  <2>2. ASSUME NEW d \in Devices
        PROVE  Cardinality({i \in DOMAIN sessions : Live(i) /\ sessions[i].device = d})
                 <= Cardinality(Handlers)
    <3> DEFINE S == {i \in DOMAIN sessions : Live(i) /\ sessions[i].device = d}
               f == [i \in S |-> sessions[i].opener]
    <3>1. f \in [S -> Handlers]
      BY <2>1, SessionRows
    <3>2. \A i, j \in S : f[i] = f[j] => i = j
      BY <2>1 DEF OneEach
    <3> HIDE DEF f, S
    <3>3. f \in Injection(S, Handlers)
      BY <3>1, <3>2 DEF Injection, IsInjective
    <3>4. Cardinality(S) <= Cardinality(Handlers)
      BY <2>1, <3>3, FS_Injection
    <3> QED BY <3>4 DEF S
  <2>3. Cardinality({i \in DOMAIN resets : ~resets[i].used}) <= Cardinality(Handlers)
    <3> DEFINE S == {i \in DOMAIN resets : ~resets[i].used}
               f == [i \in S |-> resets[i].issuer]
    <3>1. f \in [S -> Handlers]
      BY <2>1, ResetRows
    <3>2. \A i, j \in S : f[i] = f[j] => i = j
      BY <2>1 DEF OneEach
    <3> HIDE DEF f, S
    <3>3. f \in Injection(S, Handlers)
      BY <3>1, <3>2 DEF Injection, IsInjective
    <3>4. Cardinality(S) <= Cardinality(Handlers)
      BY <2>1, <3>3, FS_Injection
    <3> QED BY <3>4 DEF S
  <2> QED BY <2>2, <2>3 DEF TokensBounded
<1> QED BY <1>1, <1>2, NextTokens, PTL DEF Spec

=============================================================================
