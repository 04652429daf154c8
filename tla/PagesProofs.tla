---------------------------- MODULE PagesProofs ----------------------------
(***************************************************************************)
(* What the pages of the frontend show of the rows behind them, for any    *)
(* number of rows, calls and visits: the pages that list a table, the      *)
(* forms over one row, and the notifications with their badge.             *)
(***************************************************************************)
EXTENDS Badge, ListPages, EditForms, FiniteSetTheorems, SequenceTheorems, TLAPS

\* A sequence without its i-th element: the others keep their order.
LEMMA RemoveAtElements ==
  ASSUME NEW S, NEW s \in Seq(S), NEW i \in DOMAIN s
  PROVE  /\ RemoveAt(s, i) \in Seq(S) /\ Len(RemoveAt(s, i)) = Len(s) - 1
         /\ \A j \in 1..(Len(s) - 1) : RemoveAt(s, i)[j] = IF j < i THEN s[j] ELSE s[j + 1]
<1> DEFINE n == Len(s)
           a == SubSeq(s, 1, i - 1)
           b == SubSeq(s, i + 1, n)
<1>1. i \in 1..n /\ n \in Nat /\ \A j \in 1..n : s[j] \in S
  OBVIOUS
<1>2. a \in Seq(S) /\ Len(a) = i - 1 /\ \A j \in 1..(i - 1) : a[j] = s[j]
  BY <1>1
<1>3. b \in Seq(S) /\ Len(b) = n - i /\ \A j \in 1..(n - i) : b[j] = s[i + j]
  BY <1>1
<1>4. RemoveAt(s, i) = a \o b
  BY DEF RemoveAt
<1> HIDE DEF a, b, n
<1>5. a \o b \in Seq(S) /\ Len(a \o b) = Len(a) + Len(b)
      /\ \A j \in 1..(Len(a) + Len(b)) : (a \o b)[j] = IF j <= Len(a) THEN a[j] ELSE b[j - Len(a)]
  BY <1>2, <1>3, ConcatProperties
<1> DEFINE r == a \o b
<1>6. r \in Seq(S) /\ Len(r) = n - 1
      /\ \A j \in 1..(n - 1) : r[j] = IF j <= i - 1 THEN a[j] ELSE b[j - (i - 1)]
  <2>1. Len(a) = i - 1 /\ Len(b) = n - i /\ Len(a) + Len(b) = n - 1
    BY <1>1, <1>2, <1>3
  <2> QED BY <1>5, <2>1
<1> HIDE DEF r
<1>7. ASSUME NEW j \in 1..(n - 1)
      PROVE  r[j] = IF j < i THEN s[j] ELSE s[j + 1]
  <2>1. CASE j < i
    BY <1>1, <1>2, <1>6, <2>1
  <2>2. CASE ~(j < i)
    <3>1. r[j] = b[j - (i - 1)] /\ j - (i - 1) \in 1..(n - i) /\ i + (j - (i - 1)) = j + 1
      BY <1>1, <1>6, <2>2
    <3>2. b[j - (i - 1)] = s[i + (j - (i - 1))]
      BY <1>3, <3>1
    <3> QED BY <2>2, <3>1, <3>2
  <2> QED BY <2>1, <2>2
<1> QED BY <1>4, <1>6, <1>7 DEF r, n

LEMMA RemoveAtKeeps ==
  ASSUME NEW S, NEW s \in Seq(S), NEW i \in DOMAIN s
  PROVE  /\ \A j \in DOMAIN s \ {i} :
              \E k \in DOMAIN RemoveAt(s, i) : RemoveAt(s, i)[k] = s[j]
         /\ \A k \in DOMAIN RemoveAt(s, i) :
              \E j \in DOMAIN s \ {i} : RemoveAt(s, i)[k] = s[j]
<1> DEFINE r == RemoveAt(s, i)
<1>1. r \in Seq(S) /\ Len(r) = Len(s) - 1
      /\ \A j \in 1..(Len(s) - 1) : r[j] = IF j < i THEN s[j] ELSE s[j + 1]
  BY RemoveAtElements
<1> HIDE DEF r
<1>2. DOMAIN r = 1..(Len(s) - 1) /\ i \in 1..Len(s) /\ DOMAIN s = 1..Len(s) /\ Len(s) \in Nat
  BY <1>1
<1>3. ASSUME NEW j \in DOMAIN s \ {i} PROVE \E k \in DOMAIN r : r[k] = s[j]
  <2>1. CASE j < i
    BY <1>1, <1>2, <2>1
  <2>2. CASE j > i
    <3>1. j - 1 \in 1..(Len(s) - 1) /\ ~(j - 1 < i) /\ (j - 1) + 1 = j
      BY <1>2, <2>2
    <3> QED BY <1>1, <1>2, <3>1
  <2> QED BY <1>2, <2>1, <2>2
<1>4. ASSUME NEW k \in DOMAIN r PROVE \E j \in DOMAIN s \ {i} : r[k] = s[j]
  <2>1. CASE k < i
    BY <1>1, <1>2, <2>1
  <2>2. CASE ~(k < i)
    <3>1. k + 1 \in DOMAIN s \ {i}
      BY <1>2, <2>2
    <3> QED BY <1>1, <1>2, <2>2, <3>1
  <2> QED BY <2>1, <2>2
<1> QED BY <1>3, <1>4 DEF r

----------------------------------------------------------------------------
(* The pages that list a table.                                            *)

\* A call, and what a save asks for.
AllStatuses == {"PENDING", "CONFIRMED", "CANCELLED", "CREATE", "UPDATE", "on", "off", "none"}

ListCall == [kind : {"load", "save"}, row : 0..MaxRows, status : AllStatuses,
             answer : Answers, list : SUBSET Item, stale : BOOLEAN, old : BOOLEAN]

Asks == [row : Rows, status : Statuses \cup {"none"}]

Asked(req) == [row |-> req.row, status |-> req.status]

SaveUnderWay(req) == req.kind = "save" /\ req.answer = "none"

LoadTaken(req) == req.kind = "load" /\ req.answer = "ok"

\* What calls and histories look like: a list that was not overtaken by a
\* change is the table, and an open dialog is what was wished for last.
CallsOK ==
  /\ http \in Seq(ListCall)
  /\ \A i \in DOMAIN http :
       /\ http[i].kind = "save" => Asked(http[i]) \in Asks
       /\ http[i].answer = "none" => ~http[i].stale /\ ~http[i].old
       /\ LoadTaken(http[i]) /\ ~http[i].stale => http[i].list = Listed

DialogOK ==
  /\ dialog \in Asks \cup {NoDialog} /\ wish \in Asks \cup {NoDialog}
  /\ dialog # NoDialog => dialog = wish

\* A call that will make the page reload, or that it has missed something.
WillTell(req) ==
  \/ req.kind = "load" /\ (req.answer # "ok" \/ ~req.stale)
  \/ req.kind = "save" /\ req.answer = "ok"

\* The page has the table, unless it missed a change or will hear of it; and
\* an outdated list that is still to come has then been overtaken.
TableOrNews ==
  ~disorder /\ ~behind /\ ~(\E i \in DOMAIN http : WillTell(http[i])) =>
    /\ loaded = Listed
    /\ \A i \in DOMAIN http : LoadTaken(http[i]) => http[i].old

FilteredOK ==
  screen \in {"users", "tenants", "audit"} => filtered = Matching(loaded, filter, sought)

\* The calls can be numbered by the wishes they were sent under, n so far, so
\* that those of one number ask for the same.
Numbers(reqs, num, n, w) ==
  /\ Len(num) = Len(reqs)
  /\ \A i \in DOMAIN reqs : num[i] <= n
  /\ \A i, j \in DOMAIN reqs : i < j => num[i] <= num[j]
  /\ \A i \in DOMAIN reqs : SaveUnderWay(reqs[i]) =>
       /\ num[i] = n => w = Asked(reqs[i]) /\ w # NoDialog
       /\ \A j \in DOMAIN reqs : SaveUnderWay(reqs[j]) /\ num[j] = num[i] =>
            Asked(reqs[i]) = Asked(reqs[j])

Done(table, item) == table[item.row] = item.status

\* The flips that others do not account for are paid for by the wishes up to
\* number c, none of which is undone if all of them are spent.
Paid(reqs, num, c, n, w, spent, table) ==
  /\ c <= n /\ spent <= c
  /\ \A i \in DOMAIN reqs : SaveUnderWay(reqs[i]) => num[i] >= c
  /\ spent = c =>
       /\ \A i \in DOMAIN reqs : SaveUnderWay(reqs[i]) /\ num[i] = c =>
            Done(table, Asked(reqs[i]))
       /\ c = n /\ w # NoDialog => Done(table, w)

FlipsPaid ==
  ~disorder =>
    \E num \in Seq(Nat) : \E c \in Nat :
      /\ Numbers(http, num, intents, wish)
      /\ Paid(http, num, c, intents, wish, flips - others, stored)

ListInv ==
  ListTypeOK /\ CallsOK /\ DialogOK /\ TableOrNews /\ FilteredOK /\ FlipsPaid

\* A new load and a new save.
LEMMA NewCalls ==
  /\ Load \in ListCall /\ Load.kind = "load" /\ Load.answer = "none"
  /\ ~Load.stale /\ ~Load.old
  /\ \A item \in Asks :
       /\ Save(item) \in ListCall /\ Save(item).kind = "save" /\ Save(item).answer = "none"
       /\ Asked(Save(item)) = item /\ ~Save(item).stale /\ ~Save(item).old
<1>1. Load \in ListCall /\ Load.kind = "load" /\ Load.answer = "none"
      /\ Load.stale = FALSE /\ Load.old = FALSE
  BY ListAssumption DEF Load, ListCall, AllStatuses, Answers
<1>2. ASSUME NEW item \in Asks
      PROVE  /\ Save(item) \in ListCall /\ Save(item).kind = "save" /\ Save(item).answer = "none"
             /\ Asked(Save(item)) = item /\ ~Save(item).stale /\ ~Save(item).old
  <2>1. item.row \in Rows /\ item.status \in AllStatuses
        /\ item = [row |-> item.row, status |-> item.status]
    BY DEF Asks, Statuses, AllStatuses
  <2>2. item.row \in 0..MaxRows
    BY <2>1, ListAssumption DEF Rows
  <2> DEFINE s == Save(item)
  <2>3. s = [Load EXCEPT !.kind = "save", !.row = item.row, !.status = item.status]
    BY DEF Save
  <2> HIDE DEF s
  <2>4. /\ s \in ListCall /\ s.kind = "save" /\ s.row = item.row /\ s.status = item.status
        /\ s.answer = Load.answer /\ s.stale = Load.stale /\ s.old = Load.old
    BY <1>1, <2>1, <2>2, <2>3 DEF ListCall
  <2>5. Asked(s) = item
    BY <2>1, <2>4 DEF Asked
  <2> QED BY <1>1, <2>4, <2>5 DEF s
<1> QED BY <1>1, <1>2

\* What a change of the table does to the calls.
LEMMA OutdatedCalls ==
  ASSUME NEW reqs \in Seq(ListCall)
  PROVE  /\ Outdated(reqs) \in Seq(ListCall) /\ Len(Outdated(reqs)) = Len(reqs)
         /\ \A i \in DOMAIN reqs :
              /\ Outdated(reqs)[i].stale = (reqs[i].stale \/ reqs[i].answer # "none")
              /\ Outdated(reqs)[i].kind = reqs[i].kind
              /\ Outdated(reqs)[i].answer = reqs[i].answer
              /\ Outdated(reqs)[i].list = reqs[i].list
              /\ Outdated(reqs)[i].old = reqs[i].old
              /\ Outdated(reqs)[i].row = reqs[i].row
              /\ Outdated(reqs)[i].status = reqs[i].status
<1> DEFINE out(i) == [reqs[i] EXCEPT !.stale = @ \/ reqs[i].answer # "none"]
<1>1. \A i \in DOMAIN reqs : reqs[i] \in ListCall
  OBVIOUS
<1>2. ASSUME NEW i \in DOMAIN reqs
      PROVE  /\ out(i) \in ListCall
             /\ out(i).stale = (reqs[i].stale \/ reqs[i].answer # "none")
             /\ out(i).kind = reqs[i].kind /\ out(i).answer = reqs[i].answer
             /\ out(i).list = reqs[i].list /\ out(i).old = reqs[i].old
             /\ out(i).row = reqs[i].row /\ out(i).status = reqs[i].status
  BY <1>1 DEF ListCall
<1>3. Outdated(reqs) = [i \in DOMAIN reqs |-> out(i)]
  BY DEF Outdated
<1> HIDE DEF out
<1>4. DOMAIN reqs = 1..Len(reqs) /\ Len(reqs) \in Nat
  OBVIOUS
<1>5. Outdated(reqs) \in Seq(ListCall) /\ Len(Outdated(reqs)) = Len(reqs)
  BY <1>2, <1>3, <1>4
<1> QED BY <1>2, <1>3, <1>5

LEMMA ListStarts == ListInit => ListInv
<1> SUFFICES ASSUME ListInit PROVE ListInv
  OBVIOUS
<1>1. http \in Seq(ListCall) /\ Len(http) = 1 /\ DOMAIN http = {1} /\ http[1] = Load
  BY NewCalls DEF ListInit
<1>2. ListTypeOK
  <2>1. {loading, behind, disorder} \subseteq BOOLEAN
    BY DEF ListInit
  <2>2. \A i \in DOMAIN http : http[i].answer \in Answers /\ http[i].list \subseteq Item
    BY <1>1, NewCalls DEF Load, Answers
  <2>3. stored \in [Rows -> Statuses \cup {"none"}]
    BY DEF ListInit
  <2> QED BY <2>1, <2>2, <2>3, ListAssumption DEF ListInit, ListTypeOK
<1>3. CallsOK /\ DialogOK
  BY <1>1, NewCalls DEF ListInit, CallsOK, DialogOK, LoadTaken
<1>4. TableOrNews
  BY <1>1, NewCalls DEF TableOrNews, WillTell
<1>5. FilteredOK
  BY DEF ListInit, FilteredOK, Matching
<1>6. FlipsPaid
  <2>1. <<0>> \in Seq(Nat) /\ Len(<<0>>) = 1 /\ <<0>>[1] = 0
    OBVIOUS
  <2>2. intents = 0 /\ flips - others = 0 /\ wish = NoDialog
    BY DEF ListInit
  <2>3. Numbers(http, <<0>>, 0, NoDialog) /\ Paid(http, <<0>>, 0, 0, NoDialog, 0, stored)
    BY <1>1, <2>1, NewCalls DEF Numbers, Paid, SaveUnderWay
  <2> QED BY <2>1, <2>2, <2>3 DEF FlipsPaid
<1> QED BY <1>2, <1>3, <1>4, <1>5, <1>6 DEF ListInv

\* Calls of which fewer are saves under way, in the same places.
Fewer(fewer, reqs) ==
  /\ Len(fewer) = Len(reqs) /\ DOMAIN fewer = DOMAIN reqs
  /\ \A i \in DOMAIN reqs : SaveUnderWay(fewer[i]) =>
       SaveUnderWay(reqs[i]) /\ Asked(fewer[i]) = Asked(reqs[i])

LEMMA FewerPaid ==
  ASSUME NEW reqs, NEW fewer, NEW num, NEW n, NEW w, Fewer(fewer, reqs),
         Numbers(reqs, num, n, w)
  PROVE  /\ Numbers(fewer, num, n, w)
         /\ \A c, spent, table : Paid(reqs, num, c, n, w, spent, table) =>
              Paid(fewer, num, c, n, w, spent, table)
BY DEF Fewer, Numbers, Paid

\* A call is over.
LEMMA RemovePaid ==
  ASSUME NEW S, NEW reqs \in Seq(S), NEW num \in Seq(Nat), NEW n, NEW w,
         NEW i \in DOMAIN reqs, Numbers(reqs, num, n, w)
  PROVE  /\ RemoveAt(num, i) \in Seq(Nat)
         /\ Numbers(RemoveAt(reqs, i), RemoveAt(num, i), n, w)
         /\ \A c, spent, table : Paid(reqs, num, c, n, w, spent, table) =>
              Paid(RemoveAt(reqs, i), RemoveAt(num, i), c, n, w, spent, table)
<1> DEFINE len == Len(reqs)
           rest == RemoveAt(reqs, i)
           left == RemoveAt(num, i)
           at(k) == IF k < i THEN k ELSE k + 1
<1>1. Len(num) = len /\ DOMAIN reqs = 1..len /\ DOMAIN num = 1..len /\ len \in Nat /\ i \in 1..len
  BY DEF Numbers
<1>2. rest \in Seq(S) /\ Len(rest) = len - 1
      /\ \A k \in 1..(len - 1) : rest[k] = IF k < i THEN reqs[k] ELSE reqs[k + 1]
  BY <1>1, RemoveAtElements
<1>3. left \in Seq(Nat) /\ Len(left) = len - 1
      /\ \A k \in 1..(len - 1) : left[k] = IF k < i THEN num[k] ELSE num[k + 1]
  <2>1. i \in DOMAIN num
    BY <1>1
  <2>2. left \in Seq(Nat) /\ Len(left) = Len(num) - 1
        /\ \A k \in 1..(Len(num) - 1) : left[k] = IF k < i THEN num[k] ELSE num[k + 1]
    BY <2>1, RemoveAtElements
  <2> QED BY <1>1, <2>2
<1> HIDE DEF rest, left, len
<1>4. \A k \in 1..(len - 1) : at(k) \in 1..len
  BY <1>1
<1>5. \A k \in 1..(len - 1) : rest[k] = reqs[at(k)] /\ left[k] = num[at(k)]
  BY <1>2, <1>3
<1>6. \A k, m \in 1..(len - 1) : k < m => at(k) < at(m)
  BY <1>1
<1>7. DOMAIN rest = 1..(len - 1) /\ DOMAIN reqs = 1..len
  BY <1>1, <1>2
<1> HIDE DEF at
<1>8. Numbers(rest, left, n, w)
  <2>1. Len(left) = Len(rest)
    BY <1>2, <1>3
  <2>2. \A k \in DOMAIN rest : left[k] <= n
    BY <1>4, <1>5, <1>7 DEF Numbers
  <2>3. \A k, m \in DOMAIN rest : k < m => left[k] <= left[m]
    BY <1>4, <1>5, <1>6, <1>7 DEF Numbers
  <2>4. ASSUME NEW k \in DOMAIN rest, SaveUnderWay(rest[k])
        PROVE  /\ left[k] = n => w = Asked(rest[k]) /\ w # NoDialog
               /\ \A m \in DOMAIN rest : SaveUnderWay(rest[m]) /\ left[m] = left[k] =>
                    Asked(rest[k]) = Asked(rest[m])
    BY <1>4, <1>5, <1>7, <2>4 DEF Numbers
  <2> QED BY <2>1, <2>2, <2>3, <2>4 DEF Numbers
<1>9. ASSUME NEW c, NEW spent, NEW table, Paid(reqs, num, c, n, w, spent, table)
      PROVE  Paid(rest, left, c, n, w, spent, table)
  BY <1>4, <1>5, <1>7, <1>9 DEF Paid
<1> QED BY <1>3, <1>8, <1>9 DEF rest, left

\* A call is sent: if it is a save, for the last wish.
LEMMA AppendPaid ==
  ASSUME NEW S, NEW reqs \in Seq(S), NEW req \in S, NEW num \in Seq(Nat), NEW n \in Nat,
         NEW w, Numbers(reqs, num, n, w),
         SaveUnderWay(req) => w = Asked(req) /\ w # NoDialog
  PROVE  /\ Append(num, n) \in Seq(Nat)
         /\ Numbers(Append(reqs, req), Append(num, n), n, w)
         /\ \A c, spent, table : Paid(reqs, num, c, n, w, spent, table) =>
              Paid(Append(reqs, req), Append(num, n), c, n, w, spent, table)
<1> DEFINE len == Len(reqs)
           more == Append(reqs, req)
           nums == Append(num, n)
<1>1. Len(num) = len /\ DOMAIN reqs = 1..len /\ DOMAIN num = 1..len /\ len \in Nat
      /\ \A i \in 1..len : num[i] \in Nat
  BY DEF Numbers
<1>2. more \in Seq(S) /\ Len(more) = len + 1 /\ more[len + 1] = req
      /\ \A i \in 1..len : more[i] = reqs[i]
  BY <1>1, AppendProperties
<1>3. nums \in Seq(Nat) /\ Len(nums) = len + 1 /\ nums[len + 1] = n
      /\ \A i \in 1..len : nums[i] = num[i]
  BY <1>1, AppendProperties
<1> HIDE DEF more, nums, len
<1>4. DOMAIN more = 1..(len + 1) /\ DOMAIN reqs = 1..len
      /\ \A i \in 1..(len + 1) : i \in 1..len \/ i = len + 1
  BY <1>1, <1>2
<1>5. \A i \in 1..len : num[i] <= n
  BY <1>1 DEF Numbers
<1>6. Numbers(more, nums, n, w)
  <2>1. Len(nums) = Len(more)
    BY <1>2, <1>3
  <2>2. ASSUME NEW i \in DOMAIN more PROVE nums[i] <= n
    <3>1. CASE i \in 1..len
      BY <1>3, <1>5, <3>1
    <3>2. CASE i = len + 1
      BY <1>3, <3>2
    <3> QED BY <1>4, <3>1, <3>2
  <2>3. \A i, j \in DOMAIN more : i < j => nums[i] <= nums[j]
    <3> TAKE i, j \in DOMAIN more
    <3>1. CASE i \in 1..len /\ j \in 1..len
      BY <1>3, <1>4, <3>1 DEF Numbers
    <3>2. CASE i \in 1..len /\ j = len + 1
      BY <1>3, <1>5, <3>2
    <3>3. CASE i = len + 1
      BY <1>1, <1>4, <3>3
    <3> QED BY <1>4, <3>1, <3>2, <3>3
  <2>4. ASSUME NEW i \in DOMAIN more, SaveUnderWay(more[i])
        PROVE  /\ nums[i] = n => w = Asked(more[i]) /\ w # NoDialog
               /\ \A j \in DOMAIN more : SaveUnderWay(more[j]) /\ nums[j] = nums[i] =>
                    Asked(more[i]) = Asked(more[j])
    <3>1. \A j \in DOMAIN more : SaveUnderWay(more[j]) /\ nums[j] = n =>
            w = Asked(more[j]) /\ w # NoDialog
      BY <1>2, <1>3, <1>4 DEF Numbers
    <3>2. CASE i \in 1..len
      BY <1>2, <1>3, <1>4, <2>4, <3>1, <3>2 DEF Numbers
    <3>3. CASE i = len + 1
      BY <1>3, <2>4, <3>1, <3>3
    <3> QED BY <1>4, <3>2, <3>3
  <2> QED BY <2>1, <2>2, <2>3, <2>4 DEF Numbers
<1>7. ASSUME NEW c, NEW spent, NEW table, Paid(reqs, num, c, n, w, spent, table)
      PROVE  Paid(more, nums, c, n, w, spent, table)
  BY <1>2, <1>3, <1>4, <1>7 DEF Paid
<1> QED BY <1>3, <1>6, <1>7 DEF more, nums

\* A new wish has nothing under way yet.
LEMMA WishPaid ==
  ASSUME NEW reqs, NEW num \in Seq(Nat), NEW n \in Nat, NEW w, NEW wished,
         Numbers(reqs, num, n, w)
  PROVE  /\ Numbers(reqs, num, n + 1, wished)
         /\ \A c \in Nat : \A spent, table : Paid(reqs, num, c, n, w, spent, table) =>
              Paid(reqs, num, c, n + 1, wished, spent, table)
<1>1. \A i \in DOMAIN reqs : num[i] \in Nat
  BY DEF Numbers
<1>2. \A i \in DOMAIN reqs : num[i] <= n + 1 /\ num[i] # n + 1
  BY <1>1 DEF Numbers
<1> QED BY <1>2 DEF Numbers, Paid

\* A change of others pays for the flips it may bring about.
LEMMA OthersPaid ==
  ASSUME NEW reqs, NEW num, NEW n, NEW w, NEW c \in Nat, NEW spent \in Int, NEW table, NEW altered,
         Paid(reqs, num, c, n, w, spent, table)
  PROVE  Paid(reqs, num, c, n, w, spent - 1, altered)
BY DEF Paid

Changed(table, req) == [table EXCEPT ![req.row] = req.status]

Flips(table, taken) == IF taken = table THEN 0 ELSE 1

\* The first save under way is taken: it flips its row only if its wish was
\* not paid for before, or undone by others since.
LEMMA TakePaid ==
  ASSUME NEW reqs, NEW fewer, NEW num \in Seq(Nat), NEW n \in Nat, NEW w, NEW c \in Nat,
         NEW spent \in Int, NEW table \in [Rows -> AllStatuses], NEW taken, NEW i \in DOMAIN reqs,
         Numbers(reqs, num, n, w), Paid(reqs, num, c, n, w, spent, table),
         SaveUnderWay(reqs[i]), reqs[i].row \in Rows,
         \A j \in DOMAIN reqs : SaveUnderWay(reqs[j]) => ~(j < i),
         Len(reqs) \in Nat, DOMAIN reqs = 1..Len(reqs),
         Fewer(fewer, reqs), ~SaveUnderWay(fewer[i]),
         taken = Changed(table, reqs[i])
  PROVE  \E d \in Nat :
           Paid(fewer, num, d, n, w, spent + Flips(table, taken), taken)
<1> DEFINE item == Asked(reqs[i])
<1>1. item.row = reqs[i].row /\ item.status = reqs[i].status
  BY DEF Asked
<1>2. Done(taken, item)
  BY <1>1 DEF Done, Changed
<1>3. Done(table, item) => taken = table
  BY <1>1 DEF Done, Changed
<1>4. \A j \in DOMAIN reqs : num[j] \in Nat /\ num[j] <= n
  BY DEF Numbers
<1>5. \A j \in DOMAIN fewer : SaveUnderWay(fewer[j]) =>
        /\ j \in DOMAIN reqs /\ SaveUnderWay(reqs[j]) /\ Asked(fewer[j]) = Asked(reqs[j])
        /\ num[j] >= num[i]
        /\ num[j] = num[i] => Asked(fewer[j]) = item
  <2> SUFFICES ASSUME NEW j \in DOMAIN fewer, SaveUnderWay(fewer[j])
               PROVE  /\ j \in DOMAIN reqs /\ SaveUnderWay(reqs[j])
                      /\ Asked(fewer[j]) = Asked(reqs[j]) /\ num[j] >= num[i]
                      /\ num[j] = num[i] => Asked(fewer[j]) = item
    OBVIOUS
  <2>1. j \in DOMAIN reqs /\ SaveUnderWay(reqs[j]) /\ Asked(fewer[j]) = Asked(reqs[j])
    BY DEF Fewer
  <2>2. i < j
    BY <2>1
  <2>3. num[i] <= num[j]
    BY <2>1, <2>2 DEF Numbers
  <2>4. num[j] = num[i] => Asked(reqs[j]) = item
    BY <2>1 DEF Numbers
  <2> QED BY <1>4, <2>1, <2>3, <2>4
<1>6. num[i] = n => w = item
  BY DEF Numbers
<1> HIDE DEF item
<1>7. num[i] >= c /\ spent <= c /\ c <= n
      /\ (spent = c /\ num[i] = c => Done(table, item))
  BY DEF Paid, item
<1>8. CASE taken = table
  <2>1. Paid(fewer, num, c, n, w, spent, table)
    BY FewerPaid
  <2>2. spent + Flips(table, taken) = spent
    BY <1>8 DEF Flips
  <2> QED BY <1>8, <2>1, <2>2
<1>9. CASE taken # table
  <2>1. ~Done(table, item)
    BY <1>3, <1>9
  <2>2. spent + 1 <= num[i]
    BY <1>4, <1>7, <2>1
  <2>3. Paid(fewer, num, num[i], n, w, spent + 1, taken)
    BY <1>2, <1>4, <1>5, <1>6, <2>2 DEF Paid
  <2> QED BY <1>4, <1>9, <2>3 DEF Flips
<1> QED BY <1>8, <1>9

\* The calls and the table, as the proofs use them.
LEMMA CallsTyped ==
  ASSUME ListInv
  PROVE  /\ http \in Seq(ListCall) /\ Len(http) \in Nat /\ DOMAIN http = 1..Len(http)
         /\ \A i \in DOMAIN http : http[i] \in ListCall
         /\ Listed \subseteq Item /\ Statuses \subseteq AllStatuses
         /\ flips \in Nat /\ others \in Nat /\ intents \in Nat
<1>1. http \in Seq(ListCall)
  BY DEF ListInv, CallsOK
<1>2. Statuses \subseteq AllStatuses /\ "none" \notin Statuses
      /\ Statuses \subseteq {"PENDING", "CONFIRMED", "CANCELLED", "CREATE", "UPDATE", "on", "off"}
  BY DEF Statuses, AllStatuses
<1>3. Listed \subseteq Item
  <2>1. stored \in [Rows -> Statuses \cup {"none"}]
    BY DEF ListInv, ListTypeOK
  <2> SUFFICES ASSUME NEW r \in Rows, stored[r] # "none"
               PROVE  [row |-> r, status |-> stored[r]] \in Item
    BY DEF Listed
  <2>2. stored[r] \in Statuses
    BY <2>1
  <2> QED BY <1>2, <2>2 DEF Item
<1>4. flips \in Nat /\ others \in Nat /\ intents \in Nat
  BY DEF ListInv, ListTypeOK
<1> QED BY <1>1, <1>2, <1>3, <1>4

LEMMA ListCallFields ==
  ASSUME NEW reqs \in Seq(ListCall), NEW i \in DOMAIN reqs
  PROVE  reqs[i].answer \in Answers /\ reqs[i].list \subseteq Item
<1>1. reqs[i] \in ListCall
  OBVIOUS
<1> QED BY <1>1 DEF ListCall

\* What an answer does to its call: of a load it brings the list.
WithList(reqs, i, answer, list) == [reqs EXCEPT ![i].answer = answer, ![i].list = list]

WithAnswer(reqs, i, answer) == [reqs EXCEPT ![i].answer = answer]

AnsweredWith(after, reqs, i, answer, list) ==
  /\ after \in Seq(ListCall) /\ Len(after) = Len(reqs) /\ DOMAIN after = DOMAIN reqs
  /\ \A j \in DOMAIN reqs \ {i} : after[j] = reqs[j]
  /\ after[i].kind = reqs[i].kind /\ after[i].row = reqs[i].row
  /\ after[i].status = reqs[i].status /\ after[i].answer = answer
  /\ after[i].list = list /\ after[i].stale = reqs[i].stale
  /\ after[i].old = reqs[i].old

LEMMA Answered ==
  ASSUME NEW reqs \in Seq(ListCall), NEW i \in DOMAIN reqs, NEW answer \in Answers,
         NEW list \in SUBSET Item, NEW after,
         \/ after = WithList(reqs, i, answer, list)
         \/ after = WithAnswer(reqs, i, answer) /\ list = reqs[i].list
  PROVE  AnsweredWith(after, reqs, i, answer, list)
<1>1. reqs[i] \in ListCall /\ i \in 1..Len(reqs) /\ Len(reqs) \in Nat
  OBVIOUS
<1> DEFINE both == [reqs[i] EXCEPT !.answer = answer, !.list = list]
           one == [reqs[i] EXCEPT !.answer = answer]
<1>2. PICK r : after = [reqs EXCEPT ![i] = r] /\ (r = both \/ (r = one /\ list = reqs[i].list))
  <2>1. CASE after = WithList(reqs, i, answer, list)
    <3>1. after = [reqs EXCEPT ![i] = both]
      BY <1>1, <2>1 DEF WithList
    <3> QED BY <3>1
  <2>2. CASE after = WithAnswer(reqs, i, answer) /\ list = reqs[i].list
    <3>1. after = [reqs EXCEPT ![i] = one]
      BY <2>2 DEF WithAnswer
    <3> QED BY <2>2, <3>1
  <2> QED BY <2>1, <2>2
<1>3. /\ r \in ListCall
      /\ r.kind = reqs[i].kind /\ r.row = reqs[i].row /\ r.status = reqs[i].status
      /\ r.answer = answer /\ r.list = list /\ r.stale = reqs[i].stale /\ r.old = reqs[i].old
  <2>1. CASE r = both
    BY <1>1, <2>1 DEF ListCall
  <2>2. CASE r = one /\ list = reqs[i].list
    BY <1>1, <2>2 DEF ListCall
  <2> QED BY <1>2, <2>1, <2>2
<1>4. after \in Seq(ListCall) /\ Len(after) = Len(reqs)
      /\ \A j \in 1..Len(reqs) : after[j] = IF j = i THEN r ELSE reqs[j]
  BY <1>1, <1>2, <1>3, ExceptSeq
<1> QED BY <1>1, <1>3, <1>4 DEF AnsweredWith

LEMMA ListAnswered ==
  ASSUME NEW reqs \in Seq(ListCall), NEW i \in DOMAIN reqs, NEW answer \in Answers,
         NEW list \in SUBSET Item
  PROVE  AnsweredWith(WithList(reqs, i, answer, list), reqs, i, answer, list)
BY Answered

LEMMA OnlyAnswered ==
  ASSUME NEW reqs \in Seq(ListCall), NEW i \in DOMAIN reqs, NEW answer \in Answers
  PROVE  AnsweredWith(WithAnswer(reqs, i, answer), reqs, i, answer, reqs[i].list)
<1>1. reqs[i].list \in SUBSET Item
  BY ListCallFields
<1> QED BY <1>1, Answered

\* findAll answers with the table as it is.
LEMMA AnswerLoadKept ==
  ASSUME ListInv, NEW i \in DOMAIN http, AnswerLoad(i)
  PROVE  ListInv'
<1>0. /\ http \in Seq(ListCall) /\ http[i] \in ListCall /\ Listed \subseteq Item
      /\ Len(http) \in Nat /\ DOMAIN http = 1..Len(http)
  BY CallsTyped
<1>1. http[i].kind = "load" /\ http[i].answer = "none" /\ ~http[i].stale /\ ~http[i].old
  BY DEF AnswerLoad, ListInv, CallsOK
<1>2. PICK answer \in {"ok", "error"} :
        http' = [http EXCEPT ![i].answer = answer,
                             ![i].list = IF answer = "ok" THEN Listed ELSE {}]
  BY DEF AnswerLoad
<1>3. UNCHANGED <<screen, filter, sought, pageNo, acts, wish, intents, stored, loaded, filtered,
                  loading, dialog, others, flips, behind, disorder>>
  BY DEF AnswerLoad, userVars
<1>4. /\ http' \in Seq(ListCall) /\ Len(http') = Len(http) /\ DOMAIN http' = DOMAIN http
      /\ \A j \in DOMAIN http \ {i} : http'[j] = http[j]
      /\ http'[i].kind = "load" /\ http'[i].answer = answer
      /\ answer = "ok" => http'[i].list = Listed
      /\ ~http'[i].stale /\ ~http'[i].old
  <2>1. PICK list \in SUBSET Item : list = IF answer = "ok" THEN Listed ELSE {}
    BY <1>0
  <2>2. answer \in Answers /\ http' = WithList(http, i, answer, list)
    BY <1>2, <2>1 DEF Answers, WithList
  <2>3. AnsweredWith(http', http, i, answer, list)
    BY <1>0, <2>2, ListAnswered
  <2> QED BY <1>1, <2>1, <2>3 DEF AnsweredWith
<1>5. ListTypeOK'
  <2>1. \A j \in DOMAIN http' : http'[j].answer \in Answers /\ http'[j].list \subseteq Item
    BY <1>4, ListCallFields
  <2> QED BY <1>3, <2>1 DEF ListInv, ListTypeOK, Statuses
<1>6. Listed' = Listed
  BY <1>3 DEF Listed
<1>7. CallsOK' /\ DialogOK' /\ FilteredOK'
  <2>1. CallsOK'
    BY <1>3, <1>4, <1>6 DEF ListInv, CallsOK, LoadTaken, Asked, Asks, Statuses
  <2> QED BY <1>3, <2>1 DEF ListInv, DialogOK, FilteredOK, Matching, Asks, Statuses
<1>8. TableOrNews'
  BY <1>4 DEF TableOrNews, WillTell
<1>9. FlipsPaid'
  <2>1. Fewer(http', http)
    BY <1>4 DEF Fewer, SaveUnderWay
  <2>2. ASSUME ~disorder PROVE FlipsPaid'
    <3>1. PICK num \in Seq(Nat), c \in Nat :
            Numbers(http, num, intents, wish)
              /\ Paid(http, num, c, intents, wish, flips - others, stored)
      BY <2>2 DEF ListInv, FlipsPaid
    <3>2. Numbers(http', num, intents, wish)
            /\ Paid(http', num, c, intents, wish, flips - others, stored)
      BY <2>1, <3>1, FewerPaid
    <3> QED BY <1>3, <3>2 DEF FlipsPaid
  <2> QED BY <1>3, <2>2 DEF FlipsPaid
<1> QED BY <1>5, <1>7, <1>8, <1>9 DEF ListInv

\* What the server leaves alone, and its changes of the table.
ServerLeaves ==
  UNCHANGED <<screen, filter, sought, pageNo, acts, wish, intents, loaded, filtered, loading,
              dialog>>

LEMMA OutdatedTyped ==
  ASSUME ListInv
  PROVE  /\ Outdated(http) \in Seq(ListCall) /\ Len(Outdated(http)) = Len(http)
         /\ DOMAIN Outdated(http) = DOMAIN http
         /\ \A j \in DOMAIN http :
              LET req == Outdated(http)[j]
              IN  /\ req.stale = (http[j].answer # "none")
                  /\ req.kind = http[j].kind /\ req.answer = http[j].answer
                  /\ req.old = http[j].old /\ Asked(req) = Asked(http[j])
<1>1. http \in Seq(ListCall)
  BY CallsTyped
<1>2. /\ Outdated(http) \in Seq(ListCall) /\ Len(Outdated(http)) = Len(http)
      /\ \A j \in DOMAIN http :
           LET req == Outdated(http)[j]
           IN  /\ req.stale = (http[j].stale \/ http[j].answer # "none")
               /\ req.kind = http[j].kind /\ req.answer = http[j].answer
               /\ req.old = http[j].old /\ Asked(req) = Asked(http[j])
  BY <1>1, OutdatedCalls DEF Asked
<1>3. \A j \in DOMAIN http : http[j].stale \in BOOLEAN /\ (http[j].answer = "none" => ~http[j].stale)
  <2>1. \A j \in DOMAIN http : http[j] \in ListCall
    BY <1>1
  <2> QED BY <2>1 DEF ListCall, ListInv, CallsOK
<1>4. DOMAIN Outdated(http) = DOMAIN http
  BY <1>1, <1>2
<1>5. ASSUME NEW j \in DOMAIN http
      PROVE  Outdated(http)[j].stale = (http[j].answer # "none")
  BY <1>2, <1>3
<1> QED BY <1>2, <1>4, <1>5

LEMMA AnswerSaveKept ==
  ASSUME ListInv, NEW i \in DOMAIN http, AnswerSave(i)
  PROVE  ListInv'
<1>0. /\ http \in Seq(ListCall) /\ http[i] \in ListCall
      /\ Len(http) \in Nat /\ DOMAIN http = 1..Len(http) /\ flips \in Nat /\ others \in Nat
  BY CallsTyped
<1>1. http[i].kind = "save" /\ http[i].answer = "none" /\ SaveUnderWay(http[i])
  BY DEF AnswerSave, SaveUnderWay
<1>2. Asked(http[i]) \in Asks /\ http[i].row \in Rows /\ http[i].status \in Statuses \cup {"none"}
  <2>1. Asked(http[i]) \in Asks
    BY <1>1 DEF ListInv, CallsOK
  <2> QED BY <2>1 DEF Asks, Asked
<1>3. ServerLeaves /\ UNCHANGED others
  BY DEF AnswerSave, userVars, ServerLeaves
<1>4. DialogOK' /\ FilteredOK'
  BY <1>3 DEF ServerLeaves, ListInv, DialogOK, FilteredOK, Matching, Asks, Statuses
<1>5. CASE http' = [http EXCEPT ![i].answer = "error"] /\ UNCHANGED <<stored, flips, behind, disorder>>
  <2>1. AnsweredWith(http', http, i, "error", http[i].list)
    <3>1. http' = WithAnswer(http, i, "error")
      BY <1>5 DEF WithAnswer
    <3>2. "error" \in Answers
      BY DEF Answers
    <3> QED BY <1>0, <3>1, <3>2, OnlyAnswered
  <2>2. Listed' = Listed
    BY <1>5 DEF Listed
  <2>3. ListTypeOK'
    <3>1. \A j \in DOMAIN http' : http'[j].answer \in Answers /\ http'[j].list \subseteq Item
      BY <2>1, ListCallFields DEF AnsweredWith
    <3> QED BY <1>3, <1>5, <3>1 DEF ServerLeaves, ListInv, ListTypeOK, Statuses
  <2>4. CallsOK'
    BY <1>1, <1>3, <1>5, <2>1, <2>2 DEF ServerLeaves, AnsweredWith, ListInv, CallsOK, LoadTaken, Asked, Asks,
                                        Statuses
  <2>5. TableOrNews'
    BY <1>1, <1>3, <1>5, <2>1, <2>2 DEF ServerLeaves, AnsweredWith, ListInv, TableOrNews, WillTell, LoadTaken
  <2>6. FlipsPaid'
    <3>1. Fewer(http', http)
      BY <1>1, <2>1 DEF AnsweredWith, Fewer, SaveUnderWay, Asked
    <3>2. ASSUME ~disorder PROVE FlipsPaid'
      <4>1. PICK num \in Seq(Nat), c \in Nat :
              Numbers(http, num, intents, wish)
                /\ Paid(http, num, c, intents, wish, flips - others, stored)
        BY <3>2 DEF ListInv, FlipsPaid
      <4>2. Numbers(http', num, intents, wish)
              /\ Paid(http', num, c, intents, wish, flips - others, stored)
        BY <3>1, <4>1, FewerPaid
      <4> QED BY <1>3, <1>5, <4>2 DEF FlipsPaid, ServerLeaves
    <3> QED BY <1>5, <3>2 DEF FlipsPaid
  <2> QED BY <1>4, <2>3, <2>4, <2>5, <2>6 DEF ListInv
<1>6. ASSUME NEW answer \in {"ok", "error"},
             stored' = [stored EXCEPT ![http[i].row] = http[i].status],
             flips' = flips + (IF stored' = stored THEN 0 ELSE 1),
             http' = [Outdated(http) EXCEPT ![i].answer = answer],
             behind' = (behind \/ answer = "error"),
             disorder' = (disorder \/ \E j \in 1..(i - 1) : http[j].kind = "save" /\ http[j].answer = "none")
      PROVE  ListInv'
  <2> DEFINE reqs == Outdated(http)
  <2>1. /\ reqs \in Seq(ListCall) /\ Len(reqs) = Len(http) /\ DOMAIN reqs = DOMAIN http
        /\ \A j \in DOMAIN http :
             /\ reqs[j].stale = (http[j].answer # "none")
             /\ reqs[j].kind = http[j].kind /\ reqs[j].answer = http[j].answer
             /\ reqs[j].old = http[j].old /\ Asked(reqs[j]) = Asked(http[j])
    BY OutdatedTyped
  <2>2. http' = WithAnswer(reqs, i, answer)
    BY <1>6 DEF WithAnswer
  <2> HIDE DEF reqs
  <2>3. AnsweredWith(http', reqs, i, answer, reqs[i].list)
    <3>1. answer \in Answers /\ i \in DOMAIN reqs
      BY <2>1 DEF Answers
    <3> QED BY <2>1, <2>2, <3>1, OnlyAnswered
  <2>4. /\ http' \in Seq(ListCall) /\ Len(http') = Len(http) /\ DOMAIN http' = DOMAIN http
        /\ \A j \in DOMAIN http :
             /\ http'[j].stale = (http[j].answer # "none")
             /\ http'[j].kind = http[j].kind /\ http'[j].old = http[j].old
             /\ Asked(http'[j]) = Asked(http[j])
             /\ j # i => http'[j].answer = http[j].answer
        /\ http'[i].answer = answer
    BY <2>1, <2>3 DEF AnsweredWith, Asked
  <2>5. ListTypeOK'
    <3>1. \A j \in DOMAIN http' : http'[j].answer \in Answers /\ http'[j].list \subseteq Item
      BY <2>1, <2>3, ListCallFields DEF AnsweredWith
    <3>2. stored' \in [Rows -> Statuses' \cup {"none"}] /\ Statuses' = Statuses
      BY <1>2, <1>3, <1>6 DEF ServerLeaves, ListInv, ListTypeOK, Statuses
    <3>3. flips' \in Nat
      BY <1>0, <1>6
    <3>4. {loading, behind, disorder}' \subseteq BOOLEAN
      <4>1. {loading, behind, disorder} \subseteq BOOLEAN
        BY DEF ListInv, ListTypeOK
      <4> QED BY <1>3, <1>6, <4>1 DEF ServerLeaves
    <3> QED BY <1>3, <3>1, <3>2, <3>3, <3>4 DEF ServerLeaves, ListInv, ListTypeOK
  <2>6. CallsOK'
    <3>1. \A j \in DOMAIN http : http[j].answer = "none" => ~http[j].old
      BY DEF ListInv, CallsOK
    <3>2. \A j \in DOMAIN http : http[j].kind = "save" => Asked(http[j]) \in Asks
      BY DEF ListInv, CallsOK
    <3>3. Asks' = Asks
      BY <1>3 DEF ServerLeaves, Asks, Statuses
    <3>4. \A j \in DOMAIN http' : ~(LoadTaken(http'[j]) /\ ~http'[j].stale)
      BY <1>1, <2>4 DEF LoadTaken
    <3>5. \A j \in DOMAIN http' : http'[j].answer = "none" => http[j].answer = "none" /\ j # i
      BY <1>6, <2>4
    <3>6. \A j \in DOMAIN http' : http'[j].answer = "none" => ~http'[j].stale /\ ~http'[j].old
      BY <2>4, <3>1, <3>5
    <3>7. \A j \in DOMAIN http' : http'[j].kind = "save" => (Asked(http[j]))' \in Asks
      BY <2>4, <3>2 DEF Asked
    <3> QED BY <2>4, <3>3, <3>4, <3>6, <3>7 DEF CallsOK
  <2>7. TableOrNews'
    BY <1>1, <1>6, <2>4 DEF TableOrNews, WillTell
  <2>8. FlipsPaid'
    <3> SUFFICES ASSUME ~disorder' PROVE FlipsPaid'
      BY DEF FlipsPaid
    <3>1. ~disorder /\ \A j \in DOMAIN http : SaveUnderWay(http[j]) => ~(j < i)
      <4>1. ~disorder /\ ~(\E j \in 1..(i - 1) : http[j].kind = "save" /\ http[j].answer = "none")
        BY <1>6
      <4> QED BY <1>0, <4>1 DEF SaveUnderWay
    <3>2. PICK num \in Seq(Nat), c \in Nat :
            Numbers(http, num, intents, wish)
              /\ Paid(http, num, c, intents, wish, flips - others, stored)
      BY <3>1 DEF ListInv, FlipsPaid
    <3>3. Fewer(http', http) /\ ~SaveUnderWay(http'[i])
      BY <1>1, <1>6, <2>4 DEF Fewer, SaveUnderWay
    <3>4. Numbers(http', num, intents, wish)
      BY <3>2, <3>3, FewerPaid
    <3>5. intents \in Nat /\ flips - others \in Int /\ stored \in [Rows -> AllStatuses]
      <4>1. stored \in [Rows -> Statuses \cup {"none"}] /\ Statuses \cup {"none"} \subseteq AllStatuses
        BY CallsTyped DEF ListInv, ListTypeOK, AllStatuses
      <4> QED BY CallsTyped, <1>0, <4>1
    <3>6. PICK d \in Nat :
            Paid(http', num, d, intents, wish,
                 (flips - others) + Flips(stored, stored'), stored')
      <4> DEFINE taken == stored'
                 fewer == http'
                 spent == flips - others
      <4>1. taken = Changed(stored, http[i]) /\ Fewer(fewer, http) /\ ~SaveUnderWay(fewer[i])
        BY <1>6, <3>3 DEF Changed
      <4>2. spent \in Int /\ Paid(http, num, c, intents, wish, spent, stored)
        BY <3>2, <3>5
      <4> HIDE DEF taken, fewer, spent
      <4>3. Numbers(http, num, intents, wish) /\ SaveUnderWay(http[i]) /\ http[i].row \in Rows
            /\ (\A j \in DOMAIN http : SaveUnderWay(http[j]) => ~(j < i))
            /\ Len(http) \in Nat /\ DOMAIN http = 1..Len(http)
        BY <1>0, <1>1, <1>2, <3>1, <3>2
      <4>4. \E d \in Nat :
              Paid(fewer, num, d, intents, wish,
                   spent + Flips(stored, taken), taken)
        BY <3>5, <4>1, <4>2, <4>3, TakePaid
      <4> QED BY <4>4 DEF taken, fewer, spent
    <3>7. flips' - others' = (flips - others) + Flips(stored, stored')
      BY <1>0, <1>3, <1>6 DEF Flips
    <3>8. Paid(http', num, d, intents', wish', flips' - others', stored')
      BY <1>3, <3>6, <3>7 DEF ServerLeaves
    <3> QED BY <1>3, <3>4, <3>8 DEF ServerLeaves, FlipsPaid
  <2>9. DialogOK' /\ FilteredOK'
    BY <1>4
  <2> QED BY <2>5, <2>6, <2>7, <2>8, <2>9 DEF ListInv
<1> QED BY <1>5, <1>6 DEF AnswerSave, Taken

LEMMA ChangeElsewhereKept == ListInv /\ ChangeElsewhere => ListInv'
<1> SUFFICES ASSUME ListInv, ChangeElsewhere PROVE ListInv'
  OBVIOUS
<1>0. /\ http \in Seq(ListCall) /\ Len(http) \in Nat /\ DOMAIN http = 1..Len(http)
      /\ flips \in Nat /\ others \in Nat /\ intents \in Nat
  BY CallsTyped
<1>1. /\ ServerLeaves /\ UNCHANGED <<flips, disorder>> /\ behind' = TRUE /\ others' = others + 1
      /\ http' = Outdated(http)
  BY DEF ChangeElsewhere, userVars, ServerLeaves
<1>2. stored' \in [Rows -> Statuses \cup {"none"}]
  BY DEF ChangeElsewhere, ListInv, ListTypeOK
<1>3. /\ http' \in Seq(ListCall) /\ DOMAIN http' = DOMAIN http /\ Len(http') = Len(http)
      /\ \A j \in DOMAIN http :
           /\ http'[j].stale = (http[j].answer # "none")
           /\ http'[j].kind = http[j].kind /\ http'[j].answer = http[j].answer
           /\ http'[j].old = http[j].old /\ (Asked(http[j]))' = Asked(http[j])
  <2>1. /\ http' \in Seq(ListCall) /\ DOMAIN http' = DOMAIN http /\ Len(http') = Len(http)
        /\ \A j \in DOMAIN http :
             /\ http'[j].stale = (http[j].answer # "none")
             /\ http'[j].kind = http[j].kind /\ http'[j].answer = http[j].answer
             /\ http'[j].old = http[j].old /\ Asked(http'[j]) = Asked(http[j])
    BY <1>1, OutdatedTyped
  <2> QED BY <2>1 DEF Asked
<1>4. ListTypeOK'
  <2>1. \A j \in DOMAIN http' : http'[j].answer \in Answers /\ http'[j].list \subseteq Item
    BY <1>3, ListCallFields
  <2>2. {loading, behind, disorder}' \subseteq BOOLEAN
    <3>1. {loading, behind, disorder} \subseteq BOOLEAN
      BY DEF ListInv, ListTypeOK
    <3> QED BY <1>1, <3>1 DEF ServerLeaves
  <2>3. others' \in Nat
    BY <1>0, <1>1
  <2> QED BY <1>1, <1>2, <2>1, <2>2, <2>3 DEF ServerLeaves, ListInv, ListTypeOK, Statuses
<1>5. DialogOK' /\ FilteredOK'
  BY <1>1 DEF ServerLeaves, ListInv, DialogOK, FilteredOK, Matching, Asks, Statuses
<1>6. CallsOK'
  <2>1. \A j \in DOMAIN http' :
          (Asked(http[j]))' \in Asks \/ http'[j].kind # "save"
    BY <1>3 DEF ListInv, CallsOK
  <2>2. Asks' = Asks
    BY <1>1 DEF ServerLeaves, Asks, Statuses
  <2> QED BY <1>3, <2>1, <2>2 DEF ListInv, CallsOK, LoadTaken
<1>7. TableOrNews'
  BY <1>1 DEF TableOrNews
<1>8. FlipsPaid'
  <2> SUFFICES ASSUME ~disorder' PROVE FlipsPaid'
    BY DEF FlipsPaid
  <2>1. PICK num \in Seq(Nat), c \in Nat :
          Numbers(http, num, intents, wish)
            /\ Paid(http, num, c, intents, wish, flips - others, stored)
    BY <1>1 DEF ListInv, FlipsPaid
  <2>2. Fewer(http', http)
    <3>1. \A j \in DOMAIN http : Asked(http'[j]) = Asked(http[j])
      BY <1>3 DEF Asked
    <3>2. Len(http') = Len(http) /\ DOMAIN http' = DOMAIN http
          /\ \A j \in DOMAIN http : http'[j].kind = http[j].kind /\ http'[j].answer = http[j].answer
      BY <1>3
    <3> QED BY <3>1, <3>2 DEF Fewer, SaveUnderWay
  <2>3. Numbers(http', num, intents, wish)
          /\ Paid(http', num, c, intents, wish, flips - others, stored)
    BY <2>1, <2>2, FewerPaid
  <2>4. Paid(http', num, c, intents, wish, (flips - others) - 1, stored')
    <3>1. flips - others \in Int
      BY <1>0
    <3> QED BY <2>1, <2>3, <3>1, OthersPaid
  <2>5. (flips - others) - 1 = flips' - others'
    BY <1>0, <1>1
  <2>6. Paid(http', num, c, intents', wish', flips' - others', stored')
    BY <1>1, <2>4, <2>5 DEF ServerLeaves
  <2> QED BY <1>1, <2>1, <2>3, <2>6 DEF ServerLeaves, FlipsPaid
<1> QED BY <1>4, <1>5, <1>6, <1>7, <1>8 DEF ListInv

\* The flips so far are paid for by the first n wishes, w the last of them.
PaidUnder(reqs, n, w) ==
  \E num \in Seq(Nat) : \E c \in Nat :
    /\ Numbers(reqs, num, n, w)
    /\ Paid(reqs, num, c, n, w, flips - others, stored)

LEMMA MorePaidUnder ==
  ASSUME NEW reqs \in Seq(ListCall), NEW req \in ListCall, NEW n \in Nat, NEW w,
         PaidUnder(reqs, n, w), SaveUnderWay(req) => w = Asked(req) /\ w # NoDialog
  PROVE  PaidUnder(Append(reqs, req), n, w)
<1>1. PICK num \in Seq(Nat), c \in Nat :
        Numbers(reqs, num, n, w) /\ Paid(reqs, num, c, n, w, flips - others, stored)
  BY DEF PaidUnder
<1>2. /\ Append(num, n) \in Seq(Nat)
      /\ Numbers(Append(reqs, req), Append(num, n), n, w)
      /\ Paid(Append(reqs, req), Append(num, n), c, n, w, flips - others, stored)
  BY <1>1, AppendPaid
<1> QED BY <1>2 DEF PaidUnder

\* They are by the wishes so far.
PaidFor(reqs) == PaidUnder(reqs, intents, wish)

LEMMA FewerPaidFor ==
  ASSUME NEW reqs, NEW fewer, Fewer(fewer, reqs), PaidFor(reqs)
  PROVE  PaidFor(fewer)
BY FewerPaid DEF PaidFor, PaidUnder

LEMMA RestPaidFor ==
  ASSUME NEW reqs \in Seq(ListCall), NEW i \in DOMAIN reqs, PaidFor(reqs)
  PROVE  PaidFor(RemoveAt(reqs, i))
<1>1. PICK num \in Seq(Nat), c \in Nat :
        Numbers(reqs, num, intents, wish)
          /\ Paid(reqs, num, c, intents, wish, flips - others, stored)
  BY DEF PaidFor, PaidUnder
<1>2. /\ RemoveAt(num, i) \in Seq(Nat)
      /\ Numbers(RemoveAt(reqs, i), RemoveAt(num, i), intents, wish)
      /\ Paid(RemoveAt(reqs, i), RemoveAt(num, i), c, intents, wish, flips - others, stored)
  BY <1>1, RemovePaid
<1> QED BY <1>2 DEF PaidFor, PaidUnder

\* What is left of the calls when one has come back.
LEMMA RestCalls ==
  ASSUME ListInv, NEW i \in DOMAIN http
  PROVE  /\ RemoveAt(http, i) \in Seq(ListCall)
         /\ \A k \in DOMAIN RemoveAt(http, i) :
              \E j \in DOMAIN http \ {i} : RemoveAt(http, i)[k] = http[j]
         /\ \A j \in DOMAIN http \ {i} :
              \E k \in DOMAIN RemoveAt(http, i) : RemoveAt(http, i)[k] = http[j]
         /\ ~disorder => PaidFor(RemoveAt(http, i))
<1>1. http \in Seq(ListCall)
  BY CallsTyped
<1>2. /\ RemoveAt(http, i) \in Seq(ListCall)
      /\ \A k \in DOMAIN RemoveAt(http, i) :
           \E j \in DOMAIN http \ {i} : RemoveAt(http, i)[k] = http[j]
      /\ \A j \in DOMAIN http \ {i} :
           \E k \in DOMAIN RemoveAt(http, i) : RemoveAt(http, i)[k] = http[j]
  BY <1>1, RemoveAtElements, RemoveAtKeeps
<1>3. ~disorder => PaidFor(http)
  BY DEF ListInv, FlipsPaid, PaidFor, PaidUnder
<1> QED BY <1>1, <1>2, <1>3, RestPaidFor

\* When a newer list comes, the lists still to come are old ones.
OldFrom(reqs) ==
  [j \in DOMAIN reqs |-> [reqs[j] EXCEPT !.old = @ \/ reqs[j].answer # "none"]]

LEMMA OldCalls ==
  ASSUME NEW reqs \in Seq(ListCall)
  PROVE  /\ OldFrom(reqs) \in Seq(ListCall) /\ Len(OldFrom(reqs)) = Len(reqs)
         /\ DOMAIN OldFrom(reqs) = DOMAIN reqs
         /\ \A i \in DOMAIN reqs :
              LET req == OldFrom(reqs)[i]
              IN  /\ req.old = (reqs[i].old \/ reqs[i].answer # "none")
                  /\ req.kind = reqs[i].kind /\ req.answer = reqs[i].answer
                  /\ req.list = reqs[i].list /\ req.stale = reqs[i].stale
                  /\ Asked(req) = Asked(reqs[i])
<1> DEFINE out(i) == [reqs[i] EXCEPT !.old = @ \/ reqs[i].answer # "none"]
<1>1. \A i \in DOMAIN reqs : reqs[i] \in ListCall
  OBVIOUS
<1>2. ASSUME NEW i \in DOMAIN reqs
      PROVE  /\ out(i) \in ListCall
             /\ out(i).old = (reqs[i].old \/ reqs[i].answer # "none")
             /\ out(i).kind = reqs[i].kind /\ out(i).answer = reqs[i].answer
             /\ out(i).list = reqs[i].list /\ out(i).stale = reqs[i].stale
             /\ Asked(out(i)) = Asked(reqs[i])
  BY <1>1 DEF ListCall, Asked
<1>3. OldFrom(reqs) = [i \in DOMAIN reqs |-> out(i)]
  BY DEF OldFrom
<1> HIDE DEF out
<1>4. DOMAIN reqs = 1..Len(reqs) /\ Len(reqs) \in Nat
  OBVIOUS
<1>5. OldFrom(reqs) \in Seq(ListCall) /\ Len(OldFrom(reqs)) = Len(reqs)
  BY <1>2, <1>3, <1>4
<1> QED BY <1>2, <1>3, <1>5

\* What an answer that comes back leaves alone.
PageLeaves ==
  UNCHANGED <<screen, filter, sought, pageNo, acts, wish, intents, stored, others, flips>>

LEMMA PageLeavesOK ==
  ASSUME ListInv, PageLeaves
  PROVE  /\ Listed' = Listed /\ Asks' = Asks /\ Statuses' = Statuses
         /\ \A reqs : PaidFor(reqs)' <=> PaidFor(reqs)
BY DEF PageLeaves, Listed, Asks, Statuses, PaidFor, PaidUnder

LEMMA DeliverLoadKept ==
  ASSUME ListInv, NEW i \in DOMAIN http, DeliverLoad(i)
  PROVE  ListInv'
<1> DEFINE rest == RemoveAt(http, i)
<1>0. http \in Seq(ListCall) /\ http[i] \in ListCall /\ \A j \in DOMAIN http : http[j] \in ListCall
  BY CallsTyped
<1>1. http[i].kind = "load" /\ http[i].answer # "none" /\ http[i].list \subseteq Item
  BY <1>0 DEF DeliverLoad, ListCall
<1>2. PageLeaves /\ UNCHANGED dialog /\ loading' = FALSE
  BY DEF DeliverLoad, userVars, PageLeaves
<1>3. /\ rest \in Seq(ListCall)
      /\ \A k \in DOMAIN rest : \E j \in DOMAIN http \ {i} : rest[k] = http[j]
      /\ \A j \in DOMAIN http \ {i} : \E k \in DOMAIN rest : rest[k] = http[j]
      /\ ~disorder => PaidFor(rest)
  BY RestCalls
<1>4. \/ /\ http[i].answer = "ok" /\ loaded' = http[i].list
         /\ filtered' = Filtered(http[i].list)
         /\ behind' = (behind /\ http[i].stale)
         /\ disorder' = (disorder \/ http[i].old)
         /\ http' = OldFrom(rest)
      \/ /\ http[i].answer # "ok" /\ behind' = TRUE /\ http' = rest
         /\ UNCHANGED <<loaded, filtered, disorder>>
  BY DEF DeliverLoad, OldFrom
<1>5. /\ Listed' = Listed /\ Asks' = Asks /\ Statuses' = Statuses
  BY <1>2, PageLeavesOK
<1> HIDE DEF rest
<1>6. ASSUME NEW k \in DOMAIN rest
      PROVE  /\ rest[k].kind = "save" => Asked(rest[k]) \in Asks
             /\ rest[k].answer = "none" => ~rest[k].stale /\ ~rest[k].old
             /\ LoadTaken(rest[k]) /\ ~rest[k].stale => rest[k].list = Listed
  BY <1>3, <1>6 DEF ListInv, CallsOK
<1>7. /\ http' \in Seq(ListCall) /\ DOMAIN http' = DOMAIN rest
      /\ \A k \in DOMAIN rest :
           /\ http'[k].kind = rest[k].kind /\ http'[k].answer = rest[k].answer
           /\ http'[k].list = rest[k].list /\ http'[k].stale = rest[k].stale
           /\ Asked(http'[k]) = Asked(rest[k])
           /\ http[i].answer = "ok" => http'[k].old = (rest[k].old \/ rest[k].answer # "none")
           /\ http[i].answer # "ok" => http'[k].old = rest[k].old
  BY <1>3, <1>4, OldCalls
<1>8. CallsOK'
  <2>1. \A k \in DOMAIN http' : http'[k].kind = "save" => Asked(http'[k]) \in Asks'
    BY <1>5, <1>6, <1>7
  <2>2. \A k \in DOMAIN http' : http'[k].answer = "none" => ~http'[k].stale /\ ~http'[k].old
    BY <1>6, <1>7
  <2>3. \A k \in DOMAIN http' : LoadTaken(http'[k]) /\ ~http'[k].stale => http'[k].list = Listed'
    BY <1>5, <1>6, <1>7 DEF LoadTaken
  <2>4. \A k \in DOMAIN http' : (Asked(http[k]))' = Asked(http'[k])
    BY DEF Asked
  <2> QED BY <1>7, <2>1, <2>2, <2>3, <2>4 DEF CallsOK, LoadTaken
<1>9. DialogOK' /\ FilteredOK'
  <2>1. DialogOK'
    BY <1>2, <1>5 DEF PageLeaves, ListInv, DialogOK
  <2>2. FilteredOK'
    BY <1>2, <1>4 DEF PageLeaves, ListInv, FilteredOK, Filtered, Matching, Matches
  <2> QED BY <2>1, <2>2
<1>10. ListTypeOK'
  <2>1. \A j \in DOMAIN http' : http'[j].answer \in Answers /\ http'[j].list \subseteq Item
    BY <1>7, ListCallFields
  <2>2. {loading, behind, disorder}' \subseteq BOOLEAN
    <3>1. {loading, behind, disorder} \subseteq BOOLEAN /\ http[i].old \in BOOLEAN /\ http[i].stale \in BOOLEAN
      BY <1>0 DEF ListInv, ListTypeOK, ListCall
    <3>2. behind' \in BOOLEAN /\ disorder' \in BOOLEAN
      BY <1>4, <3>1
    <3> QED BY <1>2, <3>2
  <2>3. loaded' \subseteq Item /\ filtered' \subseteq Item
    BY <1>1, <1>4 DEF Filtered, Matching, ListInv, ListTypeOK
  <2> QED BY <1>2, <1>5, <2>1, <2>2, <2>3 DEF PageLeaves, ListInv, ListTypeOK
<1>11. TableOrNews'
  <2> SUFFICES ASSUME ~disorder', ~behind', ~(\E k \in DOMAIN http' : WillTell(http'[k]))
               PROVE  loaded' = Listed' /\ \A k \in DOMAIN http' : LoadTaken(http'[k]) => http'[k].old
    BY DEF TableOrNews, WillTell, LoadTaken
  <2>1. http[i].answer = "ok" /\ loaded' = http[i].list /\ ~(behind /\ http[i].stale)
        /\ ~disorder /\ ~http[i].old
    BY <1>4
  <2>2. \A k \in DOMAIN http' : LoadTaken(http'[k]) => http'[k].old
    BY <1>7, <2>1 DEF LoadTaken
  <2>3. ~http[i].stale
    <3> SUFFICES ASSUME http[i].stale PROVE FALSE
      BY <1>0
    <3>1. ~WillTell(http[i])
      BY <1>1, <2>1 DEF WillTell
    <3>2. \A j \in DOMAIN http \ {i} : ~WillTell(http[j])
      <4> TAKE j \in DOMAIN http \ {i}
      <4>1. PICK k \in DOMAIN rest : rest[k] = http[j]
        BY <1>3
      <4> QED BY <1>7, <4>1 DEF WillTell
    <3>3. http[i].old
      BY <1>1, <2>1, <3>1, <3>2 DEF ListInv, TableOrNews, LoadTaken
    <3> QED BY <2>1, <3>3
  <2>4. http[i].list = Listed
    BY <1>1, <2>1, <2>3 DEF ListInv, CallsOK, LoadTaken
  <2> QED BY <1>5, <2>1, <2>2, <2>4
<1>12. FlipsPaid'
  <2> SUFFICES ASSUME ~disorder' PROVE PaidFor(http)'
    BY DEF FlipsPaid, PaidFor, PaidUnder
  <2>1. PaidFor(rest)
    BY <1>3, <1>4
  <2>2. Fewer(http', rest)
    <3>1. Len(http') = Len(rest)
      BY <1>3, <1>7
    <3> QED BY <1>7, <3>1 DEF Fewer, SaveUnderWay
  <2> QED BY <1>2, <2>1, <2>2, FewerPaidFor, PageLeavesOK
<1> QED BY <1>8, <1>9, <1>10, <1>11, <1>12 DEF ListInv

LEMMA DeliverSaveKept ==
  ASSUME ListInv, NEW i \in DOMAIN http, DeliverSave(i)
  PROVE  ListInv'
<1> DEFINE rest == RemoveAt(http, i)
<1>0. http \in Seq(ListCall) /\ intents \in Nat
  BY CallsTyped
<1>1. /\ http[i].kind = "save" /\ dialog' \in {NoDialog, dialog}
      /\ PageLeaves /\ UNCHANGED <<loaded, filtered, behind, disorder>>
      /\ loading' \in BOOLEAN
      /\ \/ http[i].answer = "ok" /\ http' = Append(rest, Load)
         \/ http[i].answer # "ok" /\ http' = rest
  BY DEF DeliverSave, userVars, PageLeaves, ReloadsAfter, ListInv, ListTypeOK
<1>2. /\ rest \in Seq(ListCall)
      /\ \A k \in DOMAIN rest : \E j \in DOMAIN http \ {i} : rest[k] = http[j]
      /\ \A j \in DOMAIN http \ {i} : \E k \in DOMAIN rest : rest[k] = http[j]
      /\ ~disorder => PaidFor(rest)
  BY RestCalls
<1>3. /\ Listed' = Listed /\ Asks' = Asks /\ Statuses' = Statuses
  BY <1>1, PageLeavesOK
<1> HIDE DEF rest
<1>4. /\ http' \in Seq(ListCall)
      /\ \A k \in DOMAIN http' : http'[k] = Load \/ \E j \in DOMAIN http \ {i} : http'[k] = http[j]
  <2>1. CASE http' = Append(rest, Load)
    <3>1. http' \in Seq(ListCall) /\ Len(http') = Len(rest) + 1 /\ Len(rest) \in Nat
          /\ http'[Len(rest) + 1] = Load /\ \A k \in 1..Len(rest) : http'[k] = rest[k]
      BY <1>2, <2>1, NewCalls, AppendProperties
    <3>2. \A k \in DOMAIN http' : k \in 1..Len(rest) \/ k = Len(rest) + 1
      BY <3>1
    <3>3. DOMAIN rest = 1..Len(rest)
      BY <1>2
    <3> QED BY <1>2, <3>1, <3>2, <3>3
  <2>2. CASE http' = rest
    BY <1>2, <2>2
  <2> QED BY <1>1, <2>1, <2>2
<1>5. CallsOK'
  <2>1. ASSUME NEW k \in DOMAIN http'
        PROVE  /\ http'[k].kind = "save" => Asked(http'[k]) \in Asks
               /\ http'[k].answer = "none" => ~http'[k].stale /\ ~http'[k].old
               /\ LoadTaken(http'[k]) /\ ~http'[k].stale => http'[k].list = Listed
    <3>1. CASE http'[k] = Load
      BY <3>1, NewCalls DEF LoadTaken
    <3>2. ASSUME NEW j \in DOMAIN http, http'[k] = http[j]
          PROVE  /\ http'[k].kind = "save" => Asked(http'[k]) \in Asks
                 /\ http'[k].answer = "none" => ~http'[k].stale /\ ~http'[k].old
                 /\ LoadTaken(http'[k]) /\ ~http'[k].stale => http'[k].list = Listed
      BY <3>2 DEF ListInv, CallsOK
    <3> QED BY <1>4, <3>1, <3>2
  <2>2. \A k \in DOMAIN http' : (Asked(http[k]))' = Asked(http'[k])
    BY DEF Asked
  <2> QED BY <1>3, <1>4, <2>1, <2>2 DEF CallsOK, LoadTaken
<1>6. DialogOK' /\ FilteredOK'
  BY <1>1, <1>3 DEF PageLeaves, ListInv, DialogOK, FilteredOK, Matching, NoDialog
<1>7. ListTypeOK'
  <2>1. \A j \in DOMAIN http' : http'[j].answer \in Answers /\ http'[j].list \subseteq Item
    BY <1>4, ListCallFields
  <2>2. {loading, behind, disorder}' \subseteq BOOLEAN
    <3>1. {behind, disorder} \subseteq BOOLEAN
      BY DEF ListInv, ListTypeOK
    <3> QED BY <1>1, <3>1
  <2>3. dialog' = NoDialog \/ dialog'.row \in Rows
    BY <1>1 DEF ListInv, ListTypeOK
  <2> QED BY <1>1, <1>3, <2>1, <2>2, <2>3 DEF PageLeaves, NoDialog, ListInv, ListTypeOK
<1>8. TableOrNews'
  <2>1. CASE http' = Append(rest, Load)
    <3>1. Len(rest) + 1 \in DOMAIN http' /\ http'[Len(rest) + 1] = Load
      BY <1>2, <2>1, NewCalls, AppendProperties
    <3> QED BY <3>1, NewCalls DEF TableOrNews, WillTell
  <2>2. CASE http[i].answer # "ok" /\ http' = rest
    <3> SUFFICES ASSUME ~disorder, ~behind, ~(\E k \in DOMAIN rest : WillTell(rest[k]))
                 PROVE  loaded = Listed /\ \A k \in DOMAIN rest : LoadTaken(rest[k]) => rest[k].old
      BY <1>1, <1>3, <2>2 DEF TableOrNews, WillTell, LoadTaken
    <3>1. ~(\E j \in DOMAIN http : WillTell(http[j]))
      BY <1>1, <1>2, <2>2 DEF WillTell
    <3> QED BY <1>2, <3>1 DEF ListInv, TableOrNews
  <2> QED BY <1>1, <2>1, <2>2
<1>9. FlipsPaid'
  <2> SUFFICES ASSUME ~disorder' PROVE PaidFor(http)'
    BY DEF FlipsPaid, PaidFor, PaidUnder
  <2>1. PaidFor(rest)
    BY <1>1, <1>2
  <2>2. PaidFor(Append(rest, Load))
    <3>1. ~SaveUnderWay(Load) /\ Load \in ListCall
      BY NewCalls DEF SaveUnderWay
    <3> QED BY <1>0, <1>2, <2>1, <3>1, MorePaidUnder DEF PaidFor
  <2>3. PaidFor(http')
    BY <1>1, <2>1, <2>2
  <2> QED BY <1>1, <2>3 DEF PageLeaves, PaidFor, PaidUnder
<1> QED BY <1>5, <1>6, <1>7, <1>8, <1>9 DEF ListInv

\* What the user leaves alone.
UserLeaves == UNCHANGED <<screen, stored, loaded, others, flips, behind, disorder>>

\* A call that has just been sent.
JustSent(req) ==
  /\ req \in ListCall /\ req.answer = "none" /\ ~req.stale /\ ~req.old
  /\ req.kind = "save" => Asked(req) \in Asks

LEMMA FreshCalls ==
  /\ JustSent(Load) /\ ~SaveUnderWay(Load)
  /\ \A item \in Asks : JustSent(Save(item)) /\ Asked(Save(item)) = item
BY NewCalls DEF JustSent, SaveUnderWay

\* Sending a call, or none, tells the page nothing.
LEMMA SendKeeps ==
  ASSUME ListInv, UserLeaves,
         \/ http' = http
         \/ \E req : JustSent(req) /\ http' = Append(http, req)
  PROVE  /\ CallsOK' /\ TableOrNews'
         /\ \A j \in DOMAIN http' : http'[j].answer \in Answers /\ http'[j].list \subseteq Item
<1>0. http \in Seq(ListCall) /\ Len(http) \in Nat /\ DOMAIN http = 1..Len(http)
  BY CallsTyped
<1>1. Listed' = Listed /\ Asks' = Asks
  BY DEF UserLeaves, Listed, Asks, Statuses
<1>2. /\ http' \in Seq(ListCall)
      /\ \A k \in DOMAIN http' : JustSent(http'[k]) \/ \E j \in DOMAIN http : http'[k] = http[j]
      /\ \A j \in DOMAIN http : j \in DOMAIN http' /\ http'[j] = http[j]
  <2>1. CASE http' = http
    BY <1>0, <2>1
  <2>2. ASSUME NEW req, JustSent(req), http' = Append(http, req)
        PROVE  /\ http' \in Seq(ListCall)
               /\ \A k \in DOMAIN http' : JustSent(http'[k]) \/ \E j \in DOMAIN http : http'[k] = http[j]
               /\ \A j \in DOMAIN http : j \in DOMAIN http' /\ http'[j] = http[j]
    <3>1. req \in ListCall
      BY <2>2 DEF JustSent
    <3>2. http' \in Seq(ListCall) /\ Len(http') = Len(http) + 1
          /\ http'[Len(http) + 1] = req /\ \A k \in 1..Len(http) : http'[k] = http[k]
      <4>1. /\ Append(http, req) \in Seq(ListCall) /\ Len(Append(http, req)) = Len(http) + 1
            /\ Append(http, req)[Len(http) + 1] = req
            /\ \A k \in 1..Len(http) : Append(http, req)[k] = http[k]
        BY <1>0, <3>1, AppendProperties
      <4> QED BY <2>2, <4>1
    <3>3. DOMAIN http' = 1..(Len(http) + 1)
          /\ \A k \in 1..(Len(http) + 1) : k \in 1..Len(http) \/ k = Len(http) + 1
      BY <1>0, <3>2
    <3>4. ASSUME NEW k \in DOMAIN http'
          PROVE  JustSent(http'[k]) \/ \E j \in DOMAIN http : http'[k] = http[j]
      <4>1. CASE k \in 1..Len(http)
        BY <1>0, <3>2, <4>1
      <4>2. CASE k = Len(http) + 1
        BY <2>2, <3>2, <4>2
      <4> QED BY <3>3, <4>1, <4>2
    <3>5. \A j \in DOMAIN http : j \in DOMAIN http' /\ http'[j] = http[j]
      BY <1>0, <3>2, <3>3
    <3> QED BY <3>2, <3>4, <3>5
  <2> QED BY <2>1, <2>2
<1>3. CallsOK'
  <2>1. ASSUME NEW k \in DOMAIN http'
        PROVE  /\ http'[k].kind = "save" => Asked(http'[k]) \in Asks
               /\ http'[k].answer = "none" => ~http'[k].stale /\ ~http'[k].old
               /\ LoadTaken(http'[k]) /\ ~http'[k].stale => http'[k].list = Listed
    <3>1. CASE JustSent(http'[k])
      BY <3>1 DEF JustSent, LoadTaken
    <3>2. ASSUME NEW j \in DOMAIN http, http'[k] = http[j]
          PROVE  /\ http'[k].kind = "save" => Asked(http'[k]) \in Asks
                 /\ http'[k].answer = "none" => ~http'[k].stale /\ ~http'[k].old
                 /\ LoadTaken(http'[k]) /\ ~http'[k].stale => http'[k].list = Listed
      BY <3>2 DEF ListInv, CallsOK
    <3> QED BY <1>2, <3>1, <3>2
  <2>2. \A k \in DOMAIN http' : (Asked(http[k]))' = Asked(http'[k])
    BY DEF Asked
  <2> QED BY <1>1, <1>2, <2>1, <2>2 DEF CallsOK, LoadTaken
<1>4. TableOrNews'
  <2> SUFFICES ASSUME ~disorder, ~behind, ~(\E k \in DOMAIN http' : WillTell(http'[k]))
               PROVE  loaded = Listed /\ \A k \in DOMAIN http' : LoadTaken(http'[k]) => http'[k].old
    BY <1>1 DEF UserLeaves, TableOrNews, WillTell, LoadTaken
  <2>1. ~(\E j \in DOMAIN http : WillTell(http[j]))
    BY <1>2
  <2>2. loaded = Listed /\ \A j \in DOMAIN http : LoadTaken(http[j]) => http[j].old
    BY <2>1 DEF ListInv, TableOrNews
  <2>3. \A k \in DOMAIN http' : JustSent(http'[k]) => ~LoadTaken(http'[k])
    BY DEF JustSent, LoadTaken
  <2> QED BY <1>2, <2>2, <2>3
<1>5. \A j \in DOMAIN http' : http'[j].answer \in Answers /\ http'[j].list \subseteq Item
  BY <1>2, ListCallFields
<1> QED BY <1>3, <1>4, <1>5

LEMMA WishPaidUnder ==
  ASSUME NEW reqs, NEW n \in Nat, NEW w, NEW wished, PaidUnder(reqs, n, w)
  PROVE  PaidUnder(reqs, n + 1, wished)
<1>1. PICK num \in Seq(Nat), c \in Nat :
        Numbers(reqs, num, n, w) /\ Paid(reqs, num, c, n, w, flips - others, stored)
  BY DEF PaidUnder
<1>2. Numbers(reqs, num, n + 1, wished)
      /\ Paid(reqs, num, c, n + 1, wished, flips - others, stored)
  BY <1>1, WishPaid
<1> QED BY <1>2 DEF PaidUnder

LEMMA PaidByWishes ==
  ASSUME ListInv, UserLeaves
  PROVE  /\ ~disorder => PaidUnder(http, intents, wish)
         /\ (~disorder => PaidUnder(http', intents', wish')) => FlipsPaid'
BY DEF ListInv, FlipsPaid, PaidUnder, UserLeaves

\* What the page shows are rows, and what it asks for are changes of rows.
LEMMA OffersOK ==
  ASSUME ListInv
  PROVE  \A item \in Clickable :
           \A s \in Buttons(item.status) \cup Dialogs(item.status) :
             [row |-> item.row, status |-> s] \in Asks
<1>1. loaded \subseteq Item /\ filtered \subseteq Item
  BY DEF ListInv, ListTypeOK
<1>2. Clickable \subseteq Item
  BY <1>1 DEF Clickable, InView, OnPage, BookingsMatching, Matching
<1>3. ASSUME NEW item \in Item, NEW s \in Buttons(item.status) \cup Dialogs(item.status)
      PROVE  s \in Statuses \cup {"none"}
  <2>1. \A x : Switched(x) \in {"on", "off"}
    BY DEF Switched
  <2>2. CASE screen = "bookings"
    BY <2>2 DEF Buttons, Dialogs, BookingButtons, BookingDialogs, Statuses
  <2>3. CASE screen = "services"
    BY <2>1, <2>3 DEF Buttons, Dialogs, ServiceDialogs, Statuses
  <2>4. CASE screen \in {"users", "tenants"}
    BY <2>1, <2>4 DEF Buttons, Dialogs, Statuses
  <2>5. CASE screen \notin {"bookings", "services", "users", "tenants"}
    BY <2>5 DEF Buttons, Dialogs
  <2> QED BY <2>2, <2>3, <2>4, <2>5
<1> QED BY <1>2, <1>3 DEF Item, Asks

LEMMA AsksTyped ==
  /\ screen' = screen => Asks' = Asks
  /\ NoDialog \notin Asks
  /\ \A item \in Asks : item.row \in Rows
<1>1. screen' = screen => Asks' = Asks
  BY DEF Asks, Statuses
<1>2. \A item \in Asks : item.row \in Rows
  BY DEF Asks
<1>3. NoDialog.row \notin Rows
  BY ListAssumption DEF NoDialog, Rows
<1> QED BY <1>1, <1>2, <1>3

\* A button or a dialog asks for something: for the same again, or anew.
LEMMA WishKept ==
  ASSUME ListInv, NEW item \in Asks, NEW again \in BOOLEAN, Wish(item, again), UserLeaves, ~disorder
  PROVE  PaidUnder(http, intents', wish')
<1>0. intents \in Nat
  BY CallsTyped
<1>1. PaidUnder(http, intents, wish)
  BY PaidByWishes
<1>2. CASE again /\ wish = item
  <2>1. intents' = intents /\ wish' = wish
    BY <1>0, <1>2 DEF Wish
  <2> QED BY <1>1, <2>1
<1>3. CASE ~(again /\ wish = item)
  <2>1. intents' = intents + 1 /\ wish' = item
    BY <1>3 DEF Wish
  <2>2. PaidUnder(http, intents + 1, item)
    BY <1>0, <1>1, WishPaidUnder
  <2> QED BY <2>1, <2>2
<1> QED BY <1>2, <1>3

LEMMA PressButtonKept == ListInv /\ PressButton => ListInv'
<1> SUFFICES ASSUME ListInv, PressButton PROVE ListInv'
  OBVIOUS
<1>0. http \in Seq(ListCall) /\ intents \in Nat
  BY CallsTyped
<1>1. UserLeaves /\ UNCHANGED <<filter, sought, pageNo, filtered, loading, dialog>> /\ acts' = acts + 1
  BY DEF PressButton, UserLeaves, Act
<1>2. PICK wanted \in Asks : http' = Append(http, Save(wanted)) /\ Wish(wanted, TRUE)
  BY OffersOK DEF PressButton
<1>3. JustSent(Save(wanted)) /\ Asked(Save(wanted)) = wanted
  BY FreshCalls
<1>4. /\ CallsOK' /\ TableOrNews'
      /\ \A j \in DOMAIN http' : http'[j].answer \in Answers /\ http'[j].list \subseteq Item
  BY <1>1, <1>2, <1>3, SendKeeps
<1>5. wish' = wanted /\ wanted \in Asks /\ wanted # NoDialog /\ wanted.row \in Rows /\ Asks' = Asks
      /\ intents' \in Nat /\ Statuses' = Statuses
  BY <1>0, <1>1, <1>2, AsksTyped DEF Wish, UserLeaves, Statuses
<1>6. DialogOK' /\ FilteredOK'
  <2>1. dialog = NoDialog
    BY DEF PressButton, Clickable
  <2> QED BY <1>1, <1>5, <2>1 DEF UserLeaves, ListInv, DialogOK, FilteredOK, Matching
<1>7. ListTypeOK'
  <2>1. {loading, behind, disorder}' \subseteq BOOLEAN
    BY <1>1 DEF UserLeaves, ListInv, ListTypeOK
  <2>2. acts' \in Nat
    BY <1>1 DEF ListInv, ListTypeOK
  <2> QED BY <1>1, <1>4, <1>5, <2>1, <2>2 DEF UserLeaves, ListInv, ListTypeOK
<1>8. FlipsPaid'
  <2>1. ASSUME ~disorder PROVE PaidUnder(http', intents', wish')
    <3>1. PaidUnder(http, intents', wish')
      BY <1>1, <1>2, <2>1, WishKept
    <3>2. Save(wanted) \in ListCall /\ wish' = Asked(Save(wanted)) /\ wish' # NoDialog
      BY <1>3, <1>5 DEF JustSent
    <3>3. PaidUnder(Append(http, Save(wanted)), intents', wish')
      BY <1>0, <1>5, <3>1, <3>2, MorePaidUnder
    <3> QED BY <1>2, <3>3
  <2> QED BY <1>1, <2>1, PaidByWishes
<1> QED BY <1>4, <1>6, <1>7, <1>8 DEF ListInv

LEMMA OpenDialogKept == ListInv /\ OpenDialog => ListInv'
<1> SUFFICES ASSUME ListInv, OpenDialog PROVE ListInv'
  OBVIOUS
<1>0. http \in Seq(ListCall) /\ intents \in Nat
  BY CallsTyped
<1>1. UserLeaves /\ UNCHANGED <<filter, sought, pageNo, filtered, loading, http>> /\ acts' = acts + 1
  BY DEF OpenDialog, UserLeaves, Act
<1>2. PICK wanted \in Asks : dialog' = wanted /\ Wish(wanted, FALSE)
  BY OffersOK DEF OpenDialog, Wish
<1>4. /\ CallsOK' /\ TableOrNews'
      /\ \A j \in DOMAIN http' : http'[j].answer \in Answers /\ http'[j].list \subseteq Item
  BY <1>1, SendKeeps
<1>5. wish' = wanted /\ wanted \in Asks /\ wanted.row \in Rows /\ Asks' = Asks
      /\ intents' \in Nat /\ Statuses' = Statuses
  BY <1>0, <1>1, <1>2, AsksTyped DEF Wish, UserLeaves, Statuses
<1>6. DialogOK' /\ FilteredOK'
  BY <1>1, <1>2, <1>5 DEF UserLeaves, ListInv, DialogOK, FilteredOK, Matching
<1>7. ListTypeOK'
  <2>1. {loading, behind, disorder}' \subseteq BOOLEAN
    BY <1>1 DEF UserLeaves, ListInv, ListTypeOK
  <2>2. acts' \in Nat
    BY <1>1 DEF ListInv, ListTypeOK
  <2> QED BY <1>1, <1>2, <1>4, <1>5, <2>1, <2>2 DEF UserLeaves, ListInv, ListTypeOK
<1>8. FlipsPaid'
  <2>1. ASSUME ~disorder PROVE PaidUnder(http, intents', wish')
    BY <1>1, <1>2, <2>1, WishKept
  <2> QED BY <1>1, <2>1, PaidByWishes
<1> QED BY <1>4, <1>6, <1>7, <1>8 DEF ListInv

LEMMA ConfirmDialogKept == ListInv /\ ConfirmDialog => ListInv'
<1> SUFFICES ASSUME ListInv, ConfirmDialog PROVE ListInv'
  OBVIOUS
<1>0. http \in Seq(ListCall) /\ intents \in Nat
  BY CallsTyped
<1>1. /\ UserLeaves /\ acts' = acts + 1
      /\ UNCHANGED <<filter, sought, pageNo, filtered, loading, dialog, wish, intents>>
  BY DEF ConfirmDialog, UserLeaves, Act
<1>2. dialog \in Asks /\ dialog # NoDialog /\ wish = dialog /\ http' = Append(http, Save(dialog))
  BY DEF ConfirmDialog, ListInv, DialogOK
<1>3. JustSent(Save(dialog)) /\ Asked(Save(dialog)) = dialog
  BY <1>2, FreshCalls
<1>4. /\ CallsOK' /\ TableOrNews'
      /\ \A j \in DOMAIN http' : http'[j].answer \in Answers /\ http'[j].list \subseteq Item
  BY <1>1, <1>2, <1>3, SendKeeps
<1>5. Asks' = Asks /\ Statuses' = Statuses
  BY <1>1, AsksTyped DEF UserLeaves, Statuses
<1>6. DialogOK' /\ FilteredOK'
  BY <1>1, <1>5 DEF UserLeaves, ListInv, DialogOK, FilteredOK, Matching
<1>7. ListTypeOK'
  <2>1. {loading, behind, disorder}' \subseteq BOOLEAN
    BY <1>1 DEF UserLeaves, ListInv, ListTypeOK
  <2>2. acts' \in Nat
    BY <1>1 DEF ListInv, ListTypeOK
  <2> QED BY <1>1, <1>4, <1>5, <2>1, <2>2 DEF UserLeaves, ListInv, ListTypeOK
<1>8. FlipsPaid'
  <2>1. ASSUME ~disorder PROVE PaidUnder(http', intents', wish')
    <3>1. PaidUnder(http, intents, wish)
      BY <1>1, <2>1, PaidByWishes
    <3>2. Save(dialog) \in ListCall /\ wish = Asked(Save(dialog)) /\ wish # NoDialog
      BY <1>2, <1>3 DEF JustSent
    <3>3. PaidUnder(Append(http, Save(dialog)), intents, wish)
      BY <1>0, <3>1, <3>2, MorePaidUnder
    <3> QED BY <1>1, <1>2, <3>3
  <2> QED BY <1>1, <2>1, PaidByWishes
<1> QED BY <1>4, <1>6, <1>7, <1>8 DEF ListInv

\* Choosing what to show asks for nothing, and may load the table again.
LEMMA LookKeeps ==
  ASSUME ListInv, UserLeaves, UNCHANGED <<wish, intents>>, http' \in {http, Append(http, Load)}
  PROVE  /\ CallsOK' /\ TableOrNews' /\ FlipsPaid'
         /\ dialog' \in {dialog, NoDialog} => DialogOK'
         /\ \A j \in DOMAIN http' : http'[j].answer \in Answers /\ http'[j].list \subseteq Item
<1>0. http \in Seq(ListCall) /\ intents \in Nat
  BY CallsTyped
<1>1. JustSent(Load) /\ ~SaveUnderWay(Load) /\ Load \in ListCall
  BY FreshCalls DEF JustSent
<1>2. /\ CallsOK' /\ TableOrNews'
      /\ \A j \in DOMAIN http' : http'[j].answer \in Answers /\ http'[j].list \subseteq Item
  BY <1>1, SendKeeps
<1>3. dialog' \in {dialog, NoDialog} => DialogOK'
  <2>1. Asks' = Asks
    BY AsksTyped DEF UserLeaves
  <2> QED BY <2>1 DEF ListInv, DialogOK, NoDialog
<1>4. FlipsPaid'
  <2>1. ASSUME ~disorder PROVE PaidUnder(http', intents, wish)
    <3>1. PaidUnder(http, intents, wish)
      BY <2>1, PaidByWishes
    <3>2. PaidUnder(Append(http, Load), intents, wish)
      BY <1>0, <1>1, <3>1, MorePaidUnder
    <3> QED BY <3>1, <3>2
  <2> QED BY <2>1, PaidByWishes
<1> QED BY <1>2, <1>3, <1>4

LEMMA CloseDialogKept == ListInv /\ CloseDialog => ListInv'
<1> SUFFICES ASSUME ListInv, CloseDialog PROVE ListInv'
  OBVIOUS
<1>1. /\ UserLeaves /\ acts' = acts + 1 /\ dialog' = NoDialog
      /\ UNCHANGED <<filter, sought, pageNo, filtered, loading, http, wish, intents>>
  BY DEF CloseDialog, UserLeaves, Act
<1>2. /\ CallsOK' /\ TableOrNews' /\ FlipsPaid' /\ DialogOK'
      /\ \A j \in DOMAIN http' : http'[j].answer \in Answers /\ http'[j].list \subseteq Item
  BY <1>1, LookKeeps
<1>3. FilteredOK'
  BY <1>1 DEF UserLeaves, ListInv, FilteredOK, Matching
<1>4. ListTypeOK'
  <2>1. {loading, behind, disorder}' \subseteq BOOLEAN
    BY <1>1 DEF UserLeaves, ListInv, ListTypeOK
  <2>2. acts' \in Nat
    BY <1>1 DEF ListInv, ListTypeOK
  <2> QED BY <1>1, <1>2, <2>1, <2>2 DEF UserLeaves, ListInv, ListTypeOK, Statuses, NoDialog
<1> QED BY <1>2, <1>3, <1>4 DEF ListInv

LEMMA ChooseFilterKept == ListInv /\ ChooseFilter => ListInv'
<1> SUFFICES ASSUME ListInv, ChooseFilter PROVE ListInv'
  OBVIOUS
<1>1. /\ UserLeaves /\ acts' = acts + 1 /\ UNCHANGED <<sought, dialog, wish, intents>>
      /\ http' \in {http, Append(http, Load)} /\ loading' \in {loading, TRUE}
      /\ pageNo' \in {pageNo, 1}
  BY DEF ChooseFilter, UserLeaves, Act, FirstPage
<1>2. /\ filter' \in Statuses \cup {"all"}
      /\ filtered' = IF screen = "bookings" THEN {} ELSE Matching(loaded, filter', sought)
  BY DEF ChooseFilter
<1>3. /\ CallsOK' /\ TableOrNews' /\ FlipsPaid' /\ DialogOK'
      /\ \A j \in DOMAIN http' : http'[j].answer \in Answers /\ http'[j].list \subseteq Item
  BY <1>1, LookKeeps
<1>4. FilteredOK'
  BY <1>1, <1>2 DEF UserLeaves, FilteredOK, Matching
<1>5. ListTypeOK'
  <2>1. {loading, behind, disorder}' \subseteq BOOLEAN
    BY <1>1 DEF UserLeaves, ListInv, ListTypeOK
  <2>2. acts' \in Nat /\ pageNo' \in Nat \ {0}
    BY <1>1 DEF ListInv, ListTypeOK
  <2>3. filtered' \subseteq Item
    BY <1>2 DEF Matching, ListInv, ListTypeOK
  <2> QED BY <1>1, <1>2, <1>3, <2>1, <2>2, <2>3 DEF UserLeaves, ListInv, ListTypeOK, Statuses
<1> QED BY <1>3, <1>4, <1>5 DEF ListInv

LEMMA SearchKept == ListInv /\ Search => ListInv'
<1> SUFFICES ASSUME ListInv, Search PROVE ListInv'
  OBVIOUS
<1>1. /\ UserLeaves /\ acts' = acts + 1
      /\ UNCHANGED <<filter, loading, dialog, http, wish, intents>>
      /\ pageNo' \in {pageNo, 1}
  BY DEF Search, UserLeaves, Act, FirstPage
<1>2. /\ sought' \subseteq Rows
      /\ filtered' = IF screen = "bookings" THEN {} ELSE Matching(loaded, filter, sought')
  BY DEF Search
<1>3. /\ CallsOK' /\ TableOrNews' /\ FlipsPaid' /\ DialogOK'
      /\ \A j \in DOMAIN http' : http'[j].answer \in Answers /\ http'[j].list \subseteq Item
  BY <1>1, LookKeeps
<1>4. FilteredOK'
  BY <1>1, <1>2 DEF UserLeaves, FilteredOK, Matching
<1>5. ListTypeOK'
  <2>1. {loading, behind, disorder}' \subseteq BOOLEAN
    BY <1>1 DEF UserLeaves, ListInv, ListTypeOK
  <2>2. acts' \in Nat /\ pageNo' \in Nat \ {0}
    BY <1>1 DEF ListInv, ListTypeOK
  <2>3. filtered' \subseteq Item
    BY <1>2 DEF Matching, ListInv, ListTypeOK
  <2> QED BY <1>1, <1>2, <1>3, <2>1, <2>2, <2>3 DEF UserLeaves, ListInv, ListTypeOK, Statuses
<1> QED BY <1>3, <1>4, <1>5 DEF ListInv

LEMMA GoToPageKept == ListInv /\ GoToPage => ListInv'
<1> SUFFICES ASSUME ListInv, GoToPage PROVE ListInv'
  OBVIOUS
<1>1. /\ UserLeaves /\ acts' = acts + 1 /\ loading' = TRUE
      /\ UNCHANGED <<filter, sought, filtered, dialog, wish, intents>>
      /\ http' = Append(http, Load)
  BY DEF GoToPage, UserLeaves, Act
<1>2. /\ CallsOK' /\ TableOrNews' /\ FlipsPaid' /\ DialogOK'
      /\ \A j \in DOMAIN http' : http'[j].answer \in Answers /\ http'[j].list \subseteq Item
  BY <1>1, LookKeeps
<1>3. FilteredOK'
  BY <1>1 DEF UserLeaves, ListInv, FilteredOK, Matching
<1>4. ListTypeOK'
  <2>1. {loading, behind, disorder}' \subseteq BOOLEAN
    BY <1>1 DEF UserLeaves, ListInv, ListTypeOK
  <2>2. acts' \in Nat
    BY <1>1 DEF ListInv, ListTypeOK
  <2>3. pageNo' \in Nat \ {0}
    <3>1. pageNo \in Nat \ {0}
      BY DEF ListInv, ListTypeOK
    <3>2. PICK n \in {pageNo - 1, pageNo + 1} : CanTurnTo(n) /\ pageNo' = n
      BY DEF GoToPage
    <3>3. n = pageNo - 1 => pageNo # 1
      BY <3>1, <3>2 DEF CanTurnTo
    <3> QED BY <3>1, <3>2, <3>3
  <2> QED BY <1>1, <1>2, <2>1, <2>2, <2>3 DEF UserLeaves, ListInv, ListTypeOK, Statuses
<1> QED BY <1>2, <1>3, <1>4 DEF ListInv

LEMMA ListInvKept == ListInv /\ [ListNext]_listVars => ListInv'
<1> SUFFICES ASSUME ListInv, [ListNext]_listVars PROVE ListInv'
  OBVIOUS
<1>1. CASE UNCHANGED listVars
  <2>1. ListTypeOK' /\ DialogOK' /\ FilteredOK'
    BY <1>1 DEF listVars, ListInv, ListTypeOK, DialogOK, FilteredOK, Statuses, Asks, Matching
  <2>2. CallsOK' /\ TableOrNews' /\ FlipsPaid'
    <3>1. UserLeaves /\ UNCHANGED <<wish, intents>> /\ http' = http
      BY <1>1 DEF listVars, UserLeaves
    <3> QED BY <3>1, LookKeeps
  <2> QED BY <2>1, <2>2 DEF ListInv
<1>2. ASSUME NEW i \in DOMAIN http,
             AnswerLoad(i) \/ AnswerSave(i) \/ DeliverLoad(i) \/ DeliverSave(i)
      PROVE  ListInv'
  BY <1>2, AnswerLoadKept, AnswerSaveKept, DeliverLoadKept, DeliverSaveKept
<1>3. CASE ChangeElsewhere
  BY <1>3, ChangeElsewhereKept
<1>4. CASE PressButton \/ OpenDialog \/ ConfirmDialog \/ CloseDialog
  BY <1>4, PressButtonKept, OpenDialogKept, ConfirmDialogKept, CloseDialogKept
<1>5. CASE ChooseFilter \/ Search \/ GoToPage
  BY <1>5, ChooseFilterKept, SearchKept, GoToPageKept
<1> QED BY <1>1, <1>2, <1>3, <1>4, <1>5 DEF ListNext

\* With no call under way the page shows the table as it is, however many of
\* the user's changes, loads and filters overlapped.
THEOREM TableShown == ListSpec => []ListIsTable
<1>1. ListInv => ListIsTable
  <2> SUFFICES ASSUME ListInv, http = <<>>, ~behind, ~disorder
               PROVE  /\ loaded = Listed
                      /\ screen \in {"users", "tenants", "audit"} =>
                           filtered = Matching(Listed, filter, sought)
    BY DEF ListIsTable
  <2>1. DOMAIN http = {}
    OBVIOUS
  <2>2. loaded = Listed
    BY <2>1 DEF ListInv, TableOrNews
  <2> QED BY <2>2 DEF ListInv, FilteredOK
<1> QED BY <1>1, ListStarts, ListInvKept, PTL DEF ListSpec

\* Confirming twice, or pressing a button again before the list comes back,
\* changes the row no more often than the user asked for something new.
THEOREM PressedTwiceChangesOnce == ListSpec => []OneFlipPerIntent
<1>1. ListInv => OneFlipPerIntent
  <2> SUFFICES ASSUME ListInv, ~disorder PROVE flips <= intents + others
    BY DEF OneFlipPerIntent
  <2>1. flips \in Nat /\ others \in Nat /\ intents \in Nat
    BY CallsTyped
  <2>2. PICK num \in Seq(Nat), c \in Nat :
          Paid(http, num, c, intents, wish, flips - others, stored)
    BY DEF ListInv, FlipsPaid
  <2>3. c <= intents /\ flips - others <= c
    BY <2>2 DEF Paid
  <2> QED BY <2>1, <2>3
<1> QED BY <1>1, ListStarts, ListInvKept, PTL DEF ListSpec

----------------------------------------------------------------------------
(* The pages with a form over one row.                                     *)

FormCall == [kind : {"load", "layout", "save"}, answer : {"none", "ok", "error"},
             data : [Fields -> Values \cup {"unsent"}]]

SaveCall(i) == i \in DOMAIN calls /\ calls[i].kind = "save"

\* What the calls bring: a row, or what the form held when it was sent.  A
\* save that was answered is what is stored.
FormCallsOK ==
  /\ calls \in Seq(FormCall)
  /\ \A i \in DOMAIN calls :
       /\ calls[i].kind # "save" => calls[i].data \in [Fields -> Values]
       /\ calls[i].kind = "layout" => LayoutLoads
       /\ SaveCall(i) =>
            /\ \A f \in ShownFields \ {"logo", "secret"} : calls[i].data[f] # "unsent"
            /\ ~changed => calls[i].data = Saving.data
            /\ calls[i].answer = "ok" =>
                 \A f \in Fields : calls[i].data[f] # "unsent" => db[f] = calls[i].data[f]

\* The page is busy with one save, until it has been left.
OneSave ==
  /\ \A i, j \in DOMAIN calls : SaveCall(i) /\ SaveCall(j) => i = j
  /\ SavePending => submitting
  /\ submitting /\ open => SavePending

SaveTaken == \E i \in DOMAIN calls : SaveCall(i) /\ calls[i].answer = "ok"

\* A visit that has created a row is about to leave, or has left.
RowCreated ==
  /\ editing => created = 0
  /\ ~IsRowPage => editing
  /\ created <= lost \/ (created = lost + 1 /\ (SaveTaken \/ (submitting /\ ~SavePending)))

\* The form may be sent before the row has come, and was.
SentEarly == early /\ form \in {"booking", "service", "branding", "preferences"}

NotOwn == {Blank, "default"}

\* Neither what is stored nor what is on its way to be stored or shown is the
\* form's own, and neither is the form once the row has come.
OwnValues ==
  /\ editing => field["secret"] = Blank
  /\ editing /\ ~SentEarly =>
       /\ \A f \in Fields : field[f] = "default" => f \in {"extra", "logo"}
       /\ \A f \in Fields \ {"logo"} : db[f] \notin NotOwn
       /\ arrived => \A f \in ShownFields \ {"secret", "logo"} : field[f] \notin NotOwn
       /\ \A i \in DOMAIN calls : calls[i].kind = "save" \/ calls[i].answer = "ok" =>
            \A f \in Fields \ {"logo"} : calls[i].data[f] \notin NotOwn

LayoutPending == \E i \in DOMAIN calls : calls[i].kind = "layout"

HeaderShows ==
  \/ header = Header(db)
  \/ form \in {"general", "branding"} /\ changed
  \/ form = "branding" /\ header["logo"] = Blank

\* The header shows what is stored, unless it is about to be told.
HeaderOK ==
  /\ ~overtaken /\ lost = 0 => HeaderShows \/ LayoutPending \/ SaveTaken

FormInv ==
  FormTypeOK /\ FormCallsOK /\ OneSave /\ RowCreated /\ OwnValues /\ HeaderOK

LEMMA Blanks == Blank \notin {"default", "stored", "unsent"}
BY Zenon DEF Blank

LEMMA FormShapes ==
  /\ form \in Forms => ShownFields \subseteq Fields
  /\ SentFields \subseteq ShownFields /\ InHeader \subseteq Fields
  /\ {Blank, "default", "stored"} \subseteq Values /\ "unsent" \notin Values /\ Typed \subseteq Values
<1>1. {Blank, "default", "stored"} \subseteq Values /\ "unsent" \notin Values /\ Typed \subseteq Values
  BY FormAssumption, Blanks DEF Values
<1>2. form \in Forms => ShownFields \subseteq Fields
  BY FormAssumption DEF AllForms, ShownFields, BookingFields, ServiceFields, UserFields, Fields
<1>3. InHeader \subseteq Fields
  BY DEF InHeader, Fields
<1> QED BY <1>1, <1>2, <1>3 DEF SentFields

\* What depends on the form and what is in it.
LEMMA SameForm ==
  ASSUME UNCHANGED <<form, editing>>
  PROVE  /\ ShownFields' = ShownFields /\ InHeader' = InHeader /\ IsRowPage' = IsRowPage
         /\ LayoutLoads' = LayoutLoads
         /\ UNCHANGED field => SentFields' = SentFields /\ (Saving.data)' = Saving.data
         /\ UNCHANGED db => Header(db)' = Header(db)
<1>1. ShownFields' = ShownFields /\ InHeader' = InHeader /\ IsRowPage' = IsRowPage
      /\ LayoutLoads' = LayoutLoads
  BY DEF ShownFields, InHeader, IsRowPage, LayoutLoads, BookingFields, ServiceFields, UserFields
<1>2. UNCHANGED field => SentFields' = SentFields
  BY <1>1 DEF SentFields, Sent
<1>3. UNCHANGED field => (Saving.data)' = Saving.data
  BY <1>2 DEF Saving
<1>4. UNCHANGED db => Header(db)' = Header(db)
  BY <1>1 DEF Header
<1> QED BY <1>1, <1>2, <1>3, <1>4

\* The save a submit sends.
LEMMA SavingOK ==
  ASSUME FormTypeOK
  PROVE  /\ Saving \in FormCall /\ Saving.kind = "save" /\ Saving.answer = "none"
         /\ \A f \in Fields : Saving.data[f] = IF f \in SentFields THEN field[f] ELSE "unsent"
         /\ \A f \in ShownFields \ {"logo", "secret"} : f \in SentFields /\ field[f] # "unsent"
         /\ "secret" \in SentFields => ~editing
<1>1. field \in [Fields -> Values] /\ ShownFields \subseteq Fields
  BY FormShapes DEF FormTypeOK
<1>2. [f \in Fields |-> IF f \in SentFields THEN field[f] ELSE "unsent"] \in [Fields -> Values \cup {"unsent"}]
  BY <1>1
<1>3. \A f \in ShownFields \ {"logo", "secret"} : f \in SentFields /\ field[f] # "unsent"
  BY <1>1, FormShapes DEF SentFields, Sent
<1> QED BY <1>1, <1>2, <1>3 DEF Saving, FormCall, SentFields

LEMMA FormStarts == FormInit => FormInv
<1> SUFFICES ASSUME FormInit PROVE FormInv
  OBVIOUS
<1>1. /\ field \in [Fields -> Values] /\ db \in [Fields -> Values] /\ \A f \in Fields : db[f] = "stored"
      /\ header \in [InHeader -> Values] /\ field["secret"] = Blank
      /\ \A f \in Fields : field[f] = "default" => f = "extra"
  <2>1. \A f \in Fields : Default(f) \in {Blank, "default"} /\ (Default(f) = "default" => f = "extra")
    BY Blanks DEF Default
  <2>2. field \in [Fields -> Values] /\ db \in [Fields -> Values] /\ \A f \in Fields : db[f] = "stored"
    BY <2>1, FormShapes DEF FormInit
  <2>3. header \in [InHeader -> Values]
    <3>1. Header(db) \in [InHeader -> Values] /\ [f \in InHeader |-> "default"] \in [InHeader -> Values]
      BY <2>2, FormShapes DEF Header
    <3>2. header = Header(db) \/ header = [f \in InHeader |-> "default"]
      BY DEF FormInit, LayoutLoads
    <3> QED BY <3>1, <3>2
  <2>4. field["secret"] = Blank
    BY <2>1 DEF FormInit, Fields, Default
  <2> QED BY <2>1, <2>2, <2>3, <2>4 DEF FormInit
<1>2. FormTypeOK
  <2>1. editing \in BOOLEAN
    BY DEF FormInit
  <2>2. {editing, open, arrived, submitting, early, changed, overtaken} \subseteq BOOLEAN
    BY <2>1 DEF FormInit
  <2>3. {created, lost, deeds} \subseteq Nat /\ form \in Forms
    BY DEF FormInit
  <2> QED BY <1>1, <2>2, <2>3 DEF FormTypeOK
<1>3. /\ Loading \in FormCall /\ Layout \in FormCall /\ Loading.kind = "load" /\ Layout.kind = "layout"
      /\ Loading.answer = "none" /\ Layout.answer = "none"
      /\ Loading.data \in [Fields -> Values] /\ Layout.data \in [Fields -> Values]
  <2>1. field \in [Fields -> Values \cup {"unsent"}]
    BY <1>1
  <2> QED BY <1>1, <2>1 DEF Loading, Layout, FormCall
<1>4. /\ calls \in Seq(FormCall)
      /\ \A i \in DOMAIN calls : calls[i] = Loading \/ (calls[i] = Layout /\ LayoutLoads)
      /\ LayoutLoads => \E i \in DOMAIN calls : calls[i] = Layout
  <2> DEFINE a == IF editing THEN <<Loading>> ELSE <<>>
             b == IF LayoutLoads THEN <<Layout>> ELSE <<>>
  <2>1. a \in Seq(FormCall) /\ \A i \in DOMAIN a : a[i] = Loading
    BY <1>3
  <2>2. b \in Seq(FormCall) /\ \A i \in DOMAIN b : b[i] = Layout /\ LayoutLoads
    BY <1>3
  <2>3. LayoutLoads => Len(b) = 1 /\ b[1] = Layout
    BY <1>3
  <2>4. calls = a \o b
    BY DEF FormInit
  <2> HIDE DEF a, b
  <2>5. /\ calls \in Seq(FormCall) /\ Len(calls) = Len(a) + Len(b)
        /\ \A i \in 1..(Len(a) + Len(b)) : calls[i] = IF i <= Len(a) THEN a[i] ELSE b[i - Len(a)]
    BY <2>1, <2>2, <2>4, ConcatProperties
  <2>6. Len(a) \in Nat /\ Len(b) \in Nat /\ DOMAIN a = 1..Len(a) /\ DOMAIN b = 1..Len(b)
        /\ DOMAIN calls = 1..(Len(a) + Len(b))
    BY <2>1, <2>2, <2>5
  <2>7. ASSUME NEW i \in DOMAIN calls
        PROVE  calls[i] = Loading \/ (calls[i] = Layout /\ LayoutLoads)
    <3>1. CASE i <= Len(a)
      BY <2>1, <2>5, <2>6, <3>1
    <3>2. CASE ~(i <= Len(a))
      <4>1. i - Len(a) \in DOMAIN b
        BY <2>6, <3>2
      <4> QED BY <2>2, <2>5, <2>6, <3>2, <4>1
    <3> QED BY <3>1, <3>2
  <2>8. ASSUME LayoutLoads PROVE \E i \in DOMAIN calls : calls[i] = Layout
    <3>1. Len(a) + 1 \in DOMAIN calls /\ ~(Len(a) + 1 <= Len(a)) /\ (Len(a) + 1) - Len(a) = 1
      BY <2>3, <2>6, <2>8
    <3> QED BY <2>3, <2>5, <2>6, <2>8, <3>1
  <2> QED BY <2>5, <2>7, <2>8
<1>5. FormCallsOK /\ OneSave
  BY <1>3, <1>4 DEF FormInit, FormCallsOK, OneSave, SaveCall, SavePending
<1>6. RowCreated
  <2>1. ~IsRowPage => editing
    BY DEF FormInit
  <2>2. created = 0 /\ created <= lost
    BY DEF FormInit
  <2> QED BY <2>1, <2>2 DEF RowCreated
<1>7. OwnValues
  <2>1. \A f \in Fields : db[f] \notin NotOwn
    BY <1>1, Blanks DEF NotOwn
  <2>2. ~arrived /\ \A i \in DOMAIN calls : calls[i].kind # "save" /\ calls[i].answer # "ok"
    BY <1>3, <1>4 DEF FormInit
  <2> QED BY <1>1, <2>1, <2>2 DEF OwnValues
<1>8. HeaderOK
  BY <1>3, <1>4 DEF FormInit, HeaderOK, HeaderShows, LayoutPending
<1> QED BY <1>2, <1>5, <1>6, <1>7, <1>8 DEF FormInv

\* What is left of a sequence, by where it was.
LEMMA RemoveAtPlaces ==
  ASSUME NEW S, NEW s \in Seq(S), NEW i \in DOMAIN s
  PROVE  \E at \in [DOMAIN RemoveAt(s, i) -> DOMAIN s \ {i}] :
           /\ \A k \in DOMAIN RemoveAt(s, i) : RemoveAt(s, i)[k] = s[at[k]]
           /\ \A k, m \in DOMAIN RemoveAt(s, i) : at[k] = at[m] => k = m
           /\ \A j \in DOMAIN s \ {i} : \E k \in DOMAIN RemoveAt(s, i) : at[k] = j
<1> DEFINE r == RemoveAt(s, i)
           at == [k \in DOMAIN r |-> IF k < i THEN k ELSE k + 1]
<1>1. r \in Seq(S) /\ Len(r) = Len(s) - 1
      /\ \A j \in 1..(Len(s) - 1) : r[j] = IF j < i THEN s[j] ELSE s[j + 1]
  BY RemoveAtElements
<1> HIDE DEF r
<1>2. DOMAIN r = 1..(Len(s) - 1) /\ i \in 1..Len(s) /\ DOMAIN s = 1..Len(s) /\ Len(s) \in Nat
  BY <1>1
<1>3. at \in [DOMAIN r -> DOMAIN s \ {i}]
  BY <1>2
<1>4. \A k \in DOMAIN r : r[k] = s[at[k]]
  BY <1>1, <1>2
<1>5. \A k, m \in DOMAIN r : at[k] = at[m] => k = m
  BY <1>2
<1>6. ASSUME NEW j \in DOMAIN s \ {i} PROVE \E k \in DOMAIN r : at[k] = j
  <2>1. CASE j < i
    BY <1>2, <2>1
  <2>2. CASE j > i
    <3>1. j - 1 \in DOMAIN r /\ at[j - 1] = j
      BY <1>2, <2>2
    <3> QED BY <3>1
  <2> QED BY <1>2, <2>1, <2>2
<1> HIDE DEF at
<1> QED BY <1>3, <1>4, <1>5, <1>6 DEF r

\* An answer and what it brings.
WithData(reqs, i, answer, data) == [reqs EXCEPT ![i].answer = answer, ![i].data = data]

FormAnswered(after, reqs, i, answer, data) ==
  /\ after \in Seq(FormCall) /\ Len(after) = Len(reqs) /\ DOMAIN after = DOMAIN reqs
  /\ \A j \in DOMAIN reqs \ {i} : after[j] = reqs[j]
  /\ after[i].kind = reqs[i].kind /\ after[i].answer = answer /\ after[i].data = data

LEMMA FormAnswers ==
  ASSUME NEW reqs \in Seq(FormCall), NEW i \in DOMAIN reqs, NEW answer \in {"none", "ok", "error"},
         NEW data \in [Fields -> Values \cup {"unsent"}], NEW after,
         \/ after = WithData(reqs, i, answer, data)
         \/ after = WithAnswer(reqs, i, answer) /\ data = reqs[i].data
  PROVE  FormAnswered(after, reqs, i, answer, data)
<1>1. reqs[i] \in FormCall /\ i \in 1..Len(reqs) /\ Len(reqs) \in Nat
  OBVIOUS
<1> DEFINE both == [reqs[i] EXCEPT !.answer = answer, !.data = data]
           one == [reqs[i] EXCEPT !.answer = answer]
<1>2. PICK r : after = [reqs EXCEPT ![i] = r] /\ (r = both \/ (r = one /\ data = reqs[i].data))
  <2>1. CASE after = WithData(reqs, i, answer, data)
    <3>1. after = [reqs EXCEPT ![i] = both]
      BY <1>1, <2>1 DEF WithData
    <3> QED BY <3>1
  <2>2. CASE after = WithAnswer(reqs, i, answer) /\ data = reqs[i].data
    <3>1. after = [reqs EXCEPT ![i] = one]
      BY <2>2 DEF WithAnswer
    <3> QED BY <2>2, <3>1
  <2> QED BY <2>1, <2>2
<1>3. /\ r \in FormCall
      /\ r.kind = reqs[i].kind /\ r.answer = answer /\ r.data = data
  <2>1. CASE r = both
    BY <1>1, <2>1 DEF FormCall
  <2>2. CASE r = one /\ data = reqs[i].data
    BY <1>1, <2>2 DEF FormCall
  <2> QED BY <1>2, <2>1, <2>2
<1>4. after \in Seq(FormCall) /\ Len(after) = Len(reqs)
      /\ \A j \in 1..Len(reqs) : after[j] = IF j = i THEN r ELSE reqs[j]
  BY <1>1, <1>2, <1>3, ExceptSeq
<1> QED BY <1>1, <1>3, <1>4 DEF FormAnswered

LEMMA FormDataAnswered ==
  ASSUME NEW reqs \in Seq(FormCall), NEW i \in DOMAIN reqs, NEW answer \in {"none", "ok", "error"},
         NEW data \in [Fields -> Values \cup {"unsent"}]
  PROVE  FormAnswered(WithData(reqs, i, answer, data), reqs, i, answer, data)
BY FormAnswers

LEMMA FormOnlyAnswered ==
  ASSUME NEW reqs \in Seq(FormCall), NEW i \in DOMAIN reqs, NEW answer \in {"none", "ok", "error"}
  PROVE  FormAnswered(WithAnswer(reqs, i, answer), reqs, i, answer, reqs[i].data)
<1>1. reqs[i] \in FormCall
  OBVIOUS
<1>2. reqs[i].data \in [Fields -> Values \cup {"unsent"}]
  BY <1>1 DEF FormCall
<1> QED BY <1>2, FormAnswers

LEMMA AnswerRowKept ==
  ASSUME FormInv, NEW i \in DOMAIN calls, AnswerRow(i)
  PROVE  FormInv'
<1>1. /\ UNCHANGED <<form, editing, field, open, arrived, submitting, db, header,
                     created, lost, early, changed, overtaken, deeds>>
      /\ calls[i].kind # "save"
  BY DEF AnswerRow
<1>2. calls \in Seq(FormCall) /\ db \in [Fields -> Values] /\ calls[i].data \in [Fields -> Values]
  BY <1>1 DEF FormInv, FormCallsOK, FormTypeOK
<1>3. PICK answer \in {"ok", "error"}, data \in [Fields -> Values] :
        FormAnswered(calls', calls, i, answer, data) /\ (answer = "ok" => data = db)
  <2>1. CASE calls' = [calls EXCEPT ![i].answer = "ok", ![i].data = db]
    <3>1. calls' = WithData(calls, i, "ok", db)
      BY <2>1 DEF WithData
    <3>2. db \in [Fields -> Values \cup {"unsent"}]
      BY <1>2
    <3>3. FormAnswered(calls', calls, i, "ok", db)
      BY <1>2, <3>1, <3>2, FormDataAnswered
    <3> QED BY <1>2, <3>3
  <2>2. CASE calls' = [calls EXCEPT ![i].answer = "error"]
    <3>1. calls' = WithAnswer(calls, i, "error")
      BY <2>2 DEF WithAnswer
    <3>2. FormAnswered(calls', calls, i, "error", calls[i].data)
      BY <1>2, <3>1, FormOnlyAnswered
    <3> QED BY <1>2, <3>2
  <2> QED BY <2>1, <2>2 DEF AnswerRow
<1>4. /\ calls' \in Seq(FormCall) /\ DOMAIN calls' = DOMAIN calls
      /\ \A j \in DOMAIN calls : calls'[j].kind = calls[j].kind
      /\ \A j \in DOMAIN calls \ {i} : calls'[j] = calls[j]
      /\ calls'[i].answer = answer /\ calls'[i].data = data
  BY <1>3 DEF FormAnswered
<1>5. /\ ShownFields' = ShownFields /\ InHeader' = InHeader /\ IsRowPage' = IsRowPage
      /\ LayoutLoads' = LayoutLoads /\ (Saving.data)' = Saving.data /\ Header(db)' = Header(db)
  BY <1>1, SameForm
<1>6. FormTypeOK'
  <2>1. {editing, open, arrived, submitting, early, changed, overtaken}' \subseteq BOOLEAN
    BY <1>1 DEF FormInv, FormTypeOK
  <2> QED BY <1>1, <1>5, <2>1 DEF FormInv, FormTypeOK
<1>7. FormCallsOK'
  <2>1. ASSUME NEW j \in DOMAIN calls'
        PROVE  /\ calls'[j].kind # "save" => calls'[j].data \in [Fields -> Values]
               /\ calls'[j].kind = "layout" => LayoutLoads
               /\ calls'[j].kind = "save" =>
                    /\ \A f \in ShownFields \ {"logo", "secret"} : calls'[j].data[f] # "unsent"
                    /\ ~changed => calls'[j].data = Saving.data
                    /\ calls'[j].answer = "ok" =>
                         \A f \in Fields : calls'[j].data[f] # "unsent" => db[f] = calls'[j].data[f]
    <3>1. CASE j = i
      BY <1>1, <1>3, <1>4, <3>1 DEF FormInv, FormCallsOK
    <3>2. CASE j # i
      <4>1. calls'[j] = calls[j] /\ j \in DOMAIN calls
        BY <1>4, <2>1, <3>2
      <4> QED BY <4>1 DEF FormInv, FormCallsOK, SaveCall
    <3> QED BY <3>1, <3>2
  <2> QED BY <1>1, <1>4, <1>5, <2>1 DEF FormCallsOK, SaveCall
<1>8. OneSave' /\ SavePending' = SavePending /\ SaveTaken' = SaveTaken /\ LayoutPending' = LayoutPending
  <2>1. \A j \in DOMAIN calls : calls[j].kind = "save" => j # i /\ calls'[j] = calls[j]
    BY <1>1, <1>4
  <2> QED BY <1>1, <1>4, <2>1 DEF FormInv, OneSave, SaveCall, SavePending, SaveTaken, LayoutPending
<1>9. RowCreated'
  BY <1>1, <1>5, <1>8 DEF FormInv, RowCreated
<1>10. OwnValues'
  BY <1>1, <1>3, <1>4, <1>5 DEF FormInv, OwnValues, SentEarly
<1>11. HeaderOK'
  BY <1>1, <1>5, <1>8 DEF FormInv, HeaderOK, HeaderShows
<1> QED BY <1>6, <1>7, <1>8, <1>9, <1>10, <1>11 DEF FormInv

LEMMA AnswerWriteKept ==
  ASSUME FormInv, NEW i \in DOMAIN calls, AnswerWrite(i)
  PROVE  FormInv'
<1>1. /\ UNCHANGED <<form, editing, field, open, arrived, submitting, header, early, changed,
                     overtaken, deeds>>
      /\ calls[i].kind = "save" /\ calls[i].answer = "none"
  BY DEF AnswerWrite
<1>2. /\ calls \in Seq(FormCall) /\ db \in [Fields -> Values]
      /\ calls[i].data \in [Fields -> Values \cup {"unsent"}]
      /\ lost \in Nat /\ created \in Nat
  <2>1. calls \in Seq(FormCall) /\ calls[i] \in FormCall
    BY DEF FormInv, FormCallsOK
  <2> QED BY <2>1 DEF FormInv, FormTypeOK, FormCall
<1>3. PICK answer \in {"ok", "error"} :
        /\ FormAnswered(calls', calls, i, answer, calls[i].data)
        /\ \/ answer = "error" /\ UNCHANGED <<db, created, lost>>
           \/ /\ db' = Written(calls[i].data)
              /\ created' = created + (IF editing THEN 0 ELSE 1)
              /\ lost' = lost + (IF answer = "error" THEN 1 ELSE 0)
  <2>1. PICK answer \in {"ok", "error"} :
          /\ calls' = WithAnswer(calls, i, answer)
          /\ \/ answer = "error" /\ UNCHANGED <<db, created, lost>>
             \/ /\ db' = Written(calls[i].data)
                /\ created' = created + (IF editing THEN 0 ELSE 1)
                /\ lost' = lost + (IF answer = "error" THEN 1 ELSE 0)
    BY DEF AnswerWrite, WithAnswer
  <2>2. FormAnswered(calls', calls, i, answer, calls[i].data)
    BY <1>2, <2>1, FormOnlyAnswered
  <2> QED BY <2>1, <2>2
<1>4. /\ calls' \in Seq(FormCall) /\ DOMAIN calls' = DOMAIN calls
      /\ \A j \in DOMAIN calls : calls'[j].kind = calls[j].kind /\ calls'[j].data = calls[j].data
      /\ \A j \in DOMAIN calls \ {i} : calls'[j] = calls[j]
      /\ calls'[i].answer = answer
  BY <1>3 DEF FormAnswered
<1>5. /\ ShownFields' = ShownFields /\ InHeader' = InHeader /\ IsRowPage' = IsRowPage
      /\ LayoutLoads' = LayoutLoads /\ (Saving.data)' = Saving.data
      /\ UNCHANGED db => Header(db)' = Header(db)
  BY <1>1, SameForm
<1>6. \A j \in DOMAIN calls : calls[j].kind = "save" => j = i
  BY <1>1 DEF FormInv, OneSave, SaveCall
<1>7. SavePending /\ SavePending' /\ ~SaveTaken /\ LayoutPending' = LayoutPending
      /\ SaveTaken' = (answer = "ok")
  <2>1. SavePending /\ ~SaveTaken
    BY <1>1, <1>6 DEF SavePending, SaveTaken, SaveCall
  <2>2. SavePending' /\ LayoutPending' = LayoutPending
    BY <1>1, <1>4 DEF SavePending, LayoutPending
  <2>3. SaveTaken' <=> calls'[i].answer = "ok"
    BY <1>1, <1>4, <1>6 DEF SaveTaken, SaveCall
  <2>4. SaveTaken' = (answer = "ok")
    BY <1>4, <2>3 DEF SaveTaken
  <2> QED BY <2>1, <2>2, <2>4
<1>8. \A f \in Fields : db'[f] \in {db[f], calls[i].data[f]} /\ db'[f] \in Values
  <2>1. ASSUME NEW f \in Fields, db' = Written(calls[i].data)
        PROVE  db'[f] \in {db[f], calls[i].data[f]} /\ db'[f] \in Values
    <3>1. db'[f] = IF calls[i].data[f] = "unsent" THEN db[f] ELSE calls[i].data[f]
      BY <2>1 DEF Written
    <3>2. db[f] \in Values /\ (calls[i].data[f] \in Values \/ calls[i].data[f] = "unsent")
      BY <1>2
    <3> QED BY <3>1, <3>2
  <2>2. CASE UNCHANGED db
    BY <1>2, <2>2
  <2> QED BY <1>3, <2>1, <2>2
<1>9. db' \in [Fields -> Values]
  <2>1. db' = db \/ db' = Written(calls[i].data)
    BY <1>3
  <2>2. CASE db' = Written(calls[i].data)
    <3>1. db' = [f \in Fields |-> IF calls[i].data[f] = "unsent" THEN db[f] ELSE calls[i].data[f]]
      BY <2>2 DEF Written
    <3>2. \A f \in Fields : (IF calls[i].data[f] = "unsent" THEN db[f] ELSE calls[i].data[f]) \in Values
      BY <1>2
    <3> QED BY <3>1, <3>2
  <2> QED BY <1>2, <2>1, <2>2
<1>10. FormTypeOK'
  <2>1. {editing, open, arrived, submitting, early, changed, overtaken}' \subseteq BOOLEAN
    BY <1>1 DEF FormInv, FormTypeOK
  <2>2. lost' \in Nat /\ created' \in Nat
    BY <1>2, <1>3
  <2> QED BY <1>1, <1>5, <1>9, <2>1, <2>2 DEF FormInv, FormTypeOK
<1>11. FormCallsOK'
  <2>1. ASSUME NEW j \in DOMAIN calls'
        PROVE  /\ calls'[j].kind # "save" => calls'[j].data \in [Fields -> Values]
               /\ calls'[j].kind = "layout" => LayoutLoads
               /\ calls'[j].kind = "save" =>
                    /\ \A f \in ShownFields \ {"logo", "secret"} : calls'[j].data[f] # "unsent"
                    /\ ~changed => calls'[j].data = Saving.data
                    /\ calls'[j].answer = "ok" =>
                         \A f \in Fields : calls'[j].data[f] # "unsent" => db'[f] = calls'[j].data[f]
    <3>1. CASE j = i
      <4>1. answer = "ok" => \A f \in Fields : calls[i].data[f] # "unsent" => db'[f] = calls[i].data[f]
        BY <1>3 DEF Written
      <4> QED BY <1>1, <1>4, <3>1, <4>1 DEF FormInv, FormCallsOK, SaveCall
    <3>2. CASE j # i
      <4>1. calls'[j] = calls[j] /\ j \in DOMAIN calls /\ calls[j].kind # "save"
        BY <1>4, <1>6, <2>1, <3>2
      <4> QED BY <4>1 DEF FormInv, FormCallsOK
    <3> QED BY <3>1, <3>2
  <2> QED BY <1>1, <1>4, <1>5, <2>1 DEF FormCallsOK, SaveCall
<1>12. OneSave'
  BY <1>1, <1>4, <1>7 DEF FormInv, OneSave, SaveCall
<1>13. RowCreated'
  <2>1. created <= lost /\ (editing => created = 0) /\ (~IsRowPage => editing)
    BY <1>2, <1>7 DEF FormInv, RowCreated
  <2>2. CASE UNCHANGED <<created, lost>>
    BY <1>1, <1>5, <2>1, <2>2 DEF RowCreated
  <2>3. CASE created' = created + (IF editing THEN 0 ELSE 1)
               /\ lost' = lost + (IF answer = "error" THEN 1 ELSE 0)
    <3>1. editing => created' = 0 /\ created' <= lost'
      BY <1>2, <2>1, <2>3
    <3>2. ~editing => created' <= lost' \/ (answer = "ok" /\ created' <= lost' + 1)
      BY <1>2, <2>1, <2>3
    <3>3. created' <= lost' \/ (created' = lost' + 1 /\ answer = "ok")
      BY <1>2, <2>3, <3>1, <3>2
    <3> QED BY <1>1, <1>5, <1>7, <2>1, <3>1, <3>3 DEF RowCreated
  <2> QED BY <1>3, <2>2, <2>3
<1>14. OwnValues'
  BY <1>1, <1>4, <1>5, <1>8 DEF FormInv, OwnValues, SentEarly
<1>15. HeaderOK'
  <2>1. lost' = 0 => lost = 0 /\ (answer = "ok" \/ UNCHANGED db)
    BY <1>2, <1>3
  <2> QED BY <1>1, <1>5, <1>7, <2>1 DEF FormInv, HeaderOK, HeaderShows
<1> QED BY <1>10, <1>11, <1>12, <1>13, <1>14, <1>15 DEF FormInv

\* What is left of the calls when one has come back to the page.
LEMMA FormRest ==
  ASSUME FormInv, NEW i \in DOMAIN calls, calls' = RemoveAt(calls, i)
  PROVE  /\ calls' \in Seq(FormCall)
         /\ \A k \in DOMAIN calls' : \E j \in DOMAIN calls \ {i} : calls'[k] = calls[j]
         /\ \A j, k \in DOMAIN calls' : calls'[j].kind = "save" /\ calls'[k].kind = "save" => j = k
         /\ calls[i].kind # "save" => SavePending' = SavePending /\ SaveTaken' = SaveTaken
         /\ calls[i].kind = "save" => ~SavePending' /\ ~SaveTaken'
         /\ calls[i].kind # "layout" => LayoutPending' = LayoutPending
<1>1. calls \in Seq(FormCall)
  BY DEF FormInv, FormCallsOK
<1>2. calls' \in Seq(FormCall)
  BY <1>1, RemoveAtElements
<1>3. PICK at \in [DOMAIN calls' -> DOMAIN calls \ {i}] :
        /\ \A k \in DOMAIN calls' : calls'[k] = calls[at[k]]
        /\ \A k, m \in DOMAIN calls' : at[k] = at[m] => k = m
        /\ \A j \in DOMAIN calls \ {i} : \E k \in DOMAIN calls' : at[k] = j
  BY <1>1, RemoveAtPlaces
<1>4. \A j, k \in DOMAIN calls : calls[j].kind = "save" /\ calls[k].kind = "save" => j = k
  BY DEF FormInv, OneSave, SaveCall
<1>5. \A k \in DOMAIN calls' : \E j \in DOMAIN calls \ {i} : calls'[k] = calls[j]
  BY <1>3
<1>6. \A j \in DOMAIN calls \ {i} : \E k \in DOMAIN calls' : calls'[k] = calls[j]
  BY <1>3
<1>7. \A j, k \in DOMAIN calls' : calls'[j].kind = "save" /\ calls'[k].kind = "save" => j = k
  <2> SUFFICES ASSUME NEW j \in DOMAIN calls', NEW k \in DOMAIN calls',
                      calls'[j].kind = "save", calls'[k].kind = "save"
               PROVE  j = k
    OBVIOUS
  <2>1. at[j] \in DOMAIN calls /\ at[k] \in DOMAIN calls
        /\ calls[at[j]].kind = "save" /\ calls[at[k]].kind = "save"
    BY <1>3
  <2> QED BY <1>3, <1>4, <2>1
<1>8. ASSUME calls[i].kind # "save" PROVE SavePending' = SavePending /\ SaveTaken' = SaveTaken
  <2>1. SavePending' <=> SavePending
    BY <1>5, <1>6, <1>8 DEF SavePending
  <2>2. SaveTaken' <=> SaveTaken
    BY <1>5, <1>6, <1>8 DEF SaveTaken, SaveCall
  <2> QED BY <2>1, <2>2 DEF SavePending, SaveTaken
<1>9. ASSUME calls[i].kind = "save" PROVE ~SavePending' /\ ~SaveTaken'
  <2>1. \A k \in DOMAIN calls' : calls'[k].kind # "save"
    BY <1>4, <1>5, <1>9
  <2> QED BY <2>1 DEF SavePending, SaveTaken, SaveCall
<1>10. ASSUME calls[i].kind # "layout" PROVE LayoutPending' = LayoutPending
  <2>1. LayoutPending' <=> LayoutPending
    BY <1>5, <1>6, <1>10 DEF LayoutPending
  <2> QED BY <2>1 DEF LayoutPending
<1> QED BY <1>2, <1>5, <1>7, <1>8, <1>9, <1>10

\* The calls that are left, or the same ones, stay as they were.
LEMMA FormCallsKept ==
  ASSUME FormInv, UNCHANGED <<form, editing, db>>, calls' \in Seq(FormCall),
         \A k \in DOMAIN calls' : \E j \in DOMAIN calls : calls'[k] = calls[j],
         (UNCHANGED <<field, changed>>) \/ changed' \/ ~SavePending
  PROVE  FormCallsOK'
<1>1. /\ ShownFields' = ShownFields /\ LayoutLoads' = LayoutLoads
      /\ UNCHANGED field => (Saving.data)' = Saving.data
  BY SameForm
<1>2. ASSUME NEW k \in DOMAIN calls'
      PROVE  /\ calls'[k].kind # "save" => calls'[k].data \in [Fields -> Values]
             /\ calls'[k].kind = "layout" => LayoutLoads
             /\ calls'[k].kind = "save" =>
                  /\ \A f \in ShownFields \ {"logo", "secret"} : calls'[k].data[f] # "unsent"
                  /\ ~changed' => calls'[k].data = (Saving.data)'
                  /\ calls'[k].answer = "ok" =>
                       \A f \in Fields : calls'[k].data[f] # "unsent" => db[f] = calls'[k].data[f]
  <2>1. PICK j \in DOMAIN calls : calls'[k] = calls[j]
    OBVIOUS
  <2>2. calls[j].kind = "save" => SavePending
    BY DEF SavePending
  <2>3. calls[j].kind = "save" /\ ~changed' => UNCHANGED <<field, changed>>
    BY <2>2
  <2> QED BY <1>1, <2>1, <2>3 DEF FormInv, FormCallsOK, SaveCall
<1> QED BY <1>1, <1>2 DEF FormCallsOK, SaveCall

LEMMA DeliverRowKept ==
  ASSUME FormInv, NEW i \in DOMAIN calls, DeliverRow(i)
  PROVE  FormInv'
<1>1. /\ UNCHANGED <<form, editing, submitting, db, header, created, lost, early, overtaken, deeds>>
      /\ calls[i].kind = "load" /\ calls' = RemoveAt(calls, i) /\ open' \in {open, open /\ ~IsRowPage}
      /\ changed' = (changed \/ SavePending)
      /\ arrived' \in {arrived, TRUE}
  BY DEF DeliverRow
<1>2. \/ UNCHANGED <<field, arrived>>
      \/ /\ calls[i].answer = "ok"
         /\ field' = [f \in Fields |-> IF f \in ShownFields \ {"secret"} THEN calls[i].data[f] ELSE field[f]]
         /\ arrived' = TRUE
  BY DEF DeliverRow
<1>3. /\ calls' \in Seq(FormCall)
      /\ \A k \in DOMAIN calls' : \E j \in DOMAIN calls \ {i} : calls'[k] = calls[j]
      /\ \A j, k \in DOMAIN calls' : calls'[j].kind = "save" /\ calls'[k].kind = "save" => j = k
      /\ SavePending' = SavePending /\ SaveTaken' = SaveTaken /\ LayoutPending' = LayoutPending
  BY <1>1, FormRest
<1>4. /\ ShownFields' = ShownFields /\ InHeader' = InHeader /\ IsRowPage' = IsRowPage
      /\ Header(db)' = Header(db)
  BY <1>1, SameForm
<1>5. field \in [Fields -> Values] /\ calls[i].data \in [Fields -> Values]
  BY <1>1 DEF FormInv, FormTypeOK, FormCallsOK
<1>6. FormTypeOK'
  <2>1. field' \in [Fields -> Values]
    BY <1>2, <1>5
  <2>2. {editing, open, arrived, submitting, early, changed, overtaken}' \subseteq BOOLEAN
    <3>1. {editing, open, arrived, submitting, early, changed, overtaken} \subseteq BOOLEAN
      BY DEF FormInv, FormTypeOK
    <3>2. open' \in BOOLEAN
      BY <1>1, <3>1
    <3>3. changed' \in BOOLEAN
      BY <1>1
    <3> QED BY <1>1, <3>1, <3>2, <3>3
  <2> QED BY <1>1, <1>4, <2>1, <2>2 DEF FormInv, FormTypeOK
<1>7. FormCallsOK'
  <2>1. changed' \/ ~SavePending
    BY <1>1
  <2> QED BY <1>1, <1>3, <2>1, FormCallsKept
<1>8. OneSave'
  <2>1. open' => open
    BY <1>1 DEF FormInv, FormTypeOK
  <2> QED BY <1>1, <1>3, <2>1 DEF FormInv, OneSave, SaveCall
<1>9. RowCreated'
  BY <1>1, <1>3, <1>4 DEF FormInv, RowCreated
<1>10. OwnValues'
  <2>1. editing => field'["secret"] = Blank
    BY <1>1, <1>2 DEF FormInv, OwnValues, Fields
  <2>2. ASSUME editing, ~SentEarly
        PROVE  /\ \A f \in Fields : field'[f] = "default" => f \in {"extra", "logo"}
               /\ arrived' => \A f \in ShownFields \ {"secret", "logo"} : field'[f] \notin NotOwn
    <3>1. CASE UNCHANGED <<field, arrived>>
      BY <2>2, <3>1 DEF FormInv, OwnValues
    <3>2. CASE /\ calls[i].answer = "ok"
               /\ field' = [f \in Fields |-> IF f \in ShownFields \ {"secret"} THEN calls[i].data[f] ELSE field[f]]
      <4>1. \A f \in Fields \ {"logo"} : calls[i].data[f] \notin NotOwn
        BY <2>2, <3>2 DEF FormInv, OwnValues
      <4>2. \A f \in Fields : field[f] = "default" => f \in {"extra", "logo"}
        BY <2>2 DEF FormInv, OwnValues
      <4>3. ShownFields \subseteq Fields
        BY FormShapes DEF FormInv, FormTypeOK
      <4>4. \A f \in Fields : field'[f] = IF f \in ShownFields \ {"secret"} THEN calls[i].data[f] ELSE field[f]
        BY <3>2
      <4>5. \A f \in Fields : field'[f] = "default" => f \in {"extra", "logo"}
        BY <4>1, <4>2, <4>4 DEF NotOwn
      <4>6. \A f \in ShownFields \ {"secret", "logo"} : field'[f] \notin NotOwn
        BY <4>1, <4>3, <4>4
      <4> QED BY <4>5, <4>6
    <3> QED BY <1>2, <3>1, <3>2
  <2>3. editing /\ ~SentEarly =>
          /\ \A f \in Fields \ {"logo"} : db[f] \notin NotOwn
          /\ \A k \in DOMAIN calls' : calls'[k].kind = "save" \/ calls'[k].answer = "ok" =>
               \A f \in Fields \ {"logo"} : calls'[k].data[f] \notin NotOwn
    BY <1>3 DEF FormInv, OwnValues
  <2>4. SentEarly' = SentEarly
    BY <1>1 DEF SentEarly
  <2> QED BY <1>1, <1>4, <2>1, <2>2, <2>3, <2>4 DEF OwnValues
<1>11. HeaderOK'
  BY <1>1, <1>3, <1>4 DEF FormInv, HeaderOK, HeaderShows
<1> QED BY <1>6, <1>7, <1>8, <1>9, <1>10, <1>11 DEF FormInv

LEMMA DeliverLayoutKept ==
  ASSUME FormInv, NEW i \in DOMAIN calls, DeliverLayout(i)
  PROVE  FormInv'
<1>1. /\ UNCHANGED <<form, editing, field, open, arrived, submitting, db, created, lost,
                     early, changed, deeds>>
      /\ calls[i].kind = "layout" /\ calls[i].answer # "none" /\ calls' = RemoveAt(calls, i)
      /\ header' = IF calls[i].answer = "ok" THEN Header(calls[i].data) ELSE [f \in InHeader |-> "default"]
      /\ overtaken' = (overtaken \/ calls[i].data # db \/ calls[i].answer = "error")
  BY DEF DeliverLayout
<1>2. /\ calls' \in Seq(FormCall)
      /\ \A k \in DOMAIN calls' : \E j \in DOMAIN calls \ {i} : calls'[k] = calls[j]
      /\ \A j, k \in DOMAIN calls' : calls'[j].kind = "save" /\ calls'[k].kind = "save" => j = k
      /\ SavePending' = SavePending /\ SaveTaken' = SaveTaken
  BY <1>1, FormRest
<1>3. /\ ShownFields' = ShownFields /\ InHeader' = InHeader /\ IsRowPage' = IsRowPage
      /\ Header(db)' = Header(db)
  BY <1>1, SameForm
<1>4. calls[i].data \in [Fields -> Values] /\ calls[i].answer \in {"ok", "error"}
  <2>1. calls[i] \in FormCall
    BY DEF FormInv, FormCallsOK
  <2> QED BY <1>1, <2>1 DEF FormInv, FormCallsOK, FormCall
<1>5. FormTypeOK'
  <2>1. header' \in [InHeader -> Values]
    <3>1. Header(calls[i].data) \in [InHeader -> Values] /\ [f \in InHeader |-> "default"] \in [InHeader -> Values]
      BY <1>4, FormShapes DEF Header
    <3> QED BY <1>1, <3>1
  <2>2. {editing, open, arrived, submitting, early, changed, overtaken}' \subseteq BOOLEAN
    <3>1. {editing, open, arrived, submitting, early, changed, overtaken} \subseteq BOOLEAN
      BY DEF FormInv, FormTypeOK
    <3>2. overtaken' \in BOOLEAN
      BY <1>1
    <3> QED BY <1>1, <3>1, <3>2
  <2> QED BY <1>1, <1>3, <2>1, <2>2 DEF FormInv, FormTypeOK
<1>6. FormCallsOK'
  BY <1>1, <1>2, FormCallsKept
<1>7. OneSave'
  BY <1>1, <1>2 DEF FormInv, OneSave, SaveCall
<1>8. RowCreated'
  BY <1>1, <1>2, <1>3 DEF FormInv, RowCreated
<1>9. OwnValues'
  BY <1>1, <1>2, <1>3 DEF FormInv, OwnValues, SentEarly
<1>10. HeaderOK'
  <2>1. ~overtaken' => header' = Header(db)
    BY <1>1, <1>4
  <2> QED BY <1>3, <2>1 DEF HeaderOK, HeaderShows
<1> QED BY <1>5, <1>6, <1>7, <1>8, <1>9, <1>10 DEF FormInv

\* What the page tells the header is what it has saved, unless the form has
\* changed since or holds no logo.
LEMMA AnnouncedIsStored ==
  ASSUME FormInv, NEW i \in DOMAIN calls, calls[i].kind = "save", calls[i].answer = "ok"
  PROVE  /\ Announced(calls[i]) \in [InHeader -> Values]
         /\ \/ Announced(calls[i]) = Header(db)
            \/ form \in {"general", "branding"} /\ changed
            \/ form = "branding" /\ Announced(calls[i])["logo"] = Blank
<1>1. /\ \A f \in ShownFields \ {"logo", "secret"} : calls[i].data[f] # "unsent"
      /\ ~changed => calls[i].data = Saving.data
      /\ \A f \in Fields : calls[i].data[f] # "unsent" => db[f] = calls[i].data[f]
  BY DEF FormInv, FormCallsOK, SaveCall
<1>2. field \in [Fields -> Values] /\ db \in [Fields -> Values] /\ form \in AllForms
  BY FormAssumption DEF FormInv, FormTypeOK
<1>3. Header(field) \in [InHeader -> Values] /\ Header(field) = [f \in InHeader |-> field[f]]
      /\ Header(db) = [f \in InHeader |-> db[f]]
  BY <1>2, FormShapes DEF Header
<1>4. CASE form = "profile"
  <2>1. InHeader = {"key"} /\ ShownFields = {"key"}
    BY <1>4 DEF InHeader, ShownFields
  <2>2. db["key"] = calls[i].data["key"]
    BY <1>1, <2>1 DEF Fields
  <2>3. Announced(calls[i]) = [f \in InHeader |-> calls[i].data[f]]
    BY <1>4 DEF Announced
  <2>4. Announced(calls[i]) = Header(db) /\ Header(db) \in [InHeader -> Values]
    BY <1>2, <1>3, <2>1, <2>2, <2>3 DEF Fields
  <2> QED BY <2>4
<1>5. CASE form \in {"general", "branding"}
  <2>1. Announced(calls[i]) = Header(field)
    BY <1>5 DEF Announced
  <2>2. ASSUME ~changed
        PROVE  \A f \in Fields : f \in SentFields => db[f] = field[f]
    <3>1. \A f \in Fields : f \in SentFields => calls[i].data[f] = field[f] /\ field[f] # "unsent"
      BY <1>1, <1>2, <2>2, SavingOK, FormShapes DEF FormInv
    <3> QED BY <1>1, <3>1
  <2>3. CASE form = "general"
    <3>1. InHeader = {"key"} /\ ShownFields = {"key"}
      BY <2>3 DEF InHeader, ShownFields
    <3>2. "key" \in SentFields /\ "key" \in Fields
      BY <3>1 DEF SentFields, Sent, Fields
    <3> QED BY <1>3, <2>1, <2>2, <2>3, <3>1, <3>2
  <2>4. CASE form = "branding"
    <3>1. InHeader = {"extra", "logo"} /\ ShownFields = {"extra", "logo"}
      BY <2>4 DEF InHeader, ShownFields
    <3>2. "extra" \in SentFields /\ (field["logo"] # Blank => "logo" \in SentFields)
          /\ {"extra", "logo"} \subseteq Fields
      BY <3>1 DEF SentFields, Sent, Fields
    <3>3. Header(field)["logo"] = field["logo"]
      BY <1>3, <3>1
    <3> QED BY <1>3, <2>1, <2>2, <2>4, <3>1, <3>2, <3>3
  <2> QED BY <1>5, <2>3, <2>4
<1>6. CASE form \notin {"profile", "general", "branding"}
  <2>1. InHeader = {}
    BY <1>6 DEF InHeader
  <2>2. Announced(calls[i]) = Header(field)
    BY <1>6 DEF Announced
  <2> QED BY <1>3, <2>1, <2>2
<1> QED BY <1>4, <1>5, <1>6

LEMMA DeliverWriteKept ==
  ASSUME FormInv, NEW i \in DOMAIN calls, DeliverWrite(i)
  PROVE  FormInv'
<1>1. /\ UNCHANGED <<form, editing, field, arrived, db, created, lost, early, changed, overtaken, deeds>>
      /\ calls[i].kind = "save" /\ calls[i].answer # "none" /\ calls' = RemoveAt(calls, i)
      /\ submitting' = (IsRowPage /\ calls[i].answer = "ok")
      /\ \/ calls[i].answer = "ok" /\ open' = (open /\ ~IsRowPage) /\ header' = Announced(calls[i])
         \/ calls[i].answer # "ok" /\ UNCHANGED <<open, header>>
  BY DEF DeliverWrite, Busy
<1>2. /\ calls' \in Seq(FormCall)
      /\ \A k \in DOMAIN calls' : \E j \in DOMAIN calls \ {i} : calls'[k] = calls[j]
      /\ \A j, k \in DOMAIN calls' : calls'[j].kind = "save" /\ calls'[k].kind = "save" => j = k
      /\ ~SavePending' /\ ~SaveTaken' /\ LayoutPending' = LayoutPending
  BY <1>1, FormRest
<1>3. /\ ShownFields' = ShownFields /\ InHeader' = InHeader /\ IsRowPage' = IsRowPage
      /\ Header(db)' = Header(db)
  BY <1>1, SameForm
<1>4. SaveTaken = (calls[i].answer = "ok") /\ SavePending
  <2>1. \A j \in DOMAIN calls : calls[j].kind = "save" => j = i
    BY <1>1 DEF FormInv, OneSave, SaveCall
  <2> QED BY <1>1, <2>1 DEF SaveTaken, SaveCall, SavePending
<1>5. FormTypeOK'
  <2>1. header' \in [InHeader -> Values]
    BY <1>1, AnnouncedIsStored DEF FormInv, FormTypeOK
  <2>2. {editing, open, arrived, submitting, early, changed, overtaken}' \subseteq BOOLEAN
    <3>1. {editing, open, arrived, submitting, early, changed, overtaken} \subseteq BOOLEAN
      BY DEF FormInv, FormTypeOK
    <3>2. open' \in BOOLEAN /\ submitting' \in BOOLEAN
      BY <1>1, <3>1
    <3> QED BY <1>1, <3>1, <3>2
  <2> QED BY <1>1, <1>3, <2>1, <2>2 DEF FormInv, FormTypeOK
<1>6. FormCallsOK'
  BY <1>1, <1>2, FormCallsKept
<1>7. OneSave'
  BY <1>1, <1>2 DEF OneSave, SaveCall
<1>8. RowCreated'
  <2>1. created <= lost \/ (created = lost + 1 /\ calls[i].answer = "ok")
    BY <1>4 DEF FormInv, RowCreated
  <2>2. (editing => created = 0 /\ created <= lost) /\ (~IsRowPage => editing)
    BY DEF FormInv, RowCreated, FormTypeOK
  <2> QED BY <1>1, <1>2, <1>3, <2>1, <2>2 DEF RowCreated
<1>9. OwnValues'
  BY <1>1, <1>2, <1>3 DEF FormInv, OwnValues, SentEarly
<1>10. HeaderOK'
  <2> SUFFICES ASSUME ~overtaken, lost = 0 PROVE HeaderShows' \/ LayoutPending'
    BY <1>1 DEF HeaderOK
  <2>1. CASE calls[i].answer = "ok"
    <3>1. \/ header' = Header(db)
          \/ form \in {"general", "branding"} /\ changed
          \/ form = "branding" /\ header'["logo"] = Blank
      BY <1>1, <2>1, AnnouncedIsStored
    <3> QED BY <1>1, <1>3, <3>1 DEF HeaderShows
  <2>2. CASE calls[i].answer # "ok"
    BY <1>1, <1>2, <1>3, <1>4, <2>2 DEF FormInv, HeaderOK, HeaderShows
  <2> QED BY <2>1, <2>2
<1> QED BY <1>5, <1>6, <1>7, <1>8, <1>9, <1>10 DEF FormInv

LEMMA TypeKept == FormInv /\ Type => FormInv'
<1> SUFFICES ASSUME FormInv, Type PROVE FormInv'
  OBVIOUS
<1>1. /\ UNCHANGED <<form, editing, open, arrived, submitting, calls, db, header, created, lost,
                     early, overtaken>>
      /\ deeds' = deeds + 1 /\ changed' = (changed \/ SavePending)
  BY DEF Type, Deed
<1>2. PICK f \in Fields, v \in Typed \cup {Blank} :
        CanType(f) /\ (v = Blank => f = "logo" \/ v \in Typed) /\ field' = [field EXCEPT ![f] = v]
  BY DEF Type
<1>3. v \in Values /\ v # "default" /\ (f # "logo" => v \notin NotOwn) /\ (f = "secret" => ~editing)
  BY <1>2, FormAssumption, FormShapes, Blanks DEF CanType, NotOwn
<1>4. /\ ShownFields' = ShownFields /\ InHeader' = InHeader /\ IsRowPage' = IsRowPage
      /\ Header(db)' = Header(db)
  BY <1>1, SameForm
<1>5. field \in [Fields -> Values] /\ field' \in [Fields -> Values]
      /\ \A g \in Fields : field'[g] = IF g = f THEN v ELSE field[g]
  BY <1>2, <1>3 DEF FormInv, FormTypeOK
<1>6. FormTypeOK'
  <2>1. {editing, open, arrived, submitting, early, changed, overtaken}' \subseteq BOOLEAN
    <3>1. {editing, open, arrived, submitting, early, changed, overtaken} \subseteq BOOLEAN
      BY DEF FormInv, FormTypeOK
    <3>2. changed' \in BOOLEAN
      BY <1>1
    <3> QED BY <1>1, <3>1, <3>2
  <2>2. deeds' \in Nat
    BY <1>1 DEF FormInv, FormTypeOK
  <2> QED BY <1>1, <1>4, <1>5, <2>1, <2>2 DEF FormInv, FormTypeOK
<1>7. FormCallsOK'
  <2>1. changed' \/ ~SavePending
    BY <1>1
  <2>2. calls' \in Seq(FormCall) /\ \A k \in DOMAIN calls' : \E j \in DOMAIN calls : calls'[k] = calls[j]
    BY <1>1 DEF FormInv, FormCallsOK
  <2> QED BY <1>1, <2>1, <2>2, FormCallsKept
<1>8. OneSave' /\ RowCreated'
  BY <1>1, <1>4 DEF FormInv, OneSave, RowCreated, SaveCall, SavePending, SaveTaken
<1>9. OwnValues'
  <2>1. editing => field'["secret"] = Blank
    BY <1>3, <1>5 DEF FormInv, OwnValues, Fields
  <2>2. ASSUME editing, ~SentEarly
        PROVE  /\ \A g \in Fields : field'[g] = "default" => g \in {"extra", "logo"}
               /\ arrived => \A g \in ShownFields \ {"secret", "logo"} : field'[g] \notin NotOwn
    <3>1. \A g \in Fields : field[g] = "default" => g \in {"extra", "logo"}
      BY <2>2 DEF FormInv, OwnValues
    <3>2. arrived => \A g \in ShownFields \ {"secret", "logo"} : field[g] \notin NotOwn
      BY <2>2 DEF FormInv, OwnValues
    <3>3. ShownFields \subseteq Fields
      BY FormShapes DEF FormInv, FormTypeOK
    <3> QED BY <1>3, <1>5, <3>1, <3>2, <3>3
  <2> QED BY <1>1, <1>4, <2>1, <2>2 DEF FormInv, OwnValues, SentEarly
<1>10. HeaderOK'
  BY <1>1, <1>4 DEF FormInv, HeaderOK, HeaderShows, LayoutPending, SaveTaken, SaveCall
<1> QED BY <1>6, <1>7, <1>8, <1>9, <1>10 DEF FormInv

\* A form of an edited row that can be sent before the row has come is one of
\* those that leave out no required field.
LEMMA SendsOwn ==
  ASSUME FormInv, editing, Valid, ~SentEarly,
         ~arrived => form \notin {"booking", "service", "branding", "preferences"}
  PROVE  \A f \in Fields \ {"logo"} : Saving.data[f] \notin NotOwn
<1>1. /\ field["secret"] = Blank
      /\ \A f \in Fields : field[f] = "default" => f \in {"extra", "logo"}
      /\ arrived => \A f \in ShownFields \ {"secret", "logo"} : field[f] \notin NotOwn
  BY DEF FormInv, OwnValues
<1>2. /\ \A f \in Fields : Saving.data[f] = IF f \in SentFields THEN field[f] ELSE "unsent"
      /\ "secret" \notin SentFields /\ SentFields \subseteq ShownFields /\ "unsent" \notin NotOwn
  BY SavingOK, FormShapes, Blanks DEF FormInv, NotOwn
<1>3. CASE arrived
  BY <1>1, <1>2, <1>3
<1>4. CASE ~arrived
  <2>1. form \in {"user", "general", "profile"} /\ Required = {"key", "secret"}
    BY <1>4, FormAssumption DEF FormInv, FormTypeOK, AllForms, Required
  <2>2. form # "user"
    BY <1>1, <2>1 DEF Valid, ShownFields, UserFields
  <2>3. ShownFields = {"key"}
    BY <2>1, <2>2 DEF ShownFields
  <2>4. field["key"] \notin NotOwn
    BY <1>1, <2>1, <2>3 DEF Valid, NotOwn, Fields
  <2> QED BY <1>2, <2>3, <2>4
<1> QED BY <1>3, <1>4

LEMMA SubmitKept == FormInv /\ Submit => FormInv'
<1> SUFFICES ASSUME FormInv, Submit PROVE FormInv'
  OBVIOUS
<1>1. /\ UNCHANGED <<form, editing, field, open, arrived, db, header, created, lost, changed, overtaken>>
      /\ deeds' = deeds + 1 /\ submitting' = TRUE /\ calls' = Append(calls, Saving)
      /\ early' = (early \/ (editing /\ ~arrived))
      /\ Valid /\ ~submitting
  BY DEF Submit, Deed, CanSubmit
<1>2. ~SavePending /\ ~SaveTaken
  BY <1>1 DEF FormInv, OneSave, SaveTaken, SavePending, SaveCall
<1>3. /\ calls \in Seq(FormCall) /\ Len(calls) \in Nat /\ DOMAIN calls = 1..Len(calls)
      /\ Saving \in FormCall /\ Saving.kind = "save" /\ Saving.answer = "none"
      /\ \A f \in ShownFields \ {"logo", "secret"} : Saving.data[f] # "unsent"
  <2>1. calls \in Seq(FormCall)
    BY DEF FormInv, FormCallsOK
  <2>2. ShownFields \subseteq Fields
    BY FormShapes DEF FormInv, FormTypeOK
  <2> QED BY <2>1, <2>2, SavingOK DEF FormInv
<1>4. /\ calls' \in Seq(FormCall) /\ DOMAIN calls' = 1..(Len(calls) + 1)
      /\ calls'[Len(calls) + 1] = Saving /\ \A k \in 1..Len(calls) : calls'[k] = calls[k]
      /\ \A k \in 1..(Len(calls) + 1) : k \in 1..Len(calls) \/ k = Len(calls) + 1
  <2> DEFINE s == Saving
  <2>1. s \in FormCall
    BY <1>3
  <2> HIDE DEF s
  <2>2. /\ Append(calls, s) \in Seq(FormCall) /\ Len(Append(calls, s)) = Len(calls) + 1
        /\ Append(calls, s)[Len(calls) + 1] = s /\ \A k \in 1..Len(calls) : Append(calls, s)[k] = calls[k]
    BY <1>3, <2>1, AppendProperties
  <2> QED BY <1>1, <1>3, <2>2 DEF s
<1>5. /\ ShownFields' = ShownFields /\ InHeader' = InHeader /\ IsRowPage' = IsRowPage
      /\ LayoutLoads' = LayoutLoads /\ (Saving.data)' = Saving.data /\ Header(db)' = Header(db)
  BY <1>1, SameForm
<1>6. \A k \in 1..Len(calls) : calls[k].kind # "save"
  BY <1>2, <1>3 DEF SavePending
<1>7. FormTypeOK'
  <2>1. {editing, open, arrived, submitting, early, changed, overtaken}' \subseteq BOOLEAN
    <3>1. {editing, open, arrived, submitting, early, changed, overtaken} \subseteq BOOLEAN
      BY DEF FormInv, FormTypeOK
    <3>2. early' \in BOOLEAN
      BY <1>1
    <3> QED BY <1>1, <3>1, <3>2
  <2>2. deeds' \in Nat
    BY <1>1 DEF FormInv, FormTypeOK
  <2> QED BY <1>1, <1>5, <2>1, <2>2 DEF FormInv, FormTypeOK
<1>8. FormCallsOK'
  <2>1. ASSUME NEW k \in DOMAIN calls'
        PROVE  /\ calls'[k].kind # "save" => calls'[k].data \in [Fields -> Values]
               /\ calls'[k].kind = "layout" => LayoutLoads
               /\ calls'[k].kind = "save" =>
                    /\ \A f \in ShownFields \ {"logo", "secret"} : calls'[k].data[f] # "unsent"
                    /\ calls'[k].data = Saving.data
                    /\ calls'[k].answer # "ok"
    <3>1. CASE k \in 1..Len(calls)
      BY <1>3, <1>4, <1>6, <3>1 DEF FormInv, FormCallsOK
    <3>2. CASE k = Len(calls) + 1
      BY <1>3, <1>4, <3>2
    <3> QED BY <1>4, <3>1, <3>2
  <2> QED BY <1>1, <1>4, <1>5, <2>1 DEF FormCallsOK, SaveCall
<1>9. SavePending' /\ LayoutPending' = LayoutPending
  <2>1. SavePending'
    BY <1>3, <1>4 DEF SavePending
  <2>2. LayoutPending' <=> LayoutPending
    BY <1>3, <1>4 DEF LayoutPending
  <2> QED BY <2>1, <2>2 DEF LayoutPending
<1>10. OneSave'
  <2>1. \A k \in DOMAIN calls' : calls'[k].kind = "save" => k = Len(calls) + 1
    BY <1>4, <1>6
  <2> QED BY <1>1, <1>9, <2>1 DEF OneSave, SaveCall
<1>11. RowCreated'
  <2>1. created <= lost
    BY <1>1, <1>2 DEF FormInv, RowCreated
  <2> QED BY <1>1, <1>5, <2>1 DEF FormInv, RowCreated
<1>12. OwnValues'
  <2>1. SentEarly => SentEarly'
    BY <1>1 DEF SentEarly
  <2>2. ASSUME editing, ~SentEarly' PROVE \A f \in Fields \ {"logo"} : Saving.data[f] \notin NotOwn
    <3>1. ~arrived => form \notin {"booking", "service", "branding", "preferences"}
      BY <1>1, <2>2 DEF SentEarly
    <3> QED BY <1>1, <2>1, <2>2, <3>1, SendsOwn
  <2>3. editing /\ ~SentEarly' =>
          \A k \in DOMAIN calls' : calls'[k].kind = "save" \/ calls'[k].answer = "ok" =>
            \A f \in Fields \ {"logo"} : calls'[k].data[f] \notin NotOwn
    BY <1>3, <1>4, <2>1, <2>2 DEF FormInv, OwnValues
  <2>4. editing /\ ~SentEarly' =>
          /\ \A f \in Fields : field[f] = "default" => f \in {"extra", "logo"}
          /\ \A f \in Fields \ {"logo"} : db[f] \notin NotOwn
          /\ arrived => \A f \in ShownFields \ {"secret", "logo"} : field[f] \notin NotOwn
    BY <2>1 DEF FormInv, OwnValues
  <2>5. editing => field["secret"] = Blank
    BY DEF FormInv, OwnValues
  <2> QED BY <1>1, <1>5, <2>3, <2>4, <2>5 DEF OwnValues
<1>13. HeaderOK'
  BY <1>1, <1>2, <1>5, <1>9 DEF FormInv, HeaderOK, HeaderShows
<1> QED BY <1>7, <1>8, <1>10, <1>11, <1>12, <1>13 DEF FormInv

LEMMA LeaveKept == FormInv /\ Leave => FormInv'
<1> SUFFICES ASSUME FormInv, Leave PROVE FormInv'
  OBVIOUS
<1>1. /\ UNCHANGED <<form, editing, field, arrived, submitting, calls, db, header, created, lost,
                     early, changed, overtaken>>
      /\ deeds' = deeds + 1 /\ open' = FALSE
  BY DEF Leave, Deed
<1>2. /\ ShownFields' = ShownFields /\ InHeader' = InHeader /\ IsRowPage' = IsRowPage
      /\ Header(db)' = Header(db)
  BY <1>1, SameForm
<1>3. FormTypeOK'
  <2>1. {editing, open, arrived, submitting, early, changed, overtaken}' \subseteq BOOLEAN
    BY <1>1 DEF FormInv, FormTypeOK
  <2>2. deeds' \in Nat
    BY <1>1 DEF FormInv, FormTypeOK
  <2> QED BY <1>1, <1>2, <2>1, <2>2 DEF FormInv, FormTypeOK
<1>4. FormCallsOK'
  <2>1. calls' \in Seq(FormCall) /\ \A k \in DOMAIN calls' : \E j \in DOMAIN calls : calls'[k] = calls[j]
    BY <1>1 DEF FormInv, FormCallsOK
  <2> QED BY <1>1, <2>1, FormCallsKept
<1>5. OneSave' /\ RowCreated'
  BY <1>1, <1>2 DEF FormInv, OneSave, RowCreated, SaveCall, SavePending, SaveTaken
<1>6. OwnValues' /\ HeaderOK'
  BY <1>1, <1>2 DEF FormInv, OwnValues, SentEarly, HeaderOK, HeaderShows, LayoutPending, SaveTaken, SaveCall
<1> QED BY <1>3, <1>4, <1>5, <1>6 DEF FormInv

LEMMA FormInvKept == FormInv /\ [FormNext]_formVars => FormInv'
<1> SUFFICES ASSUME FormInv, [FormNext]_formVars PROVE FormInv'
  OBVIOUS
<1>1. CASE UNCHANGED formVars
  <2>1. UNCHANGED <<form, editing, field, open, arrived, submitting, calls, db, header, created, lost,
                    early, changed, overtaken, deeds>>
    BY <1>1 DEF formVars
  <2>2. /\ ShownFields' = ShownFields /\ InHeader' = InHeader /\ IsRowPage' = IsRowPage
        /\ Header(db)' = Header(db)
    BY <2>1, SameForm
  <2>3. FormCallsOK'
    <3>1. calls' \in Seq(FormCall) /\ \A k \in DOMAIN calls' : \E j \in DOMAIN calls : calls'[k] = calls[j]
      BY <2>1 DEF FormInv, FormCallsOK
    <3> QED BY <2>1, <3>1, FormCallsKept
  <2>4. FormTypeOK'
    BY <2>1, <2>2 DEF FormInv, FormTypeOK
  <2>5. OneSave' /\ RowCreated' /\ OwnValues' /\ HeaderOK'
    BY <2>1, <2>2 DEF FormInv, OneSave, RowCreated, SaveCall, SavePending, SaveTaken, OwnValues, SentEarly,
                      HeaderOK, HeaderShows, LayoutPending
  <2> QED BY <2>3, <2>4, <2>5 DEF FormInv
<1>2. ASSUME NEW i \in DOMAIN calls,
             AnswerRow(i) \/ AnswerWrite(i) \/ DeliverRow(i) \/ DeliverLayout(i) \/ DeliverWrite(i)
      PROVE  FormInv'
  BY <1>2, AnswerRowKept, AnswerWriteKept, DeliverRowKept, DeliverLayoutKept, DeliverWriteKept
<1>3. CASE Type \/ Submit \/ Leave
  BY <1>3, TypeKept, SubmitKept, LeaveKept
<1> QED BY <1>1, <1>2, <1>3 DEF FormNext

\* Saving a form never writes the form's own defaults, or nothing, over a
\* field of the stored row, except with the forms that can be sent before the
\* row has come.
THEOREM StoredFieldsKept == FormSpec => []UntouchedKept
<1>1. FormInv => UntouchedKept
  BY DEF FormInv, OwnValues, UntouchedKept, NotOwn, SentEarly
<1> QED BY <1>1, FormStarts, FormInvKept, PTL DEF FormSpec

\* However often a form is submitted, a visit creates one row, and one more
\* for each answer that was lost.
THEOREM OneRowAVisit == FormSpec => []CreatedOnce
<1>1. FormInv => CreatedOnce
  <2> SUFFICES ASSUME FormInv PROVE CreatedOnce
    OBVIOUS
  <2>1. created \in Nat /\ lost \in Nat /\ open \in BOOLEAN
    BY DEF FormInv, FormTypeOK
  <2>2. created <= 1 + lost
    BY <2>1 DEF FormInv, RowCreated
  <2>3. submitting => SavePending \/ ~open
    BY DEF FormInv, OneSave
  <2> QED BY <2>2, <2>3 DEF CreatedOnce
<1> QED BY <1>1, FormStarts, FormInvKept, PTL DEF FormSpec

\* When nothing is under way the header shows what is stored, with the
\* exceptions its definition names.
THEOREM HeaderTold == FormSpec => []HeaderIsStored
<1>1. FormInv => HeaderIsStored
  <2> SUFFICES ASSUME FormInv, calls = <<>>, ~overtaken, lost = 0 PROVE HeaderShows
    BY DEF HeaderIsStored, HeaderShows
  <2>1. DOMAIN calls = {}
    OBVIOUS
  <2>2. ~LayoutPending /\ ~SaveTaken
    BY <2>1 DEF LayoutPending, SaveTaken, SaveCall
  <2> QED BY <2>2 DEF FormInv, HeaderOK
<1> QED BY <1>1, FormStarts, FormInvKept, PTL DEF FormSpec

----------------------------------------------------------------------------
(* The notifications of the dropdown, the page and the badge.              *)

UnreadRows(table) == {i \in DOMAIN table : ~table[i]}

\* Calls the balance of the badge counts: rows marked whose answers have not
\* come, and clicks in the dropdown.
Marks(req) == req.kind = "read" /\ req.answered

FromHeader(req) == req.kind = "read" /\ req.header

MarkedIn(reqs) == {c \in Calls : Marks(reqs[c])}

HeaderIn(reqs) == {c \in Calls : FromHeader(reqs[c])}

AllAnsweredIn(reqs) == \E c \in Calls : reqs[c].kind = "all" /\ reqs[c].answered

CountAskedIn(reqs) == \E c \in Calls : reqs[c].kind = "count"

\* An answer that nothing has made out of date.
Current(req) == req.answered /\ ~req.stale

\* What a list shows as read was read, and so for what a call brings.
ListTrue(table, list) ==
  \A k \in DOMAIN list :
    list[k].id \in DOMAIN table /\ (list[k].read => table[list[k].id])

RequestTrue(table, req) ==
  /\ req.kind \in {"top", "page"} => ListTrue(table, req.list)
  /\ req.kind = "read" => req.id \in DOMAIN table /\ (req.answered => table[req.id])
  /\ req.kind = "all" /\ Current(req) => \A i \in DOMAIN table : table[i]
  /\ req.kind = "count" /\ Current(req) => req.count = Cardinality(UnreadRows(table))

ShownTrue ==
  /\ ListTrue(notes, dropdown) /\ ListTrue(notes, page)
  /\ \A c \in Calls : RequestTrue(notes, call[c])

\* The unread rows of which nothing is shown and nothing asked.
Absent(i, list) == \A k \in DOMAIN list : list[k].id # i

UnseenIn(table, top, inPage, reqs) ==
  {i \in UnreadRows(table) :
     /\ Absent(i, top) /\ Absent(i, inPage)
     /\ \A c \in Calls : reqs[c].kind = "read" => reqs[c].id # i}

Unseen == UnseenIn(notes, dropdown, page, call)

\* Each event on its way is the first about a row the tab does not show, or a
\* copy that was counted when it was sent.
EventsCovered == Cardinality(events) <= Cardinality(Unseen) + doubled

\* The badge and what is on its way to it, against what there is to read.
NotOver ==
  badge + Cardinality(events) <= Unread + Cardinality(MarkedIn(call)) + doubled

NotUnder ==
  Unread + Cardinality(MarkedIn(call)) + Cardinality(HeaderIn(call))
    <= badge + Cardinality(events) + missed + clicks

Balance == EventsCovered /\ NotOver /\ (CountAskedIn(call) \/ NotUnder)

\* The answer to the dropdown's query fits it.
TopFits(req) == req.kind = "top" => Len(req.list) <= Shown

\* While an answer to markAllAsRead is on its way, only the clicks are counted.
BadgeInv ==
  /\ BadgeTypeOK
  /\ \A c \in Calls : TopFits(call[c])
  /\ ~crossed =>
       /\ ShownTrue
       /\ Cardinality(HeaderIn(call)) <= clicks
       /\ AllAnsweredIn(call) \/ Balance

One(b) == IF b THEN 1 ELSE 0

\* Sets of calls that differ in one call at most.
LEMMA OneCallApart ==
  ASSUME NEW A \in SUBSET Calls, NEW B \in SUBSET Calls, NEW c \in Calls,
         A \ {c} = B \ {c}
  PROVE  /\ Cardinality(A) \in Nat /\ Cardinality(B) \in Nat
         /\ Cardinality(B) = Cardinality(A) - One(c \in A) + One(c \in B)
<1>1. IsFiniteSet(A) /\ IsFiniteSet(B)
  BY BadgeAssumption, FS_Subset
<1> DEFINE R == A \ {c}
<1>2. IsFiniteSet(R) /\ Cardinality(R) = Cardinality(A) - One(c \in A) /\ Cardinality(A) \in Nat
  BY <1>1, FS_RemoveElement, FS_CardinalityType DEF One
<1>3. Cardinality(R) = Cardinality(B) - One(c \in B) /\ Cardinality(B) \in Nat
  <2>1. /\ Cardinality(B \ {c}) = Cardinality(B) - One(c \in B)
        /\ Cardinality(B) \in Nat
    BY <1>1, FS_RemoveElement, FS_CardinalityType DEF One
  <2> QED BY <2>1
<1> QED BY <1>2, <1>3 DEF One

LEMMA CallSets ==
  ASSUME NEW reqs
  PROVE  /\ Cardinality(MarkedIn(reqs)) \in Nat /\ Cardinality(HeaderIn(reqs)) \in Nat
         /\ MarkedIn(reqs) \subseteq Calls /\ HeaderIn(reqs) \subseteq Calls
<1>1. MarkedIn(reqs) \subseteq Calls /\ HeaderIn(reqs) \subseteq Calls
  BY DEF MarkedIn, HeaderIn
<1> QED BY <1>1, BadgeAssumption, FS_Subset, FS_CardinalityType

\* The calls but one stay what they count for.
LEMMA OneCallChanged ==
  ASSUME NEW before, NEW after, NEW c \in Calls,
         \A d \in Calls \ {c} : /\ after[d].kind = before[d].kind
                                /\ Marks(after[d]) <=> Marks(before[d])
                                /\ FromHeader(after[d]) <=> FromHeader(before[d])
  PROVE  /\ Cardinality(MarkedIn(after)) =
              Cardinality(MarkedIn(before)) - One(Marks(before[c])) + One(Marks(after[c]))
         /\ Cardinality(HeaderIn(after)) =
              Cardinality(HeaderIn(before)) - One(FromHeader(before[c])) + One(FromHeader(after[c]))
<1>1. MarkedIn(after) \ {c} = MarkedIn(before) \ {c}
      /\ HeaderIn(after) \ {c} = HeaderIn(before) \ {c}
  BY DEF MarkedIn, HeaderIn
<1>2. \A reqs : /\ MarkedIn(reqs) \in SUBSET Calls /\ HeaderIn(reqs) \in SUBSET Calls
                /\ c \in MarkedIn(reqs) <=> Marks(reqs[c])
                /\ c \in HeaderIn(reqs) <=> FromHeader(reqs[c])
  BY DEF MarkedIn, HeaderIn
<1>3. /\ Cardinality(MarkedIn(after)) = Cardinality(MarkedIn(before))
           - One(c \in MarkedIn(before)) + One(c \in MarkedIn(after))
      /\ Cardinality(HeaderIn(after)) = Cardinality(HeaderIn(before))
           - One(c \in HeaderIn(before)) + One(c \in HeaderIn(after))
  BY <1>1, <1>2, OneCallApart
<1> QED BY <1>2, <1>3 DEF One

LEMMA FirstNumbers ==
  ASSUME NEW n \in Nat
  PROVE  IsFiniteSet(1..n) /\ Cardinality(1..n) = n
<1>1. /\ IsFiniteSet(1..n)
      /\ Cardinality(1..n) = IF 1 > n THEN 0 ELSE n - 1 + 1
  BY FS_Interval
<1> QED BY <1>1

\* A row is added, one is marked, all are.
LEMMA RowsUnread ==
  ASSUME NEW table \in Seq(BOOLEAN)
  PROVE  /\ Cardinality(UnreadRows(table)) \in 0..Len(table)
         /\ Cardinality(UnreadRows(Append(table, FALSE))) = Cardinality(UnreadRows(table)) + 1
         /\ \A id \in DOMAIN table : ~table[id] =>
              Cardinality(UnreadRows([i \in DOMAIN table |-> table[i] \/ i \in {id}]))
                = Cardinality(UnreadRows(table)) - 1
         /\ (\A i \in DOMAIN table : table[i]) => Cardinality(UnreadRows(table)) = 0
<1> DEFINE U == UnreadRows(table)
           n == Len(table)
<1>1. n \in Nat /\ DOMAIN table = 1..n /\ U \subseteq 1..n /\ IsFiniteSet(1..n) /\ Cardinality(1..n) = n
  BY FirstNumbers DEF UnreadRows
<1>2. IsFiniteSet(U) /\ Cardinality(U) \in Nat /\ Cardinality(U) <= n
  BY <1>1, FS_Subset, FS_CardinalityType
<1>3. Cardinality(UnreadRows(Append(table, FALSE))) = Cardinality(U) + 1
  <2>1. UnreadRows(Append(table, FALSE)) = U \cup {n + 1} /\ n + 1 \notin U
    BY <1>1 DEF UnreadRows
  <2> QED BY <1>2, <2>1, FS_AddElement
<1>4. ASSUME NEW id \in DOMAIN table, ~table[id]
      PROVE  Cardinality(UnreadRows([i \in DOMAIN table |-> table[i] \/ i \in {id}])) = Cardinality(U) - 1
  <2>1. UnreadRows([i \in DOMAIN table |-> table[i] \/ i \in {id}]) = U \ {id} /\ id \in U
    BY <1>4 DEF UnreadRows
  <2> QED BY <1>2, <2>1, FS_RemoveElement
<1>5. ASSUME \A i \in DOMAIN table : table[i] PROVE Cardinality(U) = 0
  <2>1. U = {}
    BY <1>5 DEF UnreadRows
  <2> QED BY <2>1, FS_EmptySet
<1>6. Cardinality(U) \in 0..n
  BY <1>1, <1>2
<1> QED BY <1>3, <1>4, <1>5, <1>6

LEMMA UnseenFewer ==
  ASSUME NEW table \in Seq(BOOLEAN), NEW top, NEW inPage, NEW reqs
  PROVE  LET unseen == UnseenIn(table, top, inPage, reqs)
         IN  /\ IsFiniteSet(unseen) /\ Cardinality(unseen) \in Nat
             /\ Cardinality(unseen) <= Cardinality(UnreadRows(table))
<1>1. IsFiniteSet(UnreadRows(table))
  <2>1. Len(table) \in Nat /\ UnreadRows(table) \subseteq 1..Len(table)
    BY DEF UnreadRows
  <2> QED BY <2>1, FirstNumbers, FS_Subset
<1>2. UnseenIn(table, top, inPage, reqs) \subseteq UnreadRows(table)
  BY DEF UnseenIn
<1> QED BY <1>1, <1>2, FS_Subset, FS_CardinalityType

LEMMA EventsFinite ==
  ASSUME BadgeTypeOK
  PROVE  /\ IsFiniteSet(events) /\ Cardinality(events) \in Nat
         /\ IsFiniteSet(connected) /\ Cardinality(connected) \in Nat
<1>1. /\ notes \in Seq(BOOLEAN) /\ Len(notes) \in Nat /\ DOMAIN notes = 1..Len(notes)
      /\ connected \subseteq Lines /\ events \subseteq [line : Lines, id : DOMAIN notes]
  BY DEF BadgeTypeOK
<1> DEFINE ids == DOMAIN notes
           P == Lines \X ids
           T == [line : Lines, id : ids]
           f == [x \in P |-> [line |-> x[1], id |-> x[2]]]
<1>2. IsFiniteSet(Lines) /\ IsFiniteSet(ids)
  BY <1>1, BadgeAssumption, FirstNumbers
<1> HIDE DEF ids
<1>3. IsFiniteSet(P)
  BY <1>2, FS_Product
<1>4. f \in Surjection(P, T)
  <2>1. f \in [P -> T]
    OBVIOUS
  <2>2. ASSUME NEW t \in T PROVE \E x \in P : f[x] = t
    <3>1. <<t.line, t.id>> \in P /\ t = [line |-> t.line, id |-> t.id]
      OBVIOUS
    <3> QED BY <3>1
  <2> QED BY <2>1, <2>2 DEF Surjection
<1>5. IsFiniteSet(T)
  BY <1>3, <1>4, FS_Surjection
<1> QED BY <1>1, <1>2, <1>5, FS_Subset, FS_CardinalityType DEF ids

\* A copy for every socket that is up.
LEMMA CopiesSent ==
  ASSUME BadgeTypeOK, NEW n \in Nat, n \notin DOMAIN notes
  PROVE  LET copies == {[line |-> s, id |-> n] : s \in connected}
         IN  /\ copies \subseteq [line : Lines, id : {n}]
             /\ Cardinality(events \cup copies) = Cardinality(events) + Cardinality(connected)
<1> DEFINE copies == {[line |-> s, id |-> n] : s \in connected}
           f == [s \in connected |-> [line |-> s, id |-> n]]
<1>1. connected \subseteq Lines /\ events \subseteq [line : Lines, id : DOMAIN notes]
  BY DEF BadgeTypeOK
<1>2. f \in Bijection(connected, copies)
  <2>1. f \in [connected -> copies]
    OBVIOUS
  <2>2. ASSUME NEW s \in connected, NEW t \in connected, f[s] = f[t] PROVE s = t
    <3>1. f[s].line = s /\ f[t].line = t
      OBVIOUS
    <3> QED BY <2>2, <3>1
  <2>3. \A e \in copies : \E s \in connected : f[s] = e
    OBVIOUS
  <2> HIDE DEF f, copies
  <2>4. f \in Injection(connected, copies)
    BY <2>1, <2>2 DEF Injection, IsInjective
  <2>5. f \in Surjection(connected, copies)
    BY <2>1, <2>3 DEF Surjection
  <2> QED BY <2>4, <2>5 DEF Bijection
<1>3. copies \subseteq [line : Lines, id : {n}] /\ events \cap copies = {}
  <2>1. copies \subseteq [line : Lines, id : {n}]
    BY <1>1
  <2>2. \A e \in copies : e.id = n
    OBVIOUS
  <2>3. \A e \in events : e.id # n
    BY <1>1
  <2> QED BY <2>1, <2>2, <2>3
<1> HIDE DEF copies, f
<1>4. IsFiniteSet(copies) /\ Cardinality(copies) = Cardinality(connected)
  <2>1. ExistsBijection(connected, copies)
    BY <1>2 DEF ExistsBijection
  <2> QED BY <2>1, EventsFinite, FS_Bijection
<1>5. Cardinality(events \cup copies) = Cardinality(events) + Cardinality(copies) - Cardinality({})
  BY <1>3, <1>4, EventsFinite, FS_Union
<1>6. Cardinality({}) = 0 /\ Cardinality(events) \in Nat /\ Cardinality(connected) \in Nat
  BY EventsFinite, FS_EmptySet
<1>7. Cardinality(events \cup copies) = Cardinality(events) + Cardinality(connected)
  BY <1>4, <1>5, <1>6
<1> QED BY <1>3, <1>7 DEF copies

LEMMA CallShape ==
  ASSUME BadgeTypeOK, NEW c \in Calls
  PROVE  \/ call[c] = NoCall /\ call[c].kind = "none"
         \/ /\ call[c] \in Call /\ call[c] # NoCall /\ call[c].kind \in Kinds
            /\ call[c].id \in 0..MaxNotes /\ call[c].header \in BOOLEAN
            /\ call[c].answered \in BOOLEAN /\ call[c].stale \in BOOLEAN
            /\ call[c].count \in 0..MaxNotes /\ call[c].list \in Seq(Entry)
<1>1. call[c] \in Call \cup {NoCall}
  BY DEF BadgeTypeOK
<1>2. CASE call[c] = NoCall
  BY <1>2 DEF NoCall
<1>3. CASE call[c] \in Call
  <2>1. call[c].kind \in Kinds /\ "none" \notin Kinds
    BY <1>3 DEF Call, Kinds
  <2> QED BY <1>3, <2>1 DEF Call, NoCall
<1> QED BY <1>1, <1>2, <1>3

LEMMA RequestShape ==
  ASSUME NEW kind \in Kinds, NEW id \in 0..MaxNotes, NEW fromTop \in BOOLEAN
  PROVE  /\ Request(kind, id, fromTop) \in Call
         /\ Request(kind, id, fromTop).kind = kind /\ Request(kind, id, fromTop).id = id
         /\ Request(kind, id, fromTop).header = fromTop
         /\ Request(kind, id, fromTop).answered = FALSE
         /\ Request(kind, id, fromTop).list = <<>>
<1>1. 0 \in 0..MaxNotes
  BY BadgeAssumption
<1> QED BY <1>1 DEF Request, Call

\* A call after the table has changed.
Aged(new, old) ==
  /\ old = NoCall => new = NoCall
  /\ old # NoCall =>
       /\ new \in Call /\ new.kind = old.kind /\ new.id = old.id
       /\ new.header = old.header /\ new.answered = old.answered
       /\ new.count = old.count /\ new.list = old.list
       /\ new.answered => new.stale

LEMMA OlderCalls ==
  ASSUME BadgeTypeOK
  PROVE  /\ OlderAnswer(call) \in [Calls -> Call \cup {NoCall}]
         /\ \A c \in Calls : Aged(OlderAnswer(call)[c], call[c])
<1>1. ASSUME NEW c \in Calls
      PROVE  Aged(OlderAnswer(call)[c], call[c]) /\ OlderAnswer(call)[c] \in Call \cup {NoCall}
  <2>1. CASE call[c] = NoCall
    BY <2>1 DEF OlderAnswer, Aged
  <2>2. CASE call[c] # NoCall
    <3>1. PICK r : r = call[c]
      OBVIOUS
    <3>2. r \in Call
      BY <2>2, <3>1, CallShape
    <3>3. OlderAnswer(call)[c] = [r EXCEPT !.stale = r.stale \/ r.answered]
      BY <2>2, <3>1 DEF OlderAnswer
    <3> DEFINE n == [r EXCEPT !.stale = r.stale \/ r.answered]
    <3>4. /\ n \in Call /\ n.kind = r.kind /\ n.id = r.id /\ n.header = r.header
          /\ n.answered = r.answered /\ n.count = r.count /\ n.list = r.list
          /\ n.answered => n.stale
      BY <3>2 DEF Call
    <3> HIDE DEF n
    <3> QED BY <2>2, <3>1, <3>3, <3>4 DEF Aged, n
  <2> QED BY <2>1, <2>2
<1>2. OlderAnswer(call) = [c \in Calls |-> OlderAnswer(call)[c]]
  BY DEF OlderAnswer
<1> QED BY <1>1, <1>2

\* A table that has grown, or of which more rows are read.
Grown(new, old) ==
  DOMAIN old \subseteq DOMAIN new /\ \A i \in DOMAIN old : old[i] => new[i]

LEMMA ListStaysTrue ==
  ASSUME NEW old, NEW new, Grown(new, old), NEW list, ListTrue(old, list)
  PROVE  ListTrue(new, list)
BY DEF Grown, ListTrue

LEMMA AgedTrue ==
  ASSUME NEW old, NEW new, Grown(new, old), NEW before, NEW after, Aged(after, before),
         before # NoCall => before.kind # "none",
         RequestTrue(old, before)
  PROVE  RequestTrue(new, after)
<1>1. CASE before = NoCall
  <2>1. after.kind = "none"
    BY <1>1 DEF Aged, NoCall
  <2> QED BY <2>1 DEF RequestTrue
<1>2. CASE before # NoCall
  <2>1. /\ after.kind = before.kind /\ after.id = before.id /\ after.list = before.list
        /\ after.answered = before.answered /\ (after.answered => after.stale)
    BY <1>2 DEF Aged
  <2>2. before.kind \in {"top", "page"} => ListTrue(new, before.list)
    BY ListStaysTrue DEF RequestTrue
  <2>3. before.kind = "read" => before.id \in DOMAIN new /\ (before.answered => new[before.id])
    BY DEF RequestTrue, Grown
  <2>4. ~Current(after)
    BY <2>1 DEF Current
  <2> QED BY <2>1, <2>2, <2>3, <2>4 DEF RequestTrue
<1> QED BY <1>1, <1>2

\* Aging leaves what the calls count for.
LEMMA AgedCounts ==
  ASSUME NEW after, NEW before, Aged(after, before)
  PROVE  /\ after.kind = before.kind
         /\ Marks(after) <=> Marks(before)
         /\ FromHeader(after) <=> FromHeader(before)
         /\ before.kind # "none" => after.answered = before.answered
         /\ before.kind # "none" => after.id = before.id
         /\ TopFits(before) => TopFits(after)
<1>1. CASE before = NoCall
  BY <1>1 DEF Aged
<1>2. CASE before # NoCall
  BY <1>2 DEF Aged, Marks, FromHeader, TopFits
<1> QED BY <1>1, <1>2

LEMMA AllAged ==
  ASSUME NEW after, NEW before, \A c \in Calls : Aged(after[c], before[c])
  PROVE  /\ MarkedIn(after) = MarkedIn(before) /\ HeaderIn(after) = HeaderIn(before)
         /\ AllAnsweredIn(after) <=> AllAnsweredIn(before)
         /\ CountAskedIn(after) <=> CountAskedIn(before)
<1>1. \A c \in Calls : /\ after[c].kind = before[c].kind
                       /\ Marks(after[c]) <=> Marks(before[c])
                       /\ FromHeader(after[c]) <=> FromHeader(before[c])
                       /\ before[c].kind # "none" => after[c].answered = before[c].answered
  BY AgedCounts
<1> QED BY <1>1 DEF MarkedIn, HeaderIn, AllAnsweredIn, CountAskedIn

LEMMA BadgeNumbers ==
  ASSUME BadgeTypeOK
  PROVE  /\ notes \in Seq(BOOLEAN) /\ Len(notes) \in 0..MaxNotes /\ DOMAIN notes = 1..Len(notes)
         /\ Unread = Cardinality(UnreadRows(notes)) /\ Unread \in 0..Len(notes)
         /\ events \subseteq [line : Lines, id : DOMAIN notes] /\ Cardinality(events) \in Nat
         /\ badge \in Nat /\ asked \in Nat /\ clicks \in Nat /\ missed \in Nat /\ doubled \in Nat
         /\ Cardinality(MarkedIn(call)) \in Nat /\ Cardinality(HeaderIn(call)) \in Nat
<1>1. notes \in Seq(BOOLEAN) /\ Len(notes) \in Nat /\ Len(notes) <= MaxNotes /\ MaxNotes \in Nat
      /\ events \subseteq [line : Lines, id : DOMAIN notes]
  BY BadgeAssumption DEF BadgeTypeOK
<1>2. Unread = Cardinality(UnreadRows(notes))
  BY DEF Unread, UnreadRows
<1>3. badge \in Nat /\ asked \in Nat /\ clicks \in Nat /\ missed \in Nat /\ doubled \in Nat
  BY DEF BadgeTypeOK
<1>4. Cardinality(UnreadRows(notes)) \in 0..Len(notes)
  BY <1>1, RowsUnread
<1>5. DOMAIN notes = 1..Len(notes) /\ Len(notes) \in 0..MaxNotes
  BY <1>1
<1> QED BY <1>1, <1>2, <1>3, <1>4, <1>5, CallSets, EventsFinite

\* Where no more is shown and asked than before, no less is unseen.
LEMMA MoreUnseen ==
  ASSUME NEW table \in Seq(BOOLEAN), NEW top, NEW inPage, NEW reqs, NEW top2, NEW inPage2, NEW reqs2,
         \A i : Absent(i, top) => Absent(i, top2), \A i : Absent(i, inPage) => Absent(i, inPage2),
         \A c \in Calls : reqs2[c].kind = "read" =>
                            reqs[c].kind = "read" /\ reqs[c].id = reqs2[c].id
  PROVE  /\ Cardinality(UnseenIn(table, top, inPage, reqs)) \in Nat
         /\ Cardinality(UnseenIn(table, top2, inPage2, reqs2)) \in Nat
         /\ Cardinality(UnseenIn(table, top, inPage, reqs))
              <= Cardinality(UnseenIn(table, top2, inPage2, reqs2))
<1> DEFINE A == UnseenIn(table, top, inPage, reqs)
           B == UnseenIn(table, top2, inPage2, reqs2)
<1>1. A \subseteq B
  BY DEF UnseenIn
<1>2. IsFiniteSet(B) /\ Cardinality(A) \in Nat /\ Cardinality(B) \in Nat
  BY UnseenFewer
<1> HIDE DEF A, B
<1>3. Cardinality(A) <= Cardinality(B)
  BY <1>1, <1>2, FS_Subset
<1> QED BY <1>2, <1>3 DEF A, B

LEMMA CreateKept ==
  ASSUME BadgeInv, ~crossed, Create
  PROVE  BadgeInv'
<1> DEFINE n == Len(notes) + 1
<1>1. /\ notes' = Append(notes, FALSE) /\ Len(notes) < MaxNotes
      /\ call' = OlderAnswer(call)
      /\ UNCHANGED <<connected, dropdown, badge, page, pageOpen, clicks, crossed, asked>>
      /\ \/ /\ connected # {} /\ missed' = missed
            /\ events' = events \cup {[line |-> s, id |-> Len(notes')] : s \in connected}
            /\ doubled' = doubled + Cardinality(connected) - 1
         \/ missed' = missed + 1 /\ events' = events /\ doubled' = doubled
  BY DEF Create
<1>2. BadgeTypeOK /\ ShownTrue /\ Cardinality(HeaderIn(call)) <= clicks
      /\ (AllAnsweredIn(call) \/ Balance)
  BY DEF BadgeInv
<1>3. /\ notes' \in Seq(BOOLEAN) /\ Len(notes') = n /\ n \in 1..MaxNotes
      /\ DOMAIN notes' = 1..n /\ DOMAIN notes \subseteq DOMAIN notes' /\ n \notin DOMAIN notes
      /\ notes'[n] = FALSE /\ \A i \in DOMAIN notes : notes'[i] = notes[i]
  <2>1. notes \in Seq(BOOLEAN) /\ Len(notes) \in Nat /\ DOMAIN notes = 1..Len(notes) /\ MaxNotes \in Nat
    BY <1>2, BadgeNumbers, BadgeAssumption
  <2>2. /\ Append(notes, FALSE) \in Seq(BOOLEAN) /\ Len(Append(notes, FALSE)) = Len(notes) + 1
        /\ \A i \in 1..Len(notes) : Append(notes, FALSE)[i] = notes[i]
        /\ Append(notes, FALSE)[Len(notes) + 1] = FALSE
    BY <2>1, AppendProperties
  <2>3. DOMAIN Append(notes, FALSE) = 1..(Len(notes) + 1)
    BY <2>2
  <2> QED BY <1>1, <2>1, <2>2, <2>3
<1>4. Grown(notes', notes)
  BY <1>3 DEF Grown
<1>5. \A c \in Calls : Aged(call'[c], call[c])
  BY <1>1, <1>2, OlderCalls
<1>6. /\ events' \subseteq [line : Lines, id : DOMAIN notes'] /\ missed' \in Nat /\ doubled' \in Nat
      /\ \/ \E more \in Nat \ {0} :
              /\ Cardinality(events') = Cardinality(events) + more
              /\ doubled' = doubled + more - 1 /\ missed' = missed
         \/ events' = events /\ missed' = missed + 1 /\ doubled' = doubled
  <2>1. /\ events \subseteq [line : Lines, id : DOMAIN notes] /\ missed \in Nat /\ doubled \in Nat
        /\ IsFiniteSet(connected) /\ Cardinality(connected) \in Nat
    BY <1>2, BadgeNumbers, EventsFinite
  <2>2. CASE events' = events /\ missed' = missed + 1 /\ doubled' = doubled
    BY <1>3, <2>1, <2>2
  <2>3. CASE /\ connected # {} /\ missed' = missed
             /\ events' = events \cup {[line |-> s, id |-> n] : s \in connected}
             /\ doubled' = doubled + Cardinality(connected) - 1
    <3> DEFINE copies == {[line |-> s, id |-> n] : s \in connected}
    <3>1. /\ copies \subseteq [line : Lines, id : {n}]
          /\ Cardinality(events \cup copies) = Cardinality(events) + Cardinality(connected)
      BY <1>2, <1>3, CopiesSent
    <3>2. events' = events \cup copies
      BY <2>3
    <3> HIDE DEF copies
    <3>3. events' \subseteq [line : Lines, id : DOMAIN notes']
      BY <1>3, <2>1, <3>1, <3>2
    <3>4. Cardinality(connected) # 0
      BY <2>1, <2>3, FS_EmptySet
    <3>5. PICK more \in Nat \ {0} : more = Cardinality(connected)
      BY <2>1, <3>4
    <3>6. Cardinality(events') = Cardinality(events) + more /\ doubled' = doubled + more - 1
      BY <2>3, <3>1, <3>2, <3>5
    <3>7. doubled' \in Nat /\ missed' \in Nat
      BY <2>1, <2>3, <3>5, <3>6
    <3> QED BY <2>3, <3>3, <3>6, <3>7
  <2> QED BY <1>1, <1>3, <2>2, <2>3
<1>7. BadgeTypeOK'
  <2>1. call' \in [Calls -> Call \cup {NoCall}]
    BY <1>1, <1>2, OlderCalls
  <2> QED BY <1>1, <1>2, <1>3, <1>6, <2>1 DEF BadgeTypeOK
<1>8. ShownTrue'
  <2>1. ListTrue(notes', dropdown) /\ ListTrue(notes', page)
    BY <1>2, <1>4, ListStaysTrue DEF ShownTrue
  <2>2. ASSUME NEW c \in Calls PROVE RequestTrue(notes', call'[c])
    <3>1. RequestTrue(notes, call[c]) /\ (call[c] # NoCall => call[c].kind # "none")
      BY <1>2, CallShape DEF ShownTrue, Kinds
    <3> QED BY <1>4, <1>5, <3>1, AgedTrue
  <2> QED BY <1>1, <2>1, <2>2 DEF ShownTrue
<1>9. /\ MarkedIn(call') = MarkedIn(call) /\ HeaderIn(call') = HeaderIn(call)
      /\ AllAnsweredIn(call') <=> AllAnsweredIn(call)
      /\ CountAskedIn(call') <=> CountAskedIn(call)
  BY <1>5, AllAged
<1>10. ASSUME Balance PROVE Balance'
  <2>1. Unread' = Unread + 1
    <3>1. Unread' = Cardinality(UnreadRows(notes'))
      BY DEF Unread, UnreadRows
    <3> QED BY <1>1, <1>2, <3>1, BadgeNumbers, RowsUnread
  <2>2. /\ badge' = badge /\ clicks' = clicks /\ badge \in Nat /\ clicks \in Nat /\ missed \in Nat
        /\ doubled \in Nat /\ Cardinality(events) \in Nat /\ Unread \in Nat
        /\ Cardinality(MarkedIn(call)) \in Nat /\ Cardinality(HeaderIn(call)) \in Nat
    BY <1>1, <1>2, BadgeNumbers
  <2>3. /\ Cardinality(Unseen) \in Nat /\ Cardinality(Unseen') \in Nat
        /\ Cardinality(Unseen') >= Cardinality(Unseen) + 1
    <3>1. /\ IsFiniteSet(Unseen) /\ IsFiniteSet(Unseen')
          /\ Cardinality(Unseen) \in Nat /\ Cardinality(Unseen') \in Nat
      BY <1>2, <1>3, BadgeNumbers, UnseenFewer DEF Unseen
    <3>2. n \in Unseen'
      <4>1. Absent(n, dropdown) /\ Absent(n, page)
        BY <1>2, <1>3 DEF ShownTrue, ListTrue, Absent
      <4>2. ASSUME NEW c \in Calls, call'[c].kind = "read" PROVE call'[c].id # n
        <5>1. call[c].kind = "read" /\ call'[c].id = call[c].id
          BY <1>5, <4>2, AgedCounts
        <5>2. call[c].id \in DOMAIN notes
          BY <1>2, <5>1 DEF ShownTrue, RequestTrue
        <5> QED BY <1>3, <5>1, <5>2
      <4> QED BY <1>1, <1>3, <4>1, <4>2 DEF Unseen, UnseenIn, UnreadRows
    <3>3. Unseen \subseteq Unseen' /\ n \notin Unseen
      <4>1. ASSUME NEW c \in Calls
            PROVE  /\ call'[c].kind = call[c].kind
                   /\ call[c].kind = "read" => call'[c].id = call[c].id
        BY <1>5, AgedCounts
      <4> QED BY <1>1, <1>3, <4>1 DEF Unseen, UnseenIn, UnreadRows
    <3>4. /\ Cardinality(Unseen \cup {n}) = Cardinality(Unseen) + 1
          /\ Cardinality(Unseen \cup {n}) <= Cardinality(Unseen')
      <4>1. Unseen \cup {n} \subseteq Unseen'
        BY <3>2, <3>3
      <4> QED BY <3>1, <3>3, <4>1, FS_AddElement, FS_Subset
    <3> QED BY <3>1, <3>4
  <2>4. CASE events' = events /\ missed' = missed + 1 /\ doubled' = doubled
    <3>1. NotOver' /\ (NotUnder => NotUnder')
      BY <1>9, <1>10, <2>1, <2>2, <2>4 DEF Balance, NotOver, NotUnder
    <3>2. EventsCovered'
      BY <1>10, <2>2, <2>3, <2>4 DEF Balance, EventsCovered
    <3> QED BY <1>9, <1>10, <3>1, <3>2 DEF Balance
  <2>5. CASE \E more \in Nat \ {0} :
               /\ Cardinality(events') = Cardinality(events) + more
               /\ doubled' = doubled + more - 1 /\ missed' = missed
    <3>1. PICK more \in Nat \ {0} :
               /\ Cardinality(events') = Cardinality(events) + more
               /\ doubled' = doubled + more - 1 /\ missed' = missed
      BY <2>5
    <3>2. NotOver' /\ (NotUnder => NotUnder')
      BY <1>9, <1>10, <2>1, <2>2, <3>1 DEF Balance, NotOver, NotUnder
    <3>3. EventsCovered'
      BY <1>10, <2>2, <2>3, <3>1 DEF Balance, EventsCovered
    <3> QED BY <1>9, <1>10, <3>2, <3>3 DEF Balance
  <2> QED BY <1>6, <2>4, <2>5
<1>11. \A c \in Calls : TopFits(call'[c])
  BY <1>5, AgedCounts DEF BadgeInv
<1> QED BY <1>1, <1>2, <1>7, <1>8, <1>9, <1>10, <1>11 DEF BadgeInv

\* A socket goes and comes back, and the page is closed: fewer events, and
\* less is shown.
LEMMA SocketAndPageKept ==
  ASSUME BadgeInv, ~crossed,
         ClosePage \/ \E s \in Lines : LoseSocket(s) \/ RegainSocket(s)
  PROVE  BadgeInv'
<1>1. BadgeTypeOK /\ ShownTrue /\ Cardinality(HeaderIn(call)) <= clicks
      /\ (AllAnsweredIn(call) \/ Balance) /\ (\A c \in Calls : TopFits(call[c]))
  BY DEF BadgeInv
<1>2. /\ missed \in Nat /\ doubled \in Nat /\ Cardinality(events) \in Nat /\ Unread \in Nat
      /\ badge \in Nat /\ clicks \in Nat /\ Cardinality(MarkedIn(call)) \in Nat
      /\ Cardinality(HeaderIn(call)) \in Nat
  BY <1>1, BadgeNumbers
<1>3. /\ UNCHANGED <<notes, call, dropdown, badge, clicks, doubled, crossed, asked>>
      /\ connected' \subseteq Lines /\ events' \subseteq events
      /\ \E fewer \in 0..Cardinality(events) :
           missed' = missed + fewer /\ Cardinality(events') = Cardinality(events) - fewer
      /\ \/ page' = page /\ pageOpen' = pageOpen
         \/ page' = <<>> /\ pageOpen' = FALSE
  <2>1. connected \subseteq Lines
    BY <1>1 DEF BadgeTypeOK
  <2>2. CASE events' = events /\ missed' = missed
    <3>1. 0 \in 0..Cardinality(events) /\ missed' = missed + 0
          /\ Cardinality(events') = Cardinality(events) - 0
      BY <1>2, <2>2
    <3>2. CASE ClosePage
      BY <2>1, <3>1, <3>2 DEF ClosePage
    <3>3. ASSUME NEW s \in Lines, RegainSocket(s)
          PROVE  /\ UNCHANGED <<notes, call, dropdown, badge, clicks, doubled, crossed, asked>>
                 /\ connected' \subseteq Lines /\ page' = page /\ pageOpen' = pageOpen
      BY <2>1, <3>3 DEF RegainSocket
    <3>4. ASSUME NEW s \in Lines, LoseSocket(s)
          PROVE  /\ UNCHANGED <<notes, call, dropdown, badge, clicks, doubled, crossed, asked>>
                 /\ connected' \subseteq Lines /\ page' = page /\ pageOpen' = pageOpen
      BY <2>1, <3>4 DEF LoseSocket
    <3> QED BY <2>2, <3>1, <3>2, <3>3, <3>4
  <2>3. CASE ClosePage
    BY <2>2, <2>3 DEF ClosePage
  <2>4. ASSUME NEW s \in Lines, RegainSocket(s) PROVE events' = events /\ missed' = missed
    BY <2>4 DEF RegainSocket
  <2>5. ASSUME NEW s \in Lines, LoseSocket(s)
        PROVE  /\ UNCHANGED <<notes, call, dropdown, badge, page, pageOpen, clicks, doubled,
                              crossed, asked>>
               /\ connected' \subseteq Lines /\ events' \subseteq events
               /\ \E fewer \in 0..Cardinality(events) :
                    missed' = missed + fewer /\ Cardinality(events') = Cardinality(events) - fewer
    <3>1. /\ events' = events \ CopiesOf(s) /\ missed' = missed + Cardinality(CopiesOf(s))
          /\ connected' \subseteq Lines
          /\ UNCHANGED <<notes, call, dropdown, badge, page, pageOpen, clicks, doubled,
                         crossed, asked>>
      BY <2>1, <2>5 DEF LoseSocket
    <3>2. CopiesOf(s) \subseteq events /\ events \cap CopiesOf(s) = CopiesOf(s)
      BY DEF CopiesOf
    <3>3. IsFiniteSet(events)
      BY <1>1, EventsFinite
    <3>4. /\ Cardinality(CopiesOf(s)) \in Nat /\ Cardinality(CopiesOf(s)) <= Cardinality(events)
      BY <3>2, <3>3, FS_Subset, FS_CardinalityType
    <3>5. Cardinality(events') = Cardinality(events) - Cardinality(CopiesOf(s))
      <4>1. PICK copies : copies = CopiesOf(s)
        OBVIOUS
      <4>2. Cardinality(events \ copies) = Cardinality(events) - Cardinality(events \cap copies)
        BY <3>3, FS_Difference
      <4> QED BY <3>1, <3>2, <4>1, <4>2
    <3>6. Cardinality(CopiesOf(s)) \in 0..Cardinality(events)
      BY <1>2, <3>4
    <3>7. PICK k \in 0..Cardinality(events) : k = Cardinality(CopiesOf(s))
      BY <3>6
    <3>8. missed' = missed + k /\ Cardinality(events') = Cardinality(events) - k
      BY <3>1, <3>5, <3>7
    <3>9. events' \subseteq events
      BY <3>1
    <3> QED BY <3>1, <3>8, <3>9
  <2> QED BY <2>2, <2>3, <2>4, <2>5
<1>4. PICK fewer \in 0..Cardinality(events) :
        missed' = missed + fewer /\ Cardinality(events') = Cardinality(events) - fewer
  BY <1>3
<1>5. BadgeTypeOK'
  <2>1. missed' \in Nat
    BY <1>2, <1>4
  <2>2. page' \in Seq(Entry) /\ pageOpen' \in BOOLEAN
    <3>1. page \in Seq(Entry) /\ <<>> \in Seq(Entry) /\ pageOpen \in BOOLEAN
      BY <1>1 DEF BadgeTypeOK
    <3> QED BY <1>3, <3>1
  <2> QED BY <1>1, <1>3, <2>1, <2>2 DEF BadgeTypeOK
<1>6. DOMAIN page' = {} \/ page' = page
  BY <1>3
<1>7. ShownTrue'
  BY <1>1, <1>3, <1>6 DEF ShownTrue, ListTrue
<1>8. ASSUME Balance PROVE Balance'
  <2>1. Cardinality(Unseen) <= Cardinality(Unseen')
        /\ Cardinality(Unseen) \in Nat /\ Cardinality(Unseen') \in Nat
    <3>1. notes \in Seq(BOOLEAN) /\ \A i : Absent(i, page) => Absent(i, page')
      BY <1>1, <1>6, BadgeNumbers DEF Absent
    <3> QED BY <1>3, <3>1, MoreUnseen DEF Unseen
  <2>2. EventsCovered'
    BY <1>2, <1>3, <1>4, <1>8, <2>1 DEF Balance, EventsCovered
  <2>3. Unread' = Unread
    BY <1>3 DEF Unread
  <2>4. NotOver' /\ (NotUnder => NotUnder')
    <3>1. MarkedIn(call') = MarkedIn(call) /\ HeaderIn(call') = HeaderIn(call)
      BY <1>3
    <3>2. NotOver'
      BY <1>2, <1>3, <1>4, <1>8, <2>3, <3>1 DEF Balance, NotOver
    <3>3. NotUnder => NotUnder'
      BY <1>2, <1>3, <1>4, <2>3, <3>1 DEF NotUnder
    <3> QED BY <3>2, <3>3
  <2> QED BY <1>3, <1>8, <2>2, <2>4 DEF Balance
<1> QED BY <1>1, <1>3, <1>5, <1>7, <1>8 DEF BadgeInv

LEMMA NewestTrue ==
  ASSUME BadgeTypeOK, NEW limit \in Nat
  PROVE  /\ Newest(limit) \in Seq(Entry) /\ Len(Newest(limit)) <= limit
         /\ ListTrue(notes, Newest(limit))
<1> DEFINE m == Len(notes)
           n == IF m < limit THEN m ELSE limit
           list == [k \in 1..n |-> [id |-> m + 1 - k, read |-> notes[m + 1 - k]]]
<1>1. Newest(limit) = list
  BY DEF Newest
<1>2. /\ m \in 0..MaxNotes /\ n \in Nat /\ n <= limit /\ n <= m /\ MaxNotes \in Nat
      /\ DOMAIN notes = 1..m /\ \A i \in 1..m : notes[i] \in BOOLEAN
  BY BadgeNumbers, BadgeAssumption
<1>3. \A k \in 1..n : m + 1 - k \in 1..m /\ m + 1 - k \in 1..MaxNotes
  BY <1>2
<1>4. \A k \in 1..n : /\ list[k] \in Entry /\ list[k].id = m + 1 - k
                      /\ list[k].read = notes[m + 1 - k]
  BY <1>2, <1>3 DEF Entry
<1>5. list \in Seq(Entry) /\ Len(list) = n /\ DOMAIN list = 1..n
  <2>1. DOMAIN list = 1..n
    OBVIOUS
  <2> HIDE DEF list, n
  <2>2. list = [k \in 1..n |-> list[k]]
    BY <1>1, <2>1 DEF list
  <2> QED BY <1>2, <1>4, <2>1, <2>2
<1>6. ListTrue(notes, list)
  BY <1>2, <1>3, <1>4, <1>5 DEF ListTrue
<1> QED BY <1>1, <1>2, <1>5, <1>6

\* What an answer does to a query.
WithFound(reqs, c, found, list) ==
  [reqs EXCEPT ![c].answered = TRUE, ![c].count = found, ![c].list = list]

Found(after, reqs, c, found, list) ==
  /\ after \in [Calls -> Call \cup {NoCall}]
  /\ \A d \in Calls \ {c} : after[d] = reqs[d]
  /\ after[c] \in Call /\ after[c].kind = reqs[c].kind /\ after[c].id = reqs[c].id
  /\ after[c].header = reqs[c].header /\ after[c].stale = reqs[c].stale
  /\ after[c].answered = TRUE /\ after[c].count = found /\ after[c].list = list

LEMMA QueryAnswered ==
  ASSUME NEW reqs \in [Calls -> Call \cup {NoCall}], NEW c \in Calls, reqs[c] \in Call,
         NEW found \in 0..MaxNotes, NEW list \in Seq(Entry)
  PROVE  Found(WithFound(reqs, c, found, list), reqs, c, found, list)
<1>1. PICK r : r = reqs[c]
  OBVIOUS
<1> DEFINE n == [r EXCEPT !.answered = TRUE, !.count = found, !.list = list]
           after == WithFound(reqs, c, found, list)
<1>2. n \in Call /\ n.kind = r.kind /\ n.id = r.id /\ n.header = r.header
      /\ n.stale = r.stale /\ n.answered = TRUE /\ n.count = found /\ n.list = list
  BY <1>1 DEF Call
<1>3. after = [reqs EXCEPT ![c] = n]
  BY <1>1 DEF WithFound
<1> HIDE DEF n, after
<1>4. after[c] = n /\ (\A d \in Calls \ {c} : after[d] = reqs[d])
      /\ after \in [Calls -> Call \cup {NoCall}]
  BY <1>2, <1>3
<1> QED BY <1>1, <1>2, <1>4 DEF Found, after

LEMMA AnswerQueryKept ==
  ASSUME BadgeInv, ~crossed, NEW c \in Calls, AnswerQuery(c)
  PROVE  BadgeInv'
<1>1. BadgeTypeOK /\ ShownTrue /\ Cardinality(HeaderIn(call)) <= clicks
      /\ (AllAnsweredIn(call) \/ Balance) /\ (\A d \in Calls : TopFits(call[d]))
  BY DEF BadgeInv
<1> DEFINE found == IF call[c].kind = "count" THEN Unread ELSE 0
           list == CASE call[c].kind = "top"  -> Newest(Shown)
                     [] call[c].kind = "page" -> Newest(MaxNotes)
                     [] OTHER                 -> <<>>
<1>2. /\ call[c].kind \in {"top", "count", "page"}
      /\ call' = WithFound(call, c, found, list)
      /\ UNCHANGED <<notes, connected, events, dropdown, badge, page, pageOpen,
                     clicks, missed, doubled, crossed, asked>>
  BY DEF AnswerQuery, WithFound
<1>3. found \in 0..MaxNotes
  <2>1. MaxNotes \in Nat /\ Unread \in 0..MaxNotes
    BY <1>1, BadgeNumbers, BadgeAssumption
  <2> QED BY <2>1
<1>4. list \in Seq(Entry) /\ ListTrue(notes, list)
      /\ (call[c].kind = "top" => Len(list) <= Shown)
  <2>1. CASE call[c].kind = "top"
    BY <1>1, <2>1, NewestTrue, BadgeAssumption
  <2>2. CASE call[c].kind = "page"
    BY <1>1, <2>2, NewestTrue, BadgeAssumption
  <2>3. CASE call[c].kind = "count"
    <3>1. list = <<>>
      BY <2>3
    <3>2. <<>> \in Seq(Entry) /\ ListTrue(notes, <<>>)
      BY DEF ListTrue
    <3> QED BY <2>3, <3>1, <3>2
  <2> QED BY <1>2, <2>1, <2>2, <2>3
<1>5. call[c].kind = "count" => found = Cardinality(UnreadRows(notes))
  BY <1>1, BadgeNumbers
<1> HIDE DEF found, list
<1>6. Found(call', call, c, found, list)
  <2>1. call[c] \in Call /\ call \in [Calls -> Call \cup {NoCall}]
    BY <1>1, <1>2, CallShape DEF BadgeTypeOK
  <2> QED BY <1>2, <1>3, <1>4, <2>1, QueryAnswered
<1>7. BadgeTypeOK' /\ \A d \in Calls : TopFits(call'[d])
  BY <1>1, <1>2, <1>4, <1>6 DEF BadgeTypeOK, Found, TopFits
<1>8. ShownTrue'
  <2>1. RequestTrue(notes, call'[c])
    BY <1>2, <1>4, <1>5, <1>6 DEF Found, RequestTrue
  <2>2. \A d \in Calls \ {c} : RequestTrue(notes, call'[d])
    BY <1>1, <1>6 DEF Found, ShownTrue
  <2> QED BY <1>1, <1>2, <2>1, <2>2 DEF ShownTrue
<1>9. \A d \in Calls : /\ call'[d].kind = call[d].kind
                       /\ Marks(call'[d]) <=> Marks(call[d])
                       /\ FromHeader(call'[d]) <=> FromHeader(call[d])
                       /\ call'[d].kind = "read" => call'[d].id = call[d].id
                       /\ call[d].kind = "all" => call'[d].answered = call[d].answered
  BY <1>2, <1>6 DEF Found, Marks, FromHeader
<1>10. /\ MarkedIn(call') = MarkedIn(call) /\ HeaderIn(call') = HeaderIn(call)
       /\ AllAnsweredIn(call') <=> AllAnsweredIn(call)
       /\ CountAskedIn(call') <=> CountAskedIn(call)
  BY <1>9 DEF MarkedIn, HeaderIn, AllAnsweredIn, CountAskedIn
<1>11. ASSUME Balance PROVE Balance'
  <2>1. EventsCovered'
    <3>1. notes \in Seq(BOOLEAN) /\ Cardinality(events) \in Nat /\ doubled \in Nat
      BY <1>1, BadgeNumbers
    <3>2. /\ Cardinality(Unseen) \in Nat /\ Cardinality(Unseen') \in Nat
          /\ Cardinality(Unseen) <= Cardinality(Unseen')
      BY <1>2, <1>9, <3>1, MoreUnseen DEF Unseen
    <3> QED BY <1>2, <1>11, <3>1, <3>2 DEF Balance, EventsCovered
  <2>2. Unread' = Unread
    BY <1>2 DEF Unread
  <2> QED BY <1>2, <1>10, <1>11, <2>1, <2>2 DEF Balance, NotOver, NotUnder
<1> QED BY <1>1, <1>2, <1>7, <1>8, <1>10, <1>11 DEF BadgeInv

\* A row is marked by one call, or all of them are.
LEMMA AnswerMarkKept ==
  ASSUME BadgeInv, ~crossed, NEW c \in Calls, AnswerMark(c)
  PROVE  BadgeInv'
<1>1. BadgeTypeOK /\ ShownTrue /\ Cardinality(HeaderIn(call)) <= clicks
      /\ (AllAnsweredIn(call) \/ Balance) /\ (\A d \in Calls : TopFits(call[d]))
  BY DEF BadgeInv
<1> DEFINE older == OlderAnswer(call)
<1>2. PICK r : r = call[c]
  OBVIOUS
<1> DEFINE rows == RowsMarked(r.kind, r.id)
           table == [i \in DOMAIN notes |-> notes[i] \/ i \in rows]
<1>3. /\ r.kind \in {"read", "all"} /\ ~r.answered
      /\ notes' = table
      /\ call' = [older EXCEPT ![c].answered = TRUE]
      /\ crossed' = (crossed \/ (r.kind = "read" /\ notes[r.id]))
      /\ UNCHANGED <<connected, events, dropdown, badge, page, pageOpen, clicks,
                     missed, doubled, asked>>
  BY <1>2 DEF AnswerMark
<1>4. r \in Call /\ RequestTrue(notes, r)
  BY <1>1, <1>2, <1>3, CallShape DEF ShownTrue
<1>5. notes \in Seq(BOOLEAN) /\ Len(notes) \in 0..MaxNotes /\ DOMAIN notes = 1..Len(notes)
  BY <1>1, BadgeNumbers
<1>6. /\ table \in Seq(BOOLEAN) /\ Len(table) = Len(notes) /\ DOMAIN table = DOMAIN notes
      /\ \A i \in DOMAIN notes : table[i] = (notes[i] \/ i \in rows)
  BY <1>5
<1>7. Grown(notes', notes)
  BY <1>3, <1>6 DEF Grown
<1>8. \A d \in Calls : Aged(older[d], call[d]) /\ older[d] \in Call \cup {NoCall}
  BY <1>1, OlderCalls
<1>9. older \in [Calls -> Call \cup {NoCall}]
  BY <1>1, OlderCalls
<1> HIDE DEF older, table
<1>10. /\ call' \in [Calls -> Call \cup {NoCall}]
       /\ \A d \in Calls \ {c} : Aged(call'[d], call[d])
       /\ call'[c] \in Call /\ call'[c].kind = r.kind /\ call'[c].id = r.id
       /\ call'[c].header = r.header /\ call'[c].answered = TRUE
  <2>1. PICK q : q = older[c]
    OBVIOUS
  <2>2. q \in Call /\ q.kind = r.kind /\ q.id = r.id /\ q.header = r.header
    <3>1. r # NoCall
      BY <1>1, <1>2, <1>3, CallShape
    <3> QED BY <1>2, <1>8, <2>1, <3>1 DEF Aged
  <2> DEFINE n == [q EXCEPT !.answered = TRUE]
  <2>3. n \in Call /\ n.kind = r.kind /\ n.id = r.id /\ n.header = r.header /\ n.answered = TRUE
    BY <2>2 DEF Call
  <2>4. call' = [older EXCEPT ![c] = n]
    BY <1>3, <2>1
  <2> HIDE DEF n
  <2>5. call'[c] = n /\ \A d \in Calls \ {c} : call'[d] = older[d]
    BY <1>9, <2>4
  <2>6. call' \in [Calls -> Call \cup {NoCall}]
    BY <1>9, <2>3, <2>4
  <2> QED BY <1>8, <2>3, <2>5, <2>6
<1>11. BadgeTypeOK'
  <2>1. crossed' \in BOOLEAN
    BY <1>3
  <2>2. events' \subseteq [line : Lines, id : DOMAIN notes']
    BY <1>1, <1>3, <1>6 DEF BadgeTypeOK
  <2>3. notes' \in Seq(BOOLEAN) /\ Len(notes') <= MaxNotes
    BY <1>1, <1>3, <1>6 DEF BadgeTypeOK
  <2> QED BY <1>1, <1>3, <1>10, <2>1, <2>2, <2>3 DEF BadgeTypeOK
<1>12. \A d \in Calls : TopFits(call'[d])
  BY <1>1, <1>3, <1>10, AgedCounts DEF TopFits
<1>13. ShownTrue'
  <2>1. ListTrue(notes', dropdown) /\ ListTrue(notes', page)
    BY <1>1, <1>7, ListStaysTrue DEF ShownTrue
  <2>2. ASSUME NEW d \in Calls \ {c} PROVE RequestTrue(notes', call'[d])
    <3>1. RequestTrue(notes, call[d]) /\ (call[d] # NoCall => call[d].kind # "none")
      BY <1>1, CallShape DEF ShownTrue, Kinds
    <3> QED BY <1>7, <1>10, <3>1, AgedTrue
  <2>3. RequestTrue(notes', call'[c])
    <3>1. CASE r.kind = "read"
      <4>1. r.id \in DOMAIN notes /\ r.id \in rows
        BY <1>4, <3>1 DEF RequestTrue, RowsMarked
      <4>2. r.id \in DOMAIN notes' /\ notes'[r.id]
        BY <1>3, <1>6, <4>1
      <4> QED BY <1>10, <3>1, <4>2 DEF RequestTrue
    <3>2. CASE r.kind = "all"
      <4>1. \A i \in DOMAIN notes' : notes'[i]
        BY <1>3, <1>6, <3>2 DEF RowsMarked
      <4> QED BY <1>10, <3>2, <4>1 DEF RequestTrue
    <3> QED BY <1>3, <3>1, <3>2
  <2> QED BY <1>3, <2>1, <2>2, <2>3 DEF ShownTrue
<1>14. \A d \in Calls \ {c} : /\ call'[d].kind = call[d].kind
                              /\ Marks(call'[d]) <=> Marks(call[d])
                              /\ FromHeader(call'[d]) <=> FromHeader(call[d])
                              /\ call[d].kind # "none" => call'[d].answered = call[d].answered
  BY <1>10, AgedCounts
<1>15. /\ Cardinality(MarkedIn(call')) =
            Cardinality(MarkedIn(call)) - One(Marks(call[c])) + One(Marks(call'[c]))
       /\ Cardinality(HeaderIn(call')) =
            Cardinality(HeaderIn(call)) - One(FromHeader(call[c])) + One(FromHeader(call'[c]))
  BY <1>14, OneCallChanged
<1>16. ~Marks(call[c]) /\ (FromHeader(call'[c]) <=> FromHeader(call[c]))
       /\ (Marks(call'[c]) <=> r.kind = "read")
  BY <1>2, <1>3, <1>10 DEF Marks, FromHeader
<1>17. /\ Cardinality(MarkedIn(call')) =
            Cardinality(MarkedIn(call)) + (IF r.kind = "read" THEN 1 ELSE 0)
       /\ Cardinality(HeaderIn(call')) = Cardinality(HeaderIn(call))
  BY <1>15, <1>16, CallSets DEF One
<1>18. /\ AllAnsweredIn(call) => AllAnsweredIn(call')
       /\ r.kind = "all" => AllAnsweredIn(call')
       /\ CountAskedIn(call) => CountAskedIn(call')
  BY <1>2, <1>3, <1>10, <1>14 DEF AllAnsweredIn, CountAskedIn
<1>19. ASSUME Balance, r.kind = "read", ~crossed' PROVE Balance'
  <2>1. r.id \in DOMAIN notes /\ ~notes[r.id] /\ rows = {r.id}
    BY <1>3, <1>4, <1>19 DEF RequestTrue, RowsMarked
  <2>2. Unread' = Unread - 1
    <3>1. Unread' = Cardinality(UnreadRows(notes'))
      BY DEF Unread, UnreadRows
    <3>2. notes' = [i \in DOMAIN notes |-> notes[i] \/ i \in {r.id}]
      BY <1>3, <2>1 DEF table
    <3> QED BY <1>1, <1>5, <2>1, <3>1, <3>2, BadgeNumbers, RowsUnread
  <2>3. NotOver' /\ (NotUnder => NotUnder')
    <3>1. /\ badge \in Nat /\ clicks \in Nat /\ missed \in Nat /\ doubled \in Nat /\ Unread \in Nat
          /\ Cardinality(events) \in Nat
          /\ Cardinality(MarkedIn(call)) \in Nat /\ Cardinality(HeaderIn(call)) \in Nat
      BY <1>1, BadgeNumbers
    <3>2. /\ badge' = badge /\ clicks' = clicks /\ events' = events /\ missed' = missed
          /\ doubled' = doubled
      BY <1>3
    <3> QED BY <1>17, <1>19, <2>2, <3>1, <3>2 DEF Balance, NotOver, NotUnder
  <2>4. EventsCovered'
    <3>1. Unseen \subseteq Unseen'
      <4>1. ASSUME NEW i \in Unseen PROVE i \in Unseen'
        <5>1. /\ i \in DOMAIN notes /\ ~notes[i] /\ Absent(i, dropdown) /\ Absent(i, page)
              /\ \A d \in Calls : call[d].kind = "read" => call[d].id # i
          BY <4>1 DEF Unseen, UnseenIn, UnreadRows
        <5>2. i # r.id
          BY <1>2, <1>19, <5>1
        <5>3. i \in UnreadRows(notes')
          BY <1>3, <1>6, <2>1, <5>1, <5>2 DEF UnreadRows
        <5>4. ASSUME NEW d \in Calls, call'[d].kind = "read" PROVE call'[d].id # i
          <6>1. CASE d = c
            BY <1>10, <5>2, <6>1
          <6>2. CASE d # c
            BY <1>10, <5>1, <5>4, <6>2, AgedCounts
          <6> QED BY <6>1, <6>2
        <5> QED BY <1>3, <5>1, <5>3, <5>4 DEF Unseen, UnseenIn
      <4> QED BY <4>1
    <3>2. /\ IsFiniteSet(Unseen') /\ Cardinality(Unseen) \in Nat /\ Cardinality(Unseen') \in Nat
      BY <1>3, <1>5, <1>6, UnseenFewer DEF Unseen
    <3>3. Cardinality(Unseen) <= Cardinality(Unseen')
      BY <3>1, <3>2, FS_Subset
    <3>4. Cardinality(events) \in Nat /\ doubled \in Nat
      BY <1>1, BadgeNumbers
    <3> QED BY <1>3, <1>19, <3>2, <3>3, <3>4 DEF Balance, EventsCovered
  <2> QED BY <1>18, <1>19, <2>3, <2>4 DEF Balance
<1> QED BY <1>1, <1>3, <1>11, <1>12, <1>13, <1>17, <1>18, <1>19 DEF BadgeInv

LEMMA CallReplaced ==
  ASSUME BadgeTypeOK, NEW c \in Calls, NEW r \in Call \cup {NoCall}
  PROVE  /\ [call EXCEPT ![c] = r] \in [Calls -> Call \cup {NoCall}]
         /\ [call EXCEPT ![c] = r][c] = r
         /\ \A d \in Calls \ {c} : [call EXCEPT ![c] = r][d] = call[d]
BY DEF BadgeTypeOK

\* A call has ended: what it counted for is gone.
LEMMA CallEnded ==
  ASSUME BadgeTypeOK, NEW c \in Calls, call' = [call EXCEPT ![c] = NoCall]
  PROVE  /\ call' \in [Calls -> Call \cup {NoCall}]
         /\ call'[c] = NoCall /\ \A d \in Calls \ {c} : call'[d] = call[d]
         /\ Cardinality(MarkedIn(call')) = Cardinality(MarkedIn(call)) - One(Marks(call[c]))
         /\ Cardinality(HeaderIn(call')) = Cardinality(HeaderIn(call)) - One(FromHeader(call[c]))
         /\ ~(call[c].kind = "all" /\ call[c].answered) =>
              (AllAnsweredIn(call') <=> AllAnsweredIn(call))
         /\ call[c].kind # "count" => (CountAskedIn(call') <=> CountAskedIn(call))
         /\ ShownTrue => \A d \in Calls : RequestTrue(notes, call'[d])
         /\ (\A d \in Calls : TopFits(call[d])) => \A d \in Calls : TopFits(call'[d])
         /\ \A d \in Calls : call'[d].kind = "read" =>
                               call[d].kind = "read" /\ call[d].id = call'[d].id
<1>1. /\ call' \in [Calls -> Call \cup {NoCall}]
      /\ call'[c] = NoCall /\ \A d \in Calls \ {c} : call'[d] = call[d]
  BY CallReplaced
<1>2. call'[c].kind = "none"
  BY <1>1 DEF NoCall
<1>3. ~Marks(call'[c]) /\ ~FromHeader(call'[c])
  BY <1>2 DEF Marks, FromHeader
<1>4. /\ Cardinality(MarkedIn(call')) = Cardinality(MarkedIn(call)) - One(Marks(call[c]))
      /\ Cardinality(HeaderIn(call')) = Cardinality(HeaderIn(call)) - One(FromHeader(call[c]))
  <2>1. \A d \in Calls \ {c} : /\ call'[d].kind = call[d].kind
                               /\ Marks(call'[d]) <=> Marks(call[d])
                               /\ FromHeader(call'[d]) <=> FromHeader(call[d])
    BY <1>1
  <2>2. /\ Cardinality(MarkedIn(call')) =
             Cardinality(MarkedIn(call)) - One(Marks(call[c])) + One(Marks(call'[c]))
        /\ Cardinality(HeaderIn(call')) =
             Cardinality(HeaderIn(call)) - One(FromHeader(call[c])) + One(FromHeader(call'[c]))
    BY <2>1, OneCallChanged
  <2>3. /\ Cardinality(MarkedIn(call)) \in Nat /\ Cardinality(HeaderIn(call)) \in Nat
        /\ One(Marks(call[c])) \in Int /\ One(FromHeader(call[c])) \in Int
        /\ One(Marks(call'[c])) = 0 /\ One(FromHeader(call'[c])) = 0
    BY <1>3, CallSets DEF One
  <2> QED BY <2>2, <2>3
<1>5. ~(call[c].kind = "all" /\ call[c].answered) =>
        (AllAnsweredIn(call') <=> AllAnsweredIn(call))
  BY <1>1, <1>2 DEF AllAnsweredIn
<1>6. call[c].kind # "count" => (CountAskedIn(call') <=> CountAskedIn(call))
  BY <1>1, <1>2 DEF CountAskedIn
<1>7. RequestTrue(notes, call'[c]) /\ TopFits(call'[c])
  BY <1>2 DEF RequestTrue, TopFits
<1>8. ShownTrue => \A d \in Calls : RequestTrue(notes, call'[d])
  BY <1>1, <1>7 DEF ShownTrue
<1>9. (\A d \in Calls : TopFits(call[d])) => \A d \in Calls : TopFits(call'[d])
  BY <1>1, <1>7
<1>10. \A d \in Calls : call'[d].kind = "read" =>
                          call[d].kind = "read" /\ call[d].id = call'[d].id
  BY <1>1, <1>2
<1> QED BY <1>1, <1>4, <1>5, <1>6, <1>8, <1>9, <1>10

LEMMA LoseAnswerKept ==
  ASSUME BadgeInv, ~crossed, NEW c \in Calls, LoseAnswer(c)
  PROVE  BadgeInv'
<1>1. BadgeTypeOK /\ ShownTrue /\ Cardinality(HeaderIn(call)) <= clicks
      /\ (AllAnsweredIn(call) \/ Balance) /\ (\A d \in Calls : TopFits(call[d]))
  BY DEF BadgeInv
<1>2. /\ call[c] # NoCall /\ call' = [call EXCEPT ![c] = NoCall]
      /\ crossed' = (crossed \/ call[c].kind = "count"
                         \/ (call[c].kind \in {"read", "all"} /\ call[c].answered))
      /\ UNCHANGED <<notes, connected, events, dropdown, badge, page, pageOpen,
                     clicks, missed, doubled, asked>>
  BY DEF LoseAnswer
<1>3. BadgeTypeOK'
  <2>1. call' \in [Calls -> Call \cup {NoCall}] /\ crossed' \in BOOLEAN
    BY <1>1, <1>2, CallEnded
  <2> QED BY <1>1, <1>2, <2>1 DEF BadgeTypeOK
<1>4. \A d \in Calls : TopFits(call'[d])
  BY <1>1, <1>2, CallEnded
<1>5. ASSUME ~crossed'
      PROVE  /\ ShownTrue' /\ Cardinality(HeaderIn(call'))  <= clicks'
             /\ AllAnsweredIn(call') \/ Balance'
  <2>1. call[c].kind # "count" /\ ~(call[c].kind = "all" /\ call[c].answered) /\ ~Marks(call[c])
    BY <1>2, <1>5 DEF Marks
  <2>2. /\ \A d \in Calls : RequestTrue(notes, call'[d])
        /\ Cardinality(MarkedIn(call')) = Cardinality(MarkedIn(call)) - One(Marks(call[c]))
        /\ Cardinality(HeaderIn(call')) = Cardinality(HeaderIn(call)) - One(FromHeader(call[c]))
        /\ AllAnsweredIn(call') <=> AllAnsweredIn(call)
        /\ CountAskedIn(call') <=> CountAskedIn(call)
        /\ \A d \in Calls : call'[d].kind = "read" =>
                              call[d].kind = "read" /\ call[d].id = call'[d].id
    BY <1>1, <1>2, <2>1, CallEnded
  <2>3. One(Marks(call[c])) = 0 /\ One(FromHeader(call[c])) \in 0..1
    BY <2>1 DEF One
  <2>4. /\ badge \in Nat /\ clicks \in Nat /\ missed \in Nat /\ doubled \in Nat /\ Unread \in Nat
        /\ Cardinality(events) \in Nat
        /\ Cardinality(MarkedIn(call)) \in Nat /\ Cardinality(HeaderIn(call)) \in Nat
    BY <1>1, BadgeNumbers
  <2>5. ShownTrue'
    BY <1>1, <1>2, <2>2 DEF ShownTrue
  <2>6. Cardinality(HeaderIn(call')) <= clicks'
    BY <1>1, <1>2, <2>2, <2>3, <2>4
  <2>7. ASSUME Balance PROVE Balance'
    <3>1. EventsCovered'
      <4>1. /\ Cardinality(Unseen) \in Nat /\ Cardinality(Unseen') \in Nat
            /\ Cardinality(Unseen) <= Cardinality(Unseen')
        BY <1>1, <1>2, <2>2, BadgeNumbers, MoreUnseen DEF Unseen
      <4> QED BY <1>2, <2>4, <2>7, <4>1 DEF Balance, EventsCovered
    <3>2. Unread' = Unread
      BY <1>2 DEF Unread
    <3>3. NotOver' /\ (NotUnder => NotUnder')
      BY <1>2, <2>2, <2>3, <2>4, <2>7, <3>2 DEF Balance, NotOver, NotUnder
    <3> QED BY <2>2, <2>7, <3>1, <3>3 DEF Balance
  <2> QED BY <1>1, <2>2, <2>5, <2>6, <2>7
<1> QED BY <1>3, <1>4, <1>5 DEF BadgeInv

\* An answer taken in its turn: nothing else is on its way to what it changes.
LEMMA InTurn ==
  ASSUME BadgeTypeOK, NEW c \in Calls, ~Overtaken(c), call[c].kind \in {"top", "count", "page", "all"}
  PROVE  /\ ~call[c].stale /\ events = {}
         /\ Cardinality(MarkedIn(call)) = 0
         /\ call[c].kind # "all" => ~AllAnsweredIn(call)
<1>1. /\ ~call[c].stale /\ events = {}
      /\ \A d \in Calls \ {c} : ~(call[d].kind \in {"read", "all"} /\ call[d].answered)
  BY DEF Overtaken
<1>2. MarkedIn(call) = {}
  BY <1>1 DEF MarkedIn, Marks
<1>3. call[c].kind # "all" => ~AllAnsweredIn(call)
  BY <1>1 DEF AllAnsweredIn
<1> QED BY <1>1, <1>2, <1>3, FS_EmptySet

LEMMA DeliverQueryKept ==
  ASSUME BadgeInv, ~crossed, NEW c \in Calls, DeliverQuery(c)
  PROVE  BadgeInv'
<1>1. BadgeTypeOK /\ ShownTrue /\ Cardinality(HeaderIn(call)) <= clicks
      /\ (AllAnsweredIn(call) \/ Balance) /\ (\A d \in Calls : TopFits(call[d]))
  BY DEF BadgeInv
<1>2. PICK r : r = call[c]
  OBVIOUS
<1>3. /\ r.kind \in {"top", "count", "page"} /\ r.answered
      /\ dropdown' = IF r.kind = "top" THEN r.list ELSE dropdown
      /\ badge' = IF r.kind = "count" THEN r.count ELSE badge
      /\ page' = IF r.kind = "page" /\ pageOpen THEN r.list ELSE page
      /\ crossed' = (crossed \/ Overtaken(c))
      /\ call' = [call EXCEPT ![c] = NoCall]
      /\ UNCHANGED <<notes, connected, events, pageOpen, clicks, missed, doubled, asked>>
  BY <1>2 DEF DeliverQuery
<1>4. r \in Call /\ r.list \in Seq(Entry) /\ r.count \in Nat
  BY <1>1, <1>2, <1>3, CallShape, BadgeAssumption
<1>5. BadgeTypeOK'
  <2>1. call' \in [Calls -> Call \cup {NoCall}] /\ crossed' \in BOOLEAN
    BY <1>1, <1>3, CallEnded
  <2>2. dropdown' \in Seq(Entry) /\ Len(dropdown') <= Shown /\ page' \in Seq(Entry) /\ badge' \in Nat
    BY <1>1, <1>2, <1>3, <1>4 DEF BadgeTypeOK, TopFits
  <2> QED BY <1>1, <1>3, <2>1, <2>2 DEF BadgeTypeOK
<1>6. \A d \in Calls : TopFits(call'[d])
  BY <1>1, <1>3, CallEnded
<1>7. ASSUME ~crossed'
      PROVE  /\ ShownTrue' /\ Cardinality(HeaderIn(call'))  <= clicks'
             /\ Balance'
  <2>1. /\ ~r.stale /\ events = {} /\ Cardinality(MarkedIn(call)) = 0
        /\ ~AllAnsweredIn(call)
    BY <1>1, <1>2, <1>3, <1>7, InTurn
  <2>2. ~Marks(call[c]) /\ ~FromHeader(call[c])
    BY <1>2, <1>3 DEF Marks, FromHeader
  <2>3. /\ \A d \in Calls : RequestTrue(notes, call'[d])
        /\ Cardinality(MarkedIn(call')) = Cardinality(MarkedIn(call)) - One(Marks(call[c]))
        /\ Cardinality(HeaderIn(call')) = Cardinality(HeaderIn(call)) - One(FromHeader(call[c]))
        /\ call[c].kind # "count" => (CountAskedIn(call') <=> CountAskedIn(call))
    BY <1>1, <1>3, CallEnded
  <2>4. /\ badge \in Nat /\ clicks \in Nat /\ missed \in Nat /\ doubled \in Nat
        /\ Cardinality(events) = 0 /\ Unread \in Nat /\ Cardinality(HeaderIn(call)) \in Nat
    BY <1>1, <2>1, BadgeNumbers, FS_EmptySet
  <2>5. Cardinality(MarkedIn(call')) = 0 /\ Cardinality(HeaderIn(call')) = Cardinality(HeaderIn(call))
    <3>1. One(Marks(call[c])) = 0 /\ One(FromHeader(call[c])) = 0
      BY <2>2 DEF One
    <3> QED BY <2>1, <2>3, <2>4, <3>1
  <2>6. ShownTrue'
    <3>1. RequestTrue(notes, r)
      BY <1>1, <1>2 DEF ShownTrue
    <3>2. ListTrue(notes, dropdown') /\ ListTrue(notes, page')
      BY <1>1, <1>3, <3>1 DEF ShownTrue, RequestTrue
    <3> QED BY <1>3, <2>3, <3>2 DEF ShownTrue
  <2>7. EventsCovered'
    <3>1. Cardinality(Unseen') \in Nat
      BY <1>1, <1>3, BadgeNumbers, UnseenFewer DEF Unseen
    <3> QED BY <1>3, <2>4, <3>1 DEF EventsCovered
  <2>8. /\ Unread' = Unread /\ Cardinality(events') = 0 /\ clicks' = clicks /\ missed' = missed
        /\ doubled' = doubled
    BY <1>3, <2>4 DEF Unread
  <2>9. CASE r.kind = "count"
    <3>1. badge' = Unread
      <4>1. r.count = Unread
        BY <1>1, <1>2, <1>3, <2>1, <2>9, BadgeNumbers DEF ShownTrue, RequestTrue, Current
      <4> QED BY <1>3, <2>9, <4>1
    <3>2. NotOver' /\ NotUnder'
      BY <1>1, <2>4, <2>5, <2>8, <3>1 DEF NotOver, NotUnder
    <3> QED BY <1>1, <2>4, <2>5, <2>6, <2>7, <2>8, <3>2 DEF Balance
  <2>10. CASE r.kind # "count"
    <3>1. badge' = badge
      BY <1>3, <2>10
    <3>2. NotOver' /\ (NotUnder => NotUnder')
      BY <1>1, <2>1, <2>4, <2>5, <2>8, <3>1 DEF Balance, NotOver, NotUnder
    <3> QED BY <1>1, <1>2, <2>1, <2>3, <2>4, <2>5, <2>6, <2>7, <2>8, <2>10, <3>2 DEF Balance
  <2> QED BY <2>9, <2>10
<1> QED BY <1>5, <1>6, <1>7 DEF BadgeInv

\* Marking entries as read leaves which rows they show.
LEMMA EntriesMarked ==
  ASSUME NEW list \in Seq(Entry), NEW ids
  PROVE  /\ MarkRead(list, ids) \in Seq(Entry) /\ Len(MarkRead(list, ids)) = Len(list)
         /\ DOMAIN MarkRead(list, ids) = DOMAIN list
         /\ \A k \in DOMAIN list :
              /\ MarkRead(list, ids)[k].id = list[k].id
              /\ MarkRead(list, ids)[k].read <=> list[k].read \/ list[k].id \in ids
<1> DEFINE marked == MarkRead(list, ids)
<1>1. ASSUME NEW k \in DOMAIN list
      PROVE  /\ marked[k] \in Entry /\ marked[k].id = list[k].id
             /\ marked[k].read <=> list[k].read \/ list[k].id \in ids
  <2>1. PICK r : r = list[k]
    OBVIOUS
  <2>2. r \in Entry
    BY <2>1
  <2> DEFINE n == [r EXCEPT !.read = r.read \/ r.id \in ids]
  <2>3. n \in Entry /\ n.id = r.id /\ (n.read <=> r.read \/ r.id \in ids)
    BY <2>2 DEF Entry
  <2>4. marked[k] = n
    BY <2>1 DEF MarkRead
  <2> HIDE DEF n, marked
  <2> QED BY <2>1, <2>3, <2>4
<1>2. DOMAIN marked = DOMAIN list /\ marked = [k \in DOMAIN list |-> marked[k]]
  BY DEF MarkRead
<1> HIDE DEF marked
<1>3. DOMAIN list = 1..Len(list) /\ Len(list) \in Nat
  OBVIOUS
<1>4. marked \in Seq(Entry)
  BY <1>1, <1>2, <1>3
<1>5. Len(marked) = Len(list)
  BY <1>2, <1>3, <1>4
<1> QED BY <1>1, <1>2, <1>4, <1>5 DEF marked

LEMMA MarkedAbsent ==
  ASSUME NEW list \in Seq(Entry), NEW ids
  PROVE  \A i : Absent(i, list) => Absent(i, MarkRead(list, ids))
BY EntriesMarked DEF Absent

LEMMA MarkedTrue ==
  ASSUME NEW list \in Seq(Entry), NEW ids, NEW table, ListTrue(table, list),
         \A i \in ids \cap DOMAIN table : table[i]
  PROVE  ListTrue(table, MarkRead(list, ids))
BY EntriesMarked DEF ListTrue

\* One answer to markAsRead lowers the badge by one, or by two after a click in
\* the dropdown, down to zero at most.
LEMMA LoweredWithin ==
  ASSUME NEW fromTop \in BOOLEAN, NEW n \in Nat
  PROVE  /\ LoweredBy(fromTop, n) \in Nat
         /\ LoweredBy(fromTop, n) <= n - 1 \/ LoweredBy(fromTop, n) = 0
         /\ n <= LoweredBy(fromTop, n) + 1 + One(fromTop)
BY DEF LoweredBy, Lowered, One

LEMMA DeliverReadKept ==
  ASSUME BadgeInv, ~crossed, NEW c \in Calls, DeliverRead(c)
  PROVE  BadgeInv'
<1>1. BadgeTypeOK /\ ShownTrue /\ Cardinality(HeaderIn(call)) <= clicks
      /\ (AllAnsweredIn(call) \/ Balance) /\ (\A d \in Calls : TopFits(call[d]))
  BY DEF BadgeInv
<1>2. PICK r : r = call[c]
  OBVIOUS
<1>3. /\ r.kind = "read" /\ r.answered
      /\ dropdown' = MarkRead(dropdown, {r.id}) /\ page' = MarkRead(page, {r.id})
      /\ badge' = LoweredBy(r.header, badge)
      /\ call' = [call EXCEPT ![c] = NoCall]
      /\ UNCHANGED <<notes, connected, events, pageOpen, clicks, missed, doubled, crossed, asked>>
  BY <1>2 DEF DeliverRead
<1>4. r.header \in BOOLEAN /\ r.id \in DOMAIN notes /\ notes[r.id]
      /\ dropdown \in Seq(Entry) /\ page \in Seq(Entry)
  <2>1. RequestTrue(notes, r)
    BY <1>1, <1>2 DEF ShownTrue
  <2> QED BY <1>1, <1>2, <1>3, <2>1, CallShape DEF RequestTrue, BadgeTypeOK
<1>5. /\ badge \in Nat /\ clicks \in Nat /\ missed \in Nat /\ doubled \in Nat /\ Unread \in Nat
      /\ Cardinality(events) \in Nat /\ notes \in Seq(BOOLEAN)
      /\ Cardinality(MarkedIn(call)) \in Nat /\ Cardinality(HeaderIn(call)) \in Nat
      /\ Cardinality(MarkedIn(call')) \in Nat
  BY <1>1, BadgeNumbers, CallSets
<1>6. /\ badge' \in Nat /\ (badge' <= badge - 1 \/ badge' = 0)
      /\ badge <= badge' + 1 + One(r.header)
  BY <1>3, <1>4, <1>5, LoweredWithin
<1>7. BadgeTypeOK'
  <2>1. call' \in [Calls -> Call \cup {NoCall}]
    BY <1>1, <1>3, CallEnded
  <2>2. dropdown' \in Seq(Entry) /\ Len(dropdown') = Len(dropdown) /\ page' \in Seq(Entry)
    BY <1>3, <1>4, EntriesMarked
  <2> QED BY <1>1, <1>3, <1>6, <2>1, <2>2 DEF BadgeTypeOK
<1>8. /\ \A d \in Calls : TopFits(call'[d])
      /\ \A d \in Calls : RequestTrue(notes, call'[d])
      /\ Cardinality(MarkedIn(call')) = Cardinality(MarkedIn(call)) - One(Marks(call[c]))
      /\ Cardinality(HeaderIn(call')) = Cardinality(HeaderIn(call)) - One(FromHeader(call[c]))
      /\ ~(call[c].kind = "all" /\ call[c].answered) =>
           (AllAnsweredIn(call') <=> AllAnsweredIn(call))
      /\ call[c].kind # "count" => (CountAskedIn(call') <=> CountAskedIn(call))
      /\ \A d \in Calls : call'[d].kind = "read" =>
                            call[d].kind = "read" /\ call[d].id = call'[d].id
  BY <1>1, <1>3, CallEnded
<1>9. One(Marks(call[c])) = 1 /\ One(FromHeader(call[c])) = One(r.header) /\ One(r.header) \in 0..1
  <2>1. Marks(call[c]) /\ (FromHeader(call[c]) <=> r.header)
    BY <1>2, <1>3 DEF Marks, FromHeader
  <2> QED BY <2>1 DEF One
<1>10. ShownTrue'
  <2>1. ListTrue(notes, dropdown') /\ ListTrue(notes, page')
    BY <1>1, <1>3, <1>4, MarkedTrue DEF ShownTrue
  <2> QED BY <1>3, <1>8, <2>1 DEF ShownTrue
<1>11. Cardinality(HeaderIn(call')) <= clicks'
  BY <1>1, <1>3, <1>5, <1>8, <1>9
<1>12. (AllAnsweredIn(call') <=> AllAnsweredIn(call)) /\ (CountAskedIn(call') <=> CountAskedIn(call))
  BY <1>2, <1>3, <1>8
<1>13. ASSUME Balance PROVE Balance'
  <2>1. EventsCovered'
    <3>1. /\ \A i : Absent(i, dropdown) => Absent(i, dropdown')
          /\ \A i : Absent(i, page) => Absent(i, page')
      BY <1>3, <1>4, MarkedAbsent
    <3>2. /\ Cardinality(Unseen) \in Nat /\ Cardinality(Unseen') \in Nat
          /\ Cardinality(Unseen) <= Cardinality(Unseen')
      BY <1>3, <1>5, <1>8, <3>1, MoreUnseen DEF Unseen
    <3> QED BY <1>3, <1>5, <1>13, <3>2 DEF Balance, EventsCovered
  <2>2. /\ Unread' = Unread /\ Cardinality(events') = Cardinality(events)
        /\ clicks' = clicks /\ missed' = missed /\ doubled' = doubled
    BY <1>3 DEF Unread
  <2>3. Cardinality(events) <= Unread + doubled
    <3>1. Cardinality(Unseen) \in Nat /\ Cardinality(Unseen) <= Unread
      BY <1>1, <1>5, BadgeNumbers, UnseenFewer DEF Unseen
    <3> QED BY <1>5, <1>13, <3>1 DEF Balance, EventsCovered
  <2>4. NotOver'
    <3>1. PICK b \in Nat, b2 \in Nat, e \in Nat, u \in Nat, m \in Nat, m2 \in Nat, d \in Nat :
            /\ b = badge /\ b2 = badge' /\ e = Cardinality(events) /\ u = Unread /\ d = doubled
            /\ m = Cardinality(MarkedIn(call)) /\ m2 = Cardinality(MarkedIn(call'))
      BY <1>5, <1>6
    <3>2. b + e <= u + m + d
      BY <1>13, <3>1 DEF Balance, NotOver
    <3>3. m2 = m - 1
      BY <1>8, <1>9, <3>1
    <3>4. e <= u + d
      BY <2>3, <3>1
    <3>5. b2 <= b - 1 \/ b2 = 0
      BY <1>6, <3>1
    <3>6. b2 + e <= u + m2 + d
      BY <3>2, <3>3, <3>4, <3>5
    <3> QED BY <2>2, <3>1, <3>6 DEF NotOver
  <2>5. NotUnder => NotUnder'
    <3>1. PICK o \in 0..1 : o = One(r.header)
      BY <1>9
    <3>2. /\ Cardinality(MarkedIn(call')) = Cardinality(MarkedIn(call)) - 1
          /\ Cardinality(HeaderIn(call')) = Cardinality(HeaderIn(call)) - o
      BY <1>8, <1>9, <3>1
    <3>3. badge <= badge' + 1 + o
      BY <1>6, <3>1
    <3>4. badge' \in Nat
      BY <1>6
    <3> DEFINE due == Cardinality(events) + missed + clicks
               n == Unread + Cardinality(MarkedIn(call)) + Cardinality(HeaderIn(call))
    <3>5. n \in Nat /\ due \in Nat /\ badge \in Nat
      BY <1>5
    <3>6. Unread' + Cardinality(MarkedIn(call')) + Cardinality(HeaderIn(call')) = n - 1 - o
      BY <1>5, <2>2, <3>2
    <3>7. badge' + Cardinality(events') + missed' + clicks' = badge' + due
      BY <1>5, <2>2, <3>4
    <3>8. NotUnder => n <= badge + due
      BY <1>5 DEF NotUnder
    <3> HIDE DEF n, due
    <3>9. NotUnder => n - 1 - o <= badge' + due
      BY <3>1, <3>3, <3>4, <3>5, <3>8
    <3> QED BY <3>6, <3>7, <3>9 DEF NotUnder
  <2> QED BY <1>12, <1>13, <2>1, <2>4, <2>5 DEF Balance
<1> QED BY <1>1, <1>7, <1>8, <1>10, <1>11, <1>12, <1>13 DEF BadgeInv

LEMMA DeliverAllKept ==
  ASSUME BadgeInv, ~crossed, NEW c \in Calls, DeliverAll(c)
  PROVE  BadgeInv'
<1>1. BadgeTypeOK /\ ShownTrue /\ Cardinality(HeaderIn(call)) <= clicks
      /\ (\A d \in Calls : TopFits(call[d]))
  BY DEF BadgeInv
<1>2. /\ call[c].kind = "all" /\ call[c].answered
      /\ dropdown' = MarkRead(dropdown, DOMAIN notes) /\ page' = MarkRead(page, DOMAIN notes)
      /\ badge' = 0
      /\ crossed' = (crossed \/ Overtaken(c))
      /\ call' = [call EXCEPT ![c] = NoCall]
      /\ UNCHANGED <<notes, connected, events, pageOpen, clicks, missed, doubled, asked>>
  BY DEF DeliverAll
<1>3. dropdown \in Seq(Entry) /\ page \in Seq(Entry)
  BY <1>1 DEF BadgeTypeOK
<1>4. BadgeTypeOK'
  <2>1. call' \in [Calls -> Call \cup {NoCall}] /\ crossed' \in BOOLEAN
    BY <1>1, <1>2, CallEnded
  <2>2. dropdown' \in Seq(Entry) /\ Len(dropdown') = Len(dropdown) /\ page' \in Seq(Entry)
    BY <1>2, <1>3, EntriesMarked
  <2>3. badge' \in Nat
    BY <1>2
  <2> QED BY <1>1, <1>2, <2>1, <2>2, <2>3 DEF BadgeTypeOK
<1>5. /\ \A d \in Calls : TopFits(call'[d])
      /\ \A d \in Calls : RequestTrue(notes, call'[d])
      /\ Cardinality(MarkedIn(call')) = Cardinality(MarkedIn(call)) - One(Marks(call[c]))
      /\ Cardinality(HeaderIn(call')) = Cardinality(HeaderIn(call)) - One(FromHeader(call[c]))
  BY <1>1, <1>2, CallEnded
<1>6. One(Marks(call[c])) = 0 /\ One(FromHeader(call[c])) = 0
  <2>1. ~Marks(call[c]) /\ ~FromHeader(call[c])
    BY <1>2 DEF Marks, FromHeader
  <2> QED BY <2>1 DEF One
<1>7. ASSUME ~crossed'
      PROVE  /\ ShownTrue' /\ Cardinality(HeaderIn(call'))  <= clicks'
             /\ Balance'
  <2>1. ~call[c].stale /\ events = {} /\ Cardinality(MarkedIn(call)) = 0
    BY <1>1, <1>2, <1>7, InTurn
  <2>2. \A i \in DOMAIN notes : notes[i]
    BY <1>1, <1>2, <2>1 DEF ShownTrue, RequestTrue, Current
  <2>3. Unread' = 0
    <3>1. Unread' = Cardinality(UnreadRows(notes))
      BY <1>2 DEF Unread, UnreadRows
    <3> QED BY <1>1, <2>2, <3>1, BadgeNumbers, RowsUnread
  <2>4. ShownTrue'
    <3>1. ListTrue(notes, dropdown') /\ ListTrue(notes, page')
      BY <1>1, <1>2, <1>3, <2>2, MarkedTrue DEF ShownTrue
    <3> QED BY <1>2, <1>5, <3>1 DEF ShownTrue
  <2>5. /\ clicks \in Nat /\ missed \in Nat /\ Cardinality(HeaderIn(call)) \in Nat
        /\ clicks' = clicks /\ missed' = missed /\ badge' = 0
    BY <1>1, <1>2, BadgeNumbers
  <2>6. Cardinality(MarkedIn(call')) = 0 /\ Cardinality(HeaderIn(call')) = Cardinality(HeaderIn(call))
    BY <1>5, <1>6, <2>1, <2>5
  <2>7. Cardinality(events') = 0 /\ doubled' = doubled /\ doubled \in Nat
    BY <1>1, <1>2, <2>1, BadgeNumbers, FS_EmptySet
  <2>8. EventsCovered'
    <3>1. Cardinality(Unseen') \in Nat
      BY <1>1, <1>2, BadgeNumbers, UnseenFewer DEF Unseen
    <3> QED BY <2>7, <3>1 DEF EventsCovered
  <2>9. NotOver' /\ NotUnder'
    BY <1>1, <2>3, <2>5, <2>6, <2>7 DEF NotOver, NotUnder
  <2> QED BY <1>1, <2>4, <2>5, <2>6, <2>8, <2>9 DEF Balance
<1> QED BY <1>4, <1>5, <1>7 DEF BadgeInv

\* A row of which the tab hears goes in front of what a list shows.
LEMMA EntryInFront ==
  ASSUME NEW list \in Seq(Entry), NEW entry \in Entry
  PROVE  /\ <<entry>> \o list \in Seq(Entry) /\ Len(<<entry>> \o list) = Len(list) + 1
         /\ \A k \in DOMAIN (<<entry>> \o list) :
              \/ (<<entry>> \o list)[k] = entry
              \/ \E j \in DOMAIN list : (<<entry>> \o list)[k] = list[j]
<1> DEFINE one == <<entry>>
           all == one \o list
<1>1. one \in Seq(Entry) /\ Len(one) = 1 /\ one[1] = entry
  OBVIOUS
<1> HIDE DEF one
<1>2. all \in Seq(Entry) /\ Len(all) = Len(list) + 1
      /\ \A k \in 1..(Len(list) + 1) : all[k] = IF k <= 1 THEN one[k] ELSE list[k - 1]
  <2>1. /\ all \in Seq(Entry) /\ Len(all) = Len(one) + Len(list)
        /\ \A k \in 1..(Len(one) + Len(list)) :
             all[k] = IF k <= Len(one) THEN one[k] ELSE list[k - Len(one)]
    BY <1>1, ConcatProperties
  <2>2. Len(one) + Len(list) = Len(list) + 1
    BY <1>1
  <2> QED BY <1>1, <2>1, <2>2
<1> HIDE DEF all
<1>3. DOMAIN all = 1..(Len(list) + 1) /\ DOMAIN list = 1..Len(list) /\ Len(list) \in Nat
  BY <1>2
<1>4. ASSUME NEW k \in DOMAIN all
      PROVE  all[k] = entry \/ \E j \in DOMAIN list : all[k] = list[j]
  <2>1. CASE k = 1
    BY <1>1, <1>2, <1>3, <2>1
  <2>2. CASE k # 1
    <3>1. k - 1 \in DOMAIN list /\ all[k] = list[k - 1]
      BY <1>2, <1>3, <2>2
    <3> QED BY <3>1
  <2> QED BY <2>1, <2>2
<1> QED BY <1>2, <1>4 DEF all, one

LEMMA FirstEntries ==
  ASSUME NEW list \in Seq(Entry), NEW m \in 0..Len(list)
  PROVE  /\ SubSeq(list, 1, m) \in Seq(Entry) /\ Len(SubSeq(list, 1, m)) = m
         /\ \A k \in DOMAIN SubSeq(list, 1, m) :
              k \in DOMAIN list /\ SubSeq(list, 1, m)[k] = list[k]
<1>1. Len(list) \in Nat /\ DOMAIN list = 1..Len(list) /\ \A k \in 1..Len(list) : list[k] \in Entry
  OBVIOUS
<1> DEFINE first == SubSeq(list, 1, m)
<1>2. first \in Seq(Entry) /\ Len(first) = m /\ \A k \in 1..m : first[k] = list[k]
  BY <1>1
<1> HIDE DEF first
<1>3. DOMAIN first = 1..m
  BY <1>2
<1> QED BY <1>1, <1>2, <1>3 DEF first

LEMMA DeliverEventKept ==
  ASSUME BadgeInv, ~crossed, NEW s \in Lines, DeliverEvent(s)
  PROVE  BadgeInv'
<1>1. BadgeTypeOK /\ ShownTrue /\ Cardinality(HeaderIn(call)) <= clicks
      /\ (AllAnsweredIn(call) \/ Balance) /\ (\A d \in Calls : TopFits(call[d]))
  BY DEF BadgeInv
<1>a. PICK e \in CopiesOf(s) :
        LET new  == [id |-> e.id, read |-> FALSE]
            kept == IF Len(dropdown) < Shown - 1 THEN Len(dropdown) ELSE Shown - 1
        IN  /\ dropdown' = <<new>> \o SubSeq(dropdown, 1, kept)
            /\ page' = IF pageOpen THEN <<new>> \o page ELSE page
            /\ badge' = badge + 1 /\ events' = events \ {e}
            /\ UNCHANGED <<notes, connected, call, pageOpen, clicks, missed, doubled, crossed,
                           asked>>
  BY DEF DeliverEvent
<1> DEFINE new == [id |-> e.id, read |-> FALSE]
           m == IF Len(dropdown) < Shown - 1 THEN Len(dropdown) ELSE Shown - 1
           first == SubSeq(dropdown, 1, m)
<1>2. /\ e \in events /\ dropdown' = <<new>> \o first
      /\ page' = IF pageOpen THEN <<new>> \o page ELSE page
      /\ badge' = badge + 1 /\ events' = events \ {e}
      /\ UNCHANGED <<notes, connected, call, pageOpen, clicks, missed, doubled, crossed, asked>>
  BY <1>a DEF CopiesOf
<1>3. /\ dropdown \in Seq(Entry) /\ page \in Seq(Entry) /\ Shown \in Nat \ {0}
      /\ Len(dropdown) \in Nat
  BY <1>1, BadgeAssumption DEF BadgeTypeOK
<1>4. m \in 0..Len(dropdown) /\ m < Shown
  BY <1>3
<1>5. /\ events \subseteq [line : Lines, id : DOMAIN notes] /\ Cardinality(events) \in Nat
      /\ DOMAIN notes = 1..Len(notes) /\ Len(notes) \in 0..MaxNotes /\ MaxNotes \in Nat
  BY <1>1, BadgeNumbers, BadgeAssumption
<1>6. e.id \in DOMAIN notes /\ e.id \in 1..MaxNotes
  BY <1>2, <1>5
<1>7. new \in Entry /\ new.id = e.id /\ ~new.read
  BY <1>6 DEF Entry
<1> HIDE DEF new, m
<1>8. /\ first \in Seq(Entry) /\ Len(first) = m
      /\ \A k \in DOMAIN first : k \in DOMAIN dropdown /\ first[k] = dropdown[k]
  BY <1>3, <1>4, FirstEntries
<1> HIDE DEF first
<1>9. /\ dropdown' \in Seq(Entry) /\ Len(dropdown') = m + 1
      /\ \A k \in DOMAIN dropdown' :
           dropdown'[k] = new \/ \E j \in DOMAIN dropdown : dropdown'[k] = dropdown[j]
  <2>1. /\ <<new>> \o first \in Seq(Entry) /\ Len(<<new>> \o first) = Len(first) + 1
        /\ \A k \in DOMAIN (<<new>> \o first) :
             \/ (<<new>> \o first)[k] = new
             \/ \E j \in DOMAIN first : (<<new>> \o first)[k] = first[j]
    BY <1>7, <1>8, EntryInFront
  <2> QED BY <1>2, <1>8, <2>1
<1>10. /\ page' \in Seq(Entry)
       /\ \A k \in DOMAIN page' : page'[k] = new \/ \E j \in DOMAIN page : page'[k] = page[j]
  <2>1. /\ <<new>> \o page \in Seq(Entry)
        /\ \A k \in DOMAIN (<<new>> \o page) :
             \/ (<<new>> \o page)[k] = new
             \/ \E j \in DOMAIN page : (<<new>> \o page)[k] = page[j]
    BY <1>3, <1>7, EntryInFront
  <2> QED BY <1>2, <1>3, <2>1
<1>11. BadgeTypeOK'
  <2>1. events' \subseteq [line : Lines, id : DOMAIN notes'] /\ badge' \in Nat
    BY <1>1, <1>2, <1>5, BadgeNumbers
  <2>2. Len(dropdown') <= Shown
    BY <1>3, <1>4, <1>9
  <2> QED BY <1>1, <1>2, <1>9, <1>10, <2>1, <2>2 DEF BadgeTypeOK
<1>12. ShownTrue'
  <2>1. ListTrue(notes, dropdown')
    BY <1>1, <1>5, <1>6, <1>7, <1>9 DEF ShownTrue, ListTrue
  <2>2. ListTrue(notes, page')
    BY <1>1, <1>5, <1>6, <1>7, <1>10 DEF ShownTrue, ListTrue
  <2> QED BY <1>1, <1>2, <2>1, <2>2 DEF ShownTrue
<1>13. ASSUME Balance PROVE Balance'
  <2>1. /\ badge \in Nat /\ clicks \in Nat /\ missed \in Nat /\ doubled \in Nat /\ Unread \in Nat
        /\ Cardinality(MarkedIn(call)) \in Nat /\ Cardinality(HeaderIn(call)) \in Nat
        /\ Cardinality(events) \in Nat /\ IsFiniteSet(events) /\ notes \in Seq(BOOLEAN)
    BY <1>1, BadgeNumbers, EventsFinite
  <2>2. Cardinality(events') = Cardinality(events) - 1
    BY <1>2, <2>1, FS_RemoveElement
  <2>3. Unseen \ {e.id} \subseteq Unseen'
    <3>1. ASSUME NEW i, i # e.id, Absent(i, dropdown) PROVE Absent(i, dropdown')
      BY <1>7, <1>9, <3>1 DEF Absent
    <3>2. ASSUME NEW i, i # e.id, Absent(i, page) PROVE Absent(i, page')
      BY <1>7, <1>10, <3>2 DEF Absent
    <3> QED BY <1>2, <3>1, <3>2 DEF Unseen, UnseenIn
  <2>4. /\ Cardinality(Unseen) \in Nat /\ Cardinality(Unseen') \in Nat
        /\ Cardinality(Unseen) - 1 <= Cardinality(Unseen')
    <3>1. /\ IsFiniteSet(Unseen) /\ IsFiniteSet(Unseen')
          /\ Cardinality(Unseen) \in Nat /\ Cardinality(Unseen') \in Nat
      BY <1>2, <2>1, UnseenFewer DEF Unseen
    <3>2. /\ Cardinality(Unseen \ {e.id}) <= Cardinality(Unseen')
          /\ Cardinality(Unseen \ {e.id}) \in Nat
      BY <2>3, <3>1, FS_Subset, FS_CardinalityType
    <3>3. Cardinality(Unseen \ {e.id}) \in {Cardinality(Unseen), Cardinality(Unseen) - 1}
      BY <3>1, FS_RemoveElement
    <3> QED BY <3>1, <3>2, <3>3
  <2>5. EventsCovered'
    BY <1>2, <1>13, <2>1, <2>2, <2>4 DEF Balance, EventsCovered
  <2>6. NotOver' /\ (NotUnder => NotUnder')
    <3>1. /\ Unread' = Unread /\ call' = call /\ clicks' = clicks /\ missed' = missed
          /\ doubled' = doubled
      BY <1>2 DEF Unread
    <3>2. MarkedIn(call') = MarkedIn(call) /\ HeaderIn(call') = HeaderIn(call)
      BY <3>1
    <3>3. badge' + Cardinality(events') = badge + Cardinality(events)
      BY <1>2, <2>1, <2>2
    <3>4. NotOver'
      <4>1. NotOver
        BY <1>13 DEF Balance
      <4> QED BY <3>1, <3>2, <3>3, <4>1 DEF NotOver
    <3>5. NotUnder => NotUnder'
      <4>1. badge + Cardinality(events) + missed + clicks
              = badge' + Cardinality(events') + missed' + clicks'
        BY <3>1, <3>3
      <4> QED BY <3>1, <3>2, <4>1 DEF NotUnder
    <3> QED BY <3>4, <3>5
  <2> QED BY <1>2, <1>13, <2>5, <2>6 DEF Balance
<1> QED BY <1>1, <1>2, <1>11, <1>12, <1>13 DEF BadgeInv

\* A call the user makes.
LEMMA SendKept ==
  ASSUME BadgeInv, ~crossed, NEW c \in Calls,
         NEW kind \in {"read", "all", "page"}, NEW id \in 0..MaxNotes, NEW fromTop \in BOOLEAN,
         Send(c, kind, id, fromTop),
         kind = "read" =>
           id \in DOMAIN notes /\ id \notin Unseen,
         UNCHANGED <<notes, connected, events, dropdown, badge, missed, doubled, crossed>>,
         \/ page' = page /\ pageOpen' = pageOpen
         \/ page' = <<>> /\ pageOpen' = TRUE,
         clicks' = IF kind = "read" /\ fromTop = TRUE THEN clicks + 1 ELSE clicks,
         asked' = asked + 1
  PROVE  BadgeInv'
<1>1. BadgeTypeOK /\ ShownTrue /\ Cardinality(HeaderIn(call)) <= clicks
      /\ (AllAnsweredIn(call) \/ Balance) /\ (\A d \in Calls : TopFits(call[d]))
  BY DEF BadgeInv
<1>2. PICK r : r = Request(kind, id, fromTop)
  OBVIOUS
<1>3. /\ r \in Call /\ r.kind = kind /\ r.id = id /\ r.header = fromTop
      /\ r.answered = FALSE /\ r.list = <<>>
  <2>1. kind \in Kinds
    BY DEF Kinds
  <2>2. /\ Request(kind, id, fromTop) \in Call /\ Request(kind, id, fromTop).kind = kind
        /\ Request(kind, id, fromTop).id = id /\ Request(kind, id, fromTop).header = fromTop
        /\ Request(kind, id, fromTop).answered = FALSE /\ Request(kind, id, fromTop).list = <<>>
    BY <2>1, BadgeAssumption DEF Request, Call
  <2> QED BY <1>2, <2>2
<1>4. call[c] = NoCall /\ call' = [call EXCEPT ![c] = r]
  BY <1>2 DEF Send
<1>5. /\ call' \in [Calls -> Call \cup {NoCall}] /\ call'[c] = r
      /\ \A d \in Calls \ {c} : call'[d] = call[d]
  <2>1. r \in Call \cup {NoCall}
    BY <1>3
  <2> QED BY <1>1, <1>4, <2>1, CallReplaced
<1>6. page' \in Seq(Entry) /\ (page' = page \/ DOMAIN page' = {})
  <2>1. page \in Seq(Entry) /\ <<>> \in Seq(Entry) /\ DOMAIN <<>> = {}
    BY <1>1 DEF BadgeTypeOK
  <2> QED BY <2>1
<1>7. BadgeTypeOK'
  <2>1. asked' \in Nat /\ clicks' \in Nat
    <3>1. asked \in Nat /\ clicks \in Nat
      BY <1>1, BadgeNumbers
    <3> QED BY <3>1
  <2>2. pageOpen' \in BOOLEAN
    BY <1>1 DEF BadgeTypeOK
  <2> QED BY <1>1, <1>5, <1>6, <2>1, <2>2 DEF BadgeTypeOK
<1>8. \A d \in Calls : TopFits(call'[d])
  BY <1>1, <1>3, <1>5 DEF TopFits
<1>9. ShownTrue'
  <2>1. RequestTrue(notes, r)
    BY <1>3 DEF RequestTrue, Current, ListTrue
  <2>2. \A d \in Calls : RequestTrue(notes, call'[d])
    BY <1>1, <1>5, <2>1 DEF ShownTrue
  <2>3. ListTrue(notes, page')
    BY <1>1, <1>6 DEF ShownTrue, ListTrue
  <2> QED BY <1>1, <2>2, <2>3 DEF ShownTrue
<1>10. call[c].kind = "none"
  BY <1>4 DEF NoCall
<1>11. /\ ~Marks(call[c]) /\ ~FromHeader(call[c]) /\ ~Marks(r)
       /\ FromHeader(r) <=> kind = "read" /\ fromTop = TRUE
  BY <1>3, <1>10 DEF Marks, FromHeader
<1>12. /\ Cardinality(MarkedIn(call')) =
            Cardinality(MarkedIn(call)) - One(Marks(call[c])) + One(Marks(r))
       /\ Cardinality(HeaderIn(call')) =
            Cardinality(HeaderIn(call)) - One(FromHeader(call[c])) + One(FromHeader(r))
  BY <1>5, OneCallChanged
<1>13. PICK o \in 0..1 : o = One(FromHeader(r)) /\ clicks' = clicks + o
  <2>1. clicks \in Nat
    BY <1>1, BadgeNumbers
  <2>2. CASE kind = "read" /\ fromTop = TRUE
    <3>1. One(FromHeader(r)) = 1
      BY <1>11, <2>2 DEF One
    <3> QED BY <2>2, <3>1
  <2>3. CASE ~(kind = "read" /\ fromTop = TRUE)
    <3>1. One(FromHeader(r)) = 0
      BY <1>11, <2>3 DEF One
    <3> QED BY <2>1, <2>3, <3>1
  <2> QED BY <2>2, <2>3
<1>14. /\ badge \in Nat /\ clicks \in Nat /\ missed \in Nat /\ doubled \in Nat /\ Unread \in Nat
       /\ Cardinality(events) \in Nat /\ notes \in Seq(BOOLEAN)
       /\ Cardinality(MarkedIn(call)) \in Nat /\ Cardinality(HeaderIn(call)) \in Nat
  BY <1>1, BadgeNumbers
<1>15. /\ Cardinality(MarkedIn(call')) = Cardinality(MarkedIn(call))
       /\ Cardinality(HeaderIn(call')) = Cardinality(HeaderIn(call)) + o
  <2>1. One(Marks(call[c])) = 0 /\ One(FromHeader(call[c])) = 0 /\ One(Marks(r)) = 0
    BY <1>11 DEF One
  <2> QED BY <1>12, <1>13, <1>14, <2>1
<1>16. Cardinality(HeaderIn(call')) <= clicks'
  BY <1>1, <1>13, <1>14, <1>15
<1>17. AllAnsweredIn(call) => AllAnsweredIn(call')
  BY <1>5, <1>10 DEF AllAnsweredIn
<1>18. CountAskedIn(call) => CountAskedIn(call')
  BY <1>5, <1>10 DEF CountAskedIn
<1>19. ASSUME Balance PROVE Balance'
  <2>1. /\ Cardinality(Unseen) \in Nat /\ Cardinality(Unseen') \in Nat
        /\ Cardinality(Unseen) <= Cardinality(Unseen')
    <3>1. Unseen \subseteq Unseen'
      <4>1. ASSUME NEW i \in Unseen, NEW d \in Calls, call'[d].kind = "read" PROVE call'[d].id # i
        <5>1. CASE d = c
          BY <1>3, <1>5, <4>1, <5>1
        <5>2. CASE d # c
          BY <1>5, <4>1, <5>2 DEF Unseen, UnseenIn
        <5> QED BY <5>1, <5>2
      <4>2. \A i : Absent(i, page) => Absent(i, page')
        BY <1>6 DEF Absent
      <4> QED BY <4>1, <4>2 DEF Unseen, UnseenIn
    <3>2. /\ IsFiniteSet(Unseen') /\ Cardinality(Unseen) \in Nat /\ Cardinality(Unseen') \in Nat
      BY <1>14, UnseenFewer DEF Unseen
    <3> QED BY <3>1, <3>2, FS_Subset
  <2>2. EventsCovered'
    BY <1>14, <1>19, <2>1 DEF Balance, EventsCovered
  <2>3. Unread' = Unread
    BY DEF Unread
  <2>4. NotOver' /\ (NotUnder => NotUnder')
    <3> DEFINE n == Unread + Cardinality(MarkedIn(call)) + Cardinality(HeaderIn(call))
               due == badge + Cardinality(events) + missed + clicks
    <3>1. n \in Nat /\ due \in Nat /\ (NotUnder <=> n <= due)
      BY <1>14 DEF NotUnder
    <3>2. /\ Unread' + Cardinality(MarkedIn(call')) + Cardinality(HeaderIn(call')) = n + o
          /\ badge' + Cardinality(events') + missed' + clicks' = due + o
      <4>1. badge' = badge /\ events' = events /\ missed' = missed
        OBVIOUS
      <4>2. Unread' + Cardinality(MarkedIn(call')) + Cardinality(HeaderIn(call')) = n + o
        BY <1>13, <1>14, <1>15, <2>3
      <4>3. badge' + Cardinality(events') + missed' + clicks' = due + o
        <5>1. badge' = badge /\ Cardinality(events') = Cardinality(events)
              /\ missed' = missed /\ clicks' = clicks + o
          BY <1>13, <4>1
        <5>2. badge + Cardinality(events) + missed + (clicks + o) = due + o
          BY <1>13, <1>14
        <5> QED BY <5>1, <5>2
      <4> QED BY <4>2, <4>3
    <3>3. NotOver'
      BY <1>15, <1>19, <2>3 DEF Balance, NotOver
    <3> HIDE DEF n, due
    <3>4. n <= due => n + o <= due + o
      BY <3>1
    <3> QED BY <3>1, <3>2, <3>3, <3>4 DEF NotUnder
  <2> QED BY <1>18, <1>19, <2>2, <2>4 DEF Balance
<1> QED BY <1>7, <1>8, <1>9, <1>16, <1>1, <1>17, <1>19 DEF BadgeInv

LEMMA ClickKept ==
  ASSUME BadgeInv, ~crossed, NEW c \in Calls,
         ClickInDropdown(c) \/ ClickOnPage(c) \/ ClickAll(c) \/ OpenPage(c)
  PROVE  BadgeInv'
<1>1. BadgeTypeOK /\ ShownTrue
  BY DEF BadgeInv
<1>2. ASSUME NEW list \in Seq(Entry), NEW k \in DOMAIN list,
             ListTrue(notes, list), list = dropdown \/ list = page
      PROVE  /\ list[k].id \in 0..MaxNotes /\ list[k].id \in DOMAIN notes
             /\ list[k].id \notin Unseen
  <2>1. list[k] \in Entry
    BY <1>2
  <2>2. list[k].id \in 0..MaxNotes
    BY <2>1, BadgeAssumption DEF Entry
  <2>3. ~Absent(list[k].id, list)
    BY DEF Absent
  <2> QED BY <1>2, <2>2, <2>3 DEF ListTrue, Unseen, UnseenIn
<1>3. dropdown \in Seq(Entry) /\ page \in Seq(Entry)
      /\ ListTrue(notes, dropdown) /\ ListTrue(notes, page)
  BY <1>1 DEF BadgeTypeOK, ShownTrue
<1>4. CASE ClickInDropdown(c)
  <2>1. PICK k \in DOMAIN dropdown : Send(c, "read", dropdown[k].id, TRUE)
    BY <1>4 DEF ClickInDropdown
  <2>2. PICK id : id = dropdown[k].id
    OBVIOUS
  <2>3. id \in 0..MaxNotes /\ id \in DOMAIN notes /\ id \notin Unseen
    BY <1>2, <1>3, <2>2
  <2>4. /\ UNCHANGED <<notes, connected, events, dropdown, badge, missed, doubled, crossed>>
        /\ page' = page /\ pageOpen' = pageOpen /\ clicks' = clicks + 1 /\ asked' = asked + 1
    BY <1>4 DEF ClickInDropdown
  <2>5. Send(c, "read", id, TRUE)
    BY <2>1, <2>2
  <2> QED BY <2>3, <2>4, <2>5, SendKept
<1>5. CASE ClickOnPage(c)
  <2>1. PICK k \in DOMAIN page : Send(c, "read", page[k].id, FALSE)
    BY <1>5 DEF ClickOnPage
  <2>2. PICK id : id = page[k].id
    OBVIOUS
  <2>3. id \in 0..MaxNotes /\ id \in DOMAIN notes /\ id \notin Unseen
    BY <1>2, <1>3, <2>2
  <2>4. /\ UNCHANGED <<notes, connected, events, dropdown, badge, missed, doubled, crossed>>
        /\ page' = page /\ pageOpen' = pageOpen /\ clicks' = clicks /\ asked' = asked + 1
    BY <1>5 DEF ClickOnPage
  <2>5. Send(c, "read", id, FALSE)
    BY <2>1, <2>2
  <2> QED BY <2>3, <2>4, <2>5, SendKept
<1>6. 0 \in 0..MaxNotes
  BY BadgeAssumption
<1>7. CASE ClickAll(c)
  <2>1. PICK b \in BOOLEAN : Send(c, "all", 0, b)
    BY <1>7 DEF ClickAll
  <2>2. /\ UNCHANGED <<notes, connected, events, dropdown, badge, missed, doubled, crossed>>
        /\ page' = page /\ pageOpen' = pageOpen /\ clicks' = clicks /\ asked' = asked + 1
    BY <1>7 DEF ClickAll
  <2> QED BY <1>6, <2>1, <2>2, SendKept
<1>8. CASE OpenPage(c)
  <2>1. /\ Send(c, "page", 0, FALSE)
        /\ UNCHANGED <<notes, connected, events, dropdown, badge, missed, doubled, crossed>>
        /\ page' = <<>> /\ pageOpen' = TRUE /\ clicks' = clicks /\ asked' = asked + 1
    BY <1>8 DEF OpenPage
  <2> QED BY <1>6, <2>1, SendKept
<1> QED BY <1>4, <1>5, <1>7, <1>8

LEMMA BadgeStarts == BadgeInit => BadgeInv
<1> SUFFICES ASSUME BadgeInit PROVE BadgeInv
  OBVIOUS
<1>1. /\ connected = {} /\ events = {} /\ doubled = 0 /\ dropdown = <<>> /\ badge = 0
      /\ page = <<>> /\ pageOpen = FALSE /\ asked = 0 /\ clicks = 0 /\ missed = 0 /\ crossed = FALSE
  BY DEF BadgeInit
<1>2. PICK n \in 0..MaxNotes : notes = [i \in 1..n |-> FALSE]
  BY DEF BadgeInit
<1>3. PICK c, d \in Calls :
        /\ c # d
        /\ call = [b \in Calls |-> CASE b = c -> Request("top", 0, TRUE)
                                     [] b = d -> Request("count", 0, TRUE)
                                     [] OTHER -> NoCall]
  BY DEF BadgeInit
<1>4. n \in Nat /\ n <= MaxNotes /\ notes \in Seq(BOOLEAN) /\ Len(notes) = n
  BY <1>2, BadgeAssumption
<1> DEFINE top == Request("top", 0, TRUE)
           count == Request("count", 0, TRUE)
<1>5. /\ top \in Call /\ top.kind = "top" /\ ~top.answered /\ top.list = <<>>
      /\ count \in Call /\ count.kind = "count" /\ ~count.answered
  <2>1. 0 \in 0..MaxNotes
    BY BadgeAssumption
  <2>2. "top" \in Kinds /\ "count" \in Kinds /\ TRUE \in BOOLEAN
    BY DEF Kinds
  <2>3. /\ top \in Call /\ top.kind = "top" /\ top.answered = FALSE /\ top.list = <<>>
        /\ count \in Call /\ count.kind = "count" /\ count.answered = FALSE
    BY <2>1, <2>2, RequestShape
  <2> QED BY <2>3
<1> HIDE DEF top, count
<1>6. \A b \in Calls : call[b] \in {top, count, NoCall}
  BY <1>3 DEF top, count
<1>7. call[d] = count
  BY <1>3 DEF count
<1>8. call \in [Calls -> Call \cup {NoCall}]
  <2>1. call = [b \in Calls |-> call[b]]
    BY <1>3
  <2> QED BY <1>5, <1>6, <2>1
<1>9. BadgeTypeOK
  <2>1. <<>> \in Seq(Entry) /\ Len(<<>>) = 0 /\ Shown \in Nat
    BY BadgeAssumption
  <2>2. /\ dropdown \in Seq(Entry) /\ Len(dropdown) <= Shown /\ page \in Seq(Entry)
        /\ connected \subseteq Lines /\ events \subseteq [line : Lines, id : DOMAIN notes]
    BY <1>1, <2>1
  <2>3. {pageOpen, crossed} \subseteq BOOLEAN
    BY <1>1
  <2>4. {badge, asked, clicks, missed, doubled} \subseteq Nat
    BY <1>1
  <2> QED BY <1>4, <1>8, <2>2, <2>3, <2>4 DEF BadgeTypeOK
<1>10. ASSUME NEW b \in Calls
       PROVE  /\ call[b].kind \in {"top", "count", "none"} /\ TopFits(call[b])
              /\ RequestTrue(notes, call[b])
  <2>1. call[b] = top \/ call[b] = count \/ call[b] = NoCall
    BY <1>6
  <2>2. Len(<<>>) <= Shown /\ ListTrue(notes, <<>>)
    BY BadgeAssumption DEF ListTrue
  <2>3. CASE call[b] = top
    BY <1>5, <2>2, <2>3 DEF TopFits, RequestTrue
  <2>4. CASE call[b] = count
    BY <1>5, <2>4 DEF TopFits, RequestTrue, Current
  <2>5. CASE call[b] = NoCall
    BY <2>5 DEF TopFits, RequestTrue, NoCall
  <2> QED BY <2>1, <2>3, <2>4, <2>5
<1>11. ShownTrue
  BY <1>1, <1>10 DEF ShownTrue, ListTrue
<1>12. MarkedIn(call) = {} /\ HeaderIn(call) = {} /\ CountAskedIn(call)
  BY <1>5, <1>7, <1>10 DEF MarkedIn, HeaderIn, CountAskedIn, Marks, FromHeader
<1>13. Cardinality(MarkedIn(call)) = 0 /\ Cardinality(HeaderIn(call)) = 0
  BY <1>12, FS_EmptySet
<1>14. EventsCovered
  <2>1. Cardinality(Unseen) \in Nat
    BY <1>4, UnseenFewer DEF Unseen
  <2> QED BY <1>1, <2>1, FS_EmptySet DEF EventsCovered
<1>15. NotOver
  <2>1. Cardinality(events) = 0 /\ Unread \in Nat
    BY <1>1, <1>9, BadgeNumbers, FS_EmptySet
  <2> QED BY <1>1, <1>13, <2>1 DEF NotOver
<1> QED BY <1>1, <1>9, <1>10, <1>11, <1>12, <1>13, <1>14, <1>15 DEF BadgeInv, Balance

LEMMA BadgeInvKept == BadgeInv /\ [BadgeNext]_badgeVars => BadgeInv'
<1> SUFFICES ASSUME BadgeInv, [BadgeNext]_badgeVars PROVE BadgeInv'
  OBVIOUS
<1>1. CASE UNCHANGED badgeVars
  <2>1. UNCHANGED <<notes, connected, events, call, dropdown, badge, page, pageOpen,
                    asked, clicks, missed, doubled, crossed>>
    BY <1>1 DEF badgeVars
  <2>2. BadgeTypeOK'
    BY <2>1 DEF BadgeInv, BadgeTypeOK
  <2>3. (ShownTrue <=> ShownTrue') /\ (Balance <=> Balance')
    BY <2>1 DEF ShownTrue, Balance, EventsCovered, Unseen, NotOver, NotUnder, Unread
  <2> QED BY <2>1, <2>2, <2>3 DEF BadgeInv
<1>2. CASE BadgeNext
  <2>1. ~crossed
    BY <1>2 DEF BadgeNext
  <2>2. CASE \/ Create \/ ClosePage
              \/ \E s \in Lines : LoseSocket(s) \/ RegainSocket(s) \/ DeliverEvent(s)
    BY <2>1, <2>2, CreateKept, SocketAndPageKept, DeliverEventKept
  <2>3. ASSUME NEW c \in Calls,
               \/ AnswerQuery(c) \/ AnswerMark(c)
               \/ DeliverQuery(c) \/ DeliverRead(c) \/ DeliverAll(c)
               \/ LoseAnswer(c)
        PROVE  BadgeInv'
    BY <2>1, <2>3, AnswerQueryKept, AnswerMarkKept, DeliverQueryKept, DeliverReadKept,
       DeliverAllKept, LoseAnswerKept
  <2>4. ASSUME NEW c \in Calls,
               ClickInDropdown(c) \/ ClickOnPage(c) \/ ClickAll(c) \/ OpenPage(c)
        PROVE  BadgeInv'
    BY <2>1, <2>4, ClickKept
  <2> QED BY <1>2, <2>2, <2>3, <2>4 DEF BadgeNext
<1> QED BY <1>1, <1>2

\* What the dropdown or the page shows as read was read, as long as no answer
\* has been overtaken or lost: an answer that nothing has made out of date
\* tells what the table says, and a row that was read stays so.
THEOREM ReadAsShown == BadgeSpec => []ShownReadWasRead
<1>1. BadgeInv => ShownReadWasRead
  BY DEF BadgeInv, ShownTrue, ListTrue, ShownReadWasRead
<1> QED BY <1>1, BadgeStarts, BadgeInvKept, PTL DEF BadgeSpec

\* With nothing on its way the badge promises no more than there is to read
\* and one for each copy of an event sent to a second socket, and falls short
\* by at most one for each click in the dropdown and each event or copy lost:
\* what is on its way makes up for the difference in between.
THEOREM BadgeTold == BadgeSpec => []BadgeWithinClicks
<1>1. BadgeInv => BadgeWithinClicks
  <2> SUFFICES ASSUME BadgeInv, Quiet, ~crossed
               PROVE  badge <= Unread + doubled /\ Unread <= badge + clicks + missed
    BY DEF BadgeWithinClicks
  <2>1. events = {} /\ \A c \in Calls : call[c].kind = "none"
    BY DEF Quiet, NoCall
  <2>2. /\ MarkedIn(call) = {} /\ HeaderIn(call) = {} /\ ~AllAnsweredIn(call)
        /\ ~CountAskedIn(call)
    BY <2>1 DEF MarkedIn, HeaderIn, AllAnsweredIn, CountAskedIn, Marks, FromHeader
  <2>3. Cardinality(MarkedIn(call)) = 0 /\ Cardinality(HeaderIn(call)) = 0 /\ Cardinality(events) = 0
    BY <2>1, <2>2, FS_EmptySet
  <2>4. badge \in Nat /\ clicks \in Nat /\ missed \in Nat /\ doubled \in Nat /\ Unread \in Nat
    BY BadgeNumbers DEF BadgeInv
  <2>5. NotOver /\ NotUnder
    BY <2>2 DEF BadgeInv, Balance
  <2> QED BY <2>3, <2>4, <2>5 DEF NotOver, NotUnder
<1> QED BY <1>1, BadgeStarts, BadgeInvKept, PTL DEF BadgeSpec

=============================================================================
