------------------------------ MODULE Calendar ------------------------------
(***************************************************************************)
(* What the bookings module promises, with every request a single step: a  *)
(* slot is given out once, a cancelled or completed booking no longer      *)
(* changes, and a removed one stays removed.                               *)
(*                                                                         *)
(* The promise is void for a service once two requests on it have worked   *)
(* at the same time: the service is then lost, and so are its entries.     *)
(***************************************************************************)
EXTENDS Integers

CONSTANTS BookingIds, Services, Users, NONE, LOST

Status == {"PENDING", "CONFIRMED", "CANCELLED", "COMPLETED", "NO_SHOW"}

Entry == [owner: Users, service: Services, start: Nat, end: Nat,
          status: Status, deleted: BOOLEAN]

VARIABLES entries, lost

vars == <<entries, lost>>

Known(b) == entries[b] \notin {NONE, LOST}

Live(r) == ~r.deleted /\ r.status # "CANCELLED"

Overlap(r, q) == r.service = q.service /\ r.start < q.end /\ q.start < r.end

\* no other entry occupies the slot of r
Free(b, r) ==
  \A a \in BookingIds \ {b} :
    Known(a) /\ Live(entries[a]) => ~Overlap(entries[a], r)

Init ==
  /\ entries = [b \in BookingIds |-> NONE]
  /\ lost = {}

\* b becomes some entry, and nothing else changes
Rewrite(b) ==
  /\ entries'[b] \in Entry
  /\ entries' = [entries EXCEPT ![b] = entries'[b]]
  /\ UNCHANGED lost

Book(b) ==
  /\ entries[b] = NONE
  /\ Rewrite(b)
  /\ LET r == entries'[b]
     IN  /\ r.service \notin lost
         /\ r.status = "PENDING" /\ ~r.deleted
         /\ Free(b, r)

\* move an open booking to a free slot, give it another status, or both
Change(b) ==
  /\ Known(b)
  /\ ~entries[b].deleted
  /\ entries[b].status \notin {"CANCELLED", "COMPLETED"}
  /\ Rewrite(b)
  /\ LET r == entries'[b]
     IN  /\ ~r.deleted
         /\ r.owner = entries[b].owner /\ r.service = entries[b].service
         /\ \/ r.start = entries[b].start /\ r.end = entries[b].end
            \/ Free(b, r)

Remove(b) ==
  /\ Known(b)
  /\ ~entries[b].deleted
  /\ entries' = [entries EXCEPT ![b].deleted = TRUE]
  /\ UNCHANGED lost

\* two requests on s at once: from here on nothing is promised for s
Lose(s) ==
  /\ lost' = lost \cup {s}
  /\ entries' = [b \in BookingIds |->
                   IF Known(b) /\ entries[b].service = s THEN LOST
                   ELSE entries[b]]

BookLost(b) ==
  /\ lost # {}
  /\ entries[b] = NONE
  /\ entries' = [entries EXCEPT ![b] = LOST]
  /\ UNCHANGED lost

Next ==
  \/ \E b \in BookingIds : Book(b) \/ Change(b) \/ Remove(b) \/ BookLost(b)
  \/ \E s \in Services : Lose(s)

Spec == Init /\ [][Next]_vars

=============================================================================
