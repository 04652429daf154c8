--------------------------- MODULE MCSurroundings ---------------------------
(* Values for the constants of Surroundings. *)
EXTENDS Surroundings, TLC

Symmetry == Permutations(Calls) \cup Permutations(Lines)

\* No password, and those that lack at most two kinds of characters.
SomePasswords == {{}} \cup {CharKinds \ {j, k} : j, k \in CharKinds}

\* The server in UTC; behind it; ahead, with the clock put forward or back.
SomeZones ==
  {[before |-> pair[1], after |-> pair[2]] :
     pair \in {<<0, 0>>, <<-1, -1>>, <<1, 2>>, <<2, 1>>, <<-2, -1>>}}

\* No permission; one without the one its page needs; some of a client's.
SomePermissions == {{}, {"MANAGE_SERVICES"}, {"CREATE_BOOKING", "VIEW_BOOKINGS", "VIEW_USERS"}}

=============================================================================
