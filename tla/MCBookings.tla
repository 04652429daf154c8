----------------------------- MODULE MCBookings -----------------------------
(***************************************************************************)
(* Small instances of Bookings for TLC.                                    *)
(***************************************************************************)
EXTENDS Bookings, TLC

\* handlers and ids are interchangeable
Symmetry == Permutations(Handlers) \cup Permutations(BookingIds)

=============================================================================
