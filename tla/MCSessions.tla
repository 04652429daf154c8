----------------------------- MODULE MCSessions -----------------------------
(***************************************************************************)
(* Small instances of Sessions for TLC.                                    *)
(***************************************************************************)
EXTENDS Sessions, TLC

\* executions are interchangeable, and so are addresses
Symmetry == Permutations(Handlers) \cup Permutations(Addresses)

=============================================================================
