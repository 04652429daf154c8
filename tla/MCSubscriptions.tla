-------------------------- MODULE MCSubscriptions --------------------------
(***************************************************************************)
(* Small instances of Subscriptions for TLC.                               *)
(***************************************************************************)
EXTENDS Subscriptions, TLC

\* handlers, subscription ids and plans are interchangeable
Symmetry == Permutations(Handlers) \cup Permutations(Sids)
            \cup Permutations(Plans)

=============================================================================
