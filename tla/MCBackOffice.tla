---------------------------- MODULE MCBackOffice ----------------------------
(***************************************************************************)
(* Small instances of BackOffice for TLC.                                  *)
(***************************************************************************)
EXTENDS BackOffice, TLC

\* requests are interchangeable
Symmetry == Permutations(Handlers)

=============================================================================
