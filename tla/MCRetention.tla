---------------------------- MODULE MCRetention -----------------------------
(***************************************************************************)
(* Small instances of Retention for TLC.                                   *)
(***************************************************************************)
EXTENDS Retention, TLC

\* Worker threads differ only in name, and so do request threads.
Symmetry == Permutations(Workers) \cup Permutations(Clients)

=============================================================================
