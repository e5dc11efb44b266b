---------------------------- MODULE MCJobSystem -----------------------------
(***************************************************************************)
(* Small instances of JobSystem for TLC.                                   *)
(***************************************************************************)
EXTENDS JobSystem, TLC

\* Worker threads differ only in name, and so do request threads.
Symmetry == Permutations(Workers) \cup Permutations(Clients)

=============================================================================
