---------------------------- MODULE MCPlaylists -----------------------------
(***************************************************************************)
(* Small instances of Playlists for TLC.                                   *)
(***************************************************************************)
EXTENDS Playlists, TLC

\* Threads differ only in name, and so do the media a search may find.
Symmetry == Permutations(Users) \cup Permutations(Media)

=============================================================================
