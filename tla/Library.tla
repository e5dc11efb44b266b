------------------------------ MODULE Library -------------------------------
(***************************************************************************)
(* What the table of jobs and the directory of outputs promise each other, *)
(* seen from outside: by a user who looks for a file, or by a backup that  *)
(* copies the two one after the other.  Every item goes its own way.       *)
(***************************************************************************)

CONSTANT Items   \* jobs

VARIABLE life    \* per item: its row, its final file, and whether it is being removed

\* An open row is any that is neither completed nor expired.
ItemRows == {"none", "open", "completed", "expired", "gone"}
Lives == [row : ItemRows, file : BOOLEAN, leaving : BOOLEAN]

Without(row) == [row |-> row, file |-> FALSE, leaving |-> FALSE]

LibraryInit == life = [i \in Items |-> Without("none")]

\* The steps of one item, from a to b.
Begun(a, b) == a = Without("none") /\ b = Without("open")

\* A run publishes a file, or an old one is removed.
WorkedOn(a, b) == a.row = "open" /\ b = [a EXCEPT !.file = ~@]

\* Only a row whose file is there says completed.
Finished(a, b) == a.row = "open" /\ a.file /\ b = [a EXCEPT !.row = "completed"]

\* A pause decided on what the row said before it was completed.
Overwritten(a, b) == a.row = "completed" /\ b = [a EXCEPT !.row = "open", !.leaving = FALSE]

\* Somebody decides to remove a completed item, and does so, or leaves it after all.
Condemned(a, b) == a.row = "completed" /\ b = [a EXCEPT !.leaving = TRUE]
Spared(a, b) == a.row = "completed" /\ a.file /\ b = [a EXCEPT !.leaving = FALSE]
Removed(a, b) == a.row = "completed" /\ a.leaving /\ b = [a EXCEPT !.file = FALSE]

MayGo(a) == ~a.file /\ (a.row = "completed" => a.leaving)

\* The row is settled last, and once deleted it never comes back.
Expired(a, b) == a.row = "completed" /\ MayGo(a) /\ b = Without("expired")
Dropped(a, b) ==
    a.row \in {"open", "completed", "expired"} /\ MayGo(a) /\ b = Without("gone")

Goes(a, b) ==
    \/ Begun(a, b) \/ WorkedOn(a, b) \/ Finished(a, b) \/ Overwritten(a, b)
    \/ Condemned(a, b) \/ Spared(a, b) \/ Removed(a, b)
    \/ Expired(a, b) \/ Dropped(a, b)

\* One transaction may concern several items.
LibraryNext ==
    /\ life' \in [Items -> Lives]
    /\ \A i \in Items : life'[i] = life[i] \/ Goes(life[i], life'[i])

LibrarySpec == LibraryInit /\ [][LibraryNext]_life

=============================================================================
