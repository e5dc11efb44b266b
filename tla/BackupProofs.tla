---------------------------- MODULE BackupProofs ----------------------------
(***************************************************************************)
(* Theorems about Backup, for any set of items: the types of its state,    *)
(* that an archive serves every job its database calls completed, that a   *)
(* restore is whole, and that the library survives both.                   *)
(***************************************************************************)
EXTENDS Backup, TLAPS

-----------------------------------------------------------------------------
(* Types *)

LEMMA Constants ==
  /\ NoRows \in [Items -> ItemRows]
  /\ NoCopy \in [database : BOOLEAN, rows : [Items -> ItemRows]]
  /\ NoCopy.rows = NoRows /\ NoCopy.database = FALSE
  /\ \A i \in Items : NoRows[i] = "none"
  BY DEF NoRows, NoCopy, ItemRows

LEMMA NewLives ==
  ASSUME life \in [Items -> Lives]
  PROVE  /\ Rows \in [Items -> ItemRows]
         /\ \A i \in Items : Rows[i] = life[i].row
         /\ FilesThere \subseteq Items
         /\ \A i \in Items : i \in FilesThere <=> life[i].file
         /\ [i \in Items |-> [life[i] EXCEPT !.leaving = FALSE]] \in [Items -> Lives]
         /\ \A rows \in [Items -> ItemRows] : WithRows(rows) \in [Items -> Lives]
         /\ \A i \in Items, there \in BOOLEAN : WithFile(i, there) \in [Items -> Lives]
  <1>1. Rows \in [Items -> ItemRows] /\ \A i \in Items : Rows[i] = life[i].row
    BY DEF Rows, Lives
  <1>2. FilesThere \subseteq Items /\ \A i \in Items : i \in FilesThere <=> life[i].file
    BY DEF FilesThere
  <1>3. \A i \in Items : [life[i] EXCEPT !.leaving = FALSE] \in Lives
    BY DEF Lives
  <1>4. ASSUME NEW rows \in [Items -> ItemRows], NEW i \in Items
        PROVE  [life[i] EXCEPT !.row = rows[i]] \in Lives
    BY DEF Lives
  <1>5. \A i \in Items, there \in BOOLEAN : [life[i] EXCEPT !.file = there] \in Lives
    BY DEF Lives
  <1>6. \A rows \in [Items -> ItemRows] : WithRows(rows) \in [Items -> Lives]
    BY <1>4 DEF WithRows
  <1>7. \A i \in Items, there \in BOOLEAN : WithFile(i, there) \in [Items -> Lives]
    BY <1>5 DEF WithFile
  <1> QED BY <1>1, <1>2, <1>3, <1>6, <1>7

LEMMA NewArchives ==
  ASSUME NEW copy \in [database : BOOLEAN, rows : [Items -> ItemRows]],
         NEW files \in SUBSET Items, NEW gone \in SUBSET Items
  PROVE  [is |-> "whole", copy |-> copy, files |-> files, dropped |-> gone] \in WholeArchives
  BY DEF WholeArchives

LEMMA WholeArchivesAre ==
  ASSUME NEW a \in WholeArchives
  PROVE  /\ a.is = "whole"
         /\ a.copy.database \in BOOLEAN
         /\ a.copy.rows \in [Items -> ItemRows]
         /\ a.files \in SUBSET Items
         /\ a.dropped \in SUBSET Items
  BY DEF WholeArchives

\* A restore works on an archive, and unpacks only one that is whole.
ArchiveThere ==
    /\ script \in Stopped => archive # NoArchive
    /\ script \in {"remove", "restore"} => archive \in WholeArchives

TypeInv == BackupTypeOK /\ ArchiveThere

LEMMA InitTypes == BackupInit => TypeInv
  <1> SUFFICES ASSUME BackupInit PROVE TypeInv
    OBVIOUS
  <1>1. life \in [Items -> Lives]
    BY DEF BackupInit, LibraryInit, Without, Lives, ItemRows
  <1> QED BY <1>1, Constants DEF BackupInit, TypeInv, BackupTypeOK, ArchiveThere, Steps, Stopped

LEMMA ServerTypes ==
  ASSUME TypeInv, ServerStep
  PROVE  TypeInv'
  <1>1. life' \in [Items -> Lives] /\ dropped' \subseteq Items
    BY DEF ServerStep, LibraryNext, TypeInv, BackupTypeOK
  <1> QED BY <1>1 DEF ServerStep, TypeInv, BackupTypeOK, ArchiveThere

LEMMA CreateTypes ==
  ASSUME TypeInv
  PROVE  /\ NewDatabase => TypeInv'
         /\ Snapshot => TypeInv'
         /\ ListOutputs => TypeInv'
         /\ \A i \in Items : CopyItem(i) => TypeInv'
         /\ WriteArchive => TypeInv'
  <1> USE DEF TypeInv, BackupTypeOK, ArchiveThere, Steps, Stopped
  <1>1. NewDatabase => TypeInv'
    BY DEF NewDatabase, payload
  <1>2. Snapshot => TypeInv'
    BY NewLives DEF Snapshot
  <1>3. ListOutputs => TypeInv'
    BY NewLives DEF ListOutputs
  <1>4. ASSUME NEW i \in Items, CopyItem(i) PROVE TypeInv'
    BY <1>4 DEF CopyItem
  <1>5. WriteArchive => TypeInv'
    BY DEF WriteArchive, payload
  <1> QED BY <1>1, <1>2, <1>3, <1>4, <1>5

LEMMA EndTypes ==
  ASSUME TypeInv, ScriptEnds, life' = life, database' = database,
         archive' \in {NoArchive, TornArchive} \cup WholeArchives, excused' \subseteq Items
  PROVE  TypeInv'
  BY Constants DEF TypeInv, BackupTypeOK, ArchiveThere, Steps, Stopped, ScriptEnds

LEMMA WriteEndsTypes ==
  ASSUME TypeInv, WriteEnds \/ WriteIsCut
  PROVE  /\ TypeInv' /\ ScriptEnds
         /\ life' = life /\ database' = database /\ excused' = excused
         /\ archive' \in WholeArchives
         /\ archive'.dropped = dropped
         /\ \/ archive'.copy = saved /\ archive'.files = copied
            \/ archive'.copy = NoCopy
  <1>1. saved \in [database : BOOLEAN, rows : [Items -> ItemRows]]
        /\ copied \in SUBSET Items /\ dropped \in SUBSET Items /\ excused \subseteq Items
    BY DEF TypeInv, BackupTypeOK
  <1>2. CASE WriteEnds
    <2>1. archive' = [is |-> "whole", copy |-> saved, files |-> copied, dropped |-> dropped]
      BY <1>2 DEF WriteEnds, Copy
    <2>2. archive' \in WholeArchives
      BY <2>1, <1>1, NewArchives
    <2> QED BY <1>1, <1>2, <2>1, <2>2, EndTypes DEF WriteEnds
  <1>3. CASE WriteIsCut
    <2>1. PICK files \in SUBSET copied :
             archive' = [is |-> "whole", copy |-> NoCopy, files |-> files, dropped |-> dropped]
      BY <1>3 DEF WriteIsCut, CopyInCut
    <2>2. archive' \in WholeArchives
      BY <2>1, <1>1, NewArchives, Constants
    <2> QED BY <1>1, <1>3, <2>1, <2>2, EndTypes DEF WriteIsCut
  <1> QED BY <1>2, <1>3

LEMMA RestoreTypes ==
  ASSUME TypeInv
  PROVE  /\ Restore => TypeInv'
         /\ Extract => TypeInv'
         /\ CopyBack => TypeInv'
         /\ \A piece \in Items \cup {TheDatabase} : RemovePiece(piece) => TypeInv'
         /\ \A piece \in Items \cup {TheDatabase} : RestorePiece(piece) => TypeInv'
  <1> USE DEF TypeInv, BackupTypeOK, ArchiveThere, Steps, Stopped
  <1>1. Restore => TypeInv'
    BY NewLives DEF Restore, payload
  <1>2. Extract => TypeInv'
    BY NewLives DEF Extract, Replaced, payload
  <1>3. ASSUME CopyBack PROVE TypeInv'
    <2>1. archive.files \subseteq Items
      BY <1>3, WholeArchivesAre DEF CopyBack
    <2> QED BY <1>3, <2>1 DEF CopyBack, payload
  <1>4. ASSUME NEW piece \in Items \cup {TheDatabase}, RemovePiece(piece) PROVE TypeInv'
    <2>1. life' \in [Items -> Lives] /\ database' \in BOOLEAN
      BY <1>4, NewLives, Constants DEF RemovePiece
    <2> QED BY <1>4, <2>1 DEF RemovePiece, payload
  <1>5. ASSUME NEW piece \in Items \cup {TheDatabase}, RestorePiece(piece) PROVE TypeInv'
    <2>1. archive.copy.rows \in [Items -> ItemRows]
      BY <1>5, WholeArchivesAre DEF RestorePiece
    <2>2. life' \in [Items -> Lives] /\ database' \in BOOLEAN
      BY <1>5, <2>1, NewLives DEF RestorePiece
    <2> QED BY <1>5, <2>2 DEF RestorePiece, payload
  <1> QED BY <1>1, <1>2, <1>3, <1>4, <1>5

LEMMA StopTypes ==
  ASSUME TypeInv
  PROVE  /\ CopyFails => TypeInv'
         /\ ExtractFails => TypeInv'
         /\ RestoreEnds => TypeInv'
         /\ Interrupt => TypeInv'
  <1>0. archive \in {NoArchive, TornArchive} \cup WholeArchives /\ excused \subseteq Items
    BY DEF TypeInv, BackupTypeOK
  <1>1. CopyFails => TypeInv'
    BY <1>0, EndTypes DEF CopyFails
  <1>2. ExtractFails => TypeInv'
    BY <1>0, EndTypes DEF ExtractFails
  <1>3. ASSUME RestoreEnds PROVE TypeInv'
    <2>1. archive.dropped \in SUBSET Items
      BY <1>3, WholeArchivesAre DEF RestoreEnds, TypeInv, ArchiveThere
    <2> QED BY <1>0, <1>3, <2>1, EndTypes DEF RestoreEnds
  <1>4. Interrupt => TypeInv'
    BY <1>0, EndTypes DEF Interrupt
  <1> QED BY <1>1, <1>2, <1>3, <1>4

LEMMA NextTypes == TypeInv /\ [BackupNext]_backupVars => TypeInv'
  <1> SUFFICES ASSUME TypeInv, [BackupNext]_backupVars PROVE TypeInv'
    OBVIOUS
  <1>1. CASE UNCHANGED backupVars
    BY <1>1 DEF backupVars, payload, TypeInv, BackupTypeOK, ArchiveThere
  <1>2. CASE BackupNext
    BY <1>2, ServerTypes, CreateTypes, WriteEndsTypes, RestoreTypes, StopTypes DEF BackupNext
  <1> QED BY <1>1, <1>2

\* The state of the scripts is of its type (BackupTypeOK), whatever the jobs.
THEOREM BackupTypeCorrect == BackupSpec => []BackupTypeOK
  <1>1. TypeInv => BackupTypeOK
    BY DEF TypeInv
  <1> QED BY <1>1, InitTypes, NextTypes, PTL DEF BackupSpec

LEMMA TypesAlways == BackupSpec => []TypeInv
  BY InitTypes, NextTypes, PTL DEF BackupSpec

-----------------------------------------------------------------------------
(* What the copy, the archive and the storage hold *)

\* What the copy of the database calls completed is copied, given up meanwhile, or still
\* to be copied and there.
ToBeCopied(i) == script = "list" \/ (script = "copy" /\ i \in listed)
ItemCopied(i) ==
    saved.rows[i] = "completed" =>
        \/ i \in dropped \/ i \in copied
        \/ Settled(life[i]) /\ life[i].file /\ ToBeCopied(i)

CopySound ==
    script \in {"list", "copy", "write"} => \A i \in Items : ItemCopied(i)

\* Without a database there are no rows, in the storage, in the copy and in the archive.
RowsInDatabase ==
    /\ ~database => \A i \in Items : life[i].row = "none"
    /\ ~saved.database => \A i \in Items : saved.rows[i] = "none"
    /\ archive.is = "whole" /\ ~archive.copy.database =>
          \A i \in Items : archive.copy.rows[i] = "none"

\* While a restore removes, what is there is still to be removed.
RemoveSound ==
    script = "remove" =>
        /\ database => TheDatabase \in pieces
        /\ \A i \in Items : life[i].file => i \in pieces

\* While it copies back, what is there is what the archive holds and is not to be copied.
RestoreSound ==
    script = "restore" =>
        /\ pieces \subseteq archive.files \cup {TheDatabase}
        /\ TheDatabase \in pieces => archive.copy.database
        /\ database <=> archive.copy.database /\ TheDatabase \notin pieces
        /\ \A i \in Items : life[i].file <=> i \in archive.files \ pieces
        /\ database => \A i \in Items : life[i].row = archive.copy.rows[i]

BackupInv ==
    TypeInv /\ CopySound /\ RowsInDatabase /\ ArchiveServes
    /\ RemoveSound /\ RestoreSound /\ LibraryKept

LEMMA InitInv == BackupInit => BackupInv
  <1> SUFFICES ASSUME BackupInit PROVE BackupInv
    OBVIOUS
  <1>1. \A i \in Items : life[i].row = "none"
    BY DEF BackupInit, LibraryInit, Without
  <1>2. RowsInDatabase
    BY <1>1, Constants DEF BackupInit, RowsInDatabase, NoArchive
  <1>3. LibraryKept
    BY <1>1 DEF LibraryKept
  <1>4. ArchiveServes /\ CopySound /\ RemoveSound /\ RestoreSound
    BY DEF BackupInit, ArchiveServes, NoArchive, CopySound, RemoveSound, RestoreSound
  <1> QED BY <1>2, <1>3, <1>4, InitTypes DEF BackupInv

\* A file that nobody is about to remove stays as long as that is so, and a job is
\* completed only with its file.
LEMMA ItemSteps ==
  ASSUME NEW a \in Lives, NEW b \in Lives, b = a \/ Goes(a, b)
  PROVE  /\ Settled(a) /\ a.file /\ Settled(b) => b.file
         /\ b.row = "completed" =>
               b.file \/ b.leaving \/ (a.row = "completed" /\ ~a.file /\ ~a.leaving)
  <1>1. CASE b = a
    BY <1>1
  <1>2. CASE Begun(a, b)
    BY <1>2 DEF Begun, Without, Settled
  <1>3. CASE WorkedOn(a, b)
    BY <1>3 DEF WorkedOn, Lives, Settled
  <1>4. CASE Finished(a, b)
    BY <1>4 DEF Finished, Lives
  <1>5. CASE Overwritten(a, b)
    BY <1>5 DEF Overwritten, Lives, Settled
  <1>6. CASE Condemned(a, b) \/ Spared(a, b) \/ Removed(a, b)
    BY <1>6 DEF Condemned, Spared, Removed, Lives, Settled
  <1>7. CASE Expired(a, b) \/ Dropped(a, b)
    BY <1>7 DEF Expired, Dropped, Without, Settled
  <1> QED BY <1>1, <1>2, <1>3, <1>4, <1>5, <1>6, <1>7 DEF Goes

\* The steps of the server.
LEMMA ServerKeeps ==
  ASSUME BackupInv, ServerStep
  PROVE  BackupInv'
  <1>1. TypeInv'
    BY ServerTypes DEF BackupInv
  <1>2. ASSUME NEW i \in Items
        PROVE  /\ life[i] \in Lives /\ life'[i] \in Lives
               /\ life'[i] = life[i] \/ Goes(life[i], life'[i])
    BY DEF ServerStep, LibraryNext, BackupInv, TypeInv, BackupTypeOK
  <1>3. CopySound'
    <2> SUFFICES ASSUME script' \in {"list", "copy", "write"}, NEW i \in Items,
                        saved'.rows[i] = "completed"
                 PROVE  ItemCopied(i)'
      BY DEF CopySound, ItemCopied
    <2>1. script # "off" /\ UNCHANGED <<script, saved, listed, copied>>
      BY DEF ServerStep
    <2>2. i \in dropped => i \in dropped'
      BY <2>1 DEF ServerStep
    <2>3. Settled(life[i]) /\ ~Settled(life'[i]) => i \in dropped'
      BY <2>1 DEF ServerStep
    <2>4. Settled(life[i]) /\ life[i].file /\ Settled(life'[i]) => life'[i].file
      BY <1>2, ItemSteps
    <2>5. ItemCopied(i)
      BY <2>1 DEF BackupInv, CopySound
    <2> QED BY <2>1, <2>2, <2>3, <2>4, <2>5 DEF ItemCopied, ToBeCopied
  <1>4. LibraryKept'
    <2> SUFFICES ASSUME NEW i \in Items, life'[i].row = "completed"
                 PROVE  life'[i].file \/ life'[i].leaving \/ i \in excused'
      BY DEF LibraryKept
    <2>1. script \notin {"remove", "restore"} /\ excused' = excused
      BY DEF ServerStep, Stopped
    <2>2. life[i].row = "completed" => life[i].file \/ life[i].leaving \/ i \in excused
      BY <2>1 DEF BackupInv, LibraryKept
    <2> QED BY <1>2, <2>1, <2>2, ItemSteps
  <1>5. RowsInDatabase' /\ ArchiveServes' /\ RemoveSound' /\ RestoreSound'
    BY DEF BackupInv, ServerStep, Stopped, RowsInDatabase, ArchiveServes,
           RemoveSound, RestoreSound
  <1> QED BY <1>1, <1>3, <1>4, <1>5 DEF BackupInv

-----------------------------------------------------------------------------
(* The steps of create *)

LEMMA SnapshotKeeps ==
  ASSUME BackupInv, Snapshot
  PROVE  BackupInv'
  <1>1. TypeInv'
    BY CreateTypes DEF BackupInv
  <1>2. \A i \in Items : saved'.rows[i] = life[i].row
    BY NewLives DEF Snapshot, BackupInv, TypeInv, BackupTypeOK
  <1>3. CopySound'
    <2> SUFFICES ASSUME NEW i \in Items, saved'.rows[i] = "completed"
                 PROVE  ItemCopied(i)'
      BY DEF CopySound, ItemCopied
    <2>1. life[i].row = "completed" /\ life' = life /\ script' = "list"
      BY <1>2 DEF Snapshot
    <2>2. life[i].file \/ life[i].leaving \/ i \in excused
      BY <2>1 DEF BackupInv, LibraryKept, Snapshot
    <2>3. life[i].leaving \/ i \in excused => i \in dropped'
      BY DEF Snapshot
    <2> QED BY <2>1, <2>2, <2>3 DEF ItemCopied, ToBeCopied, Settled
  <1>4. RowsInDatabase'
    BY <1>2 DEF Snapshot, BackupInv, RowsInDatabase
  <1>5. ArchiveServes' /\ RemoveSound' /\ RestoreSound' /\ LibraryKept'
    BY DEF Snapshot, BackupInv, ArchiveServes, RemoveSound, RestoreSound, LibraryKept
  <1> QED BY <1>1, <1>3, <1>4, <1>5 DEF BackupInv

LEMMA ListKeeps ==
  ASSUME BackupInv, ListOutputs
  PROVE  BackupInv'
  <1>1. TypeInv'
    BY CreateTypes DEF BackupInv
  <1>2. CopySound'
    <2> SUFFICES ASSUME NEW i \in Items PROVE ItemCopied(i)'
      BY DEF CopySound
    <2>1. script = "list" /\ script' = "copy" /\ UNCHANGED <<life, saved, copied, dropped>>
      BY DEF ListOutputs
    <2>2. life[i].file => i \in listed'
      BY DEF ListOutputs, FilesThere
    <2>3. ItemCopied(i)
      BY <2>1 DEF BackupInv, CopySound
    <2> QED BY <2>1, <2>2, <2>3 DEF ItemCopied, ToBeCopied
  <1>3. RowsInDatabase' /\ ArchiveServes' /\ RemoveSound' /\ RestoreSound' /\ LibraryKept'
    BY DEF ListOutputs, BackupInv, RowsInDatabase, ArchiveServes, RemoveSound,
           RestoreSound, LibraryKept
  <1> QED BY <1>1, <1>2, <1>3 DEF BackupInv

LEMMA CopyKeeps ==
  ASSUME BackupInv, NEW j \in Items, CopyItem(j)
  PROVE  BackupInv'
  <1>1. TypeInv'
    BY CreateTypes DEF BackupInv
  <1>2. CopySound'
    <2> SUFFICES ASSUME NEW i \in Items PROVE ItemCopied(i)'
      BY DEF CopySound
    <2>1. script = "copy" /\ listed' = listed \ {j} /\ UNCHANGED <<script, life, saved, dropped>>
      BY DEF CopyItem
    <2>2. copied \subseteq copied' /\ (life[j].file => j \in copied')
      BY DEF CopyItem
    <2>3. ItemCopied(i)
      BY <2>1 DEF BackupInv, CopySound
    <2> QED BY <2>1, <2>2, <2>3 DEF ItemCopied, ToBeCopied
  <1>3. RowsInDatabase' /\ ArchiveServes' /\ RemoveSound' /\ RestoreSound' /\ LibraryKept'
    BY DEF CopyItem, BackupInv, RowsInDatabase, ArchiveServes, RemoveSound,
           RestoreSound, LibraryKept
  <1> QED BY <1>1, <1>2, <1>3 DEF BackupInv

LEMMA WriteKeeps ==
  ASSUME BackupInv, WriteArchive
  PROVE  BackupInv'
  <1>1. TypeInv'
    BY CreateTypes DEF BackupInv
  <1>2. CopySound'
    <2> SUFFICES ASSUME NEW i \in Items PROVE ItemCopied(i)'
      BY DEF CopySound
    <2>1. script = "copy" /\ listed = {} /\ UNCHANGED <<life, saved, copied, dropped>>
      BY DEF WriteArchive, payload
    <2>2. ItemCopied(i)
      BY <2>1 DEF BackupInv, CopySound
    <2> QED BY <2>1, <2>2 DEF ItemCopied, ToBeCopied
  <1>3. RowsInDatabase' /\ ArchiveServes'
    BY DEF WriteArchive, payload, BackupInv, RowsInDatabase, ArchiveServes, TornArchive
  <1>4. RemoveSound' /\ RestoreSound' /\ LibraryKept'
    BY DEF WriteArchive, BackupInv, RemoveSound, RestoreSound, LibraryKept
  <1> QED BY <1>1, <1>2, <1>3, <1>4 DEF BackupInv

LEMMA WriteEndsKeeps ==
  ASSUME BackupInv, WriteEnds \/ WriteIsCut
  PROVE  BackupInv'
  <1>1. /\ TypeInv' /\ ScriptEnds
        /\ life' = life /\ database' = database /\ excused' = excused
        /\ archive' \in WholeArchives
        /\ archive'.dropped = dropped
        /\ \/ archive'.copy = saved /\ archive'.files = copied
           \/ archive'.copy = NoCopy
    BY WriteEndsTypes DEF BackupInv
  <1>2. script = "write"
    BY DEF WriteEnds, WriteIsCut
  <1>3. ArchiveServes'
    <2> SUFFICES ASSUME NEW i \in Items, archive'.copy.rows[i] = "completed"
                 PROVE  i \in archive'.files \cup archive'.dropped
      BY DEF ArchiveServes
    <2>1. archive'.copy = saved /\ archive'.files = copied
      BY <1>1, Constants
    <2>2. ItemCopied(i)
      BY <1>2 DEF BackupInv, CopySound
    <2> QED BY <1>1, <1>2, <2>1, <2>2 DEF ItemCopied, ToBeCopied
  <1>4. RowsInDatabase'
    BY <1>1, Constants DEF BackupInv, RowsInDatabase, ScriptEnds
  <1>5. CopySound' /\ RemoveSound' /\ RestoreSound' /\ LibraryKept'
    BY <1>1, <1>2 DEF BackupInv, ScriptEnds, CopySound, RemoveSound, RestoreSound, LibraryKept
  <1> QED BY <1>1, <1>3, <1>4, <1>5 DEF BackupInv

-----------------------------------------------------------------------------
(* The steps of restore, and what ends either script *)

LEMMA RestoreKeeps ==
  ASSUME BackupInv, Restore
  PROVE  BackupInv'
  <1>1. TypeInv'
    BY RestoreTypes DEF BackupInv
  <1>2. \A i \in Items : life'[i].row = life[i].row /\ life'[i].file = life[i].file
    BY DEF Restore, BackupInv, TypeInv, BackupTypeOK, Lives
  <1>3. LibraryKept'
    BY <1>2 DEF Restore, BackupInv, LibraryKept
  <1>4. RowsInDatabase'
    BY <1>2 DEF Restore, payload, BackupInv, RowsInDatabase
  <1>5. CopySound' /\ ArchiveServes' /\ RemoveSound' /\ RestoreSound'
    BY DEF Restore, BackupInv, CopySound, ArchiveServes, RemoveSound, RestoreSound
  <1> QED BY <1>1, <1>3, <1>4, <1>5 DEF BackupInv

LEMMA ExtractKeeps ==
  ASSUME BackupInv, Extract
  PROVE  BackupInv'
  <1>1. TypeInv'
    BY RestoreTypes DEF BackupInv
  <1>2. RemoveSound'
    BY DEF Extract, Replaced, FilesThere, RemoveSound
  <1>3. RowsInDatabase' /\ ArchiveServes'
    BY DEF Extract, payload, BackupInv, RowsInDatabase, ArchiveServes
  <1>4. CopySound' /\ RestoreSound' /\ LibraryKept'
    BY DEF Extract, CopySound, RestoreSound, LibraryKept
  <1> QED BY <1>1, <1>2, <1>3, <1>4 DEF BackupInv

LEMMA RemoveKeeps ==
  ASSUME BackupInv, NEW piece \in Items \cup {TheDatabase}, RemovePiece(piece)
  PROVE  BackupInv'
  <1>1. TypeInv'
    BY RestoreTypes DEF BackupInv
  <1>2. script = "remove" /\ script' = "remove" /\ pieces' = pieces \ {piece}
        /\ UNCHANGED <<payload, archive, excused>>
    BY DEF RemovePiece
  <1>3. life \in [Items -> Lives]
    BY DEF BackupInv, TypeInv, BackupTypeOK
  <1>4. CASE piece = TheDatabase
    <2>1. /\ database' = FALSE
          /\ \A i \in Items : life'[i].row = "none" /\ life'[i].file = life[i].file
      BY <1>3, <1>4, Constants DEF RemovePiece, WithRows, Lives
    <2>2. RemoveSound'
      BY <1>2, <1>4, <2>1, ItemsAssumption DEF BackupInv, RemoveSound, ItemsAssumption
    <2>3. RowsInDatabase'
      BY <1>2, <2>1 DEF payload, BackupInv, RowsInDatabase
    <2> QED BY <1>1, <1>2, <2>2, <2>3
        DEF BackupInv, CopySound, ArchiveServes, RestoreSound, LibraryKept
  <1>5. CASE piece \in Items /\ piece # TheDatabase
    <2>1. /\ database' = database
          /\ \A i \in Items : life'[i].row = life[i].row
          /\ \A i \in Items : life'[i].file <=> life[i].file /\ i # piece
      BY <1>3, <1>5 DEF RemovePiece, WithFile, Lives
    <2>2. RemoveSound'
      BY <1>2, <1>5, <2>1 DEF BackupInv, RemoveSound
    <2>3. RowsInDatabase'
      BY <1>2, <2>1 DEF payload, BackupInv, RowsInDatabase
    <2> QED BY <1>1, <1>2, <2>2, <2>3
        DEF BackupInv, CopySound, ArchiveServes, RestoreSound, LibraryKept
  <1> QED BY <1>4, <1>5

LEMMA CopyBackKeeps ==
  ASSUME BackupInv, CopyBack
  PROVE  BackupInv'
  <1>1. TypeInv'
    BY RestoreTypes DEF BackupInv
  <1>2. archive \in WholeArchives /\ archive' = archive /\ life' = life /\ database' = database
    BY DEF CopyBack, BackupInv, TypeInv, ArchiveThere
  <1>3. RestoreSound'
    <2>1. ~database /\ \A i \in Items : ~life[i].file
      BY DEF CopyBack, BackupInv, RemoveSound, TypeInv, BackupTypeOK, Lives
    <2>2. /\ archive.copy.database <=> TheDatabase \in pieces'
          /\ pieces' \subseteq archive.files \cup {TheDatabase}
      BY <1>2, ItemsAssumption, WholeArchivesAre DEF CopyBack, ItemsAssumption
    <2>3. archive.files \subseteq pieces'
      BY DEF CopyBack
    <2> QED BY <1>2, <2>1, <2>2, <2>3, WholeArchivesAre DEF RestoreSound
  <1>4. RowsInDatabase' /\ ArchiveServes'
    BY DEF CopyBack, payload, BackupInv, RowsInDatabase, ArchiveServes
  <1>5. CopySound' /\ RemoveSound' /\ LibraryKept'
    BY DEF CopyBack, CopySound, RemoveSound, LibraryKept
  <1> QED BY <1>1, <1>3, <1>4, <1>5 DEF BackupInv

LEMMA PutBackKeeps ==
  ASSUME BackupInv, NEW piece \in Items \cup {TheDatabase}, RestorePiece(piece)
  PROVE  BackupInv'
  <1>1. TypeInv' /\ TypeInv
    BY RestoreTypes DEF BackupInv
  <1>2. script = "restore" /\ script' = "restore" /\ pieces' = pieces \ {piece}
        /\ piece \in pieces /\ UNCHANGED <<payload, archive, excused>>
    BY DEF RestorePiece
  <1>3. life \in [Items -> Lives] /\ archive \in WholeArchives /\ pieces \subseteq Items \cup {TheDatabase}
    BY <1>1, <1>2 DEF TypeInv, BackupTypeOK, ArchiveThere
  <1>4. /\ pieces \subseteq archive.files \cup {TheDatabase}
        /\ TheDatabase \in pieces => archive.copy.database
        /\ database <=> archive.copy.database /\ TheDatabase \notin pieces
        /\ \A i \in Items : life[i].file <=> i \in archive.files \ pieces
        /\ database => \A i \in Items : life[i].row = archive.copy.rows[i]
    BY <1>2 DEF BackupInv, RestoreSound
  <1>5. CASE piece = TheDatabase
    <2>1. archive.copy.database /\ archive.copy.rows \in [Items -> ItemRows]
      BY <1>2, <1>3, <1>4, <1>5, WholeArchivesAre
    <2>2. /\ database' = TRUE
          /\ \A i \in Items : life'[i].row = archive.copy.rows[i]
          /\ \A i \in Items : life'[i].file = life[i].file
      BY <1>3, <1>5, <2>1 DEF RestorePiece, WithRows, Lives
    <2>3. \A i \in Items : i \in pieces' <=> i \in pieces
      BY <1>2, <1>5, ItemsAssumption DEF ItemsAssumption
    <2>4. RestoreSound'
      BY <1>2, <1>4, <1>5, <2>1, <2>2, <2>3 DEF RestoreSound
    <2>5. RowsInDatabase'
      BY <1>2, <2>2 DEF payload, BackupInv, RowsInDatabase
    <2> QED BY <1>1, <1>2, <2>4, <2>5
        DEF BackupInv, CopySound, ArchiveServes, RemoveSound, LibraryKept
  <1>6. CASE piece \in Items /\ piece # TheDatabase
    <2>1. /\ database' = database
          /\ \A i \in Items : life'[i].row = life[i].row
          /\ \A i \in Items : life'[i].file <=> life[i].file \/ i = piece
      BY <1>3, <1>6 DEF RestorePiece, WithFile, Lives
    <2>2. piece \in archive.files
      BY <1>2, <1>4, <1>6
    <2>3. RestoreSound'
      BY <1>2, <1>4, <1>6, <2>1, <2>2 DEF RestoreSound
    <2>4. RowsInDatabase'
      BY <1>2, <2>1 DEF payload, BackupInv, RowsInDatabase
    <2> QED BY <1>1, <1>2, <2>3, <2>4
        DEF BackupInv, CopySound, ArchiveServes, RemoveSound, LibraryKept
  <1> QED BY <1>5, <1>6

\* A script that ends, for whatever reason, leaves the storage and the archive alone.
LEMMA EndKeeps ==
  ASSUME BackupInv, TypeInv', ScriptEnds, UNCHANGED <<life, database, archive>>, LibraryKept'
  PROVE  BackupInv'
  <1>1. script' = "off" /\ saved' = NoCopy
    BY DEF ScriptEnds
  <1>2. RowsInDatabase'
    BY <1>1, Constants DEF BackupInv, RowsInDatabase
  <1>3. ArchiveServes'
    BY DEF BackupInv, ArchiveServes
  <1>4. CopySound' /\ RemoveSound' /\ RestoreSound'
    BY <1>1 DEF CopySound, RemoveSound, RestoreSound
  <1> QED BY <1>2, <1>3, <1>4 DEF BackupInv

LEMMA StopKeeps ==
  ASSUME BackupInv
  PROVE  /\ CopyFails => BackupInv'
         /\ ExtractFails => BackupInv'
         /\ Interrupt => BackupInv'
  <1>1. ASSUME CopyFails PROVE BackupInv'
    <2>1. TypeInv'
      BY <1>1, StopTypes DEF BackupInv
    <2>2. LibraryKept'
      BY <1>1 DEF CopyFails, BackupInv, LibraryKept
    <2> QED BY <1>1, <2>1, <2>2, EndKeeps DEF CopyFails
  <1>2. ASSUME ExtractFails PROVE BackupInv'
    <2>1. TypeInv'
      BY <1>2, StopTypes DEF BackupInv
    <2>2. LibraryKept'
      BY <1>2 DEF ExtractFails, BackupInv, LibraryKept
    <2> QED BY <1>2, <2>1, <2>2, EndKeeps DEF ExtractFails
  <1>3. ASSUME Interrupt PROVE BackupInv'
    <2>1. TypeInv'
      BY <1>3, StopTypes DEF BackupInv
    <2>2. LibraryKept'
      BY <1>3 DEF Interrupt, BackupInv, LibraryKept
    <2> QED BY <1>3, <2>1, <2>2, EndKeeps DEF Interrupt
  <1> QED BY <1>1, <1>2, <1>3

\* What has been restored is what the archive holds.
LEMMA WholeWhenDone ==
  ASSUME BackupInv, script = "restore", pieces = {}
  PROVE  /\ FilesThere = archive.files
         /\ database = archive.copy.database
         /\ Rows = archive.copy.rows
  <1>1. archive \in WholeArchives /\ life \in [Items -> Lives] /\ database \in BOOLEAN
    BY DEF BackupInv, TypeInv, BackupTypeOK, ArchiveThere
  <1>2. /\ archive.is = "whole" /\ archive.copy.database \in BOOLEAN
        /\ archive.copy.rows \in [Items -> ItemRows] /\ archive.files \subseteq Items
    BY <1>1, WholeArchivesAre
  <1>3. /\ database <=> archive.copy.database
        /\ \A i \in Items : life[i].file <=> i \in archive.files
        /\ database => \A i \in Items : life[i].row = archive.copy.rows[i]
    BY DEF BackupInv, RestoreSound
  <1>4. FilesThere = archive.files
    BY <1>2, <1>3 DEF FilesThere
  <1>5. \A i \in Items : life[i].row = archive.copy.rows[i]
    <2>1. CASE database
      BY <1>3, <2>1
    <2>2. CASE ~database
      BY <1>2, <1>3, <2>2 DEF BackupInv, RowsInDatabase
    <2> QED BY <2>1, <2>2
  <1>6. Rows = archive.copy.rows
    BY <1>2, <1>5 DEF Rows
  <1>7. database = archive.copy.database
    BY <1>1, <1>2, <1>3
  <1> QED BY <1>4, <1>6, <1>7

LEMMA RestoreEndsKeeps ==
  ASSUME BackupInv, RestoreEnds
  PROVE  BackupInv'
  <1>1. TypeInv'
    BY StopTypes DEF BackupInv
  <1>2. LibraryKept'
    <2> SUFFICES ASSUME NEW i \in Items, life'[i].row = "completed"
                 PROVE  life'[i].file \/ i \in excused'
      BY DEF LibraryKept
    <2>1. /\ script = "restore" /\ pieces = {}
          /\ life' = life /\ excused' = archive.dropped /\ archive \in WholeArchives
      BY DEF RestoreEnds, BackupInv, TypeInv, ArchiveThere
    <2>2. FilesThere = archive.files /\ Rows = archive.copy.rows
      BY <2>1, WholeWhenDone
    <2>3. archive.copy.rows[i] = "completed"
      BY <2>1, <2>2 DEF Rows
    <2>4. i \in archive.files \cup archive.dropped
      BY <2>1, <2>3, WholeArchivesAre DEF BackupInv, ArchiveServes
    <2> QED BY <2>1, <2>2, <2>4 DEF FilesThere
  <1> QED BY <1>1, <1>2, EndKeeps DEF RestoreEnds

LEMMA NewDatabaseKeeps ==
  ASSUME BackupInv, NewDatabase
  PROVE  BackupInv'
  <1>1. TypeInv'
    BY CreateTypes DEF BackupInv
  <1>2. RowsInDatabase'
    BY DEF NewDatabase, payload, BackupInv, RowsInDatabase
  <1>3. CopySound' /\ ArchiveServes' /\ RemoveSound' /\ RestoreSound' /\ LibraryKept'
    BY DEF NewDatabase, BackupInv, CopySound, ArchiveServes, RemoveSound, RestoreSound, LibraryKept
  <1> QED BY <1>1, <1>2, <1>3 DEF BackupInv

LEMMA NextInv == BackupInv /\ [BackupNext]_backupVars => BackupInv'
  <1> SUFFICES ASSUME BackupInv, [BackupNext]_backupVars PROVE BackupInv'
    OBVIOUS
  <1>1. CASE UNCHANGED backupVars
    <2>1. TypeInv'
      BY NextTypes DEF BackupInv
    <2>2. UNCHANGED <<life, database, script, saved, listed, copied, broken, dropped,
                      archive, pieces, excused>>
      BY <1>1 DEF backupVars, payload
    <2>3. CopySound' /\ RowsInDatabase' /\ ArchiveServes'
      BY <2>2 DEF BackupInv, CopySound, ItemCopied, ToBeCopied, RowsInDatabase, ArchiveServes
    <2>4. RemoveSound' /\ RestoreSound' /\ LibraryKept'
      BY <2>2 DEF BackupInv, RemoveSound, RestoreSound, LibraryKept
    <2> QED BY <2>1, <2>3, <2>4 DEF BackupInv
  <1>2. CASE BackupNext
    <2>1. CASE ServerStep \/ NewDatabase
      BY <2>1, ServerKeeps, NewDatabaseKeeps
    <2>2. CASE Snapshot \/ ListOutputs \/ (\E i \in Items : CopyItem(i))
      BY <2>2, SnapshotKeeps, ListKeeps, CopyKeeps
    <2>3. CASE WriteArchive \/ WriteEnds \/ WriteIsCut
      BY <2>3, WriteKeeps, WriteEndsKeeps
    <2>4. CASE Restore \/ Extract \/ CopyBack \/ RestoreEnds
      BY <2>4, RestoreKeeps, ExtractKeeps, CopyBackKeeps, RestoreEndsKeeps
    <2>5. CASE \E piece \in Items \cup {TheDatabase} : RemovePiece(piece) \/ RestorePiece(piece)
      BY <2>5, RemoveKeeps, PutBackKeeps
    <2>6. CASE CopyFails \/ ExtractFails \/ Interrupt
      BY <2>6, StopKeeps
    <2> QED BY <1>2, <2>1, <2>2, <2>3, <2>4, <2>5, <2>6 DEF BackupNext
  <1> QED BY <1>1, <1>2

LEMMA InvAlways == BackupSpec => []BackupInv
  BY InitInv, NextInv, PTL DEF BackupSpec

-----------------------------------------------------------------------------
(* Theorems *)

\* An archive made beside a running server serves every job its database calls completed
\* (ArchiveServes), for any jobs: create_backup copies the database before the outputs.
THEOREM ArchivesServe == BackupSpec => []ArchiveServes
  <1>1. BackupInv => ArchiveServes
    BY DEF BackupInv
  <1> QED BY <1>1, InvAlways, PTL

\* Backups, restores and interruptions in any sequence keep the library (LibraryKept).
THEOREM LibraryIsKept == BackupSpec => []LibraryKept
  <1>1. BackupInv => LibraryKept
    BY DEF BackupInv
  <1> QED BY <1>1, InvAlways, PTL

\* restore_backup leaves exactly what the archive holds (RestoreIsWhole).
THEOREM RestoresAreWhole == BackupSpec => []RestoreIsWhole
  <1>1. BackupInv => RestoreIsWhole
    BY WholeWhenDone DEF RestoreIsWhole
  <1> QED BY <1>1, InvAlways, PTL

=============================================================================
