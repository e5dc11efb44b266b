------------------------------- MODULE Backup -------------------------------
(***************************************************************************)
(* scripts/storage_backup.py around the library of jobs: create, which     *)
(* copies the database and then the directory of outputs while the server  *)
(* may be running, and restore, for which it is stopped.  Either may be    *)
(* interrupted at any point.                                               *)
(***************************************************************************)
EXTENDS Library

VARIABLES
    database,  \* the database file exists
    script,    \* where the script is, "off" when none runs
    saved,     \* the copy of the database: was there one, and its rows
    listed,    \* items copytree has listed and not copied yet
    copied,    \* items whose file is in the copy
    broken,    \* copytree has collected an error
    archive,   \* the file at the output path
    pieces,    \* what a restore has still to remove or to copy
    dropped,   \* history: items given up between the copy of the database and the end
    excused    \* history: items whose file need not be there

payload == <<saved, listed, copied, broken, dropped>>
backupVars == <<life, database, script, payload, archive, pieces, excused>>

TheDatabase == "database"
ASSUME ItemsAssumption == TheDatabase \notin Items

Steps == {"off", "list", "copy", "write", "extract", "remove", "restore"}
Stopped == {"extract", "remove", "restore"}

NoRows == [i \in Items |-> "none"]
NoCopy == [database |-> FALSE, rows |-> NoRows]
NoArchive == [is |-> "none"]
TornArchive == [is |-> "torn"]
WholeArchives ==
    [is : {"whole"}, copy : [database : BOOLEAN, rows : [Items -> ItemRows]],
     files : SUBSET Items, dropped : SUBSET Items]

BackupInit ==
    /\ LibraryInit
    /\ database = TRUE
    /\ script = "off"
    /\ saved = NoCopy /\ listed = {} /\ copied = {} /\ broken = FALSE /\ dropped = {}
    /\ archive = NoArchive
    /\ pieces = {}
    /\ excused = {}

\* Mutant of FilesThere: the directory above jobs is taken for it.
StorageThere == {i \in Items : life[i].file} \cup {TheDatabase}
FilesThere == {i \in Items : life[i].file}
Rows == [i \in Items |-> life[i].row]

\* Completed, and nobody is about to change that.
Settled(item) == item.row = "completed" /\ ~item.leaving

\* The server works as Library says, except while it is stopped for a restore.
ServerStep ==
    /\ database /\ script \notin Stopped
    /\ LibraryNext
    /\ dropped' = IF script = "off" THEN {}
                  ELSE dropped \cup {i \in Items : Settled(life[i]) /\ ~Settled(life'[i])}
                               \cup {i \in Items : life'[i].leaving}
    /\ UNCHANGED <<database, script, saved, listed, copied, broken, archive, pieces, excused>>

\* A server started on a storage without a database makes an empty one.
NewDatabase ==
    /\ ~database /\ script = "off"
    /\ database' = TRUE
    /\ UNCHANGED <<life, script, payload, archive, pieces, excused>>

-----------------------------------------------------------------------------
(* create_backup *)

\* The temporary directory goes with the script.
ScriptEnds ==
    /\ script' = "off"
    /\ saved' = NoCopy /\ listed' = {} /\ copied' = {} /\ broken' = FALSE /\ dropped' = {}
    /\ pieces' = {}

\* The backup interface of SQLite copies what one read transaction sees.
Snapshot ==
    /\ script = "off"
    /\ script' = "list"
    /\ saved' = [database |-> database, rows |-> Rows]
    /\ dropped' = excused \cup {i \in Items : life[i].leaving}
    /\ UNCHANGED <<life, database, listed, copied, broken, archive, pieces, excused>>

\* An item has a directory when it has a file, and may have one without.
ListOutputs ==
    /\ script = "list"
    /\ script' = "copy"
    /\ \E empty \in SUBSET {i \in Items : life[i].row # "none"} : listed' = FilesThere \cup empty
    /\ UNCHANGED <<life, database, saved, copied, broken, dropped, archive, pieces, excused>>

\* copytree: what has vanished since is an error, kept until everything else is copied.
CopyItem(i) ==
    /\ script = "copy" /\ i \in listed
    /\ listed' = listed \ {i}
    /\ IF life[i].file THEN copied' = copied \cup {i} /\ UNCHANGED broken
                       ELSE broken' \in {broken, TRUE} /\ UNCHANGED copied
    /\ UNCHANGED <<life, database, script, saved, dropped, archive, pieces, excused>>

\* No archive is begun, and one of the same name stays as it was.
CopyFails ==
    /\ script = "copy" /\ listed = {} /\ broken
    /\ ScriptEnds
    /\ UNCHANGED <<life, database, archive, excused>>

\* Opening the archive empties a file of the same name.
WriteArchive ==
    /\ script = "copy" /\ listed = {} /\ ~broken
    /\ script' = "write"
    /\ archive' = TornArchive
    /\ UNCHANGED <<life, database, payload, pieces, excused>>

\* Mutant of Copy: the outputs are copied first, the database last.
DatabaseLast == [database |-> database, rows |-> Rows]

Copy == saved

WriteEnds ==
    /\ script = "write"
    /\ archive' = [is |-> "whole", copy |-> Copy, files |-> copied, dropped |-> dropped]
    /\ ScriptEnds
    /\ UNCHANGED <<life, database, excused>>

\* Mutant of CopyInCut: the database has a name that sorts before "jobs".
DatabaseFirst == Copy

\* The members are written in the order of their names, jobs before mediaforgetool.db.
CopyInCut == NoCopy

\* An exception between two members closes an archive that reads as a shorter one.
WriteIsCut ==
    /\ script = "write"
    /\ \E files \in SUBSET copied :
          archive' = [is |-> "whole", copy |-> CopyInCut, files |-> files, dropped |-> dropped]
    /\ ScriptEnds
    /\ UNCHANGED <<life, database, excused>>

-----------------------------------------------------------------------------
(* restore_backup *)

\* With --force, or into an empty directory.  The server is stopped first (README), and
\* forgets what it was removing.
Restore ==
    /\ script = "off" /\ archive # NoArchive
    /\ script' = "extract"
    /\ life' = [i \in Items |-> [life[i] EXCEPT !.leaving = FALSE]]
    /\ excused' = excused \cup {i \in Items : life[i].leaving}
    /\ UNCHANGED <<database, payload, archive, pieces>>

\* A torn archive is found out before the storage is touched.
ExtractFails ==
    /\ script = "extract" /\ archive = TornArchive
    /\ ScriptEnds
    /\ UNCHANGED <<life, database, archive, excused>>

\* Mutant of Replaced: the archive is copied over what is there.
Merged == {}

\* What rmtree removes.
Replaced == FilesThere \cup (IF database THEN {TheDatabase} ELSE {})

Extract ==
    /\ script = "extract" /\ archive # TornArchive
    /\ script' = "remove"
    /\ pieces' = Replaced
    /\ UNCHANGED <<life, database, payload, archive, excused>>

\* The row and the file of an item live in different pieces of the storage.
WithRows(rows) == [i \in Items |-> [life[i] EXCEPT !.row = rows[i]]]
WithFile(i, there) == [life EXCEPT ![i].file = there]

\* rmtree, in any order.
RemovePiece(piece) ==
    /\ script = "remove" /\ piece \in pieces
    /\ pieces' = pieces \ {piece}
    /\ IF piece = TheDatabase THEN database' = FALSE /\ life' = WithRows(NoRows)
                              ELSE life' = WithFile(piece, FALSE) /\ UNCHANGED database
    /\ UNCHANGED <<script, payload, archive, excused>>

CopyBack ==
    /\ script = "remove" /\ pieces = {}
    /\ script' = "restore"
    /\ pieces' = archive.files \cup (IF archive.copy.database THEN {TheDatabase} ELSE {})
    /\ UNCHANGED <<life, database, payload, archive, excused>>

\* copytree, in any order.
RestorePiece(piece) ==
    /\ script = "restore" /\ piece \in pieces
    /\ pieces' = pieces \ {piece}
    /\ IF piece = TheDatabase THEN database' = TRUE /\ life' = WithRows(archive.copy.rows)
                              ELSE life' = WithFile(piece, TRUE) /\ UNCHANGED database
    /\ UNCHANGED <<script, payload, archive, excused>>

RestoreEnds ==
    /\ script = "restore" /\ pieces = {}
    /\ excused' = archive.dropped
    /\ ScriptEnds
    /\ UNCHANGED <<life, database, archive>>

\* The script dies: an archive it was writing stays torn, a storage it was replacing
\* stays as it is, and any file may be missing from it.
Interrupt ==
    /\ script # "off"
    /\ excused' = IF script \in {"remove", "restore"} THEN Items ELSE excused
    /\ ScriptEnds
    /\ UNCHANGED <<life, database, archive>>

BackupNext ==
    \/ ServerStep \/ NewDatabase
    \/ Snapshot \/ ListOutputs \/ (\E i \in Items : CopyItem(i))
    \/ CopyFails \/ WriteArchive \/ WriteEnds \/ WriteIsCut
    \/ Restore \/ ExtractFails \/ Extract \/ CopyBack \/ RestoreEnds
    \/ \E piece \in Items \cup {TheDatabase} : RemovePiece(piece) \/ RestorePiece(piece)
    \/ Interrupt

BackupSpec == BackupInit /\ [][BackupNext]_backupVars

-----------------------------------------------------------------------------
(* Properties *)

\* Each variable has its type.
BackupTypeOK ==
    /\ life \in [Items -> Lives]
    /\ database \in BOOLEAN
    /\ script \in Steps
    /\ saved \in [database : BOOLEAN, rows : [Items -> ItemRows]]
    /\ listed \subseteq Items /\ copied \subseteq Items
    /\ broken \in BOOLEAN
    /\ archive \in {NoArchive, TornArchive} \cup WholeArchives
    /\ pieces \subseteq Items \cup {TheDatabase}
    /\ dropped \subseteq Items /\ excused \subseteq Items

\* An archive made beside a running server holds the file of every job its database calls
\* completed, save those removed or overwritten meanwhile: create_backup copies the
\* database first, and a file is published before its row is completed.
ArchiveServes ==
    archive.is = "whole" =>
        \A i \in Items : archive.copy.rows[i] = "completed" =>
            i \in archive.files \cup archive.dropped

\* Whatever sequence of backups, restores and interruptions the storage went through, a
\* completed job has its file, or is being removed, or lost its file while the archive
\* was made, or to a restore that was interrupted.
LibraryKept ==
    script \notin {"remove", "restore"} =>
        \A i \in Items : life[i].row = "completed" =>
            life[i].file \/ life[i].leaving \/ i \in excused

\* restore_backup leaves exactly what the archive holds, nothing of the storage before.
RestoreIsWhole ==
    script = "restore" /\ pieces = {} =>
        /\ FilesThere = archive.files
        /\ database = archive.copy.database
        /\ Rows = archive.copy.rows

=============================================================================
