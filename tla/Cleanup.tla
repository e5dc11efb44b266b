------------------------------ MODULE Cleanup -------------------------------
(***************************************************************************)
(* app/services/cleanup_service.py: the periodic pass that removes stale   *)
(* temporary directories and expires old outputs.  The first pass runs     *)
(* inside start(), before requests are served; the later ones run in a     *)
(* thread, beside the workers and the request handlers.                    *)
(***************************************************************************)
EXTENDS JobState

VARIABLES
    sweep,     \* where the pass is; "dead" when an exception has ended _loop
    kept,      \* protected_temp_job_ids, read when the pass began
    visited,   \* directories the pass has looked at
    entry,     \* the directory it is looking at
    expiring,  \* completed jobs it found to be due
    emptied,   \* those whose output directory it has removed
    stale,     \* directories not modified for temp_retention_hours
    due        \* jobs whose expires_at has passed

sweepVars == <<sweep, kept, visited, entry, expiring, emptied>>
cleanupVars == <<sweep, kept, visited, entry, expiring, emptied, stale, due>>
ageVars == <<stale, due>>

SweepPC == {"first", "idle", "scan", "stat", "rmtree", "expire", "dead"}

\* Mutant of TempProtected: what only a user can continue is left out.
TempProtectedRunning == RunningStatus \cup {"queued"}
TempProtected == RunningStatus \cup {"queued", "paused", "interrupted"}

CleanupTypeOK ==
    /\ sweep \in SweepPC
    /\ kept \subseteq Jobs
    /\ visited \subseteq Jobs
    /\ entry \in Jobs \cup {NoJob}
    /\ sweep \in {"stat", "rmtree"} => entry \in visited
    /\ expiring \subseteq Jobs
    /\ emptied \subseteq expiring
    /\ stale \subseteq Jobs
    /\ due \subseteq Jobs

CleanupInit ==
    /\ sweep = "first"
    /\ kept = {}
    /\ visited = {}
    /\ entry = NoJob
    /\ expiring = {}
    /\ emptied = {}
    /\ stale = {}
    /\ due = {}

\* A process starts with a new CleanupService; the disk keeps its age.
CleanupReset ==
    /\ sweep' = "first"
    /\ kept' = {}
    /\ visited' = {}
    /\ entry' = NoJob
    /\ expiring' = {}
    /\ emptied' = {}
    /\ UNCHANGED ageVars

-----------------------------------------------------------------------------
(* Time.  A step that changes a directory makes it fresh again; between two *)
(* passes any directory may become stale and any completed job due.  (A     *)
(* pass is much shorter than the retentions, an hour at least.)             *)

Refreshed == stale' = {j \in stale : temp'[j] = temp[j]}

Age(j) ==
    /\ sweep \in {"first", "idle", "dead"}
    /\ temp[j] # "none"
    /\ j \notin stale
    /\ stale' = stale \cup {j}
    /\ UNCHANGED <<shared, sweepVars, due>>

FallDue(j) ==
    /\ sweep \in {"first", "idle", "dead"}
    /\ status[j] = "completed"
    /\ j \notin due
    /\ due' = due \cup {j}
    /\ UNCHANGED <<shared, sweepVars, stale>>

-----------------------------------------------------------------------------
(* One pass of cleanup_now *)

\* start() runs the first pass itself, after the recovery of the queue; the
\* loop starts one at any later time until the server stops.
SweepBegin ==
    /\ \/ sweep = "first" /\ app = "recovering" /\ todo = {}
       \/ sweep = "idle" /\ app = "up"
    /\ sweep' = "scan"
    /\ kept' = {j \in Jobs : status[j] \in TempProtected}
    /\ UNCHANGED <<shared, visited, entry, expiring, emptied, ageVars>>

\* The loop over iterdir() finds a directory that is not protected.
Visit(j) ==
    /\ sweep = "scan"
    /\ temp[j] # "none"
    /\ j \notin visited \cup kept
    /\ sweep' = "stat"
    /\ visited' = visited \cup {j}
    /\ entry' = j
    /\ UNCHANGED <<shared, kept, expiring, emptied, ageVars>>

\* stat() of a directory that somebody removed meanwhile raises, and nothing
\* catches the exception before the loop's task ends.
Stat ==
    /\ sweep = "stat"
    /\ sweep' = IF temp[entry] = "none" THEN "dead"
                ELSE IF entry \in stale THEN "rmtree" ELSE "scan"
    /\ UNCHANGED <<shared, kept, visited, entry, expiring, emptied, ageVars>>

RemoveStale ==
    /\ sweep = "rmtree"
    /\ temp' = [temp EXCEPT ![entry] = "none"]
    /\ sweep' = "scan"
    /\ Refreshed
    /\ UNCHANGED <<rows, queue, out, app, todo,
                   kept, visited, entry, expiring, emptied, due>>

\* All directories seen: the second query, for completed jobs that are due.
SelectExpired ==
    /\ sweep = "scan"
    /\ \A j \in Jobs : temp[j] = "none" \/ j \in visited \cup kept
    /\ expiring' = {j \in due : status[j] = "completed"}
    /\ sweep' = "expire"
    /\ UNCHANGED <<shared, kept, visited, entry, emptied, ageVars>>

RemoveOutput(j) ==
    /\ sweep = "expire"
    /\ j \in expiring \ emptied
    /\ out' = [out EXCEPT ![j] = "none"]
    /\ emptied' = emptied \cup {j}
    /\ UNCHANGED <<rows, queue, temp, app, todo,
                   sweep, kept, visited, entry, expiring, ageVars>>

\* One commit for all of them.  When one row was deleted meanwhile it raises
\* StaleDataError: nothing is written and the loop's task ends.
CommitExpired ==
    /\ sweep = "expire"
    /\ emptied = expiring
    /\ IF \E j \in expiring : status[j] = "absent"
       THEN /\ sweep' = "dead"
            /\ UNCHANGED <<status, output, kept, visited, entry, expiring, emptied>>
       ELSE /\ sweep' = "idle"
            /\ status' = [j \in Jobs |-> IF j \in expiring THEN "expired" ELSE status[j]]
            /\ output' = [j \in Jobs |-> IF j \in expiring THEN FALSE ELSE output[j]]
            /\ kept' = {}
            /\ visited' = {}
            /\ entry' = NoJob
            /\ expiring' = {}
            /\ emptied' = {}
    /\ UNCHANGED <<created, queue, disk, app, todo, ageVars>>

Sweep ==
    \/ SweepBegin \/ (\E j \in Jobs : Visit(j)) \/ Stat \/ RemoveStale
    \/ SelectExpired \/ (\E j \in Jobs : RemoveOutput(j)) \/ CommitExpired

=============================================================================
