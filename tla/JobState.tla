------------------------------ MODULE JobState ------------------------------
(***************************************************************************)
(* What the request handlers, the worker threads and the start-up code of  *)
(* MediaForgeTool share: the download_jobs table, the in-memory queue of   *)
(* job ids, one temporary and one output directory per job, and the phase  *)
(* of the process.                                                         *)
(*                                                                         *)
(* Every database access of the program is a short session of its own.     *)
(* A SELECT holds no lock afterwards, and a commit writes only the         *)
(* attributes whose value differs from the one the session LOADED.  A read *)
(* and the write decided on it are therefore separate actions, and the     *)
(* loaded status is kept between the two (see Flushed).                    *)
(***************************************************************************)
EXTENDS Naturals, Sequences, FiniteSets

CONSTANTS
    MaxJobs,       \* bound: how many rows are ever created
    MaxQueueSize,  \* settings.max_queue_size
    Faults         \* environment faults of the run: "crash", "mkdir"

ASSUME JobStateAssumption ==
    /\ MaxJobs \in Nat \ {0}
    /\ MaxQueueSize \in Nat \ {0}
    /\ Faults \subseteq {"crash", "mkdir"}

VARIABLES
    status,   \* status of each job's row; "absent" when there is no row
    output,   \* whether the row's output_path is set
    created,  \* number of rows created so far
    queue,    \* asyncio.Queue of job ids; the tickets of the workers
    temp,     \* temp_dir/<job>: missing, empty, partial data, finished media
    out,      \* storage_dir/<job>: missing, without final file, with it
    app,      \* phase of the process
    todo      \* queued ids that start() still has to put back in the queue

rows == <<status, output, created>>
disk == <<temp, out>>
shared == <<status, output, created, queue, temp, out, app, todo>>

\* Ids are numbered in the order of created_at, the order start() selects by.
Jobs == 1..MaxJobs
NoJob == 0

JobStatus == {"queued", "extracting", "downloading", "processing", "paused",
              "completed", "failed", "expired", "interrupted"}
RowStatus == JobStatus \cup {"absent"}

RunningStatus == {"extracting", "downloading", "processing"}
\* Mutant of ActiveStatus: paused jobs may be deleted.
ActiveStatusUnpaused == RunningStatus \cup {"queued"}
ActiveStatus == RunningStatus \cup {"queued", "paused"}
ResumableStatus == {"interrupted", "failed", "paused"}
PausableStatus == RunningStatus \cup {"queued"}

TempStates == {"none", "empty", "part", "media"}
OutStates == {"none", "dir", "file"}
AppPhases == {"down", "recovering", "up", "stopping"}

InQueue(j) == \E i \in 1..Len(queue) : queue[i] = j

\* Mutant of HasRoom: off by one.
HasRoomForOneMore == Len(queue) <= MaxQueueSize
\* put_nowait succeeds as long as the queue is below its maximum size.
HasRoom == Len(queue) < MaxQueueSize

\* What a commit makes of the status column when the session loaded `seen`
\* and assigned `new`: an attribute set to the value it was loaded with is
\* not part of the UPDATE, whatever other sessions wrote in between.
Flushed(j, seen, new) ==
    IF seen = new THEN status ELSE [status EXCEPT ![j] = new]

SharedTypeOK ==
    /\ status \in [Jobs -> RowStatus]
    /\ output \in [Jobs -> BOOLEAN]
    /\ created \in 0..MaxJobs
    /\ queue \in Seq(Jobs)
    /\ temp \in [Jobs -> TempStates]
    /\ out \in [Jobs -> OutStates]
    /\ app \in AppPhases
    /\ todo \subseteq Jobs

SharedInit ==
    /\ status = [j \in Jobs |-> "absent"]
    /\ output = [j \in Jobs |-> FALSE]
    /\ created = 0
    /\ queue = <<>>
    /\ temp = [j \in Jobs |-> "none"]
    /\ out = [j \in Jobs |-> "none"]
    /\ app = "down"
    /\ todo = {}

=============================================================================
