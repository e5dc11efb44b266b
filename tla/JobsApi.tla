------------------------------ MODULE JobsApi -------------------------------
(***************************************************************************)
(* app/api/routes/jobs.py and app/services/job_submission.py: the request  *)
(* handlers that change jobs.  FastAPI runs each in a thread of a pool, so *)
(* the steps of several requests, of the workers and of the monitors       *)
(* interleave.  Each handler reads, decides, and commits later.            *)
(***************************************************************************)
EXTENDS JobState

CONSTANTS
    Clients,    \* request threads
    Requests    \* bound: the kinds of request the run exercises

ASSUME ClientsAssumption ==
    /\ IsFiniteSet(Clients)
    /\ Clients # {}
    /\ Requests \subseteq {"submit", "resume", "pause", "delete", "clear"}

VARIABLES
    cpc,      \* where the handler is
    cjob,     \* the job of the request
    cseen,    \* status its session loaded
    doomed,   \* jobs the handler chose to delete
    cleared   \* those whose files it has removed

clientVars == <<cpc, cjob, cseen, doomed, cleared>>

ClientPC == {"idle", "enqueue", "put", "reject", "resume", "pause", "delete"}

ApiTypeOK ==
    /\ cpc \in [Clients -> ClientPC]
    /\ cjob \in [Clients -> Jobs \cup {NoJob}]
    /\ \A c \in Clients : cpc[c] \notin {"idle", "delete"} => cjob[c] \in Jobs
    /\ cseen \in [Clients -> RowStatus]
    /\ doomed \in [Clients -> SUBSET Jobs]
    /\ cleared \in [Clients -> SUBSET Jobs]

ApiInit ==
    /\ cpc = [c \in Clients |-> "idle"]
    /\ cjob = [c \in Clients |-> NoJob]
    /\ cseen = [c \in Clients |-> "absent"]
    /\ doomed = [c \in Clients |-> {}]
    /\ cleared = [c \in Clients |-> {}]

ApiReset ==
    /\ cpc' = [c \in Clients |-> "idle"]
    /\ cjob' = [c \in Clients |-> NoJob]
    /\ cseen' = [c \in Clients |-> "absent"]
    /\ doomed' = [c \in Clients |-> {}]
    /\ cleared' = [c \in Clients |-> {}]

Answer(c) ==
    /\ cpc' = [cpc EXCEPT ![c] = "idle"]
    /\ cjob' = [cjob EXCEPT ![c] = NoJob]
    /\ cseen' = [cseen EXCEPT ![c] = "absent"]
    /\ doomed' = [doomed EXCEPT ![c] = {}]
    /\ cleared' = [cleared EXCEPT ![c] = {}]

\* A handler's session.get and guard: it goes on with the status it read.
Begin(c, kind, j, allowed) ==
    /\ kind \in Requests
    /\ app = "up"
    /\ cpc[c] = "idle"
    /\ status[j] \in allowed
    /\ cpc' = [cpc EXCEPT ![c] = kind]
    /\ cjob' = [cjob EXCEPT ![c] = j]
    /\ cseen' = [cseen EXCEPT ![c] = status[j]]
    /\ UNCHANGED <<shared, doomed, cleared>>

-----------------------------------------------------------------------------
(* create_job and resume_job *)

\* JobSubmissionService.submit inserts a queued row and commits it.
Submit(c) ==
    /\ "submit" \in Requests
    /\ app = "up"
    /\ cpc[c] = "idle"
    /\ created < MaxJobs
    /\ created' = created + 1
    /\ status' = [status EXCEPT ![created + 1] = "queued"]
    /\ cpc' = [cpc EXCEPT ![c] = "enqueue"]
    /\ cjob' = [cjob EXCEPT ![c] = created + 1]
    /\ UNCHANGED <<output, queue, disk, app, todo, cseen, doomed, cleared>>

ResumeBegin(c, j) == Begin(c, "resume", j, ResumableStatus)

\* Mutant of ResumeCommit: a paused job is taken to have its ticket still.
ResumeCommitKeepsTicket(c) ==
    /\ cpc[c] = "resume"
    /\ IF status[cjob[c]] = "absent"
       THEN Answer(c) /\ UNCHANGED status
       ELSE /\ status' = Flushed(cjob[c], cseen[c], "queued")
            /\ IF cseen[c] = "paused"
               THEN Answer(c)
               ELSE /\ cpc' = [cpc EXCEPT ![c] = "enqueue"]
                    /\ cseen' = [cseen EXCEPT ![c] = "absent"]
                    /\ UNCHANGED <<cjob, doomed, cleared>>
    /\ UNCHANGED <<output, created, queue, disk, app, todo>>

\* The commit of resume_job; a row deleted meanwhile is an error response.
ResumeCommit(c) ==
    /\ cpc[c] = "resume"
    /\ IF status[cjob[c]] = "absent"
       THEN Answer(c) /\ UNCHANGED status
       ELSE /\ status' = Flushed(cjob[c], cseen[c], "queued")
            /\ cpc' = [cpc EXCEPT ![c] = "enqueue"]
            /\ cseen' = [cseen EXCEPT ![c] = "absent"]
            /\ UNCHANGED <<cjob, doomed, cleared>>
    /\ UNCHANGED <<output, created, queue, disk, app, todo>>

\* session.refresh, which fails without a row, and the test of put_nowait that
\* runner.enqueue begins with.
Enqueue(c) ==
    /\ cpc[c] = "enqueue"
    /\ \/ status[cjob[c]] = "absent" /\ Answer(c)
       \/ /\ status[cjob[c]] # "absent" /\ HasRoom
          /\ cpc' = [cpc EXCEPT ![c] = "put"]
          /\ UNCHANGED <<cjob, cseen, doomed, cleared>>
       \/ /\ status[cjob[c]] # "absent" /\ ~HasRoom
          /\ cpc' = [cpc EXCEPT ![c] = "reject"]
          /\ cseen' = [cseen EXCEPT ![c] = status[cjob[c]]]
          /\ UNCHANGED <<cjob, doomed, cleared>>
    /\ UNCHANGED shared

\* The rest of put_nowait.  asyncio.Queue is not made for request threads: nothing
\* keeps another thread from passing the same test in between.
Put(c) ==
    /\ cpc[c] = "put"
    /\ queue' = Append(queue, cjob[c])
    /\ Answer(c)
    /\ UNCHANGED <<rows, disk, app, todo>>

\* QUEUE_FULL: the row is failed in a second commit.
Reject(c) ==
    /\ cpc[c] = "reject"
    /\ status' = IF status[cjob[c]] = "absent" THEN status
                 ELSE Flushed(cjob[c], cseen[c], "failed")
    /\ Answer(c)
    /\ UNCHANGED <<output, created, queue, disk, app, todo>>

-----------------------------------------------------------------------------
(* pause_job *)

PauseBegin(c, j) == Begin(c, "pause", j, PausableStatus)

PauseCommit(c) ==
    /\ cpc[c] = "pause"
    /\ status' = IF status[cjob[c]] = "absent" THEN status
                 ELSE Flushed(cjob[c], cseen[c], "paused")
    /\ Answer(c)
    /\ UNCHANGED <<output, created, queue, disk, app, todo>>

-----------------------------------------------------------------------------
(* delete_job, clear_jobs and _delete_jobs *)

DeleteBegin(c, chosen) ==
    /\ app = "up"
    /\ cpc[c] = "idle"
    /\ cpc' = [cpc EXCEPT ![c] = "delete"]
    /\ doomed' = [doomed EXCEPT ![c] = chosen]
    /\ UNCHANGED <<shared, cjob, cseen, cleared>>

Inactive == {j \in Jobs : status[j] \notin ActiveStatus \cup {"absent"}}

DeleteOne(c, j) ==
    /\ "delete" \in Requests
    /\ j \in Inactive
    /\ DeleteBegin(c, {j})

ClearAll(c) ==
    /\ "clear" \in Requests
    /\ Inactive # {}
    /\ DeleteBegin(c, Inactive)

\* The loop body of _delete_jobs: both directories of one chosen job go.
RemoveFiles(c, j) ==
    /\ cpc[c] = "delete"
    /\ j \in doomed[c] \ cleared[c]
    /\ temp' = [temp EXCEPT ![j] = "none"]
    /\ out' = [out EXCEPT ![j] = "none"]
    /\ cleared' = [cleared EXCEPT ![c] = @ \cup {j}]
    /\ UNCHANGED <<rows, queue, app, todo, cpc, cjob, cseen, doomed>>

\* _directory_size lists the files of a chosen job and then asks each for its size:
\* a file that somebody removes in between raises.  The request ends without its
\* commit, and the directories removed so far are gone.
DeleteFails(c) ==
    /\ cpc[c] = "delete"
    /\ Answer(c)
    /\ UNCHANGED shared

\* Mutant of DeleteCommit: one statement deletes what is inactive by now.
DeleteCommitByStatus(c) ==
    /\ cpc[c] = "delete"
    /\ cleared[c] = doomed[c]
    /\ status' = [j \in Jobs |-> IF j \in Inactive THEN "absent" ELSE status[j]]
    /\ output' = [j \in Jobs |-> IF j \in Inactive THEN FALSE ELSE output[j]]
    /\ Answer(c)
    /\ UNCHANGED <<created, queue, disk, app, todo>>

\* One commit deletes every chosen row, whatever its status is by now.
DeleteCommit(c) ==
    /\ cpc[c] = "delete"
    /\ cleared[c] = doomed[c]
    /\ status' = [j \in Jobs |-> IF j \in doomed[c] THEN "absent" ELSE status[j]]
    /\ output' = [j \in Jobs |-> IF j \in doomed[c] THEN FALSE ELSE output[j]]
    /\ Answer(c)
    /\ UNCHANGED <<created, queue, disk, app, todo>>

-----------------------------------------------------------------------------

BeginRequest(c) ==
    \/ Submit(c)
    \/ \E j \in Jobs : ResumeBegin(c, j) \/ PauseBegin(c, j) \/ DeleteOne(c, j)
    \/ ClearAll(c)

FinishRequest(c) ==
    \/ ResumeCommit(c) \/ Enqueue(c) \/ Reject(c) \/ PauseCommit(c)
    \/ \E j \in Jobs : RemoveFiles(c, j)
    \/ DeleteCommit(c)

=============================================================================
