----------------------------- MODULE JobSystem ------------------------------
(***************************************************************************)
(* The job subsystem of MediaForgeTool as it runs: the worker and monitor  *)
(* threads of JobRunner, the request threads of JobsApi, and the life of   *)
(* the process, over the table, the queue and the directories of JobState. *)
(***************************************************************************)
EXTENDS JobRunner, JobsApi

vars == <<shared, runnerVars, clientVars>>

Init == SharedInit /\ RunnerInit /\ ApiInit

\* The server answers the requests it has before lifespan calls stop().
ShutDown == Stop /\ \A c \in Clients : cpc[c] = "idle"

WorkerStep(w) == (Take(w) \/ (Run(w) /\ UNCHANGED asleep)) /\ UNCHANGED clientVars
MonitorStep(w) == Monitor(w) /\ UNCHANGED <<asleep, clientVars>>

\* Another thread removes or renames files of the job: its run, or a second deletion.
Vanishing(c, j) ==
    \/ /\ temp[j] # "none"
       /\ \E w \in Workers : wjob[w] = j /\ wpc[w] \in {"fetch", "move", "failClear", "remove"}
    \/ /\ out[j] = "file"
       /\ \E w \in Workers : wjob[w] = j /\ wpc[w] = "publish"
    \/ /\ temp[j] # "none" \/ out[j] # "none"
       /\ \E d \in Clients \ {c} : j \in doomed[d] \ cleared[d]
WalkFails(c) ==
    /\ \E j \in doomed[c] \ cleared[c] : Vanishing(c, j)
    /\ DeleteFails(c)

FinishStep(c) ==
    \/ (FinishRequest(c) \/ WalkFails(c)) /\ UNCHANGED runnerVars
    \/ Put(c) /\ WakeWorker /\ UNCHANGED <<workerVars, monitorVars>>
RequestStep(c) == (BeginRequest(c) /\ UNCHANGED runnerVars) \/ FinishStep(c)
StartUp == (Start \/ Recover \/ Serve) /\ UNCHANGED clientVars
ProcessEnd ==
    \/ ShutDown /\ UNCHANGED clientVars
    \/ (Exit \/ Crash) /\ ApiReset

Next ==
    \/ \E w \in Workers : WorkerStep(w) \/ MonitorStep(w)
    \/ \E c \in Clients : RequestStep(c)
    \/ StartUp
    \/ ProcessEnd

Spec == Init /\ [][Next]_vars

-----------------------------------------------------------------------------
(* Fairness: threads that can run do run; a download ends (socket timeouts  *)
(* and JobTimeout bound it); an accepted request is carried through.        *)

FetchEnds(w) == FetchReturns(w) \/ FetchFails(w)

Fairness ==
    /\ \A w \in Workers :
          /\ WF_vars(WorkerStep(w))
          /\ SF_vars(FetchEnds(w) /\ UNCHANGED <<asleep, clientVars>>)
          /\ WF_vars(MonitorStep(w))
    /\ \A c \in Clients : WF_vars(FinishStep(c))

FairSpec == Spec /\ Fairness

-----------------------------------------------------------------------------
(* Properties *)

\* put_nowait is called from several threads, so the queue may outgrow its maximum
\* size, but by no more than the threads that can be between test and append.
QueueBounded == Len(queue) <= MaxQueueSize + Cardinality(Clients) - 1

\* Every variable keeps its type, and the queue stays bounded.
TypeOK == SharedTypeOK /\ RunnerTypeOK /\ ApiTypeOK /\ QueueBounded

Handles(w, j) == wpc[w] # "idle" /\ wjob[w] = j

\* A job that says queued while the server is up has a ticket somewhere: in
\* the queue, with the worker that took it and has not yet decided, or with
\* the request that is about to enqueue or to fail it.  Otherwise nothing
\* would run it before the next restart (submit and resume_job commit the
\* status before they enqueue; _process_job drops tickets; several tickets
\* and several writers of one job exist after pause and resume).
QueuedHasTicket ==
    app = "up" => \A j \in Jobs : status[j] = "queued" =>
        \/ InQueue(j)
        \/ \E w \in Workers : wjob[w] = j /\ wpc[w] \in {"load", "claim"}
        \/ \E c \in Clients : cjob[c] = j /\ cpc[c] \in {"enqueue", "put", "reject"}

\* The run of w on j will still replace the status it finds: no commit of its
\* handlers or of its last step can be skipped as an unchanged value.
WillSettle(w, j) ==
    /\ wjob[w] = j
    /\ \/ wpc[w] \in {"prepare", "fetch", "check", "report", "publish", "move",
                      "reload", "pause"}
       \/ /\ wpc[w] \in {"saveDownloading", "saveProcessing", "saveLast",
                         "complete", "failWrite", "pauseWrite"}
          /\ wseen[w] \notin {"completed", "failed", "paused"}

\* A job that says extracting or processing is being run by a worker that
\* will settle it, or by one that died creating the job's directory.  These
\* two are the states in which delete, clear and resume are all refused, so a
\* job left in them is lost to the user until the next start.
ExtractingHasWorker ==
    \A j \in Jobs : status[j] \in {"extracting", "processing"} =>
        \/ app = "down"
        \/ \E w \in Workers : WillSettle(w, j) \/ (wjob[w] = j /\ wpc[w] = "dead")

\* A job marked interrupted is at rest: no ticket, no worker, no monitor has
\* it, so resuming it starts the only run there is.
InterruptedIsQuiet ==
    \A j \in Jobs : status[j] = "interrupted" =>
        /\ ~InQueue(j)
        /\ \A w \in Workers : wjob[w] # j /\ mjob[w] # j

\* The data of a job that was running stays on disk when start() interrupts
\* it, and after that until somebody deletes the job: neither _fail nor
\* finally nor a late worker removes it.
InterruptedTempKept ==
    [][\A j \in Jobs :
         (status'[j] = "interrupted" /\ temp[j] # "none" /\ temp'[j] = "none")
         => \E c \in Clients : j \in doomed[c]]_vars

\* Without resume requests a job is never run by two workers at once.
SoleRunner ==
    \A v, w \in Workers : \A j \in Jobs :
        Handles(v, j) /\ Handles(w, j) => v = w

\* Without resume requests, and as long as directories can be made, no worker
\* task ends before the process does: no handler meets a row that a delete
\* took away under it.
WorkersSurvive == \A w \in Workers : wpc[w] # "dead"

\* A queued job does not wait for ever: while the server is up and a worker is left
\* that no put has missed, it is claimed, paused or failed in the end.
QueuedIsServed ==
    \A j \in Jobs :
        (app = "up" /\ status[j] = "queued") ~>
            (status[j] # "queued" \/ app # "up"
             \/ \A w \in Workers : wpc[w] = "dead" \/ w \in asleep)

\* A run started by a worker ends, whatever requests do to its job meanwhile.
RunsEnd ==
    \A w \in Workers :
        (wpc[w] = "load") ~> (wpc[w] \in {"idle", "dead"})

\* Without resume requests a deleted job leaves nothing on disk, not even while a
\* worker that has just finished with it cleans up behind it.  (delete_job removes the
\* directories first and deletes the row last, by the status it read before.)
DeletedLeavesNothing ==
    \A j \in 1..created : status[j] = "absent" => temp[j] = "none" /\ out[j] = "none"

-----------------------------------------------------------------------------
(* Promises of the documentation that the code does not keep *)

\* Once a job is completed only its deletion (here) changes its status.
CompletedStays ==
    [][\A j \in Jobs : status[j] = "completed" =>
         status'[j] \in {"completed", "absent"}]_vars

\* Only a resume or a deletion takes a job out of paused.
PauseSticks ==
    [][\A j \in Jobs : status[j] = "paused" =>
         status'[j] \in {"paused", "queued", "absent"}]_vars

\* Deleting and clearing never take away an active job.
ClearSkipsActive ==
    [][\A j \in Jobs : status[j] \in ActiveStatus => status'[j] # "absent"]_vars

=============================================================================
