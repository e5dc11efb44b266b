----------------------------- MODULE JobRunner ------------------------------
(***************************************************************************)
(* app/services/job_runner.py: the worker tasks, each running              *)
(* _process_job in a thread of its own, the monitor thread every run       *)
(* starts, and the start and stop of the runner.  The downloader           *)
(* (yt-dlp and ffmpeg) is nondeterministic: it reports, writes data,       *)
(* returns a file or raises, at any moment.                                *)
(***************************************************************************)
EXTENDS JobState

CONSTANTS
    Workers,    \* settings.max_concurrent_jobs worker tasks
    Monitored   \* bound: workers whose runs outlast a monitor interval

ASSUME WorkersAssumption ==
    /\ IsFiniteSet(Workers)
    /\ Workers # {}
    /\ Monitored \subseteq Workers

VARIABLES
    wpc,     \* where the worker's thread is in _process_job
    wjob,    \* the job it runs
    wseen,   \* status loaded by the session whose commit comes next
    wlast,   \* ProgressReporter.last_status of the run
    wdying,  \* an exception left a handler: the worker task ends after finally
    mpc,     \* where the monitor thread of the worker's run is
    mjob,    \* the job it watches
    mseen,   \* status loaded by its _progress call
    asleep   \* workers that wait in queue.get() although there is a ticket

workerVars == <<wpc, wjob, wseen, wlast, wdying>>
monitorVars == <<mpc, mjob, mseen>>
runnerVars == <<wpc, wjob, wseen, wlast, wdying, mpc, mjob, mseen, asleep>>

WorkerPC == {"idle", "load", "claim", "prepare",
             "fetch", "saveDownloading", "saveProcessing", "check",
             "report", "saveLast", "publish", "move", "reload", "complete",
             "failWrite", "failClear", "pause", "pauseWrite",
             "join", "preserve", "remove", "dead"}
MonitorPC == {"off", "wait", "write"}
ReporterStatus == {"none", "downloading", "processing"}

\* stop_monitor of the worker's latest run is set (or the run has none yet).
MonitorStopped(w) ==
    wpc[w] \in {"idle", "load", "claim", "prepare", "preserve", "remove", "dead"}

RunnerTypeOK ==
    /\ wpc \in [Workers -> WorkerPC]
    /\ wjob \in [Workers -> Jobs \cup {NoJob}]
    /\ \A w \in Workers : wpc[w] # "idle" => wjob[w] \in Jobs
    /\ wseen \in [Workers -> RowStatus]
    /\ wlast \in [Workers -> ReporterStatus]
    /\ wdying \in [Workers -> BOOLEAN]
    /\ mpc \in [Workers -> MonitorPC]
    /\ mjob \in [Workers -> Jobs \cup {NoJob}]
    /\ \A w \in Workers : mpc[w] # "off" => mjob[w] \in Jobs
    /\ mseen \in [Workers -> RowStatus]
    /\ asleep \subseteq Workers

RunnerReset ==
    /\ wpc' = [w \in Workers |-> "idle"]
    /\ wjob' = [w \in Workers |-> NoJob]
    /\ wseen' = [w \in Workers |-> "absent"]
    /\ wlast' = [w \in Workers |-> "none"]
    /\ wdying' = [w \in Workers |-> FALSE]
    /\ mpc' = [w \in Workers |-> "off"]
    /\ mjob' = [w \in Workers |-> NoJob]
    /\ mseen' = [w \in Workers |-> "absent"]
    /\ asleep' = {}

RunnerInit ==
    /\ wpc = [w \in Workers |-> "idle"]
    /\ wjob = [w \in Workers |-> NoJob]
    /\ wseen = [w \in Workers |-> "absent"]
    /\ wlast = [w \in Workers |-> "none"]
    /\ wdying = [w \in Workers |-> FALSE]
    /\ mpc = [w \in Workers |-> "off"]
    /\ mjob = [w \in Workers |-> NoJob]
    /\ mseen = [w \in Workers |-> "absent"]
    /\ asleep = {}

-----------------------------------------------------------------------------
(* Building blocks of the steps of a worker's thread *)

At(w, pc) == wpc[w] = pc
GoTo(w, pc) == wpc' = [wpc EXCEPT ![w] = pc]
RowOf(w) == status[wjob[w]]

\* session.get(...) keeps the status it read for the commit that follows;
\* the end of the session forgets it.
Remember(w) == wseen' = [wseen EXCEPT ![w] = RowOf(w)]
Forget(w) == wseen' = [wseen EXCEPT ![w] = "absent"]
Commit(w, new) == status' = Flushed(wjob[w], wseen[w], new)

RemoveTemp(w) == temp' = [temp EXCEPT ![wjob[w]] = "none"]

\* The ProgressReporter is of no more use once the download is left.
ForgetReporter(w) == wlast' = [wlast EXCEPT ![w] = "none"]

\* The end of _process_job: back to queue.get(), or out of _worker for good.
Return(w) ==
    IF wdying[w]
    THEN GoTo(w, "dead") /\ UNCHANGED wjob
    ELSE GoTo(w, "idle") /\ wjob' = [wjob EXCEPT ![w] = NoJob]

\* Mutant of Raise: the exception is swallowed, the row is left as it is.
RaiseUnrecorded(w) ==
    /\ ForgetReporter(w)
    /\ GoTo(w, "join")
    /\ Forget(w)

\* An exception and the load _fail begins with; without a row it does nothing.
\* (What raises reads nothing another thread could change before that load.)
Raise(w) ==
    /\ ForgetReporter(w)
    /\ IF RowOf(w) = "absent"
       THEN GoTo(w, "join") /\ Forget(w)
       ELSE GoTo(w, "failWrite") /\ Remember(w)

-----------------------------------------------------------------------------
(* Taking a ticket and claiming the job *)

\* Mutant of Take: the ticket is looked at and not removed.
TakeKeepsTicket(w) ==
    /\ app = "up"
    /\ At(w, "idle") /\ w \notin asleep
    /\ queue # <<>>
    /\ wjob' = [wjob EXCEPT ![w] = Head(queue)]
    /\ GoTo(w, "load")
    /\ UNCHANGED <<shared, wseen, wlast, wdying, monitorVars, asleep>>

\* _worker: queue.get() hands the oldest ticket to a thread.  Who waits for an
\* empty queue is woken by the next put.
Take(w) ==
    /\ app = "up"
    /\ At(w, "idle") /\ w \notin asleep
    /\ queue # <<>>
    /\ queue' = Tail(queue)
    /\ asleep' = IF Len(queue) = 1 THEN {} ELSE asleep
    /\ wjob' = [wjob EXCEPT ![w] = Head(queue)]
    /\ GoTo(w, "load")
    /\ UNCHANGED <<rows, disk, app, todo, wseen, wlast, wdying, monitorVars>>

\* What put_nowait in a request thread does to the workers in get(): it wakes one
\* that waits.  But a worker that has seen the queue empty, and has not put its
\* future in the queue's list yet, is missed: it sleeps on until a later put.
WakeWorker ==
    \/ \E w \in Workers : queue = <<>> /\ At(w, "idle") /\ asleep' = asleep \cup {w}
    \/ \E w \in asleep : asleep' = asleep \ {w}
    \/ UNCHANGED asleep

\* The first session of _process_job: a ticket whose job is gone or no longer
\* queued is dropped.
LoadJob(w) ==
    /\ At(w, "load")
    /\ \/ /\ RowOf(w) = "queued"
          /\ Remember(w)
          /\ GoTo(w, "claim")
          /\ UNCHANGED wjob
       \/ /\ RowOf(w) # "queued"
          /\ Return(w)
          /\ UNCHANGED wseen
    /\ UNCHANGED <<shared, wlast, wdying, monitorVars>>

\* _set_status(extracting) commits over whatever the row holds by now.  When
\* the row was deleted the UPDATE matches nothing, StaleDataError leaves
\* _process_job and ends the worker task.
Claim(w) ==
    /\ At(w, "claim")
    /\ \/ /\ RowOf(w) # "absent"
          /\ Commit(w, "extracting")
          /\ GoTo(w, "prepare")
          /\ UNCHANGED wdying
       \/ /\ RowOf(w) = "absent"
          /\ GoTo(w, "dead")
          /\ wdying' = [wdying EXCEPT ![w] = TRUE]
          /\ UNCHANGED status
    /\ Forget(w)
    /\ UNCHANGED <<output, created, queue, disk, app, todo,
                   wjob, wlast, monitorVars>>

\* temp_job_dir, outside the try: an OSError of mkdir ends the worker task.
\* Otherwise the run's monitor thread starts.  A monitor that outlived the
\* join of the worker's previous run is waited for here, so that one slot
\* per worker is enough.
Prepare(w) ==
    /\ At(w, "prepare")
    /\ mpc[w] = "off"
    /\ \/ /\ temp' = [temp EXCEPT ![wjob[w]] = IF @ = "none" THEN "empty" ELSE @]
          /\ GoTo(w, "fetch")
          /\ mpc' = [mpc EXCEPT ![w] = "wait"]
          /\ mjob' = [mjob EXCEPT ![w] = wjob[w]]
          /\ UNCHANGED wdying
       \/ /\ "mkdir" \in Faults
          /\ GoTo(w, "dead")
          /\ wdying' = [wdying EXCEPT ![w] = TRUE]
          /\ UNCHANGED <<temp, mpc, mjob>>
    /\ UNCHANGED <<rows, queue, out, app, todo, wjob, wseen, wlast, mseen>>

-----------------------------------------------------------------------------
(* The download and its progress reports *)

SavePC(new) == IF new = "downloading" THEN "saveDownloading" ELSE "saveProcessing"

\* The load and the guards of _progress, called by ProgressReporter: a
\* settled or missing job is ignored, a paused one raises JobPaused, any
\* other is written next.
ReportTo(w, new, ignored, write) ==
    \/ /\ RowOf(w) \in {"absent", "failed", "completed"}
       /\ wlast' = [wlast EXCEPT ![w] = new]
       /\ GoTo(w, ignored)
       /\ UNCHANGED wseen
    \/ /\ RowOf(w) = "paused"
       /\ GoTo(w, "pause")
       /\ UNCHANGED <<wseen, wlast>>
    \/ /\ RowOf(w) \notin {"absent", "failed", "completed", "paused"}
       /\ Remember(w)
       /\ GoTo(w, write)
       /\ UNCHANGED wlast

\* A hook of the running download.  "downloading" comes first, "processing"
\* when a file is finished.  Calls that the interval drops are stutters.
ReportFetch(w, new) ==
    /\ At(w, "fetch")
    /\ new \in {"downloading", "processing"}
    /\ new = "processing" => /\ wlast[w] # "none"
                             /\ temp[wjob[w]] \in {"part", "media"}
    /\ ReportTo(w, new, "fetch", SavePC(new))
    /\ UNCHANGED <<shared, wjob, wdying, monitorVars>>

\* The commit of _progress.  On a deleted row StaleDataError reaches the
\* handlers of _process_job; a write that changes nothing is not sent.
SaveTo(w, new, next) ==
    \/ /\ RowOf(w) # "absent" \/ wseen[w] = new
       /\ Commit(w, new)
       /\ Forget(w)
       /\ wlast' = [wlast EXCEPT ![w] = new]
       /\ GoTo(w, next)
    \/ /\ RowOf(w) = "absent"
       /\ Raise(w)
       /\ UNCHANGED status

SaveProgress(w) ==
    /\ \/ At(w, "saveDownloading") /\ SaveTo(w, "downloading", "fetch")
       \/ At(w, "saveProcessing") /\ SaveTo(w, "processing", "fetch")
    /\ UNCHANGED <<output, created, queue, disk, app, todo,
                   wjob, wdying, monitorVars>>

\* The first bytes reach the temporary directory.
Download(w) ==
    /\ At(w, "fetch")
    /\ wlast[w] # "none"
    /\ temp[wjob[w]] = "empty"
    /\ temp' = [temp EXCEPT ![wjob[w]] = "part"]
    /\ UNCHANGED <<rows, queue, out, app, todo, runnerVars>>

\* fetch returns the finished file, which needs the directory to be there.
FetchReturns(w) ==
    /\ At(w, "fetch")
    /\ wlast[w] # "none"
    /\ temp[wjob[w]] # "none"
    /\ temp' = [temp EXCEPT ![wjob[w]] = "media"]
    /\ GoTo(w, "check")
    /\ UNCHANGED <<rows, queue, out, app, todo,
                   wjob, wseen, wlast, wdying, monitorVars>>

\* fetch raises: a source error, a conversion error, JobTimeout in a hook.
FetchFails(w) ==
    /\ At(w, "fetch")
    /\ Raise(w)
    /\ UNCHANGED <<shared, wjob, wdying, monitorVars>>

-----------------------------------------------------------------------------
(* Publishing the file and completing the job *)

\* _raise_if_paused, once, after the download.
CheckPaused(w) ==
    /\ At(w, "check")
    /\ GoTo(w, IF RowOf(w) = "paused" THEN "pause" ELSE "report")
    /\ UNCHANGED <<shared, wjob, wseen, wlast, wdying, monitorVars>>

\* report_progress(100, "processing"): past the deadline it raises; when the
\* last hook already said "processing" the interval may drop it.
ReportLast(w) ==
    /\ At(w, "report")
    /\ \/ ReportTo(w, "processing", "publish", "saveLast")
       \/ /\ wlast[w] = "processing"
          /\ GoTo(w, "publish")
          /\ UNCHANGED <<wseen, wlast>>
       \/ Raise(w)
    /\ UNCHANGED <<shared, wjob, wdying, monitorVars>>

SaveLast(w) ==
    /\ At(w, "saveLast")
    /\ SaveTo(w, "processing", "publish")
    /\ UNCHANGED <<output, created, queue, disk, app, todo,
                   wjob, wdying, monitorVars>>

\* publish_file up to the unlink of an older result.  The source may be gone
\* or too large, the directory may be refused.
PublishFile(w) ==
    /\ At(w, "publish")
    /\ \/ /\ temp[wjob[w]] = "media"
          /\ out' = [out EXCEPT ![wjob[w]] = "dir"]
          /\ GoTo(w, "move")
          /\ ForgetReporter(w)
          /\ UNCHANGED wseen
       \/ /\ Raise(w)
          /\ UNCHANGED out
    /\ UNCHANGED <<rows, queue, temp, app, todo,
                   wjob, wdying, monitorVars>>

\* Mutant of MoveFile: a failed move is ignored.
MoveFileUnchecked(w) ==
    /\ At(w, "move")
    /\ \E moved \in {"dir", "file"} : out' = [out EXCEPT ![wjob[w]] = moved]
    /\ RemoveTemp(w)
    /\ GoTo(w, "reload")
    /\ UNCHANGED <<rows, queue, app, todo,
                   wjob, wseen, wlast, wdying, monitorVars>>

\* shutil.move; a copy between volumes may fail half way.
MoveFile(w) ==
    /\ At(w, "move")
    /\ \/ /\ temp[wjob[w]] = "media"
          /\ out[wjob[w]] # "none"
          /\ out' = [out EXCEPT ![wjob[w]] = "file"]
          /\ temp' = [temp EXCEPT ![wjob[w]] = "empty"]
          /\ GoTo(w, "reload")
          /\ UNCHANGED <<wseen, wlast>>
       \/ /\ Raise(w)
          /\ UNCHANGED disk
    /\ UNCHANGED <<rows, queue, app, todo, wjob, wdying, monitorVars>>

Reload(w) ==
    /\ At(w, "reload")
    /\ IF RowOf(w) = "absent"
       THEN GoTo(w, "join") /\ UNCHANGED wseen
       ELSE GoTo(w, "complete") /\ Remember(w)
    /\ UNCHANGED <<shared, wjob, wlast, wdying, monitorVars>>

\* The final commit sets the status and output_path together.
Complete(w) ==
    /\ At(w, "complete")
    /\ \/ /\ RowOf(w) # "absent"
          /\ Commit(w, "completed")
          /\ output' = IF wseen[w] = "completed" THEN output
                       ELSE [output EXCEPT ![wjob[w]] = TRUE]
          /\ GoTo(w, "join")
          /\ Forget(w)
          /\ UNCHANGED wlast
       \/ /\ RowOf(w) = "absent"
          /\ Raise(w)
          /\ UNCHANGED <<status, output>>
    /\ UNCHANGED <<created, queue, disk, app, todo,
                   wjob, wdying, monitorVars>>

-----------------------------------------------------------------------------
(* The exception handlers and finally *)

\* _pause loads the row first, and does nothing without one.
LoadToPause(w) ==
    /\ At(w, "pause")
    /\ IF RowOf(w) = "absent"
       THEN GoTo(w, "join") /\ UNCHANGED wseen
       ELSE GoTo(w, "pauseWrite") /\ Remember(w)
    /\ ForgetReporter(w)
    /\ UNCHANGED <<shared, wjob, wdying, monitorVars>>

\* The commit of _fail and _pause.  On a deleted row, unless nothing was to
\* be written, StaleDataError is raised inside the handler: it passes through
\* finally and then ends the worker task.  (A row that is failed already may
\* still get another error code; a paused one has nothing left to write.)
HandlerCommit(w, new, next) ==
    /\ Forget(w)
    /\ \/ /\ RowOf(w) # "absent" \/ wseen[w] = new
          /\ Commit(w, new)
          /\ GoTo(w, next)
          /\ UNCHANGED wdying
       \/ /\ RowOf(w) = "absent"
          /\ wseen[w] # new \/ new = "failed"
          /\ GoTo(w, "join")
          /\ wdying' = [wdying EXCEPT ![w] = TRUE]
          /\ UNCHANGED status

WriteFailed(w) ==
    /\ At(w, "failWrite")
    /\ HandlerCommit(w, "failed", "failClear")
    /\ UNCHANGED <<output, created, queue, disk, app, todo,
                   wjob, wlast, monitorVars>>

WritePaused(w) ==
    /\ At(w, "pauseWrite")
    /\ HandlerCommit(w, "paused", "join")
    /\ UNCHANGED <<output, created, queue, disk, app, todo,
                   wjob, wlast, monitorVars>>

\* The rmtree at the end of _fail, whatever the job's status is by then.
ClearFailed(w) ==
    /\ At(w, "failClear")
    /\ RemoveTemp(w)
    /\ GoTo(w, "join")
    /\ UNCHANGED <<rows, queue, out, app, todo,
                   wjob, wseen, wlast, wdying, monitorVars>>

\* Mutant of JoinMonitor: join without the stop event and without a timeout.
JoinMonitorUnstopped(w) ==
    /\ At(w, "join")
    /\ mpc[w] = "off"
    /\ GoTo(w, "preserve")
    /\ UNCHANGED <<shared, wjob, wseen, wlast, wdying, monitorVars>>

\* stop_monitor.set() and join(timeout=1).  A monitor asleep in wait() ends;
\* one inside a database call may outlive the join.
JoinMonitor(w) ==
    /\ At(w, "join")
    /\ GoTo(w, "preserve")
    /\ IF mpc[w] = "wait"
       THEN /\ mpc' = [mpc EXCEPT ![w] = "off"]
            /\ mjob' = [mjob EXCEPT ![w] = NoJob]
       ELSE UNCHANGED <<mpc, mjob>>
    /\ UNCHANGED <<shared, wjob, wseen, wlast, wdying, mseen>>

\* _preserve_temp_dir, and the removal decided on it.
Preserve(w) ==
    /\ At(w, "preserve")
    /\ IF RowOf(w) \in {"paused", "interrupted"}
       THEN Return(w)
       ELSE GoTo(w, "remove") /\ UNCHANGED wjob
    /\ UNCHANGED <<shared, wseen, wlast, wdying, monitorVars>>

Remove(w) ==
    /\ At(w, "remove")
    /\ RemoveTemp(w)
    /\ Return(w)
    /\ UNCHANGED <<rows, queue, out, app, todo,
                   wseen, wlast, wdying, monitorVars>>

-----------------------------------------------------------------------------
(* _monitor_temp_download *)

MonitorEnd(w) ==
    /\ mpc' = [mpc EXCEPT ![w] = "off"]
    /\ mjob' = [mjob EXCEPT ![w] = NoJob]
    /\ mseen' = [mseen EXCEPT ![w] = "absent"]

\* Back to stop_monitor.wait().
MonitorAgain(w) ==
    IF MonitorStopped(w)
    THEN MonitorEnd(w)
    ELSE /\ mpc' = [mpc EXCEPT ![w] = "wait"]
         /\ mseen' = [mseen EXCEPT ![w] = "absent"]
         /\ UNCHANGED mjob

\* The wait timed out and there are bytes to report.  The loop skips a paused
\* job; when the pause comes between its check and the load of _progress,
\* JobPaused is raised in a thread without handler.
MonitorLoad(w) ==
    /\ w \in Monitored
    /\ mpc[w] = "wait"
    /\ temp[mjob[w]] \in {"part", "media"}
    /\ \/ /\ status[mjob[w]] = "paused"
          /\ MonitorEnd(w)
       \/ /\ status[mjob[w]] \notin {"absent", "failed", "completed", "paused"}
          /\ mpc' = [mpc EXCEPT ![w] = "write"]
          /\ mseen' = [mseen EXCEPT ![w] = status[mjob[w]]]
          /\ UNCHANGED mjob
    /\ UNCHANGED <<shared, workerVars>>

\* Its commit of "downloading", decided on the status read before.
MonitorWrite(w) ==
    /\ mpc[w] = "write"
    /\ IF status[mjob[w]] = "absent"
       THEN MonitorEnd(w) /\ UNCHANGED status
       ELSE /\ status' = Flushed(mjob[w], mseen[w], "downloading")
            /\ MonitorAgain(w)
    /\ UNCHANGED <<output, created, queue, disk, app, todo, workerVars>>

Monitor(w) == MonitorLoad(w) \/ MonitorWrite(w)

-----------------------------------------------------------------------------
(* start() and stop() *)

Oldest(j, S) == j \in S /\ \A k \in S : j <= k

\* Mutant of Start: interrupted jobs are put back in the queue as well.
StartRequeuesAll ==
    /\ app = "down"
    /\ app' = "recovering"
    /\ status' = [j \in Jobs |-> IF status[j] \in RunningStatus
                                 THEN "interrupted" ELSE status[j]]
    /\ todo' = {j \in Jobs : status[j] \in RunningStatus \cup {"queued"}}
    /\ UNCHANGED <<output, created, queue, disk, runnerVars>>

\* Mutant of Start: processing is missing from the interrupted statuses.
StartForgetsProcessing ==
    /\ app = "down"
    /\ app' = "recovering"
    /\ status' = [j \in Jobs |-> IF status[j] \in RunningStatus \ {"processing"}
                                 THEN "interrupted" ELSE status[j]]
    /\ todo' = {j \in Jobs : status[j] = "queued"}
    /\ UNCHANGED <<output, created, queue, disk, runnerVars>>

\* Mutant of Start: it also empties the temporary directories.
StartEmptiesTemp ==
    /\ app = "down"
    /\ app' = "recovering"
    /\ status' = [j \in Jobs |-> IF status[j] \in RunningStatus
                                 THEN "interrupted" ELSE status[j]]
    /\ todo' = {j \in Jobs : status[j] = "queued"}
    /\ temp' = [j \in Jobs |-> "none"]
    /\ UNCHANGED <<output, created, queue, out, runnerVars>>

\* start(): jobs that were running are interrupted, queued ones are listed.
Start ==
    /\ app = "down"
    /\ app' = "recovering"
    /\ status' = [j \in Jobs |-> IF status[j] \in RunningStatus
                                 THEN "interrupted" ELSE status[j]]
    /\ todo' = {j \in Jobs : status[j] = "queued"}
    /\ UNCHANGED <<output, created, queue, disk, runnerVars>>

\* Mutant of Recover: a job that does not fit is skipped, not failed.
RecoverSkipsFull ==
    /\ app = "recovering"
    /\ \E j \in Jobs :
       /\ Oldest(j, todo)
       /\ todo' = todo \ {j}
       /\ queue' = IF HasRoom THEN Append(queue, j) ELSE queue
    /\ UNCHANGED <<rows, disk, app, runnerVars>>

\* _recover_queued_jobs, oldest first; what does not fit is failed.
Recover ==
    /\ app = "recovering"
    /\ \E j \in Jobs :
       /\ Oldest(j, todo)
       /\ todo' = todo \ {j}
       /\ IF HasRoom
          THEN queue' = Append(queue, j) /\ UNCHANGED status
          ELSE status' = [status EXCEPT ![j] = "failed"] /\ UNCHANGED queue
    /\ UNCHANGED <<output, created, disk, app, runnerVars>>

\* The worker tasks exist and requests are served.
Serve ==
    /\ app = "recovering"
    /\ todo = {}
    /\ app' = "up"
    /\ UNCHANGED <<rows, queue, disk, todo, runnerVars>>

\* stop() cancels the worker tasks; the threads they wait for run on, and the
\* interpreter waits for those threads before it exits.
Stop ==
    /\ app = "up"
    /\ app' = "stopping"
    /\ UNCHANGED <<rows, queue, disk, todo, runnerVars>>

\* The process ends: its memory is gone, the database and the disk stay.
EndProcess ==
    /\ app' = "down"
    /\ queue' = <<>>
    /\ todo' = {}
    /\ RunnerReset
    /\ UNCHANGED <<rows, disk>>

Exit ==
    /\ app = "stopping"
    /\ \A w \in Workers : wpc[w] \in {"idle", "dead"}
    /\ EndProcess

Crash ==
    /\ "crash" \in Faults
    /\ app # "down"
    /\ EndProcess

-----------------------------------------------------------------------------

Run(w) ==
    \/ LoadJob(w) \/ Claim(w) \/ Prepare(w)
    \/ \E new \in {"downloading", "processing"} : ReportFetch(w, new)
    \/ SaveProgress(w) \/ Download(w) \/ FetchReturns(w) \/ FetchFails(w)
    \/ CheckPaused(w) \/ ReportLast(w) \/ SaveLast(w)
    \/ PublishFile(w) \/ MoveFile(w) \/ Reload(w) \/ Complete(w)
    \/ WriteFailed(w) \/ ClearFailed(w)
    \/ LoadToPause(w) \/ WritePaused(w)
    \/ JoinMonitor(w) \/ Preserve(w) \/ Remove(w)

=============================================================================
