----------------------------- MODULE Retention ------------------------------
(***************************************************************************)
(* JobSystem with the cleanup service beside it: workers, requests and the *)
(* cleanup pass share the rows and the directories without any lock.       *)
(***************************************************************************)
EXTENDS JobSystem, Cleanup

VARIABLE
    cut     \* completed jobs whose deletion began and was never committed

allVars == <<vars, cleanupVars, cut>>

RetentionInit == Init /\ CleanupInit /\ cut = {}

\* The completed jobs a handler has removed the files of.
BeingCut(c) == {j \in cleared[c] : status[j] = "completed"}

\* lifespan serves requests, and lets the workers run, only after the first
\* pass; it exits only when the thread of a pass is done.
Started == Serve /\ sweep = "idle"
Exited == Exit /\ sweep \in {"idle", "dead"}

\* The last commit of a run gives the row a new expires_at.
Completes(j) ==
    \E w \in Workers : wjob[w] = j /\ wpc[w] = "complete" /\ wpc'[w] = "join"

Renewed == due' = {j \in due : ~Completes(j)}

\* A deletion may also meet the cleanup pass in a directory.
CleanupFails(c) ==
    /\ \E j \in doomed[c] \ cleared[c] :
       \/ sweep = "rmtree" /\ entry = j
       \/ sweep = "expire" /\ j \in expiring \ emptied /\ out[j] # "none"
    /\ DeleteFails(c)
    /\ UNCHANGED runnerVars

RemembersCut ==
    cut' = cut \cup UNION {BeingCut(c) : c \in {d \in Clients : DeleteFails(d)}}

\* What a step of the job subsystem does to the state kept here.
Aside == Refreshed /\ Renewed /\ RemembersCut /\ UNCHANGED sweepVars

JobStep ==
    /\ \/ \E w \in Workers : WorkerStep(w) \/ MonitorStep(w)
       \/ \E c \in Clients : RequestStep(c) \/ CleanupFails(c)
       \/ (Start \/ Recover \/ Started \/ ShutDown) /\ UNCHANGED clientVars
    /\ Aside

EndStep ==
    /\ Exited \/ Crash
    /\ ApiReset
    /\ CleanupReset
    /\ cut' = cut \cup UNION {BeingCut(c) : c \in Clients}

\* Hours pass only while no request is under way, no monitor is in the middle of
\* a report and no worker is at work on the job, its download apart: every other
\* step takes seconds.
HoursPass ==
    /\ \A c \in Clients : cpc[c] = "idle"
    /\ \A w \in Workers : mpc[w] # "write"
    /\ \E j \in Jobs :
       \/ Age(j) /\ \A w \in Workers : wjob[w] = j => wpc[w] = "fetch"
       \/ FallDue(j) /\ \A w \in Workers : wjob[w] # j

CleanupStep ==
    /\ Sweep \/ HoursPass
    /\ UNCHANGED <<runnerVars, clientVars, cut>>

RetentionNext == JobStep \/ EndStep \/ CleanupStep

RetentionSpec == RetentionInit /\ [][RetentionNext]_allVars

-----------------------------------------------------------------------------
(* Properties *)

RetentionTypeOK == TypeOK /\ CleanupTypeOK /\ cut \subseteq Jobs

\* A request or a worker is about to remove the job's temporary directory.
RemovedByOthers(j) ==
    \/ \E c \in Clients : j \in doomed[c]
    \/ \E w \in Workers : wjob[w] = j /\ wpc[w] \in {"move", "failClear", "remove"}

\* Cleanup leaves the data of jobs alone that are queued, running, paused or
\* interrupted, although it decides on statuses it read at the beginning of
\* the pass.  (Holds without resume requests: a job that was not protected
\* then is either settled for good or newer than the pass.)
ActiveTempKept ==
    [][\A j \in Jobs :
         (status[j] \in TempProtected /\ temp[j] # "none" /\ temp'[j] = "none")
         => RemovedByOthers(j)]_allVars

\* While requests are served a completed row has its final file, unless a
\* request is deleting it, began to and did not commit (cut), or the cleanup pass
\* that found it due is not through with it.  (A pass that fails keeps `expiring`:
\* its rows stay completed without file until the next start, whose first pass
\* expires them.  So does one that a crash interrupted.)
FileUnlessRemoved ==
    app = "up" => \A j \in Jobs : status[j] = "completed" =>
        /\ output[j]
        /\ out[j] = "file" \/ j \in cut \cup expiring \/ \E c \in Clients : j \in doomed[c]

\* The same state as a user sees it.  A completed job is being removed while a
\* request or a pass is at it, after a deletion that was cut off, and between a
\* pass that was cut off and the one that repeats it.
Leaving(j) ==
    \/ j \in cut \cup expiring
    \/ \E c \in Clients : j \in doomed[c]
    \/ app # "up" /\ j \in due

RowOfItem(j) ==
    CASE j > created -> "none"
      [] j <= created /\ status[j] = "absent" -> "gone"
      [] status[j] \in {"completed", "expired"} -> status[j]
      [] OTHER -> "open"

LifeOf == [j \in Jobs |-> [row |-> RowOfItem(j), file |-> out[j] = "file",
                         leaving |-> status[j] = "completed" /\ Leaving(j)]]

Kept == INSTANCE Library WITH Items <- Jobs, life <- LifeOf

\* Rows and files keep their promise to each other across requests, runs, passes and
\* crashes: nothing is completed without its file, nothing loses it unannounced, and
\* a row goes last and for good.  (Without resume requests, as above.)
KeepsLibrary == Kept!LibrarySpec

\* Fairness: the threads of JobSystem, and the cleanup task: its interval ends
\* and its pass is carried through.
RetentionFairness ==
    /\ \A w \in Workers :
          /\ WF_allVars(WorkerStep(w) /\ Aside)
          /\ SF_allVars(FetchEnds(w) /\ UNCHANGED <<asleep, clientVars>> /\ Aside)
          /\ WF_allVars(MonitorStep(w) /\ Aside)
    /\ \A c \in Clients : WF_allVars(FinishStep(c) /\ Aside)
    /\ WF_allVars(Sweep /\ UNCHANGED <<runnerVars, clientVars, cut>>)

FairRetention == RetentionSpec /\ RetentionFairness

-----------------------------------------------------------------------------
(* A promise of the documentation that the code does not keep *)

\* Expired outputs are cleaned up automatically: a completed job whose
\* retention is over does not stay while the server is up.
OutputsExpire ==
    \A j \in Jobs :
        (app = "up" /\ j \in due /\ status[j] = "completed") ~>
            (status[j] # "completed" \/ app # "up")

=============================================================================
