--------------------------- MODULE RetentionProofs --------------------------
(***************************************************************************)
(* Theorems about Retention: what the cleanup service leaves alone, and    *)
(* what rows and files promise each other, for every number of jobs,       *)
(* workers and request threads, and every choice of faults.                *)
(***************************************************************************)
EXTENDS Retention, JobSystemProofs

-----------------------------------------------------------------------------
(* Three kinds of step *)

\* What a deletion that meets the cleanup pass does to the job subsystem.
Walked(c) == DeleteFails(c) /\ UNCHANGED runnerVars

LEMMA StepKinds ==
  ASSUME RetentionNext
  PROVE  Next \/ (\E c \in Clients : Walked(c)) \/ CleanupStep
<1>1. CASE JobStep
  <2>1. (Start \/ Recover \/ Started) /\ UNCHANGED clientVars => StartUp
    BY DEF Started, StartUp
  <2>2. ShutDown /\ UNCHANGED clientVars => ProcessEnd
    BY DEF ProcessEnd
  <2>3. \A c \in Clients : CleanupFails(c) => Walked(c)
    BY DEF CleanupFails, Walked
  <2> QED BY <1>1, <2>1, <2>2, <2>3 DEF JobStep, Next
<1>2. CASE EndStep
  BY <1>2 DEF EndStep, Exited, Next, ProcessEnd
<1> QED BY <1>1, <1>2 DEF RetentionNext

\* What a step of the cleanup service leaves alone.
LEMMA CleanupFrame ==
  ASSUME CleanupStep
  PROVE  UNCHANGED <<created, queue, app, todo, runnerVars, clientVars, cut>>
<1> USE DEF shared
<1>1. CASE Sweep
  BY <1>1 DEF CleanupStep, Sweep, SweepBegin, Visit, Stat, RemoveStale, SelectExpired,
              RemoveOutput, CommitExpired, rows
<1>2. CASE HoursPass
  BY <1>2 DEF CleanupStep, HoursPass, Age, FallDue
<1> QED BY <1>1, <1>2 DEF CleanupStep

-----------------------------------------------------------------------------
(* Types *)

\* The cleanup service writes rows and directories.
LEMMA CleanupKeepsTypes ==
  ASSUME Types, CleanupTypeOK, CleanupStep
  PROVE  Types'
<1>1. UNCHANGED <<created, queue, app, todo, runnerVars, clientVars>>
  BY CleanupFrame
<1>2. RunnerTypeOK' /\ ApiTypeOK'
  BY <1>1 DEF Types, RunnerTypeOK, ApiTypeOK, runnerVars, clientVars
<1>3. /\ status' \in [Jobs -> RowStatus] /\ output' \in [Jobs -> BOOLEAN]
      /\ temp' \in [Jobs -> TempStates] /\ out' \in [Jobs -> OutStates]
  <2>a. /\ status \in [Jobs -> RowStatus] /\ output \in [Jobs -> BOOLEAN]
        /\ temp \in [Jobs -> TempStates] /\ out \in [Jobs -> OutStates]
        /\ entry \in Jobs \cup {NoJob}
    BY DEF Types, SharedTypeOK, CleanupTypeOK
  <2>1. CASE UNCHANGED <<rows, disk>>
    BY <2>a, <2>1 DEF rows, disk
  <2>2. CASE RemoveStale
    BY <2>a, <2>2, PlaceMembers DEF RemoveStale, rows
  <2>3. ASSUME NEW j \in Jobs, RemoveOutput(j)
        PROVE  /\ status' \in [Jobs -> RowStatus] /\ output' \in [Jobs -> BOOLEAN]
               /\ temp' \in [Jobs -> TempStates] /\ out' \in [Jobs -> OutStates]
    BY <2>a, <2>3, PlaceMembers DEF RemoveOutput, rows
  <2>4. CASE CommitExpired
    <3>1. "expired" \in RowStatus
      BY DEF RowStatus, JobStatus
    <3> QED BY <2>a, <2>4, <3>1 DEF CommitExpired, disk
  <2>5. Sweep => \/ UNCHANGED <<rows, disk>> \/ RemoveStale \/ CommitExpired
                 \/ \E j \in Jobs : RemoveOutput(j)
    BY DEF Sweep, SweepBegin, Visit, Stat, SelectExpired, shared, rows, disk
  <2>6. HoursPass => UNCHANGED <<rows, disk>>
    BY DEF HoursPass, Age, FallDue, shared, rows, disk
  <2> QED BY <2>1, <2>2, <2>3, <2>4, <2>5, <2>6 DEF CleanupStep
<1> QED BY <1>1, <1>2, <1>3 DEF Types, SharedTypeOK

LEMMA WalkedKeepsTypes ==
  ASSUME Types, NEW c \in Clients, Walked(c)
  PROVE  Types' /\ UNCHANGED <<shared, runnerVars>> /\ cpc' = [cpc EXCEPT ![c] = "idle"]
<1>1. /\ UNCHANGED <<shared, runnerVars>> /\ Answer(c)
      /\ cpc' = [cpc EXCEPT ![c] = "idle"]
  BY DEF Walked, DeleteFails, Answer
<1>2. SharedTypeOK' /\ RunnerTypeOK'
  BY <1>1 DEF Types, SharedTypeOK, RunnerTypeOK, shared, rows, disk, runnerVars
<1>3. ApiTypeOK'
  BY <1>1, StatusMembers, ClientMembers DEF Types, ApiTypeOK, Answer
<1> QED BY <1>1, <1>2, <1>3 DEF Types

\* The state of the pass itself: it has found and emptied outputs only at its end.
PassInv ==
    /\ CleanupTypeOK
    /\ sweep \notin {"expire", "dead"} => expiring = {} /\ emptied = {}

LEMMA StepKeepsPass ==
  ASSUME Types, PassInv, RetentionNext
  PROVE  PassInv'
<1> USE DEF PassInv, CleanupTypeOK
<1>1. CASE JobStep
  BY <1>1 DEF JobStep, Aside, Refreshed, Renewed, sweepVars
<1>2. CASE EndStep
  BY <1>2 DEF EndStep, CleanupReset, ageVars, SweepPC
<1>3. CASE HoursPass
  BY <1>3 DEF HoursPass, Age, FallDue, sweepVars
<1>4. CASE Sweep
  <2>1. CASE SweepBegin
    BY <2>1 DEF SweepBegin, ageVars, SweepPC
  <2>2. ASSUME NEW j \in Jobs, Visit(j) PROVE PassInv'
    BY <2>2 DEF Visit, ageVars, SweepPC
  <2>3. CASE Stat
    BY <2>3 DEF Stat, ageVars, SweepPC
  <2>4. CASE RemoveStale
    BY <2>4 DEF RemoveStale, Refreshed, SweepPC
  <2>5. CASE SelectExpired
    BY <2>5 DEF SelectExpired, ageVars, SweepPC
  <2>6. ASSUME NEW j \in Jobs, RemoveOutput(j) PROVE PassInv'
    BY <2>6 DEF RemoveOutput, ageVars, SweepPC
  <2>7. CASE CommitExpired
    BY <2>7 DEF CommitExpired, ageVars, SweepPC
  <2> QED BY <1>4, <2>1, <2>2, <2>3, <2>4, <2>5, <2>6, <2>7 DEF Sweep
<1> QED BY <1>1, <1>2, <1>3, <1>4 DEF RetentionNext, CleanupStep

\* Completed jobs only are remembered as cut.
LEMMA CutGrows ==
  ASSUME Types, cut \subseteq Jobs, RetentionNext
  PROVE  cut \subseteq cut' /\ cut' \subseteq Jobs
<1>1. \A c \in Clients : BeingCut(c) \subseteq Jobs
  BY DEF BeingCut, Types, ApiTypeOK
<1>2. CASE JobStep
  BY <1>1, <1>2 DEF JobStep, Aside, RemembersCut
<1>3. CASE EndStep
  BY <1>1, <1>3 DEF EndStep
<1>4. CASE CleanupStep
  BY <1>4, CleanupFrame
<1> QED BY <1>2, <1>3, <1>4 DEF RetentionNext

\* The strengthening of RetentionTypeOK, inductive whatever requests there are.
TypesInv == Types /\ QueueInv /\ PassInv /\ cut \subseteq Jobs

LEMMA StepKeepsTypes ==
  ASSUME TypesInv, RetentionNext
  PROVE  TypesInv'
<1> USE DEF TypesInv
<1>1. PassInv' /\ cut' \subseteq Jobs
  BY StepKeepsPass, CutGrows
<1>2. CASE Next
  <2>1. Types'
    BY <1>2, WorkerKeepsTypes, MonitorKeepsTypes, RequestKeepsTypes, LifecycleKeepsTypes
       DEF Next
  <2>2. QueueInv'
    BY <1>2, RequestKeepsBound, OthersKeepBound DEF Next
  <2> QED BY <1>1, <2>1, <2>2
<1>3. ASSUME NEW c \in Clients, Walked(c) PROVE TypesInv'
  <2>1. Types' /\ UNCHANGED <<shared, runnerVars>> /\ cpc' = [cpc EXCEPT ![c] = "idle"]
    BY <1>3, WalkedKeepsTypes
  <2>2. cpc \in [Clients -> ClientPC] /\ Len(queue) \in Nat
    BY DEF Types, SharedTypeOK, ApiTypeOK
  <2>3. Putting' \subseteq Putting /\ queue' = queue /\ app' = app
    BY <2>1, <2>2 DEF Putting, shared
  <2>4. (app \in {"down", "recovering"} => \A d \in Clients : cpc[d] = "idle")'
    BY <2>1, <2>2, <2>3 DEF QueueInv
  <2>5. QueueInv'
    BY <2>2, <2>3, <2>4, NothingPut
  <2> QED BY <1>1, <2>1, <2>5
<1>4. CASE CleanupStep
  <2>1. Types' /\ UNCHANGED <<queue, app, clientVars>>
    BY <1>4, CleanupKeepsTypes, CleanupFrame DEF PassInv
  <2>2. QueueInv'
    BY <2>1 DEF QueueInv, Putting, clientVars
  <2> QED BY <1>1, <2>1, <2>2
<1> QED BY <1>2, <1>3, <1>4, StepKinds

LEMMA TypesUnchanged ==
  ASSUME TypesInv, UNCHANGED allVars
  PROVE  TypesInv'
<1>1. UNCHANGED <<shared, runnerVars, clientVars, cleanupVars, cut>>
  BY DEF allVars, vars
<1>2. Types'
  BY <1>1 DEF TypesInv, Types, SharedTypeOK, RunnerTypeOK, ApiTypeOK, shared, rows, disk,
              runnerVars, clientVars
<1>3. QueueInv'
  BY <1>1 DEF TypesInv, QueueInv, Putting, shared, clientVars
<1>4. PassInv'
  BY <1>1 DEF TypesInv, PassInv, CleanupTypeOK, cleanupVars
<1> QED BY <1>1, <1>2, <1>3, <1>4 DEF TypesInv

LEMMA InitTypes ==
  ASSUME RetentionInit
  PROVE  TypesInv
<1>1. Types
  <2>1. SharedTypeOK
    <3>1. created \in 0..MaxJobs
      BY JobStateAssumption DEF RetentionInit, Init, SharedInit
    <3> QED
      BY <3>1, StatusMembers, PlaceMembers DEF RetentionInit, Init, SharedInit, SharedTypeOK
  <2>2. RunnerTypeOK /\ ApiTypeOK
    BY StatusMembers, WorkerMembers, MonitorMembers, ClientMembers
       DEF RetentionInit, Init, RunnerInit, RunnerTypeOK, ApiInit, ApiTypeOK
  <2> QED BY <2>1, <2>2 DEF Types
<1>2. QueueInv
  <2>1. Len(queue) = 0 /\ Putting = {} /\ \A c \in Clients : cpc[c] = "idle"
    BY DEF RetentionInit, Init, SharedInit, ApiInit, Putting
  <2>2. Cardinality(Putting) = 0
    BY <2>1, FS_EmptySet
  <2> QED BY <2>1, <2>2, PuttingCounted, JobStateAssumption DEF QueueInv
<1>3. PassInv
  BY DEF RetentionInit, CleanupInit, PassInv, CleanupTypeOK, SweepPC
<1> QED BY <1>1, <1>2, <1>3 DEF TypesInv, RetentionInit

LEMMA TypesGiveTypeOK ==
  ASSUME TypesInv
  PROVE  TypeOK
<1>1. Len(queue) \in Nat
  BY DEF TypesInv, Types, SharedTypeOK
<1>2. QueueBounded
  BY <1>1, PuttingCounted, JobStateAssumption DEF TypesInv, QueueInv, QueueBounded
<1> QED BY <1>2 DEF TypesInv, Types, TypeOK

LEMMA AlwaysTypes == RetentionSpec => []TypesInv
<1>1. TypesInv /\ [RetentionNext]_allVars => TypesInv'
  BY StepKeepsTypes, TypesUnchanged
<1> QED BY <1>1, InitTypes, PTL DEF RetentionSpec

\* Type correctness of the job subsystem with the cleanup service beside it: the
\* service writes rows and directories at any time without breaking a type, and the
\* queue keeps its bound.
THEOREM RetentionTypeCorrect == RetentionSpec => []RetentionTypeOK
<1>1. TypesInv => RetentionTypeOK
  BY TypesGiveTypeOK DEF TypesInv, PassInv, RetentionTypeOK
<1> QED BY <1>1, AlwaysTypes, PTL

-----------------------------------------------------------------------------
(* What the job subsystem keeps, kept beside the cleanup service *)

\* Whoever loaded the row of a queued job to claim it finds it queued still, and a
\* claimed job is not queued again.
ClaimInv ==
    /\ \A w \in Workers : wpc[w] = "claim" => wseen[w] = "queued"
    /\ \A w \in Workers : wpc[w] \notin {"idle", "load", "claim"} => status[wjob[w]] # "queued"

\* A monitor watches the job of its worker's run until the run is over; what it has
\* read by then it still writes.
MonitorsFollow ==
    \A w \in Workers :
        /\ mpc[w] = "off" => mjob[w] = NoJob
        /\ mpc[w] = "wait" => ~MonitorStopped(w)
        /\ mpc[w] # "off" /\ ~MonitorStopped(w) => mjob[w] = wjob[w]

\* What a step of a run does to the row of its job.
LEMMA RunRows ==
  ASSUME TypeOK, OnceInv, ClaimInv, NEW w \in Workers, Run(w)
  PROVE  /\ wpc[w] = "claim" => status'[wjob[w]] = "extracting"
         /\ \/ UNCHANGED <<status, output>>
            \/ /\ wpc[w] \notin Ended /\ wjob' = wjob
               /\ \E new \in {"extracting", "downloading", "processing", "paused",
                              "completed", "failed"} :
                     /\ status' = [status EXCEPT ![wjob[w]] = new] /\ out' = out
                     /\ new = "failed" => wpc'[w] = "failClear"
                     /\ new = "completed" =>
                          /\ wpc[w] = "complete" /\ wpc'[w] = "join"
                          /\ output' = [output EXCEPT ![wjob[w]] = TRUE]
                     /\ new # "completed" => output' = output
<1>a. /\ wpc \in [Workers -> WorkerPC] /\ status \in [Jobs -> RowStatus]
      /\ output \in [Jobs -> BOOLEAN] /\ wjob[w] \in Jobs
  BY RunHasRow DEF TypeOK, RunnerTypeOK, SharedTypeOK
<1>b. wpc[w] \notin Ended => RowOf(w) # "absent"
  BY RunHasRow
<1> USE <1>a, SMTT(30) DEF Ended, shared, rows, disk, At, GoTo, Commit, Flushed
<1>1. CASE Claim(w)
  <2>1. wseen[w] = "queued"
    BY <1>1 DEF Claim, ClaimInv
  <2> QED BY <1>1, <1>b, <2>1 DEF Claim
<1>2. CASE SaveProgress(w) \/ SaveLast(w)
  BY <1>2, <1>b DEF SaveProgress, SaveLast, SaveTo
<1>3. CASE Complete(w)
  BY <1>3, <1>b DEF Complete
<1>4. CASE WriteFailed(w) \/ WritePaused(w)
  BY <1>4, <1>b DEF WriteFailed, WritePaused, HandlerCommit
<1>5. CASE \E new \in {"downloading", "processing"} : ReportFetch(w, new)
  BY <1>5 DEF ReportFetch
<1> QED
  BY <1>1, <1>2, <1>3, <1>4, <1>5
     DEF Run, LoadJob, Prepare, Download, FetchReturns, FetchFails, CheckPaused, ReportLast,
         PublishFile, MoveFile, Reload, ClearFailed, LoadToPause, JoinMonitor, Preserve,
         Remove

\* What a step of a run does to the directories of its job.
LEMMA RunFiles ==
  ASSUME TypeOK, OnceInv, NEW w \in Workers, Run(w)
  PROVE  /\ wpc[w] = "failClear" => temp'[wjob[w]] = "none"
         /\ \/ UNCHANGED <<temp, out>> /\ wpc'[w] # "reload"
            \/ /\ wpc[w] \in {"prepare", "fetch"} /\ wpc'[w] # "reload" /\ out' = out
               /\ \E new \in {"empty", "part", "media"} :
                     temp' = [temp EXCEPT ![wjob[w]] = new]
            \/ /\ wpc[w] = "publish" /\ wpc'[w] = "move" /\ temp' = temp
               /\ out' = [out EXCEPT ![wjob[w]] = "dir"]
            \/ /\ wpc[w] = "move" /\ wpc'[w] = "reload" /\ wjob' = wjob
               /\ temp[wjob[w]] = "media" /\ temp' = [temp EXCEPT ![wjob[w]] = "empty"]
               /\ out' = [out EXCEPT ![wjob[w]] = "file"]
            \/ /\ wpc[w] \in {"failClear", "remove"} /\ wpc'[w] # "reload" /\ out' = out
               /\ temp' = [temp EXCEPT ![wjob[w]] = "none"]
<1>a. /\ wpc \in [Workers -> WorkerPC] /\ temp \in [Jobs -> TempStates]
      /\ out \in [Jobs -> OutStates] /\ wjob[w] \in Jobs
  BY RunHasRow DEF TypeOK, RunnerTypeOK, SharedTypeOK
<1> USE <1>a, SMTT(30) DEF shared, disk, At, GoTo, TempStates
<1>1. CASE Prepare(w) \/ Download(w) \/ FetchReturns(w)
  BY <1>1 DEF Prepare, Download, FetchReturns, runnerVars
<1>2. CASE PublishFile(w) \/ MoveFile(w)
  BY <1>2 DEF PublishFile, MoveFile, Raise
<1>3. CASE ClearFailed(w) \/ Remove(w)
  <2>1. Return(w) => wpc'[w] = "idle"
    BY RunHasRow
  <2> QED BY <1>3, <2>1 DEF ClearFailed, Remove, RemoveTemp
<1>4. ASSUME NEW new \in {"downloading", "processing"}, ReportFetch(w, new)
      PROVE  UNCHANGED <<temp, out>> /\ wpc'[w] # "reload" /\ wpc[w] # "failClear"
  BY <1>4 DEF ReportFetch, ReportTo, SavePC
<1>5. CASE LoadJob(w) \/ Preserve(w)
  <2>1. Return(w) => wpc'[w] = "idle"
    BY RunHasRow
  <2> QED BY <1>5, <2>1 DEF LoadJob, Preserve
<1>6. CASE \/ Claim(w) \/ SaveProgress(w) \/ FetchFails(w) \/ CheckPaused(w) \/ ReportLast(w)
           \/ SaveLast(w) \/ Reload(w) \/ Complete(w)
  BY <1>6 DEF Claim, SaveProgress, SaveTo, FetchFails, CheckPaused, ReportLast, ReportTo,
              SaveLast, Reload, Complete, Raise
<1>7. CASE WriteFailed(w) \/ WritePaused(w) \/ LoadToPause(w) \/ JoinMonitor(w)
  BY <1>7 DEF WriteFailed, WritePaused, HandlerCommit, LoadToPause, JoinMonitor
<1>8. CASE \E new \in {"downloading", "processing"} : ReportFetch(w, new)
  BY <1>4, <1>8
<1> QED
  BY <1>1, <1>2, <1>3, <1>5, <1>6, <1>7, <1>8 DEF Run

\* How a run gets to the places that the invariants below speak of.
LEMMA RunPlaces ==
  ASSUME TypeOK, OnceInv, NEW w \in Workers, Run(w)
  PROVE  /\ wpc'[w] # "load" /\ (wpc'[w] = "claim" => wpc[w] = "load")
         /\ wpc[w] = "load" => \/ wpc'[w] = "idle"
                               \/ wpc'[w] = "claim" /\ wseen'[w] = "queued"
         /\ wpc'[w] = "complete" => wpc[w] = "reload"
         /\ wjob'[w] \in {wjob[w], NoJob}
         /\ \A v \in Workers \ {w} : wseen'[v] = wseen[v]
<1>a. /\ wpc \in [Workers -> WorkerPC] /\ wseen \in [Workers -> RowStatus]
      /\ wjob \in [Workers -> Jobs \cup {NoJob}]
  BY DEF TypeOK, RunnerTypeOK
<1>b. Return(w) => wpc'[w] = "idle" /\ wjob'[w] = NoJob
  BY <1>a, RunHasRow DEF GoTo
<1> USE <1>a, SMTT(30) DEF At, GoTo, Remember, Forget, RowOf
<1>1. CASE LoadJob(w) \/ Preserve(w) \/ Remove(w)
  BY <1>1, <1>b DEF LoadJob, Preserve, Remove
<1>2. CASE Claim(w) \/ Prepare(w) \/ Download(w) \/ FetchReturns(w)
  BY <1>2 DEF Claim, Prepare, Download, FetchReturns, runnerVars
<1>3. CASE \E new \in {"downloading", "processing"} : ReportFetch(w, new)
  BY <1>3 DEF ReportFetch, ReportTo, SavePC
<1>4. CASE SaveProgress(w) \/ SaveLast(w)
  BY <1>4 DEF SaveProgress, SaveLast, SaveTo, Raise
<1>5. CASE FetchFails(w) \/ CheckPaused(w) \/ ReportLast(w)
  BY <1>5 DEF FetchFails, CheckPaused, ReportLast, ReportTo, Raise
<1>6. CASE PublishFile(w) \/ MoveFile(w) \/ Reload(w) \/ Complete(w)
  BY <1>6 DEF PublishFile, MoveFile, Reload, Complete, Raise
<1>7. CASE WriteFailed(w) \/ WritePaused(w) \/ ClearFailed(w) \/ LoadToPause(w)
           \/ JoinMonitor(w)
  BY <1>7 DEF WriteFailed, WritePaused, HandlerCommit, ClearFailed, LoadToPause, JoinMonitor
<1> QED BY <1>1, <1>2, <1>3, <1>4, <1>5, <1>6, <1>7 DEF Run

\* A run starts a monitor when there is none, and ends the one that waits.
LEMMA RunMonitors ==
  ASSUME TypeOK, OnceInv, MonitorsFollow, NEW w \in Workers, Run(w)
  PROVE  /\ MonitorsFollow'
         /\ \A v \in Workers : mpc'[v] = "write" => mpc[v] = "write" /\ mjob'[v] = mjob[v]
         /\ \A v \in Workers : \/ mjob'[v] \in {mjob[v], NoJob}
                               \/ v = w /\ mjob'[v] = wjob[w] /\ wpc[w] = "prepare"
<1>a. /\ wpc \in [Workers -> WorkerPC] /\ wjob \in [Workers -> Jobs \cup {NoJob}]
      /\ mpc \in [Workers -> MonitorPC] /\ mjob \in [Workers -> Jobs \cup {NoJob}]
  BY DEF TypeOK, RunnerTypeOK
<1>b. Return(w) => wpc' = [wpc EXCEPT ![w] = "idle"]
  BY RunHasRow DEF GoTo
<1>c. \A v \in Workers \ {w} : wpc'[v] = wpc[v] /\ wjob'[v] = wjob[v]
  BY RunMoves
<1> USE <1>a, SMTT(30) DEF MonitorStopped, At, GoTo
<1>1. CASE Prepare(w)
  BY <1>1, <1>c DEF MonitorsFollow, Prepare
<1>2. CASE JoinMonitor(w)
  BY <1>2, <1>c DEF MonitorsFollow, JoinMonitor
<1>3. CASE /\ UNCHANGED monitorVars
           /\ ~MonitorStopped(w) => ~MonitorStopped(w)'
           /\ ~MonitorStopped(w)' => ~MonitorStopped(w) /\ wjob'[w] = wjob[w]
  BY <1>3, <1>c DEF MonitorsFollow, monitorVars
<1>4. CASE LoadJob(w) \/ Preserve(w) \/ Remove(w)
  <2>1. UNCHANGED monitorVars /\ MonitorStopped(w)
    BY <1>4 DEF LoadJob, Preserve, Remove
  <2>2. MonitorStopped(w)'
    BY <1>4, <1>b DEF LoadJob, Preserve, Remove
  <2> QED BY <1>3, <2>1, <2>2
<1>5. CASE Claim(w)
  BY <1>3, <1>5 DEF Claim, MonitorsFollow
<1>6. CASE Download(w) \/ FetchReturns(w) \/ \E new \in {"downloading", "processing"} : ReportFetch(w, new)
  <2>1. UNCHANGED <<monitorVars, wjob>>
    BY <1>6 DEF Download, FetchReturns, ReportFetch, runnerVars, monitorVars
  <2>2. ~MonitorStopped(w) /\ ~MonitorStopped(w)'
    BY <1>6 DEF Download, FetchReturns, ReportFetch, ReportTo, SavePC, runnerVars
  <2> QED BY <1>3, <2>1, <2>2
<1>7. CASE SaveProgress(w) \/ SaveLast(w) \/ FetchFails(w) \/ CheckPaused(w) \/ ReportLast(w)
  <2>1. UNCHANGED <<monitorVars, wjob>>
    BY <1>7 DEF SaveProgress, SaveLast, FetchFails, CheckPaused, ReportLast
  <2>2. ~MonitorStopped(w) /\ ~MonitorStopped(w)'
    BY <1>7 DEF SaveProgress, SaveLast, FetchFails, CheckPaused, ReportLast, SaveTo, ReportTo,
                Raise
  <2> QED BY <1>3, <2>1, <2>2
<1>8. CASE PublishFile(w) \/ MoveFile(w) \/ Reload(w) \/ Complete(w)
  <2>1. UNCHANGED <<monitorVars, wjob>>
    BY <1>8 DEF PublishFile, MoveFile, Reload, Complete
  <2>2. ~MonitorStopped(w) /\ ~MonitorStopped(w)'
    BY <1>8 DEF PublishFile, MoveFile, Reload, Complete, Raise
  <2> QED BY <1>3, <2>1, <2>2
<1>9. CASE WriteFailed(w) \/ WritePaused(w) \/ ClearFailed(w) \/ LoadToPause(w)
  <2>1. UNCHANGED <<monitorVars, wjob>>
    BY <1>9 DEF WriteFailed, WritePaused, ClearFailed, LoadToPause
  <2>2. ~MonitorStopped(w) /\ ~MonitorStopped(w)'
    BY <1>9 DEF WriteFailed, WritePaused, ClearFailed, LoadToPause, HandlerCommit
  <2> QED BY <1>3, <2>1, <2>2
<1> QED BY <1>1, <1>2, <1>4, <1>5, <1>6, <1>7, <1>8, <1>9 DEF Run

\* The monitors themselves.
LEMMA MonitorMoves ==
  ASSUME TypeOK, MonitorsFollow, NEW w \in Workers, MonitorStep(w)
  PROVE  /\ MonitorsFollow'
         /\ \A v \in Workers : \/ mjob'[v] \in {mjob[v], NoJob}
         /\ \A v \in Workers : mpc'[v] = "write" =>
               /\ mjob'[v] = mjob[v]
               /\ \/ mpc[v] = "write"
                  \/ /\ mpc[v] = "wait"
                     /\ status[mjob[v]] \notin {"absent", "failed", "completed", "paused"}
         /\ UNCHANGED <<output, created, queue, temp, out, todo, app, workerVars, clientVars>>
         /\ \/ status' = status
            \/ /\ mpc[w] = "write" /\ mjob[w] \in Jobs /\ status[mjob[w]] # "absent"
               /\ status' = [status EXCEPT ![mjob[w]] = "downloading"]
<1>a. /\ wpc \in [Workers -> WorkerPC] /\ wjob \in [Workers -> Jobs \cup {NoJob}]
      /\ mpc \in [Workers -> MonitorPC] /\ mjob \in [Workers -> Jobs \cup {NoJob}]
      /\ \A v \in Workers : mpc[v] # "off" => mjob[v] \in Jobs
  BY DEF TypeOK, RunnerTypeOK
<1> USE <1>a, SMTT(30) DEF MonitorStep, shared, rows, disk, workerVars
<1>1. CASE MonitorLoad(w)
  BY <1>1 DEF MonitorLoad, MonitorEnd, MonitorsFollow, MonitorStopped
<1>2. CASE MonitorWrite(w)
  <2>1. /\ UNCHANGED <<output, created, queue, temp, out, todo, app, workerVars, clientVars>>
        /\ mpc[w] = "write" /\ mjob[w] \in Jobs
        /\ MonitorEnd(w) \/ MonitorAgain(w)
        /\ \/ status' = status
           \/ /\ status[mjob[w]] # "absent"
              /\ status' = [status EXCEPT ![mjob[w]] = "downloading"]
    BY <1>2 DEF MonitorWrite, Flushed
  <2>2. ~MonitorStopped(w) => mjob[w] = wjob[w]
    BY <2>1 DEF MonitorsFollow
  <2> QED BY <2>1, <2>2 DEF MonitorAgain, MonitorEnd, MonitorsFollow, MonitorStopped
<1> QED BY <1>1, <1>2 DEF MonitorStep, Monitor
\* A request that has read the row and will write that the job is paused; a monitor
\* that has and will write that it is downloading.
Pausing(j) == \E c \in Clients : cjob[c] = j /\ cpc[c] = "pause"
Reporting(j) == \E w \in Workers : mjob[w] = j /\ mpc[w] = "write"

\* What a step of the job subsystem may do to the row of job j, ...
RowEffect(j) ==
    \/ status'[j] = status[j] /\ (status[j] = "completed" => output'[j] = output[j])
    \/ j > created /\ j <= created' /\ status'[j] = "queued"
    \/ \E w \in Workers :
         /\ Handles(w, j) /\ wpc[w] \notin Ended /\ wjob'[w] = j
         /\ \/ status'[j] \in {"extracting", "downloading", "processing", "paused"}
            \/ status'[j] = "failed" /\ wpc'[w] = "failClear"
            \/ status'[j] = "completed" /\ output'[j] /\ wpc[w] = "complete" /\ wpc'[w] = "join"
    \/ /\ Pausing(j) \/ Reporting(j)
       /\ status[j] # "absent" /\ status'[j] \in {"paused", "downloading"}
    \/ Ticketed(j) /\ status'[j] = "failed"
    \/ status'[j] = "absent" /\ \E c \in Clients : j \in doomed[c] /\ cleared[c] = doomed[c]
    \/ status[j] \in RunningStatus /\ status'[j] = "interrupted"

\* ... to its directories, ...
DiskEffect(j) ==
    /\ \/ out'[j] = out[j]
       \/ out'[j] = "none" /\ \E c \in Clients : j \in doomed[c] /\ j \in cleared'[c]
       \/ \E w \in Workers : Handles(w, j) /\ wpc[w] \in {"publish", "move"}
    /\ \/ temp'[j] = temp[j]
       \/ temp'[j] = "none" /\ RemovedByOthers(j)
       \/ /\ temp'[j] # "none"
          /\ \E w \in Workers : Handles(w, j) /\ wpc[w] \in {"prepare", "fetch", "move"}
    /\ status'[j] = status[j] \/ out'[j] = out[j]

\* ... to the ticket and the run of it, ...
TicketEffect(j) ==
    /\ j <= created => j <= created'
    /\ j > created /\ j <= created' => status'[j] = "queued"
    /\ Ticketed(j)' => Ticketed(j) \/ j > created \/ status[j] = "queued"

ThreadEffect(w, j) ==
    /\ wjob'[w] = j => wjob[w] = j \/ Ticketed(j)
    /\ Handles(w, j)' => Handles(w, j) \/ Ticketed(j)
    /\ Handles(w, j)' /\ Handles(w, j) /\ wpc[w] \in Ended => wpc'[w] \in Ended
    /\ mjob'[w] = j => mjob[w] = j \/ (Handles(w, j) /\ wpc[w] \notin Ended)
    /\ wjob[w] = j /\ wpc[w] = "failClear" =>
         \/ wjob'[w] = j /\ wpc'[w] = "failClear"
         \/ temp'[j] = "none"
    /\ Handles(w, j)' /\ wpc'[w] \in {"load", "claim"} =>
         Ticketed(j) \/ (Handles(w, j) /\ wpc[w] \in {"load", "claim"})
    /\ wjob'[w] = j /\ wpc'[w] \in {"reload", "complete"} =>
         /\ wjob[w] = j
         /\ \/ wpc[w] \in {"reload", "complete"}
            \/ wpc[w] = "move" /\ out'[j] = "file" /\ temp'[j] # temp[j]

\* ... and to who will write its row or has removed its files.
WriterEffect(j) ==
    /\ Pausing(j)' => Pausing(j) \/ status[j] \in PausableStatus
    /\ Reporting(j)' =>
         \/ Reporting(j)
         \/ /\ status[j] \notin {"absent", "failed", "completed", "paused"}
            /\ \E w \in Workers : mjob[w] = j

ClearEffect(j) ==
    \A c \in Clients :
      /\ j \in cleared'[c] => \/ j \in cleared[c]
                              \/ temp'[j] = "none" /\ out'[j] = "none" /\ j \in doomed[c]
      /\ j \in cleared[c] => j \in cleared'[c] \/ status'[j] = "absent" \/ DeleteFails(c)
      /\ j \in doomed'[c] => j \in doomed[c] \/ status[j] \notin ActiveStatus

Effect(j) ==
    /\ RowEffect(j) /\ DiskEffect(j) /\ TicketEffect(j) /\ WriterEffect(j) /\ ClearEffect(j)
    /\ \A w \in Workers : ThreadEffect(w, j)

\* A step that leaves requests alone.
LEMMA NoRequestEffect ==
  ASSUME TypeOK, UNCHANGED <<created, clientVars>>, NEW j \in Jobs,
         Ticketed(j)' => Ticketed(j) \/ status[j] = "queued"
  PROVE  TicketEffect(j) /\ ClearEffect(j) /\ (Pausing(j)' <=> Pausing(j))
<1>1. UNCHANGED <<cpc, cjob, doomed, cleared>>
  BY DEF clientVars
<1>2. created \in Nat /\ j \in Nat
  BY JobsAreNumbers DEF TypeOK, SharedTypeOK
<1>3. TicketEffect(j)
  BY <1>2 DEF TicketEffect
<1>4. ClearEffect(j) /\ (Pausing(j)' <=> Pausing(j))
  BY <1>1 DEF ClearEffect, Pausing
<1> QED BY <1>3, <1>4

LEMMA TakeHasEffect ==
  ASSUME TypeOK, NEW w \in Workers, Take(w), UNCHANGED clientVars, NEW j \in Jobs
  PROVE  Effect(j)
<1>a. /\ queue \in Seq(Jobs) /\ wpc \in [Workers -> WorkerPC]
      /\ wjob \in [Workers -> Jobs \cup {NoJob}]
  BY DEF TypeOK, SharedTypeOK, RunnerTypeOK
<1>b. /\ UNCHANGED <<status, output, created, temp, out, app, todo, mpc, mjob>>
      /\ UNCHANGED <<cpc, cjob, doomed, cleared>>
      /\ queue # <<>> /\ queue' = Tail(queue)
      /\ wpc[w] = "idle" /\ wpc' = [wpc EXCEPT ![w] = "load"]
      /\ wjob' = [wjob EXCEPT ![w] = Head(queue)]
  BY DEF Take, At, GoTo, rows, disk, monitorVars, clientVars
<1>c. Head(queue) = j => Ticketed(j)
  BY <1>a, <1>b DEF Ticketed, InQueue
<1>d. Ticketed(j)' => Ticketed(j)
  <2>1. InQueue(j)' => InQueue(j)
    <3>1. \A i \in 1..Len(queue') : i + 1 \in 1..Len(queue) /\ queue'[i] = queue[i + 1]
      BY <1>a, <1>b
    <3> QED BY <3>1 DEF InQueue
  <2> QED BY <1>b, <2>1 DEF Ticketed, Asks
<1>1. RowEffect(j) /\ DiskEffect(j)
  BY <1>b DEF RowEffect, DiskEffect
<1>2. TicketEffect(j) /\ ClearEffect(j) /\ WriterEffect(j)
  BY <1>b, <1>d, NoRequestEffect DEF WriterEffect, Reporting
<1>3. ASSUME NEW v \in Workers PROVE ThreadEffect(v, j)
  <2>1. CASE v = w
    BY <1>a, <1>b, <1>c, <2>1 DEF ThreadEffect, Handles, Ended
  <2>2. CASE v # w
    BY <1>a, <1>b, <2>2 DEF ThreadEffect, Handles
  <2> QED BY <2>1, <2>2
<1> QED BY <1>1, <1>2, <1>3 DEF Effect

LEMMA RunHasEffect ==
  ASSUME TypeOK, OnceInv, ClaimInv, MonitorsFollow, NEW w \in Workers, Run(w),
         UNCHANGED clientVars, NEW j \in Jobs
  PROVE  Effect(j)
<1>a. /\ status \in [Jobs -> RowStatus] /\ output \in [Jobs -> BOOLEAN]
      /\ temp \in [Jobs -> TempStates] /\ out \in [Jobs -> OutStates]
      /\ wpc \in [Workers -> WorkerPC] /\ wjob \in [Workers -> Jobs \cup {NoJob}]
      /\ wpc[w] # "idle" /\ wjob[w] \in Jobs
  BY RunHasRow DEF TypeOK, SharedTypeOK, RunnerTypeOK
<1>b. /\ UNCHANGED <<created, queue, app, todo, cpc, cjob, doomed, cleared>>
      /\ \A v \in Workers \ {w} : wpc'[v] = wpc[v] /\ wjob'[v] = wjob[v]
      /\ wpc'[w] # "idle" => wjob'[w] = wjob[w]
      /\ wpc[w] \in Ended => wpc'[w] \in Ended \cup {"idle"}
  BY RunMoves DEF clientVars
<1>1. RowEffect(j)
  BY <1>a, RunRows DEF RowEffect, Handles
<1>2. DiskEffect(j)
  <2>1. status'[j] = status[j] \/ out'[j] = out[j]
    BY RunRows
  <2>2. \/ out'[j] = out[j]
        \/ \E v \in Workers : Handles(v, j) /\ wpc[v] \in {"publish", "move"}
    BY <1>a, RunFiles DEF Handles
  <2>3. \/ temp'[j] = temp[j]
        \/ temp'[j] = "none" /\ RemovedByOthers(j)
        \/ /\ temp'[j] # "none"
           /\ \E v \in Workers : Handles(v, j) /\ wpc[v] \in {"prepare", "fetch", "move"}
    BY <1>a, RunFiles DEF Handles, RemovedByOthers
  <2> QED BY <2>1, <2>2, <2>3 DEF DiskEffect
<1>3. TicketEffect(j) /\ ClearEffect(j) /\ WriterEffect(j)
  <2>1. Ticketed(j)' => Ticketed(j)
    BY <1>b DEF Ticketed, InQueue, Asks
  <2>2. Reporting(j)' => Reporting(j)
    BY RunMonitors DEF Reporting
  <2> QED BY <1>b, <2>1, <2>2, NoRequestEffect DEF WriterEffect
<1>4. ASSUME NEW v \in Workers, v # w PROVE ThreadEffect(v, j)
  <2>1. mjob'[v] = j => mjob[v] = j
    BY <1>4, JobsAreNumbers, RunMonitors
  <2> QED BY <1>b, <1>4, <2>1 DEF ThreadEffect, Handles
<1>5. ThreadEffect(w, j)
  <2>1. (wjob'[w] = j => wjob[w] = j) /\ (Handles(w, j)' => Handles(w, j))
    BY <1>a, JobsAreNumbers, RunPlaces DEF Handles
  <2>2. mjob'[w] = j => mjob[w] = j \/ (Handles(w, j) /\ wpc[w] \notin Ended)
    BY <1>a, JobsAreNumbers, RunMonitors DEF Handles, Ended
  <2>3. wjob[w] = j /\ wpc[w] = "failClear" => temp'[j] = "none"
    BY RunFiles
  <2>4. Handles(w, j)' /\ wpc'[w] \in {"load", "claim"} =>
           Handles(w, j) /\ wpc[w] \in {"load", "claim"}
    BY <2>1, RunPlaces
  <2>5. wjob'[w] = j /\ wpc'[w] \in {"reload", "complete"} =>
           \/ wpc[w] \in {"reload", "complete"}
           \/ wpc[w] = "move" /\ out'[j] = "file" /\ temp'[j] # temp[j]
    BY <1>a, <2>1, RunPlaces, RunFiles
  <2>6. Handles(w, j)' /\ wpc[w] \in Ended => wpc'[w] \in Ended
    BY <1>b DEF Handles
  <2> QED BY <2>1, <2>2, <2>3, <2>4, <2>5, <2>6 DEF ThreadEffect
<1> QED BY <1>1, <1>2, <1>3, <1>4, <1>5 DEF Effect

\* A monitor writes the row of the job it watches, and nothing else.
LEMMA MonitorHasEffect ==
  ASSUME TypeOK, MonitorsFollow, NEW w \in Workers, MonitorStep(w), NEW j \in Jobs
  PROVE  Effect(j)
<1>a. /\ status \in [Jobs -> RowStatus]
      /\ UNCHANGED <<output, created, queue, temp, out, todo, app, workerVars, clientVars>>
      /\ \/ status' = status
         \/ /\ mpc[w] = "write" /\ mjob[w] \in Jobs /\ status[mjob[w]] # "absent"
            /\ status' = [status EXCEPT ![mjob[w]] = "downloading"]
  BY MonitorMoves DEF TypeOK, SharedTypeOK
<1>1. RowEffect(j)
  BY <1>a DEF RowEffect, Reporting
<1>2. DiskEffect(j)
  BY <1>a DEF DiskEffect
<1>3. TicketEffect(j) /\ ClearEffect(j) /\ WriterEffect(j)
  <2>1. Ticketed(j)' => Ticketed(j)
    BY <1>a DEF Ticketed, InQueue, Asks, clientVars
  <2>2. Reporting(j)' =>
          \/ Reporting(j)
          \/ /\ status[j] \notin {"absent", "failed", "completed", "paused"}
             /\ \E v \in Workers : mjob[v] = j
    BY MonitorMoves DEF Reporting
  <2> QED BY <1>a, <2>1, <2>2, NoRequestEffect DEF WriterEffect
<1>4. ASSUME NEW v \in Workers PROVE ThreadEffect(v, j)
  <2>1. mjob'[v] = j => mjob[v] = j
    BY JobsAreNumbers, MonitorMoves
  <2> QED BY <1>a, <2>1 DEF ThreadEffect, Handles, workerVars
<1> QED BY <1>1, <1>2, <1>3, <1>4 DEF Effect

\* Only deletions have chosen jobs.
DeletionsChoose == \A c \in Clients : cpc[c] # "delete" => doomed[c] = {}

LEMMA RequestKeepsChoices ==
  ASSUME TypeOK, QuietInv, OnceInv, DeletionsChoose, "resume" \notin Requests,
         NEW c \in Clients, RequestStep(c)
  PROVE  DeletionsChoose'
<1>a. /\ cpc \in [Clients -> ClientPC] /\ doomed \in [Clients -> SUBSET Jobs]
  BY DEF TypeOK, ApiTypeOK
<1>1. \A d \in Clients \ {c} : cpc'[d] = cpc[d] /\ doomed'[d] = doomed[d]
  BY RequestFrame
<1>2. cpc'[c] # "delete" => doomed'[c] = {}
  <2>1. CASE BeginRequest(c)
    BY <1>a, <2>1 DEF BeginRequest, Submit, ResumeBegin, PauseBegin, Begin, DeleteOne, ClearAll,
                      DeleteBegin, DeletionsChoose
  <2>2. CASE FinishRequest(c) \/ Put(c) \/ WalkFails(c)
    BY <1>a, <2>2 DEF FinishRequest, ResumeCommit, Enqueue, Put, Reject, PauseCommit,
                      RemoveFiles, DeleteCommit, WalkFails, DeleteFails, Answer, DeletionsChoose
  <2> QED BY <2>1, <2>2 DEF RequestStep, FinishStep
<1> QED BY <1>1, <1>2 DEF DeletionsChoose

\* The steps of a request that leave the runner alone.
LEMMA RunnerLeft ==
  ASSUME UNCHANGED <<workerVars, monitorVars>>, NEW j \in Jobs
  PROVE  /\ \A w \in Workers : ThreadEffect(w, j)
         /\ Reporting(j)' <=> Reporting(j)
  BY DEF ThreadEffect, Handles, Reporting, workerVars, monitorVars

LEMMA RequestHasJobEffect ==
  ASSUME TypeOK, QuietInv, OnceInv, DeletionsChoose, "resume" \notin Requests,
         NEW c \in Clients, RequestStep(c), NEW j \in Jobs
  PROVE  Effect(j)
<1>a. /\ status \in [Jobs -> RowStatus] /\ output \in [Jobs -> BOOLEAN]
      /\ temp \in [Jobs -> TempStates] /\ out \in [Jobs -> OutStates]
      /\ created \in Nat /\ j \in Nat /\ queue \in Seq(Jobs)
      /\ cpc \in [Clients -> ClientPC] /\ cjob \in [Clients -> Jobs \cup {NoJob}]
      /\ doomed \in [Clients -> SUBSET Jobs] /\ cleared \in [Clients -> SUBSET Jobs]
      /\ \A d \in Clients : cpc[d] \notin {"idle", "delete"} => cjob[d] \in Jobs
  BY JobsAreNumbers DEF TypeOK, SharedTypeOK, ApiTypeOK
<1>b. /\ UNCHANGED <<workerVars, monitorVars, todo>>
      /\ \A d \in Clients \ {c} : /\ cpc'[d] = cpc[d] /\ cjob'[d] = cjob[d]
                                  /\ doomed'[d] = doomed[d] /\ cleared'[d] = cleared[d]
  BY RequestFrame
<1>c. (\A w \in Workers : ThreadEffect(w, j)) /\ (Reporting(j)' <=> Reporting(j))
  BY <1>b, RunnerLeft
<1>d. cpc[c] # "delete" => doomed[c] = {} /\ cleared[c] = {}
  BY DEF DeletionsChoose, OnceInv, Gone
<1> SUFFICES /\ RowEffect(j) /\ DiskEffect(j) /\ TicketEffect(j) /\ ClearEffect(j)
             /\ Pausing(j)' => Pausing(j) \/ status[j] \in PausableStatus
  BY <1>c DEF Effect, WriterEffect
<1> USE SMTT(30)
<1>1. CASE Submit(c)
  <2>1. /\ UNCHANGED <<output, temp, out, queue, doomed, cleared>> /\ created' = created + 1
        /\ status' = [status EXCEPT ![created + 1] = "queued"]
        /\ cpc' = [cpc EXCEPT ![c] = "enqueue"]
        /\ cjob' = [cjob EXCEPT ![c] = created + 1]
    BY <1>1 DEF Submit, disk
  <2>2. RowEffect(j) /\ DiskEffect(j)
    BY <1>a, <2>1 DEF RowEffect, DiskEffect
  <2>3. TicketEffect(j)
    <3>1. \A d \in Clients : Asks(d, j)' => Asks(d, j) \/ j = created + 1
      BY <1>a, <2>1 DEF Asks
    <3>2. Ticketed(j)' => Ticketed(j) \/ j = created + 1
      BY <1>b, <2>1, <3>1 DEF Ticketed, InQueue
    <3>3. j > created /\ j <= created' => status'[j] = "queued"
      BY <1>a, <2>1
    <3> QED BY <1>a, <2>1, <3>2, <3>3 DEF TicketEffect
  <2>4. ClearEffect(j)
    BY <2>1 DEF ClearEffect
  <2>5. Pausing(j)' => Pausing(j)
    BY <1>a, <2>1 DEF Pausing
  <2> QED BY <2>2, <2>3, <2>4, <2>5
<1>2. ASSUME NEW i \in Jobs, PauseBegin(c, i)
      PROVE  /\ RowEffect(j) /\ DiskEffect(j) /\ TicketEffect(j) /\ ClearEffect(j)
             /\ Pausing(j)' => Pausing(j) \/ status[j] \in PausableStatus
  <2>1. /\ UNCHANGED <<status, output, temp, out, created, queue, doomed, cleared>>
        /\ cpc' = [cpc EXCEPT ![c] = "pause"] /\ cjob' = [cjob EXCEPT ![c] = i]
        /\ status[i] \in PausableStatus
    BY <1>2 DEF PauseBegin, Begin, shared, rows, disk
  <2>2. Ticketed(j)' => Ticketed(j)
    BY <1>a, <1>b, <2>1 DEF Ticketed, InQueue, Asks
  <2>3. Pausing(j)' => Pausing(j) \/ j = i
    BY <1>a, <2>1 DEF Pausing
  <2> QED BY <1>a, <2>1, <2>2, <2>3 DEF RowEffect, DiskEffect, TicketEffect, ClearEffect
<1>3. ASSUME NEW chosen \in SUBSET Inactive, DeleteBegin(c, chosen)
      PROVE  /\ RowEffect(j) /\ DiskEffect(j) /\ TicketEffect(j) /\ ClearEffect(j)
             /\ Pausing(j)' => Pausing(j) \/ status[j] \in PausableStatus
  <2>1. /\ UNCHANGED <<status, output, temp, out, created, queue, cjob, cleared>>
        /\ cpc' = [cpc EXCEPT ![c] = "delete"]
        /\ doomed' = [doomed EXCEPT ![c] = chosen]
    BY <1>3 DEF DeleteBegin, shared, rows, disk
  <2>2. Ticketed(j)' => Ticketed(j)
    BY <1>a, <1>b, <2>1 DEF Ticketed, InQueue, Asks
  <2>3. Pausing(j)' => Pausing(j)
    BY <1>a, <2>1 DEF Pausing
  <2>4. ClearEffect(j)
    BY <1>a, <1>b, <2>1 DEF ClearEffect, Inactive
  <2> QED BY <1>a, <2>1, <2>2, <2>3, <2>4 DEF RowEffect, DiskEffect, TicketEffect
<1>4. CASE Enqueue(c) \/ Put(c) \/ WalkFails(c)
  <2>1. /\ UNCHANGED <<status, output, temp, out, created>>
        /\ \/ Answer(c) /\ (cpc[c] = "delete" => DeleteFails(c))
           \/ /\ cpc' \in {[cpc EXCEPT ![c] = "put"], [cpc EXCEPT ![c] = "reject"]}
              /\ cpc[c] = "enqueue" /\ UNCHANGED <<cjob, doomed, cleared>>
    BY <1>4 DEF Enqueue, Put, WalkFails, DeleteFails, shared, rows, disk
  <2>2. Ticketed(j)' => Ticketed(j)
    <3>1. \A d \in Clients : Asks(d, j)' => Asks(d, j)
      BY <1>a, <2>1 DEF Asks, Answer
    <3>2. InQueue(j)' => InQueue(j) \/ Asks(c, j)
      <4>1. CASE queue' = queue
        BY <4>1 DEF InQueue
      <4>2. CASE Put(c)
        <5>1. queue' = Append(queue, cjob[c]) /\ cpc[c] = "put"
          BY <4>2 DEF Put
        <5>2. \A k \in 1..Len(queue') : \/ k \in 1..Len(queue) /\ queue'[k] = queue[k]
                                        \/ queue'[k] = cjob[c]
          BY <1>a, <5>1
        <5> QED BY <5>1, <5>2 DEF InQueue, Asks
      <4> QED BY <1>4, <4>1, <4>2 DEF Enqueue, WalkFails, DeleteFails, shared
    <3> QED BY <1>b, <3>1, <3>2 DEF Ticketed
  <2>3. Pausing(j)' => Pausing(j)
    BY <1>a, <2>1 DEF Pausing, Answer
  <2>4. ClearEffect(j)
    <3>1. ASSUME NEW d \in Clients
          PROVE  /\ j \in cleared'[d] => j \in cleared[d]
                 /\ j \in cleared[d] => j \in cleared'[d] \/ DeleteFails(d)
                 /\ j \in doomed'[d] => j \in doomed[d]
      <4>1. CASE d # c
        BY <1>b, <4>1
      <4>2. CASE d = c
        BY <1>a, <1>d, <2>1, <4>2 DEF Answer
      <4> QED BY <4>1, <4>2
    <3> QED BY <3>1 DEF ClearEffect
  <2> QED BY <1>a, <2>1, <2>2, <2>3, <2>4 DEF RowEffect, DiskEffect, TicketEffect
<1>5. CASE Reject(c) \/ PauseCommit(c)
  <2>1. /\ UNCHANGED <<output, temp, out, created, queue>> /\ Answer(c) /\ cjob[c] \in Jobs
        /\ cpc[c] \in {"reject", "pause"}
        /\ \/ status' = status
           \/ /\ status[cjob[c]] # "absent"
              /\ \/ cpc[c] = "reject" /\ status' = [status EXCEPT ![cjob[c]] = "failed"]
                 \/ cpc[c] = "pause" /\ status' = [status EXCEPT ![cjob[c]] = "paused"]
    BY <1>5, <1>a DEF Reject, PauseCommit, Flushed, disk
  <2>2. RowEffect(j)
    <3>1. CASE status'[j] = status[j]
      BY <2>1, <3>1 DEF RowEffect
    <3>2. CASE j = cjob[c] /\ cpc[c] = "reject" /\ status'[j] = "failed"
      <4>1. Ticketed(j)
        BY <3>2 DEF Ticketed, Asks
      <4> QED BY <3>2, <4>1 DEF RowEffect
    <3>3. CASE j = cjob[c] /\ cpc[c] = "pause" /\ status[j] # "absent" /\ status'[j] = "paused"
      <4>1. Pausing(j)
        BY <3>3 DEF Pausing
      <4> QED BY <3>3, <4>1 DEF RowEffect
    <3> QED BY <1>a, <2>1, <3>1, <3>2, <3>3
  <2>3. DiskEffect(j)
    BY <2>1 DEF DiskEffect
  <2>4. Ticketed(j)' => Ticketed(j)
    BY <1>a, <1>b, <2>1 DEF Ticketed, InQueue, Asks, Answer
  <2>5. Pausing(j)' => Pausing(j)
    BY <1>a, <2>1 DEF Pausing, Answer
  <2>6. ClearEffect(j)
    <3>1. ASSUME NEW d \in Clients PROVE cleared'[d] = cleared[d] /\ doomed'[d] = doomed[d]
      BY <1>a, <1>b, <1>d, <2>1, <3>1 DEF Answer
    <3> QED BY <3>1 DEF ClearEffect
  <2> QED BY <1>a, <2>1, <2>2, <2>3, <2>4, <2>5, <2>6 DEF TicketEffect
<1>6. ASSUME NEW i \in Jobs, RemoveFiles(c, i)
      PROVE  /\ RowEffect(j) /\ DiskEffect(j) /\ TicketEffect(j) /\ ClearEffect(j)
             /\ Pausing(j)' => Pausing(j) \/ status[j] \in PausableStatus
  <2>1. /\ UNCHANGED <<status, output, created, queue, cpc, cjob, doomed>> /\ i \in doomed[c]
        /\ out' = [out EXCEPT ![i] = "none"] /\ temp' = [temp EXCEPT ![i] = "none"]
        /\ cleared' = [cleared EXCEPT ![c] = @ \cup {i}]
    BY <1>6 DEF RemoveFiles, rows
  <2>2. DiskEffect(j)
    BY <1>a, <2>1 DEF DiskEffect, RemovedByOthers
  <2>3. ClearEffect(j)
    BY <1>a, <2>1 DEF ClearEffect
  <2>4. Ticketed(j)' => Ticketed(j)
    BY <1>b, <2>1 DEF Ticketed, InQueue, Asks
  <2>5. Pausing(j)' => Pausing(j)
    BY <2>1 DEF Pausing
  <2> QED BY <1>a, <2>1, <2>2, <2>3, <2>4, <2>5 DEF RowEffect, TicketEffect
<1>7. CASE DeleteCommit(c)
  <2>1. /\ UNCHANGED <<temp, out, created, queue>> /\ Answer(c) /\ cleared[c] = doomed[c]
        /\ cpc[c] = "delete"
        /\ status'[j] = IF j \in doomed[c] THEN "absent" ELSE status[j]
        /\ output'[j] = IF j \in doomed[c] THEN FALSE ELSE output[j]
    BY <1>7 DEF DeleteCommit, disk
  <2>2. RowEffect(j) /\ DiskEffect(j)
    <3>1. \/ status'[j] = "absent" /\ \E d \in Clients : j \in doomed[d] /\ cleared[d] = doomed[d]
          \/ status'[j] = status[j] /\ output'[j] = output[j]
      <4>1. CASE j \in doomed[c]
        BY <2>1, <4>1, Zenon
      <4>2. CASE j \notin doomed[c]
        BY <2>1, <4>2, Zenon
      <4> QED BY <4>1, <4>2
    <3>2. RowEffect(j)
      BY <3>1, Zenon DEF RowEffect
    <3> QED BY <2>1, <3>2 DEF DiskEffect
  <2>3. ClearEffect(j)
    <3>1. ASSUME NEW d \in Clients
          PROVE  /\ j \in cleared'[d] => j \in cleared[d]
                 /\ j \in cleared[d] => j \in cleared'[d] \/ status'[j] = "absent"
                 /\ j \in doomed'[d] => j \in doomed[d]
      <4>1. CASE d # c
        BY <1>b, <4>1
      <4>2. CASE d = c
        BY <1>a, <2>1, <4>2 DEF Answer
      <4> QED BY <4>1, <4>2
    <3> QED BY <3>1 DEF ClearEffect
  <2>4. Ticketed(j)' => Ticketed(j)
    BY <1>a, <1>b, <2>1 DEF Ticketed, InQueue, Asks, Answer
  <2>5. Pausing(j)' => Pausing(j)
    BY <1>a, <2>1 DEF Pausing, Answer
  <2> QED BY <1>a, <2>1, <2>2, <2>3, <2>4, <2>5 DEF TicketEffect
<1>8. \/ Submit(c) \/ Enqueue(c) \/ Put(c) \/ Reject(c) \/ PauseCommit(c) \/ DeleteCommit(c)
      \/ WalkFails(c)
      \/ \E i \in Jobs : PauseBegin(c, i) \/ RemoveFiles(c, i)
      \/ \E chosen \in SUBSET Inactive : DeleteBegin(c, chosen)
  <2>1. ~ResumeCommit(c) /\ \A i \in Jobs : ~ResumeBegin(c, i)
    BY DEF ResumeCommit, ResumeBegin, Begin, OnceInv
  <2>2. ASSUME NEW i \in Jobs, DeleteOne(c, i)
        PROVE  \E chosen \in SUBSET Inactive : DeleteBegin(c, chosen)
    <3>1. {i} \in SUBSET Inactive /\ DeleteBegin(c, {i})
      BY <2>2 DEF DeleteOne
    <3> QED BY <3>1
  <2>3. ClearAll(c) => \E chosen \in SUBSET Inactive : DeleteBegin(c, chosen)
    BY Inactive \in SUBSET Inactive DEF ClearAll
  <2> QED BY <2>1, <2>2, <2>3 DEF RequestStep, BeginRequest, FinishStep, FinishRequest
<1> QED BY <1>1, <1>2, <1>3, <1>4, <1>5, <1>6, <1>7, <1>8

\* A deletion that fails on the cleanup pass forgets what it had chosen.
LEMMA WalkedHasEffect ==
  ASSUME TypeOK, NEW c \in Clients, Walked(c), NEW j \in Jobs
  PROVE  Effect(j)
<1>a. /\ created \in Nat /\ j \in Nat /\ cpc \in [Clients -> ClientPC]
      /\ cjob \in [Clients -> Jobs \cup {NoJob}]
      /\ doomed \in [Clients -> SUBSET Jobs] /\ cleared \in [Clients -> SUBSET Jobs]
  BY JobsAreNumbers DEF TypeOK, SharedTypeOK, ApiTypeOK
<1>b. /\ UNCHANGED <<status, output, created, queue, temp, out, todo, workerVars, monitorVars>>
      /\ DeleteFails(c) /\ Answer(c) /\ cpc[c] = "delete"
  BY DEF Walked, DeleteFails, shared, runnerVars, workerVars, monitorVars
<1>1. RowEffect(j) /\ DiskEffect(j)
  BY <1>b DEF RowEffect, DiskEffect
<1>2. TicketEffect(j) /\ WriterEffect(j)
  <2>1. (Ticketed(j)' => Ticketed(j)) /\ (Pausing(j)' => Pausing(j))
    BY <1>a, <1>b DEF Ticketed, InQueue, Asks, Pausing, Answer
  <2>2. Reporting(j)' <=> Reporting(j)
    BY <1>b, RunnerLeft
  <2> QED BY <1>a, <1>b, <2>1, <2>2 DEF TicketEffect, WriterEffect
<1>3. ClearEffect(j)
  <2>1. ASSUME NEW d \in Clients
        PROVE  /\ j \in cleared'[d] => j \in cleared[d]
               /\ j \in cleared[d] => j \in cleared'[d] \/ DeleteFails(d)
               /\ j \in doomed'[d] => j \in doomed[d]
    <3>1. CASE d # c
      BY <1>a, <1>b, <3>1 DEF Answer
    <3>2. CASE d = c
      BY <1>a, <1>b, <3>2 DEF Answer
    <3> QED BY <3>1, <3>2
  <2> QED BY <2>1 DEF ClearEffect
<1>4. \A w \in Workers : ThreadEffect(w, j)
  BY <1>b, RunnerLeft
<1> QED BY <1>1, <1>2, <1>3, <1>4 DEF Effect

\* start() and stop() touch rows only.
LEMMA LifecycleHasEffect ==
  ASSUME TypeOK, QuietInv, Start \/ Recover \/ Serve \/ ShutDown, UNCHANGED clientVars,
         NEW j \in Jobs
  PROVE  Effect(j)
<1>a. /\ status \in [Jobs -> RowStatus] /\ queue \in Seq(Jobs) /\ todo \subseteq Jobs
  BY DEF TypeOK, SharedTypeOK
<1>b. UNCHANGED <<output, created, temp, out, workerVars, monitorVars>>
  BY DEF Start, Recover, Serve, ShutDown, Stop, rows, disk, runnerVars, workerVars, monitorVars
<1>c. (\A w \in Workers : ThreadEffect(w, j)) /\ (Reporting(j)' <=> Reporting(j))
  BY <1>b, RunnerLeft
<1> SUFFICES RowEffect(j) /\ (Ticketed(j)' => Ticketed(j) \/ status[j] = "queued")
  <2>1. DiskEffect(j)
    BY <1>b DEF DiskEffect
  <2> QED BY <1>b, <1>c, <2>1, NoRequestEffect DEF Effect, WriterEffect
<1>1. CASE Start
  <2>1. /\ status'[j] = IF status[j] \in RunningStatus THEN "interrupted" ELSE status[j]
        /\ todo' = {i \in Jobs : status[i] = "queued"} /\ queue' = queue
    BY <1>1 DEF Start
  <2> QED BY <1>b, <2>1 DEF RowEffect, Ticketed, InQueue, Asks, clientVars
<1>2. CASE Recover
  <2> PICK k \in Jobs : /\ k \in todo /\ todo' = todo \ {k}
                        /\ \/ queue' = Append(queue, k) /\ UNCHANGED status
                           \/ status' = [status EXCEPT ![k] = "failed"] /\ UNCHANGED queue
    BY <1>2 DEF Recover, Oldest
  <2>1. Ticketed(k)
    BY DEF Ticketed
  <2>2. RowEffect(j)
    BY <1>a, <1>b, <2>1 DEF RowEffect
  <2>3. InQueue(j)' => InQueue(j) \/ j = k
    <3>1. \A i \in 1..Len(queue') : \/ i \in 1..Len(queue) /\ queue'[i] = queue[i]
                                    \/ queue'[i] = k
      BY <1>a
    <3> QED BY <3>1 DEF InQueue
  <2> QED BY <2>1, <2>2, <2>3 DEF Ticketed, Asks, clientVars
<1>3. CASE Serve \/ ShutDown
  BY <1>b, <1>3 DEF Serve, ShutDown, Stop, rows, RowEffect, Ticketed, InQueue, Asks, clientVars
<1> QED BY <1>1, <1>2, <1>3

-----------------------------------------------------------------------------
(* The same for every step beside the end of the process *)

\* Until start() has listed its jobs and put them back, no pass begins.
OrderInv == app = "down" \/ todo # {} => sweep = "first"

\* What the job subsystem keeps, whatever the cleanup service does beside it.
RunInv ==
    /\ TypesInv /\ QuietInv /\ OrderInv /\ OnceInv
    /\ ClaimInv /\ MonitorsFollow /\ DeletionsChoose

LEMMA RunInvTypes ==
  ASSUME RunInv
  PROVE  TypeOK
  BY TypesGiveTypeOK DEF RunInv

JobKind ==
    \/ \E w \in Workers : \/ Take(w) /\ UNCHANGED clientVars
                          \/ Run(w) /\ UNCHANGED <<asleep, clientVars>>
                          \/ MonitorStep(w)
    \/ \E c \in Clients : RequestStep(c) \/ Walked(c)
    \/ (Start \/ Recover \/ Started \/ ShutDown) /\ UNCHANGED clientVars

LEMMA JobStepKind ==
  ASSUME JobStep
  PROVE  JobKind /\ Aside
<1>1. \A w \in Workers :
         WorkerStep(w) => \/ Take(w) /\ UNCHANGED clientVars
                          \/ Run(w) /\ UNCHANGED <<asleep, clientVars>>
  BY DEF WorkerStep
<1>2. \A c \in Clients : CleanupFails(c) => Walked(c)
  BY DEF CleanupFails, Walked
<1> QED BY <1>1, <1>2 DEF JobStep, JobKind

LEMMA JobStepHasEffect ==
  ASSUME RunInv, "resume" \notin Requests, JobStep, NEW j \in Jobs
  PROVE  Effect(j)
<1>a. TypeOK
  BY RunInvTypes
<1> USE DEF RunInv
<1>1. ASSUME NEW w \in Workers, Take(w), UNCHANGED clientVars PROVE Effect(j)
  BY <1>a, <1>1, TakeHasEffect
<1>2. ASSUME NEW w \in Workers, Run(w), UNCHANGED clientVars PROVE Effect(j)
  BY <1>a, <1>2, RunHasEffect
<1>3. ASSUME NEW w \in Workers, MonitorStep(w) PROVE Effect(j)
  BY <1>a, <1>3, MonitorHasEffect
<1>4. ASSUME NEW c \in Clients, RequestStep(c) PROVE Effect(j)
  BY <1>a, <1>4, RequestHasJobEffect
<1>5. ASSUME NEW c \in Clients, Walked(c) PROVE Effect(j)
  BY <1>a, <1>5, WalkedHasEffect
<1>6. CASE (Start \/ Recover \/ Started \/ ShutDown) /\ UNCHANGED clientVars
  BY <1>a, <1>6, LifecycleHasEffect DEF Started
<1> QED BY <1>1, <1>2, <1>3, <1>4, <1>5, <1>6, JobStepKind DEF JobKind

\* The phase of the process, and the state of the pass.
LEMMA JobFrame ==
  ASSUME RunInv, "resume" \notin Requests, JobStep
  PROVE  /\ UNCHANGED sweepVars /\ Refreshed /\ Renewed /\ RemembersCut
         /\ \/ UNCHANGED <<app, todo>>
            \/ app = "down" /\ app' = "recovering"
            \/ app = "recovering" /\ app' = app /\ todo' \subseteq todo
            \/ app = "recovering" /\ app' = "up" /\ sweep = "idle" /\ todo' = todo
            \/ app = "up" /\ app' = "stopping" /\ todo' = todo
<1>a. TypeOK
  BY RunInvTypes
<1> USE DEF RunInv
<1>1. ASSUME NEW w \in Workers, Take(w) \/ Run(w) \/ MonitorStep(w)
      PROVE  UNCHANGED <<app, todo>>
  <2>1. CASE Take(w)
    BY <2>1 DEF Take
  <2>2. CASE Run(w)
    BY <1>a, <2>2, RunMoves
  <2>3. CASE MonitorStep(w)
    BY <1>a, <2>3, MonitorMoves
  <2> QED BY <1>1, <2>1, <2>2, <2>3
<1>2. ASSUME NEW c \in Clients, RequestStep(c) PROVE UNCHANGED <<app, todo>>
  BY <1>a, <1>2, RequestFrame
<1>3. ASSUME NEW c \in Clients, Walked(c) PROVE UNCHANGED <<app, todo>>
  BY <1>3 DEF Walked, DeleteFails, shared
<1>4. Start \/ Recover \/ Started \/ ShutDown =>
        \/ app = "down" /\ app' = "recovering"
        \/ app = "recovering" /\ app' = app /\ todo' \subseteq todo
        \/ app = "recovering" /\ app' = "up" /\ sweep = "idle" /\ todo' = todo
        \/ app = "up" /\ app' = "stopping" /\ todo' = todo
  BY DEF Start, Recover, Started, Serve, ShutDown, Stop
<1> QED BY <1>1, <1>2, <1>3, <1>4, JobStepKind DEF JobKind, Aside

\* The end of the process leaves rows and disk, and nobody at work.
LEMMA EndFrame ==
  ASSUME EndStep
  PROVE  /\ UNCHANGED <<status, output, created, temp, out, stale, due>>
         /\ app' = "down" /\ todo' = {} /\ sweep' = "first" /\ expiring' = {} /\ emptied' = {}
         /\ \A w \in Workers : /\ wpc'[w] = "idle" /\ wjob'[w] = NoJob
                               /\ mpc'[w] = "off" /\ mjob'[w] = NoJob
         /\ \A c \in Clients : /\ cpc'[c] = "idle" /\ cjob'[c] = NoJob
                               /\ doomed'[c] = {} /\ cleared'[c] = {}
         /\ \A j \in Jobs : /\ ~Ticketed(j)' /\ \A w \in Workers : ~Handles(w, j)'
                            /\ ~Pausing(j)' /\ ~Reporting(j)'
         /\ cut' = cut \cup UNION {BeingCut(c) : c \in Clients}
<1>1. /\ UNCHANGED <<rows, disk>> /\ app' = "down" /\ queue' = <<>> /\ todo' = {} /\ RunnerReset
      /\ ApiReset /\ CleanupReset
  BY DEF EndStep, Exited, Exit, Crash, EndProcess
<1>2. /\ UNCHANGED <<status, output, created, temp, out, stale, due>>
      /\ sweep' = "first" /\ expiring' = {} /\ emptied' = {}
      /\ \A w \in Workers : /\ wpc'[w] = "idle" /\ wjob'[w] = NoJob
                            /\ mpc'[w] = "off" /\ mjob'[w] = NoJob
      /\ \A c \in Clients : /\ cpc'[c] = "idle" /\ cjob'[c] = NoJob
                            /\ doomed'[c] = {} /\ cleared'[c] = {}
  BY <1>1 DEF rows, disk, RunnerReset, ApiReset, CleanupReset, ageVars
<1>3. \A j \in Jobs : /\ ~Ticketed(j)' /\ \A w \in Workers : ~Handles(w, j)'
                      /\ ~Pausing(j)' /\ ~Reporting(j)'
  BY <1>1, <1>2, JobsAreNumbers DEF Ticketed, InQueue, Asks, Handles, Pausing, Reporting
<1> QED BY <1>1, <1>2, <1>3 DEF EndStep

-----------------------------------------------------------------------------
(* What is kept beside the cleanup service *)

\* A deletion that fails keeps every ticket and every run where it is.
LEMMA WalkedKeepsRuns ==
  ASSUME RunInv, NEW c \in Clients, Walked(c)
  PROVE  QuietInv' /\ OnceInv' /\ DeletionsChoose'
<1>a. TypeOK
  BY RunInvTypes
<1>b. /\ cpc \in [Clients -> ClientPC] /\ cjob \in [Clients -> Jobs \cup {NoJob}]
      /\ cseen \in [Clients -> RowStatus]
      /\ doomed \in [Clients -> SUBSET Jobs] /\ cleared \in [Clients -> SUBSET Jobs]
  BY <1>a DEF TypeOK, ApiTypeOK
<1>c. /\ UNCHANGED <<shared, status, created, queue, out, todo, app, wpc, wjob, wdying, mpc, mjob>>
      /\ Answer(c) /\ cpc[c] = "delete"
  BY DEF Walked, DeleteFails, shared, runnerVars
<1>d. /\ cpc'[c] = "idle" /\ doomed'[c] = {} /\ cleared'[c] = {} /\ cjob'[c] = NoJob
      /\ \A d \in Clients \ {c} :
            /\ cpc'[d] = cpc[d] /\ cjob'[d] = cjob[d] /\ cseen'[d] = cseen[d]
            /\ doomed'[d] = doomed[d] /\ cleared'[d] = cleared[d]
  BY <1>b, <1>c DEF Answer
<1>1. \A d \in Clients : \A i \in Jobs : Asks(d, i)' => Asks(d, i)
  BY <1>d DEF Asks
<1>2. \A i \in Jobs : (Chosen(i)' => Chosen(i)) /\ (Busy(i)' => Busy(i))
  BY <1>c, <1>d DEF Chosen, Busy, InQueue
<1>3. InOnePlace' /\ AtRest'
  BY <1>a, <1>c, <1>1, <1>2, LetGoKeepsPlaces DEF RunInv
<1>4. OnceInv'
  <2>1. Gone'
    BY <1>c, <1>d DEF RunInv, OnceInv, Gone
  <2> QED BY <1>c, <1>d, <1>3, <2>1 DEF RunInv, OnceInv
<1>5. QuietInv'
  BY <1>c, <1>d, <1>2 DEF RunInv, QuietInv
<1>6. DeletionsChoose'
  BY <1>d DEF RunInv, DeletionsChoose
<1> QED BY <1>4, <1>5, <1>6

LEMMA TakeKeepsThreads ==
  ASSUME RunInv, NEW w \in Workers, Take(w), UNCHANGED clientVars
  PROVE  ClaimInv' /\ MonitorsFollow' /\ DeletionsChoose'
<1>1. /\ wpc \in [Workers -> WorkerPC] /\ wjob \in [Workers -> Jobs \cup {NoJob}]
      /\ UNCHANGED <<status, wseen, mpc, mjob, cpc, doomed>>
      /\ wpc[w] = "idle" /\ wpc' = [wpc EXCEPT ![w] = "load"]
      /\ wjob' = [wjob EXCEPT ![w] = Head(queue)]
  BY RunInvTypes DEF TypeOK, RunnerTypeOK, Take, At, GoTo, rows, monitorVars, clientVars
<1>2. ClaimInv'
  BY <1>1 DEF RunInv, ClaimInv
<1>3. MonitorsFollow'
  BY <1>1 DEF RunInv, MonitorsFollow, MonitorStopped
<1> QED BY <1>1, <1>2, <1>3 DEF RunInv, DeletionsChoose

LEMMA RunKeepsThreads ==
  ASSUME RunInv, NEW w \in Workers, Run(w), UNCHANGED clientVars
  PROVE  ClaimInv' /\ MonitorsFollow' /\ DeletionsChoose'
<1>a. TypeOK
  BY RunInvTypes
<1> USE DEF RunInv
<1>b. /\ status \in [Jobs -> RowStatus] /\ wpc[w] # "idle" /\ wjob[w] \in Jobs
      /\ \A v \in Workers : wpc[v] # "idle" => wjob[v] \in Jobs
      /\ \A v \in Workers \ {w} : wpc'[v] = wpc[v] /\ wjob'[v] = wjob[v]
      /\ wpc'[w] # "idle" => wjob'[w] = wjob[w]
  BY <1>a, RunMoves, RunHasRow DEF TypeOK, SharedTypeOK, RunnerTypeOK
<1>1. ClaimInv'
  <2>1. \A v \in Workers : wpc'[v] = "claim" => wseen'[v] = "queued"
    BY <1>a, <1>b, RunPlaces DEF ClaimInv
  <2>2. \A i \in Jobs : status'[i] = "queued" => status[i] = "queued"
    BY <1>a, <1>b, RunRows
  <2>3. ASSUME NEW v \in Workers, wpc'[v] \notin {"idle", "load", "claim"}
        PROVE  status'[wjob'[v]] # "queued"
    <3>1. CASE v # w
      BY <1>b, <2>2, <2>3, <3>1 DEF ClaimInv
    <3>2. CASE v = w
      <4>1. CASE wpc[w] = "claim"
        BY <1>a, <1>b, <2>3, <3>2, <4>1, RunRows
      <4>2. CASE wpc[w] # "claim"
        <5>1. wpc[w] \notin {"idle", "load", "claim"}
          BY <1>a, <1>b, <2>3, <3>2, <4>2, RunPlaces
        <5> QED BY <1>b, <2>2, <2>3, <3>2, <5>1 DEF ClaimInv
      <4> QED BY <4>1, <4>2
    <3> QED BY <3>1, <3>2
  <2> QED BY <2>1, <2>3 DEF ClaimInv
<1>2. MonitorsFollow'
  BY <1>a, RunMonitors
<1>3. DeletionsChoose'
  BY DEF DeletionsChoose, clientVars
<1> QED BY <1>1, <1>2, <1>3

\* A step that leaves the runs alone lets no claimed job be queued again.
LEMMA OthersKeepClaims ==
  ASSUME RunInv, UNCHANGED workerVars, \A j \in Jobs : RowEffect(j)
  PROVE  ClaimInv'
<1>a. \A w \in Workers : wpc[w] # "idle" => wjob[w] \in Jobs
  BY RunInvTypes DEF TypeOK, RunnerTypeOK
<1>b. UNCHANGED <<wpc, wjob, wseen>>
  BY DEF workerVars
<1>1. ASSUME NEW w \in Workers, wpc[w] \notin {"idle", "load", "claim"}
      PROVE  status'[wjob[w]] # "queued"
  <2> DEFINE j == wjob[w]
  <2>1. j \in Jobs /\ Handles(w, j) /\ RowEffect(j) /\ status[j] # "queued"
    BY <1>a, <1>1 DEF Handles, RunInv, ClaimInv
  <2>2. ~(j > created)
    BY <2>1 DEF RunInv, OnceInv, AtRest
  <2> HIDE DEF j
  <2>3. status'[j] # "queued"
    BY <2>1, <2>2 DEF RowEffect
  <2> QED BY <2>3 DEF j
<1> QED BY <1>b, <1>1 DEF RunInv, ClaimInv

LEMMA JobKeepsRuns ==
  ASSUME RunInv, "resume" \notin Requests, JobStep, TypesInv'
  PROVE  RunInv'
<1>a. TypeOK
  BY RunInvTypes
<1> USE DEF RunInv
<1>1. OrderInv'
  BY JobFrame DEF OrderInv, sweepVars
<1>b. \A j \in Jobs : RowEffect(j)
  BY JobStepHasEffect DEF Effect
<1>2. ASSUME NEW w \in Workers, Take(w), UNCHANGED clientVars PROVE RunInv'
  <2>1. QuietInv' /\ OnceInv'
    BY <1>a, <1>2, WorkerKeepsQuiet, TakeKeepsOnce DEF WorkerStep
  <2> QED BY <1>1, <1>2, <2>1, TakeKeepsThreads
<1>3. ASSUME NEW w \in Workers, Run(w), UNCHANGED <<asleep, clientVars>> PROVE RunInv'
  <2>1. QuietInv' /\ OnceInv'
    BY <1>a, <1>3, WorkerKeepsQuiet, RunHasOnceEffect, OnceEffectKeeps DEF WorkerStep
  <2> QED BY <1>1, <1>3, <2>1, RunKeepsThreads
<1>4. ASSUME NEW w \in Workers, MonitorStep(w) PROVE RunInv'
  <2>1. QuietInv' /\ OnceInv' /\ MonitorsFollow'
    BY <1>a, <1>4, WorkerKeepsQuiet, MonitorKeepsOnce, MonitorMoves
  <2>2. UNCHANGED <<workerVars, clientVars>>
    BY <1>a, <1>4, MonitorMoves
  <2> QED BY <1>1, <1>b, <2>1, <2>2, OthersKeepClaims DEF DeletionsChoose, clientVars
<1>5. ASSUME UNCHANGED <<workerVars, monitorVars>> PROVE ClaimInv' /\ MonitorsFollow'
  <2>1. MonitorsFollow'
    BY <1>5 DEF MonitorsFollow, MonitorStopped, workerVars, monitorVars
  <2> QED BY <1>5, <1>b, <2>1, OthersKeepClaims
<1>6. ASSUME NEW c \in Clients, RequestStep(c) PROVE RunInv'
  <2>1. QuietInv' /\ OnceInv' /\ DeletionsChoose'
    BY <1>a, <1>6, RequestKeepsQuiet, RequestKeepsOnce, RequestKeepsChoices
  <2>2. UNCHANGED <<workerVars, monitorVars>>
    BY <1>a, <1>6, RequestFrame
  <2> QED BY <1>1, <1>5, <2>1, <2>2
<1>7. ASSUME NEW c \in Clients, Walked(c) PROVE RunInv'
  <2>1. UNCHANGED <<workerVars, monitorVars>>
    BY <1>7 DEF Walked, runnerVars, workerVars, monitorVars
  <2> QED BY <1>1, <1>5, <1>7, <2>1, WalkedKeepsRuns
<1>8. CASE (Start \/ Recover \/ Started \/ ShutDown) /\ UNCHANGED clientVars
  <2>1. StartUp \/ ProcessEnd
    BY <1>8 DEF StartUp, ProcessEnd, Started
  <2>2. QuietInv' /\ OnceInv'
    BY <1>a, <2>1, LifecycleKeepsQuiet, LifecycleKeepsOnce
  <2>3. UNCHANGED <<workerVars, monitorVars>>
    BY <1>8 DEF Start, Recover, Started, Serve, ShutDown, Stop, runnerVars, workerVars, monitorVars
  <2> QED BY <1>1, <1>5, <1>8, <2>2, <2>3 DEF DeletionsChoose, clientVars
<1> QED BY <1>2, <1>3, <1>4, <1>6, <1>7, <1>8, JobStepKind DEF JobKind

LEMMA EndKeepsRuns ==
  ASSUME RunInv, EndStep, TypesInv'
  PROVE  RunInv'
<1>a. TypeOK
  BY RunInvTypes
<1>1. ProcessEnd
  BY DEF EndStep, Exited, ProcessEnd
<1>2. QuietInv' /\ OnceInv'
  BY <1>a, <1>1, LifecycleKeepsQuiet, LifecycleKeepsOnce DEF RunInv
<1>3. OrderInv' /\ ClaimInv' /\ MonitorsFollow' /\ DeletionsChoose'
  BY EndFrame DEF OrderInv, ClaimInv, MonitorsFollow, DeletionsChoose
<1> QED BY <1>2, <1>3 DEF RunInv

-----------------------------------------------------------------------------
(* The cleanup service and the jobs it may touch *)

\* No thread of the program will write the row of j any more.
Untouched(j) ==
    /\ \A w \in Workers : wjob[w] # j /\ mjob[w] # j
    /\ ~Pausing(j)

\* The pass may expire j, or has.
Retired(j) ==
    \/ status[j] = "completed" /\ j \in due
    \/ j \in expiring
    \/ status[j] = "expired"

\* The run of j is as good as over.
Over(j) ==
    /\ j <= created /\ status[j] # "queued" /\ ~Ticketed(j)
    /\ \A w \in Workers : Handles(w, j) => wpc[w] \in Ended

\* What is due stays as it is until the pass expires it, whatever it found before.
ExpiryInv ==
    /\ expiring \subseteq due
    /\ \A j \in expiring : status[j] \in {"completed", "absent"} /\ j <= created
    /\ \A j \in emptied : out[j] = "none"
    /\ \A j \in Jobs : status[j] = "expired" => out[j] = "none"
    /\ \A j \in Jobs : Retired(j) => Untouched(j)
    /\ \A j \in cut : Over(j)

\* What a step of the cleanup service writes.
LEMMA CleanupWrites ==
  ASSUME TypesInv, CleanupStep, NEW j \in Jobs
  PROVE  /\ \/ status'[j] = status[j] /\ output'[j] = output[j]
            \/ /\ sweep = "expire" /\ j \in expiring /\ emptied = expiring
               /\ status[j] # "absent" /\ status'[j] = "expired"
         /\ \/ out'[j] = out[j]
            \/ /\ sweep = "expire" /\ j \in expiring /\ out'[j] = "none"
               /\ UNCHANGED <<status, expiring, cut>>
         /\ \/ temp'[j] = temp[j]
            \/ sweep = "rmtree" /\ entry = j /\ temp'[j] = "none" /\ UNCHANGED <<status, expiring, cut>>
<1>a. /\ status \in [Jobs -> RowStatus] /\ output \in [Jobs -> BOOLEAN]
      /\ temp \in [Jobs -> TempStates] /\ out \in [Jobs -> OutStates]
  BY DEF TypesInv, Types, SharedTypeOK
<1>b. UNCHANGED cut
  BY CleanupFrame
<1>1. CASE UNCHANGED <<rows, disk>>
  BY <1>1 DEF rows, disk
<1>2. CASE RemoveStale
  BY <1>a, <1>b, <1>2 DEF RemoveStale, rows
<1>3. ASSUME NEW i \in Jobs, RemoveOutput(i)
      PROVE  /\ UNCHANGED <<status, output, temp, expiring>> /\ sweep = "expire"
             /\ i \in expiring /\ out' = [out EXCEPT ![i] = "none"]
  BY <1>3 DEF RemoveOutput, rows
<1>4. CASE CommitExpired
  BY <1>4 DEF CommitExpired, disk
<1>5. Sweep => \/ UNCHANGED <<rows, disk>> \/ RemoveStale \/ CommitExpired
               \/ \E i \in Jobs : RemoveOutput(i)
  BY DEF Sweep, SweepBegin, Visit, Stat, SelectExpired, shared, rows, disk
<1>6. HoursPass => UNCHANGED <<rows, disk>>
  BY DEF HoursPass, Age, FallDue, shared, rows, disk
<1> QED BY <1>a, <1>b, <1>1, <1>2, <1>3, <1>4, <1>5, <1>6 DEF CleanupStep

\* The runs are kept through every step of it.
LEMMA CleanupKeepsRuns ==
  ASSUME RunInv, ExpiryInv, CleanupStep, TypesInv'
  PROVE  RunInv'
<1>a. UNCHANGED <<created, queue, app, todo, runnerVars, clientVars, cut>>
  BY CleanupFrame
<1>b. UNCHANGED <<wpc, wjob, wseen, wdying, mpc, mjob, cpc, cjob, cseen, doomed, cleared>>
  BY <1>a DEF runnerVars, clientVars
<1>c. \A j \in Jobs : /\ status'[j] = status[j] \/ (status[j] = "completed" /\ status'[j] = "expired")
                      /\ out'[j] = out[j] \/ out'[j] = "none"
  BY CleanupWrites DEF RunInv, ExpiryInv
<1>d. \A j \in Jobs : /\ Ticketed(j)' <=> Ticketed(j)
                      /\ InQueue(j)' <=> InQueue(j)
                      /\ Chosen(j)' <=> Chosen(j)
                      /\ Busy(j)' <=> Busy(j)
                      /\ \A c \in Clients : Asks(c, j)' <=> Asks(c, j)
                      /\ \A w \in Workers : Handles(w, j)' <=> Handles(w, j)
  BY <1>a, <1>b DEF Ticketed, InQueue, Chosen, Busy, Asks, Handles
<1> USE DEF RunInv
<1>1. QuietInv'
  <2>1. \A j \in todo : j \in Jobs /\ status'[j] = "queued"
    BY <1>c DEF QuietInv, TypesInv, Types, SharedTypeOK
  <2> QED BY <1>a, <1>b, <1>c, <1>d, <2>1 DEF QuietInv
<1>2. OrderInv'
  <2>1. (app # "down" /\ todo = {}) \/ sweep' = "first" \/ HoursPass
    BY DEF CleanupStep, OrderInv, Sweep, SweepBegin, Visit, Stat, RemoveStale, SelectExpired,
           RemoveOutput, CommitExpired, QuietInv
  <2>2. HoursPass => sweep' = sweep
    BY DEF HoursPass, Age, FallDue, sweepVars
  <2> QED BY <1>a, <2>1, <2>2 DEF OrderInv
<1>3. OnceInv'
  <2>1. InOnePlace'
    BY <1>a, <1>b, <1>d DEF OnceInv, InOnePlace, SoleRunner, TypesInv, Types, SharedTypeOK
  <2>2. AtRest'
    BY <1>a, <1>b, <1>c, <1>d DEF OnceInv, AtRest, ActiveStatus, RunningStatus
  <2>3. Gone'
    <3>1. \A c \in Clients : cleared[c] \subseteq Jobs
      BY DEF TypesInv, Types, ApiTypeOK
    <3> QED BY <1>b, <1>c, <3>1 DEF OnceInv, Gone
  <2> QED BY <1>b, <2>1, <2>2, <2>3 DEF OnceInv
<1>4. ClaimInv'
  <2>1. \A w \in Workers : wpc[w] # "idle" => wjob[w] \in Jobs
    BY DEF TypesInv, Types, RunnerTypeOK
  <2> QED BY <1>b, <1>c, <2>1 DEF ClaimInv
<1>5. MonitorsFollow' /\ DeletionsChoose'
  BY <1>b DEF MonitorsFollow, MonitorStopped, DeletionsChoose
<1> QED BY <1>1, <1>2, <1>3, <1>4, <1>5

LEMMA RetiredAtRest ==
  ASSUME RunInv, ExpiryInv, NEW j \in Jobs, Retired(j)
  PROVE  /\ Untouched(j) /\ ~Ticketed(j) /\ j <= created
         /\ status[j] \in {"completed", "absent", "expired"}
         /\ \A w \in Workers : ~Handles(w, j)
<1>1. Untouched(j) /\ status[j] \in {"completed", "absent", "expired"}
  BY DEF ExpiryInv, Retired
<1>2. j <= created
  <2>1. j \in Nat /\ created \in Nat
    BY JobsAreNumbers DEF RunInv, TypesInv, Types, SharedTypeOK
  <2>2. j > created => status[j] = "absent"
    BY DEF RunInv, OnceInv, AtRest
  <2>3. j \in expiring => j <= created
    BY DEF ExpiryInv
  <2>4. j \in expiring \/ status[j] # "absent"
    BY DEF Retired
  <2> QED BY <2>1, <2>2, <2>3, <2>4
<1>3. ~Ticketed(j)
  BY <1>1 DEF RunInv, OnceInv, AtRest, ActiveStatus, RunningStatus
<1> QED BY <1>1, <1>2, <1>3 DEF Untouched, Handles

\* The job subsystem leaves a retired job alone, but for its deletion.
LEMMA RetiredLeft ==
  ASSUME RunInv, ExpiryInv, NEW j \in Jobs, Retired(j), Effect(j)
  PROVE  /\ Untouched(j)' /\ status'[j] \in {status[j], "absent"} /\ j <= created'
         /\ out'[j] \in {out[j], "none"}
<1>1. /\ Untouched(j) /\ ~Ticketed(j) /\ j <= created
      /\ status[j] \in {"completed", "absent", "expired"}
      /\ \A w \in Workers : ~Handles(w, j)
  BY RetiredAtRest
<1>2. status[j] \notin PausableStatus /\ status[j] \notin RunningStatus
  BY <1>1 DEF PausableStatus, RunningStatus
<1>3. ~(j > created)
  <2>1. j \in Nat /\ created \in Nat
    BY JobsAreNumbers DEF RunInv, TypesInv, Types, SharedTypeOK
  <2> QED BY ONLY <1>1, <2>1
<1>4. ~Pausing(j) /\ ~Reporting(j)
  BY <1>1 DEF Untouched, Reporting
<1>5. status'[j] \in {status[j], "absent"}
  BY <1>1, <1>2, <1>3, <1>4 DEF Effect, RowEffect
<1>6. out'[j] \in {out[j], "none"} /\ j <= created'
  BY <1>1 DEF Effect, DiskEffect, TicketEffect
<1>7. Untouched(j)'
  <2>1. ~Pausing(j)'
    BY <1>2, <1>4 DEF Effect, WriterEffect
  <2>2. \A w \in Workers : wjob'[w] # j /\ mjob'[w] # j
    BY <1>1 DEF Effect, ThreadEffect, Untouched
  <2> QED BY <2>1, <2>2 DEF Untouched
<1> QED BY <1>5, <1>6, <1>7

LEMMA OverLeft ==
  ASSUME RunInv, NEW j \in Jobs, Over(j), Effect(j)
  PROVE  Over(j)'
<1>1. ~(j > created)
  <2>1. j \in Nat /\ created \in Nat
    BY JobsAreNumbers DEF RunInv, TypesInv, Types, SharedTypeOK
  <2> QED BY ONLY <2>1, Over(j) DEF Over
<1>2. status'[j] # "queued"
  BY <1>1 DEF Effect, RowEffect, Over
<1>3. j <= created' /\ ~Ticketed(j)'
  BY <1>1 DEF Effect, TicketEffect, Over
<1>4. \A w \in Workers : Handles(w, j)' => wpc'[w] \in Ended
  BY DEF Effect, ThreadEffect, Over
<1> QED BY <1>2, <1>3, <1>4 DEF Over

\* What a deletion has begun with, or what is settled for good, is over.
LEMMA AtRestIsOver ==
  ASSUME RunInv, NEW j \in Jobs, status[j] \notin ActiveStatus \cup {"absent"}
  PROVE  Over(j)
<1>1. j \in Nat /\ created \in Nat
  BY JobsAreNumbers DEF RunInv, TypesInv, Types, SharedTypeOK
<1>2. ~(j > created)
  BY DEF RunInv, OnceInv, AtRest
<1>3. j <= created
  BY ONLY <1>1, <1>2
<1> QED BY <1>3 DEF RunInv, OnceInv, AtRest, Over, ActiveStatus

LEMMA BeingCutIsOver ==
  ASSUME RunInv, NEW c \in Clients, NEW j \in BeingCut(c)
  PROVE  j \in Jobs /\ Over(j)
<1>1. j \in Jobs
  BY DEF BeingCut, RunInv, TypesInv, Types, ApiTypeOK
<1> QED BY <1>1, AtRestIsOver DEF BeingCut, ActiveStatus, RunningStatus

LEMMA JobKeepsExpiry ==
  ASSUME RunInv, ExpiryInv, "resume" \notin Requests, JobStep
  PROVE  ExpiryInv'
<1>a. /\ expiring' = expiring /\ emptied' = emptied
      /\ due' = {j \in due : ~Completes(j)}
      /\ cut' = cut \cup UNION {BeingCut(c) : c \in {d \in Clients : DeleteFails(d)}}
  BY JobFrame DEF sweepVars, Renewed, RemembersCut
<1>b. \A j \in Jobs : Effect(j)
  BY JobStepHasEffect
<1>c. /\ expiring \subseteq Jobs /\ emptied \subseteq Jobs /\ cut \subseteq Jobs
  BY DEF RunInv, TypesInv, PassInv, CleanupTypeOK
<1>1. \A j \in expiring : Retired(j) /\ Retired(j)'
  BY <1>a DEF Retired
<1>2. ASSUME NEW j \in Jobs, Retired(j)' PROVE Retired(j)
  <2>1. CASE status'[j] = status[j]
    BY <1>2, <1>a, <2>1 DEF Retired
  <2>2. CASE j \in expiring
    BY <1>1, <2>2
  <2>3. CASE status'[j] # status[j] /\ j \notin expiring
    <3>1. status'[j] \in {"completed", "expired"}
      BY <1>a, <1>2, <2>3 DEF Retired
    <3>2. PICK w \in Workers : /\ Handles(w, j) /\ wpc[w] = "complete" /\ wpc'[w] = "join"
                               /\ status'[j] = "completed"
      BY <1>b, <2>3, <3>1 DEF Effect, RowEffect
    <3>3. Completes(j)
      BY <3>2 DEF Completes, Handles
    <3> QED BY <1>2, <1>a, <2>3, <3>2, <3>3 DEF Retired
  <2> QED BY <2>1, <2>2, <2>3
<1>3. \A j \in Jobs : Retired(j)' => Untouched(j)'
  BY <1>b, <1>2, RetiredLeft
<1>4. \A j \in expiring' : status'[j] \in {"completed", "absent"} /\ j <= created'
  BY <1>a, <1>b, <1>c, <1>1, RetiredLeft DEF ExpiryInv
<1>5. \A j \in emptied' : out'[j] = "none"
  <2>1. emptied \subseteq expiring
    BY DEF RunInv, TypesInv, PassInv, CleanupTypeOK
  <2> QED BY <1>a, <1>b, <1>c, <1>1, <2>1, RetiredLeft DEF ExpiryInv
<1>6. \A j \in Jobs : status'[j] = "expired" => out'[j] = "none"
  <2>1. ASSUME NEW j \in Jobs, status'[j] = "expired" PROVE out'[j] = "none"
    <3>1. Retired(j)
      BY <1>2, <2>1 DEF Retired
    <3>2. status[j] = "expired" /\ out'[j] \in {out[j], "none"}
      BY <1>b, <2>1, <3>1, RetiredLeft
    <3> QED BY <3>2 DEF ExpiryInv
  <2> QED BY <2>1
<1>7. \A j \in cut' : Over(j)'
  BY <1>a, <1>b, <1>c, OverLeft, BeingCutIsOver DEF ExpiryInv
<1>8. expiring' \subseteq due'
  <2>1. ASSUME NEW j \in expiring PROVE ~Completes(j)
    <3>1. j \in Jobs /\ \A w \in Workers : ~Handles(w, j)
      BY <1>c, <1>1, RetiredAtRest
    <3> QED BY <3>1 DEF Completes, Handles
  <2> QED BY <1>a, <2>1 DEF ExpiryInv
<1> QED BY <1>3, <1>4, <1>5, <1>6, <1>7, <1>8 DEF ExpiryInv

LEMMA EndKeepsExpiry ==
  ASSUME RunInv, ExpiryInv, EndStep
  PROVE  ExpiryInv'
<1>1. \A j \in Jobs : Untouched(j)'
  BY EndFrame, JobsAreNumbers DEF Untouched
<1>2. \A j \in Jobs : Over(j) => Over(j)'
  BY EndFrame DEF Over
<1>3. \A j \in cut' : Over(j)'
  <2>1. cut \subseteq Jobs
    BY DEF RunInv, TypesInv
  <2> QED BY <1>2, <2>1, EndFrame, BeingCutIsOver DEF ExpiryInv
<1> QED BY <1>1, <1>3, EndFrame DEF ExpiryInv

\* Nothing of a run or a request changes with the pass.
LEMMA CleanupLeavesThreads ==
  ASSUME CleanupStep, NEW j \in Jobs
  PROVE  /\ UNCHANGED <<created, app, todo, wpc, wjob, mpc, mjob, cpc, doomed, cleared, cut>>
         /\ Ticketed(j)' <=> Ticketed(j)
         /\ Pausing(j)' <=> Pausing(j)
         /\ Reporting(j)' <=> Reporting(j)
         /\ Untouched(j)' <=> Untouched(j)
         /\ \A w \in Workers : Handles(w, j)' <=> Handles(w, j)
<1>1. /\ UNCHANGED <<created, queue, app, todo, wpc, wjob, mpc, mjob, cpc, cjob, doomed, cleared>>
      /\ cut' = cut
  BY CleanupFrame DEF runnerVars, clientVars
<1> QED BY <1>1 DEF Ticketed, InQueue, Asks, Pausing, Reporting, Untouched, Handles

\* Hours pass only for jobs that nobody is at.
LEMMA DueIsUntouched ==
  ASSUME RunInv, HoursPass, NEW j \in Jobs, j \notin due, j \in due'
  PROVE  Untouched(j)
<1>1. /\ \A c \in Clients : cpc[c] = "idle"
      /\ \A w \in Workers : wjob[w] # j /\ mpc[w] # "write"
  BY DEF HoursPass, Age, FallDue
<1>2. ASSUME NEW w \in Workers PROVE mjob[w] # j
  <2>1. CASE mpc[w] = "off"
    BY <2>1, JobsAreNumbers DEF RunInv, MonitorsFollow
  <2>2. CASE mpc[w] = "wait"
    BY <1>1, <2>2 DEF RunInv, MonitorsFollow
  <2>3. mpc[w] \in MonitorPC
    BY DEF RunInv, TypesInv, Types, RunnerTypeOK
  <2> QED BY <1>1, <2>1, <2>2, <2>3 DEF MonitorPC
<1> QED BY <1>1, <1>2 DEF Untouched, Pausing

LEMMA CleanupKeepsExpiry ==
  ASSUME RunInv, ExpiryInv, CleanupStep
  PROVE  ExpiryInv'
<1>a. /\ expiring \subseteq Jobs /\ emptied \subseteq expiring /\ cut \subseteq Jobs
      /\ due \subseteq Jobs
      /\ status \in [Jobs -> RowStatus] /\ out \in [Jobs -> OutStates]
      /\ sweep \notin {"expire", "dead"} => expiring = {} /\ emptied = {}
  BY DEF RunInv, TypesInv, Types, SharedTypeOK, PassInv, CleanupTypeOK
<1>b. UNCHANGED <<created, cut>> /\ \A j \in Jobs : Untouched(j)' <=> Untouched(j)
  BY CleanupFrame, CleanupLeavesThreads
<1>1. \A j \in cut' : Over(j)'
  <2>1. ASSUME NEW j \in Jobs, Over(j) PROVE Over(j)'
    <3>1. status'[j] # "queued"
      BY <2>1, CleanupWrites DEF Over, RunInv
    <3> QED BY <2>1, <3>1, CleanupLeavesThreads DEF Over
  <2> QED BY <1>a, <1>b, <2>1 DEF ExpiryInv
<1> SUFFICES /\ expiring' \subseteq due'
             /\ \A j \in expiring' : status'[j] \in {"completed", "absent"} /\ j <= created
             /\ \A j \in emptied' : out'[j] = "none"
             /\ \A j \in Jobs : status'[j] = "expired" => out'[j] = "none"
             /\ \A j \in Jobs : Retired(j)' => Untouched(j)
  BY <1>1, <1>b DEF ExpiryInv
<1> USE DEF ExpiryInv, Retired
<1>2. CASE UNCHANGED <<status, out, expiring, emptied, due>>
  BY <1>2
<1>3. CASE SweepBegin \/ Stat \/ \E j \in Jobs : Visit(j) \/ Age(j)
  BY <1>2, <1>3 DEF SweepBegin, Stat, Visit, Age, shared, sweepVars, ageVars
<1>4. CASE RemoveStale
  BY <1>2, <1>4 DEF RemoveStale, rows
<1>5. CASE SelectExpired
  <2>1. /\ UNCHANGED <<status, out, emptied, due>> /\ emptied = {}
        /\ expiring' = {j \in due : status[j] = "completed"}
    BY <1>5, <1>a DEF SelectExpired, shared, ageVars
  <2>2. ASSUME NEW j \in expiring' PROVE status'[j] = "completed" /\ j <= created
    <3>1. j \in Jobs /\ Retired(j) /\ status[j] = "completed"
      BY <1>a, <2>1, <2>2
    <3> QED BY <2>1, <3>1, RetiredAtRest
  <2> QED BY <1>a, <2>1, <2>2
<1>6. ASSUME NEW i \in Jobs, RemoveOutput(i)
      PROVE  /\ expiring' \subseteq due'
             /\ \A j \in expiring' : status'[j] \in {"completed", "absent"} /\ j <= created
             /\ \A j \in emptied' : out'[j] = "none"
             /\ \A j \in Jobs : status'[j] = "expired" => out'[j] = "none"
             /\ \A j \in Jobs : Retired(j)' => Untouched(j)
  <2>1. /\ UNCHANGED <<status, expiring, due>> /\ out' = [out EXCEPT ![i] = "none"]
        /\ emptied' = emptied \cup {i}
    BY <1>6 DEF RemoveOutput, rows, ageVars
  <2> QED BY <1>a, <2>1
<1>7. CASE CommitExpired
  <2>1. UNCHANGED <<out, due>> /\ emptied = expiring
    BY <1>7 DEF CommitExpired, disk, ageVars
  <2>2. CASE UNCHANGED <<status, expiring, emptied>>
    BY <1>2, <2>1, <2>2
  <2>3. CASE /\ expiring' = {} /\ emptied' = {}
             /\ status' = [j \in Jobs |-> IF j \in expiring THEN "expired" ELSE status[j]]
    BY <1>a, <2>1, <2>3
  <2> QED BY <1>7, <2>2, <2>3 DEF CommitExpired
<1>8. ASSUME HoursPass, NEW i \in Jobs, FallDue(i)
      PROVE  /\ expiring' \subseteq due'
             /\ \A j \in expiring' : status'[j] \in {"completed", "absent"} /\ j <= created
             /\ \A j \in emptied' : out'[j] = "none"
             /\ \A j \in Jobs : status'[j] = "expired" => out'[j] = "none"
             /\ \A j \in Jobs : Retired(j)' => Untouched(j)
  <2>1. UNCHANGED <<status, out, expiring, emptied>> /\ due' = due \cup {i}
    BY <1>8 DEF FallDue, shared, sweepVars
  <2>2. ASSUME NEW j \in Jobs, Retired(j)' PROVE Untouched(j)
    <3>1. CASE j \in due' /\ j \notin due
      BY <1>8, <3>1, DueIsUntouched
    <3>2. CASE ~(j \in due' /\ j \notin due)
      BY <2>1, <2>2, <3>2
    <3> QED BY <3>1, <3>2
  <2> QED BY <2>1, <2>2
<1> QED BY <1>3, <1>4, <1>5, <1>6, <1>7, <1>8 DEF CleanupStep, Sweep, HoursPass

-----------------------------------------------------------------------------
(* Completed rows and their files *)

\* The first pass of this process has yet to look for what is due.
Unswept == app \in {"down", "recovering"} /\ sweep \notin {"idle", "expire"}

\* Why a completed row may lack its file.
Excused(j) ==
    \/ j \in cut \cup expiring
    \/ \E c \in Clients : j \in cleared[c]
    \/ Unswept /\ j \in due

FileInv ==
    /\ \A j \in Jobs : status[j] = "completed" => output[j] /\ (out[j] = "file" \/ Excused(j))
    /\ \A w \in Workers : \A j \in Jobs : wjob[w] = j /\ wpc[w] \in {"reload", "complete"} =>
          out[j] = "file" /\ j \notin stale

\* A job that a request chose, or that says completed, has no run that publishes.
LEMMA NobodyPublishes ==
  ASSUME RunInv, NEW j \in Jobs, Chosen(j) \/ status[j] \notin ActiveStatus
  PROVE  \A w \in Workers : ~(wjob[w] = j /\ wpc[w] \in {"prepare", "fetch", "publish", "move",
                                                         "reload", "complete"})
  BY DEF RunInv, OnceInv, AtRest, Handles, Ended

LEMMA JobKeepsExcuse ==
  ASSUME RunInv, "resume" \notin Requests, JobStep, NEW j \in Jobs, status[j] = "completed",
         status'[j] = "completed", Excused(j)
  PROVE  Excused(j)'
<1>a. /\ expiring' = expiring /\ sweep' = sweep /\ due' = {i \in due : ~Completes(i)}
      /\ cut' = cut \cup UNION {BeingCut(c) : c \in {d \in Clients : DeleteFails(d)}}
  BY JobFrame DEF sweepVars, Renewed, RemembersCut
<1>1. CASE j \in cut \cup expiring
  BY <1>a, <1>1 DEF Excused
<1>2. ASSUME NEW c \in Clients, j \in cleared[c] PROVE Excused(j)'
  <2>1. j \in cleared'[c] \/ DeleteFails(c)
    BY <1>2, JobStepHasEffect DEF Effect, ClearEffect
  <2>2. DeleteFails(c) => j \in cut'
    BY <1>a, <1>2 DEF BeingCut
  <2> QED BY <2>1, <2>2 DEF Excused
<1>3. CASE Unswept /\ j \in due
  <2>1. Unswept'
    BY <1>a, <1>3, JobFrame DEF Unswept
  <2>2. ~Completes(j)
    BY <1>3 DEF Completes, Unswept, RunInv, QuietInv
  <2> QED BY <1>a, <1>3, <2>1, <2>2 DEF Excused
<1> QED BY <1>1, <1>2, <1>3 DEF Excused

LEMMA JobKeepsFiles ==
  ASSUME RunInv, FileInv, "resume" \notin Requests, JobStep
  PROVE  FileInv'
<1>a. stale' = {j \in stale : temp'[j] = temp[j]}
  BY JobFrame DEF Refreshed
<1>b. \A j \in Jobs : Effect(j)
  BY JobStepHasEffect
<1>c. \A v, w \in Workers : \A j \in Jobs : Handles(v, j) /\ Handles(w, j) => v = w
  BY DEF RunInv, OnceInv, InOnePlace, SoleRunner
<1>1. ASSUME NEW j \in Jobs, status'[j] = "completed"
      PROVE  output'[j] /\ (out'[j] = "file" \/ Excused(j)')
  <2>1. CASE status[j] = "completed"
    <3>1. output'[j] = output[j]
      <4>1. \A w \in Workers : Handles(w, j) => wpc[w] \in Ended
        BY <2>1 DEF RunInv, OnceInv, AtRest, ActiveStatus, RunningStatus
      <4> QED BY <1>1, <1>b, <2>1, <4>1 DEF Effect, RowEffect
    <3>2. out'[j] = out[j] \/ \E c \in Clients : j \in cleared'[c]
      <4>1. ~\E w \in Workers : Handles(w, j) /\ wpc[w] \in {"publish", "move"}
        BY <2>1, NobodyPublishes DEF Handles, ActiveStatus, RunningStatus
      <4> QED BY <1>b, <4>1 DEF Effect, DiskEffect
    <3>3. CASE out[j] = "file"
      BY <2>1, <3>1, <3>2, <3>3 DEF FileInv, Excused
    <3>4. CASE Excused(j)
      BY <1>1, <2>1, <3>1, <3>4, JobKeepsExcuse DEF FileInv
    <3> QED BY <2>1, <3>3, <3>4 DEF FileInv
  <2>2. CASE status[j] # "completed"
    <3>1. PICK w \in Workers : /\ Handles(w, j) /\ wpc[w] = "complete" /\ output'[j]
      BY <1>1, <1>b, <2>2 DEF Effect, RowEffect
    <3>2. out[j] = "file" /\ ~Chosen(j)
      BY <3>1, NobodyPublishes DEF FileInv, Handles
    <3>3. \A v \in Workers : Handles(v, j) => wpc[v] \notin {"publish", "move"}
      BY <1>c, <3>1
    <3>4. out'[j] = out[j]
      BY <1>b, <3>2, <3>3 DEF Effect, DiskEffect, Chosen
    <3> QED BY <3>1, <3>2, <3>4
  <2> QED BY <2>1, <2>2
<1>2. ASSUME NEW w \in Workers, NEW j \in Jobs,
             wjob'[w] = j, wpc'[w] \in {"reload", "complete"}
      PROVE  out'[j] = "file" /\ j \notin stale'
  <2>1. /\ wjob[w] = j
        /\ \/ wpc[w] \in {"reload", "complete"}
           \/ wpc[w] = "move" /\ out'[j] = "file" /\ temp'[j] # temp[j]
    BY <1>2, <1>b DEF Effect, ThreadEffect
  <2>2. CASE wpc[w] \in {"reload", "complete"}
    <3>1. out[j] = "file" /\ j \notin stale /\ ~Chosen(j) /\ Handles(w, j)
      BY <2>1, <2>2, NobodyPublishes DEF FileInv, Handles
    <3>2. \A v \in Workers : Handles(v, j) => wpc[v] \notin {"publish", "move"}
      BY <1>c, <2>2, <3>1
    <3>3. out'[j] = out[j]
      BY <1>b, <3>1, <3>2 DEF Effect, DiskEffect, Chosen
    <3> QED BY <1>a, <3>1, <3>3
  <2> QED BY <1>a, <2>1, <2>2
<1> QED BY <1>1, <1>2 DEF FileInv

LEMMA EndKeepsFiles ==
  ASSUME RunInv, ExpiryInv, FileInv, EndStep
  PROVE  FileInv'
<1>1. ASSUME NEW j \in Jobs, status'[j] = "completed"
      PROVE  output'[j] /\ (out'[j] = "file" \/ Excused(j)')
  <2>1. status[j] = "completed" /\ output'[j] /\ out'[j] = out[j]
    BY <1>1, EndFrame DEF FileInv
  <2>2. CASE j \in cut \/ \E c \in Clients : j \in cleared[c]
    <3>1. j \in cut'
      BY <2>1, <2>2, EndFrame DEF BeingCut
    <3> QED BY <2>1, <3>1 DEF Excused
  <2>3. CASE j \in due
    BY <2>1, <2>3, EndFrame DEF Excused, Unswept
  <2> QED BY <2>1, <2>2, <2>3 DEF FileInv, Excused, ExpiryInv
<1>2. \A w \in Workers : wpc'[w] \notin {"reload", "complete"}
  BY EndFrame
<1> QED BY <1>1, <1>2 DEF FileInv

LEMMA CleanupKeepsFiles ==
  ASSUME RunInv, ExpiryInv, FileInv, CleanupStep
  PROVE  FileInv'
<1>a. /\ expiring \subseteq Jobs /\ due \subseteq Jobs /\ stale \subseteq Jobs
      /\ sweep \notin {"expire", "dead"} => expiring = {}
      /\ status \in [Jobs -> RowStatus] /\ output \in [Jobs -> BOOLEAN]
      /\ out \in [Jobs -> OutStates]
  BY DEF RunInv, TypesInv, Types, SharedTypeOK, PassInv, CleanupTypeOK
<1>b. UNCHANGED <<app, wjob, wpc, cleared, cut>>
  BY CleanupFrame DEF runnerVars, clientVars
<1>1. \A j \in Jobs : status'[j] = "completed" =>
         status[j] = "completed" /\ output'[j] = output[j]
  BY CleanupWrites DEF RunInv
<1>2. ASSUME NEW j \in Jobs, status'[j] = "completed", Excused(j) PROVE Excused(j)'
  <2>1. CASE j \in cut \/ \E c \in Clients : j \in cleared[c]
    BY <1>b, <2>1 DEF Excused
  <2>2. CASE j \in expiring
    <3>1. j \in expiring'
      BY <1>1, <1>2, <1>a, <2>2
         DEF CleanupStep, Sweep, SweepBegin, Visit, Stat, RemoveStale, SelectExpired, ExpiryInv,
             RemoveOutput, CommitExpired, HoursPass, Age, FallDue, shared, sweepVars
    <3> QED BY <3>1 DEF Excused
  <2>3. CASE Unswept /\ j \in due
    <3>1. j \in due'
      BY <2>3 DEF CleanupStep, Sweep, SweepBegin, Visit, Stat, RemoveStale, SelectExpired,
                  RemoveOutput, CommitExpired, HoursPass, Age, FallDue, shared, sweepVars, ageVars
    <3>2. CASE SelectExpired
      BY <1>1, <1>2, <2>3, <3>2 DEF SelectExpired, Excused
    <3>3. CASE ~SelectExpired
      <4>1. sweep' \notin {"idle", "expire"}
        BY <2>3, <3>3 DEF Unswept, CleanupStep, Sweep, SweepBegin, Visit, Stat, RemoveStale,
                  RemoveOutput, CommitExpired, HoursPass, Age, FallDue, shared, sweepVars, ageVars
      <4> QED BY <1>b, <2>3, <3>1, <4>1 DEF Excused, Unswept
    <3> QED BY <3>2, <3>3
  <2> QED BY <1>2, <2>1, <2>2, <2>3 DEF Excused
<1>3. ASSUME NEW j \in Jobs, status'[j] = "completed"
      PROVE  output'[j] /\ (out'[j] = "file" \/ Excused(j)')
  <2>1. \/ out'[j] = out[j]
        \/ j \in expiring'
    BY CleanupWrites DEF RunInv
  <2> QED BY <1>1, <1>2, <1>3, <2>1 DEF FileInv, Excused
<1>4. ASSUME NEW w \in Workers, NEW j \in Jobs, wjob[w] = j, wpc[w] \in {"reload", "complete"}
      PROVE  out'[j] = "file" /\ j \notin stale'
  <2>1. j \notin expiring /\ out[j] = "file" /\ j \notin stale
    BY <1>4, RetiredAtRest DEF FileInv, Retired, Untouched
  <2>2. out'[j] = out[j]
    BY <2>1, CleanupWrites DEF RunInv
  <2>3. j \notin stale'
    <3>1. HoursPass => j \notin stale'
      BY <1>4, <2>1 DEF HoursPass, Age, FallDue
    <3>2. Sweep => stale' \subseteq stale
      BY DEF Sweep, SweepBegin, Visit, Stat, RemoveStale, SelectExpired, RemoveOutput,
             CommitExpired, Refreshed, ageVars
    <3> QED BY <2>1, <3>1, <3>2 DEF CleanupStep
  <2> QED BY <2>1, <2>2, <2>3
<1> QED BY <1>b, <1>3, <1>4 DEF FileInv

-----------------------------------------------------------------------------
(* Temporary directories and the pass that removes the stale ones *)

Writing(j) == Pausing(j) \/ Reporting(j)

\* Cleanup may remove the directory of j: the job needs no data and nobody is about to
\* say that it does, or its run is about to remove the directory itself.
Shielded(j) ==
    \/ status[j] \notin TempProtected /\ ~Writing(j)
    \/ \E w \in Workers : wjob[w] = j /\ wpc[w] = "failClear"

Sweeping == sweep \in {"scan", "stat", "rmtree"}

\* Nobody has begun on what is queued, deleted or about to be: there are no data.
NoData ==
    /\ \A j \in Jobs : status[j] \in {"absent", "queued"} \/ Ticketed(j) => temp[j] = "none"
    /\ \A c \in Clients : \A j \in cleared[c] : temp[j] = "none"
    /\ \A w \in Workers : \A j \in Jobs :
          Handles(w, j) /\ wpc[w] \in {"load", "claim"} => temp[j] = "none"

\* A stale directory that is not protected, or was not when the pass began, stays
\* without protection until it is gone.
StaleInv ==
    /\ \A j \in stale : temp[j] # "none"
    /\ \A j \in stale : status[j] \notin TempProtected \/ (Sweeping /\ j \notin kept) =>
          Shielded(j)

EntryInv ==
    /\ sweep = "stat" => entry \notin kept
    /\ sweep = "rmtree" =>
          entry \in Jobs /\ Over(entry) /\ (temp[entry] = "none" \/ Shielded(entry))

TempInv == NoData /\ StaleInv /\ EntryInv

\* Only a run that is under way writes data.
LEMMA DataNeedRun ==
  ASSUME RunInv, NEW j \in Jobs, Effect(j), temp'[j] # "none", temp[j] = "none"
  PROVE  \E w \in Workers : /\ Handles(w, j) /\ wpc[w] \in {"prepare", "fetch", "move"}
                            /\ ~Ticketed(j) /\ ~Chosen(j) /\ j <= created
                            /\ status[j] \in ActiveStatus \ {"queued"}
<1>1. PICK w \in Workers : Handles(w, j) /\ wpc[w] \in {"prepare", "fetch", "move"}
  BY DEF Effect, DiskEffect
<1>2. wpc[w] \notin Ended
  BY <1>1 DEF Ended
<1>3. status[j] \in ActiveStatus /\ ~Chosen(j) /\ ~Ticketed(j)
  BY <1>1, <1>2 DEF RunInv, OnceInv, AtRest, InOnePlace
<1>4. status[j] # "queued"
  BY <1>1 DEF RunInv, ClaimInv, Handles
<1>5. j <= created
  <2>1. j \in Nat /\ created \in Nat
    BY JobsAreNumbers DEF RunInv, TypesInv, Types, SharedTypeOK
  <2>2. ~(j > created)
    BY <1>1 DEF RunInv, OnceInv, AtRest
  <2> QED BY ONLY <2>1, <2>2
<1> QED BY <1>1, <1>3, <1>4, <1>5

LEMMA JobKeepsNoData ==
  ASSUME RunInv, TempInv, "resume" \notin Requests, JobStep
  PROVE  NoData'
<1>b. \A j \in Jobs : Effect(j)
  BY JobStepHasEffect
<1>c. \A j \in Jobs : j > created => status[j] = "absent"
  BY DEF RunInv, OnceInv, AtRest
<1>1. ASSUME NEW j \in Jobs, status'[j] \in {"absent", "queued"} \/ Ticketed(j)'
      PROVE  temp'[j] = "none"
  <2>1. \/ status[j] \in {"absent", "queued"} \/ Ticketed(j)
        \/ \E c \in Clients : j \in doomed[c] /\ cleared[c] = doomed[c]
    BY <1>1, <1>b, <1>c DEF Effect, RowEffect, TicketEffect
  <2>2. temp[j] = "none"
    BY <2>1 DEF TempInv, NoData
  <2>3. Chosen(j) \/ status[j] \in {"absent", "queued"} \/ Ticketed(j)
    BY <2>1 DEF Chosen
  <2> QED BY <1>b, <2>2, <2>3, DataNeedRun DEF ActiveStatus, RunningStatus
<1>2. ASSUME NEW c \in Clients, NEW j \in cleared'[c], j \in Jobs PROVE temp'[j] = "none"
  <2>1. temp'[j] = "none" \/ j \in cleared[c]
    BY <1>2, <1>b DEF Effect, ClearEffect
  <2>2. j \in cleared[c] => Chosen(j) /\ temp[j] = "none"
    BY DEF TempInv, NoData, RunInv, OnceInv, Gone, Chosen
  <2> QED BY <1>2, <1>b, <2>1, <2>2, DataNeedRun
<1>3. ASSUME NEW w \in Workers, NEW j \in Jobs, Handles(w, j)', wpc'[w] \in {"load", "claim"}
      PROVE  temp'[j] = "none"
  <2>1. Ticketed(j) \/ (Handles(w, j) /\ wpc[w] \in {"load", "claim"})
    BY <1>3, <1>b DEF Effect, ThreadEffect
  <2>2. temp[j] = "none"
    BY <2>1 DEF TempInv, NoData
  <2>3. \A v \in Workers : Handles(v, j) => wpc[v] \in {"load", "claim"}
    BY <2>1 DEF RunInv, OnceInv, InOnePlace, SoleRunner
  <2> QED BY <1>b, <2>2, <2>3, DataNeedRun
<1>4. \A c \in Clients : cleared'[c] \subseteq Jobs
  <2>1. TypesInv'
    BY StepKeepsTypes DEF RunInv, RetentionNext
  <2> QED BY <2>1 DEF TypesInv, Types, ApiTypeOK
<1> QED BY <1>1, <1>2, <1>3, <1>4 DEF NoData

\* What may go stays so until it is gone.
LEMMA ShieldStays ==
  ASSUME RunInv, ExpiryInv, NEW j \in Jobs, Shielded(j), ~Ticketed(j), j <= created, Effect(j)
  PROVE  Shielded(j)' \/ temp'[j] = "none"
<1>1. ASSUME NEW w \in Workers, wjob[w] = j, wpc[w] = "failClear"
      PROVE  Shielded(j)' \/ temp'[j] = "none"
  BY <1>1 DEF Effect, ThreadEffect, Shielded
<1>2. ASSUME status[j] \notin TempProtected, ~Writing(j)
      PROVE  status'[j] \notin TempProtected /\ ~Writing(j)'
  <2>a. status[j] \in RowStatus
    BY DEF RunInv, TypesInv, Types, SharedTypeOK
  <2>1. \A w \in Workers : Handles(w, j) => wpc[w] \in Ended
    BY <1>2 DEF RunInv, OnceInv, AtRest, TempProtected, ActiveStatus
  <2>2. ~(j > created)
    <3>1. j \in Nat /\ created \in Nat
      BY JobsAreNumbers DEF RunInv, TypesInv, Types, SharedTypeOK
    <3> QED BY ONLY <3>1, j <= created
  <2>3. status[j] \notin RunningStatus /\ status[j] \notin PausableStatus
    BY <1>2 DEF TempProtected, PausableStatus
  <2>4. status'[j] \notin TempProtected
    <3>1. status'[j] \in {status[j], "absent"}
      BY <1>2, <2>1, <2>2, <2>3 DEF Effect, RowEffect, Writing
    <3> QED BY <1>2, <3>1 DEF TempProtected, RunningStatus
  <2>5. ~Pausing(j)'
    BY <1>2, <2>3 DEF Effect, WriterEffect, Writing
  <2>6. ~Reporting(j)'
    <3>1. CASE status[j] = "expired"
      <4>1. Untouched(j)
        BY <3>1 DEF ExpiryInv, Retired
      <4> QED BY <1>2, <4>1 DEF Effect, WriterEffect, Writing, Untouched
    <3>2. CASE status[j] \in {"absent", "failed", "completed", "paused"}
      BY <1>2, <3>2 DEF Effect, WriterEffect, Writing
    <3> QED BY <1>2, <2>a, <3>1, <3>2 DEF RowStatus, JobStatus, TempProtected, RunningStatus
  <2> QED BY <2>4, <2>5, <2>6 DEF Writing
<1> QED BY <1>1, <1>2 DEF Shielded

\* A stale directory belongs to a job with a row that is not waiting.
LEMMA StaleHasRow ==
  ASSUME RunInv, NoData, NEW j \in Jobs, temp[j] # "none"
  PROVE  /\ status[j] \notin {"absent", "queued"} /\ ~Ticketed(j) /\ j <= created
         /\ ~\E c \in Clients : j \in cleared[c]
<1>1. status[j] \notin {"absent", "queued"} /\ ~Ticketed(j)
  BY DEF NoData
<1>2. ~\E c \in Clients : j \in cleared[c]
  BY DEF NoData
<1>3. j <= created
  <2>1. j \in Nat /\ created \in Nat
    BY JobsAreNumbers DEF RunInv, TypesInv, Types, SharedTypeOK
  <2>2. ~(j > created)
    BY <1>1 DEF RunInv, OnceInv, AtRest
  <2> QED BY ONLY <2>1, <2>2
<1> QED BY <1>1, <1>2, <1>3

LEMMA JobKeepsStale ==
  ASSUME RunInv, ExpiryInv, FileInv, TempInv, "resume" \notin Requests, JobStep
  PROVE  StaleInv'
<1>a. /\ stale' = {j \in stale : temp'[j] = temp[j]} /\ kept' = kept /\ sweep' = sweep
      /\ stale \subseteq Jobs
  BY JobFrame DEF Refreshed, sweepVars, RunInv, TypesInv, PassInv, CleanupTypeOK
<1>1. \A j \in stale' : j \in stale /\ j \in Jobs /\ temp'[j] = temp[j] /\ temp[j] # "none"
  BY <1>a DEF TempInv, StaleInv
<1>2. ASSUME NEW j \in stale',
             status'[j] \notin TempProtected \/ (Sweeping' /\ j \notin kept')
      PROVE  Shielded(j)'
  <2>a. j \in Jobs /\ j \in stale /\ temp'[j] # "none" /\ temp[j] # "none" /\ Effect(j)
    BY <1>1, JobStepHasEffect
  <2>b. /\ status[j] \notin {"absent", "queued"} /\ ~Ticketed(j) /\ j <= created
        /\ ~\E c \in Clients : j \in cleared[c]
    BY <2>a, StaleHasRow DEF TempInv
  <2>1. CASE status[j] \notin TempProtected \/ (Sweeping /\ j \notin kept)
    <3>1. Shielded(j)
      BY <2>a, <2>1 DEF TempInv, StaleInv
    <3> QED BY <2>a, <2>b, <3>1, ShieldStays
  <2>2. CASE status[j] \in TempProtected /\ ~(Sweeping /\ j \notin kept)
    <3>1. status'[j] \notin TempProtected
      BY <1>2, <1>a, <2>2 DEF Sweeping
    <3>2. ~(j > created)
      <4>1. j \in Nat /\ created \in Nat
        BY <2>a, JobsAreNumbers DEF RunInv, TypesInv, Types, SharedTypeOK
      <4> QED BY ONLY <2>b, <4>1
    <3>3. ~\E c \in Clients : j \in doomed[c] /\ cleared[c] = doomed[c]
      BY <2>b
    <3>4. PICK w \in Workers : /\ Handles(w, j) /\ wjob'[w] = j
                               /\ \/ wpc'[w] = "failClear"
                                  \/ wpc[w] = "complete"
      BY <2>a, <2>b, <2>2, <3>1, <3>2, <3>3
         DEF Effect, RowEffect, TempProtected, RunningStatus
    <3>5. wpc[w] # "complete"
      BY <2>a, <3>4 DEF FileInv, Handles
    <3> QED BY <3>4, <3>5 DEF Shielded
  <2> QED BY <2>1, <2>2
<1> QED BY <1>1, <1>2 DEF StaleInv

LEMMA JobKeepsEntry ==
  ASSUME RunInv, ExpiryInv, TempInv, "resume" \notin Requests, JobStep
  PROVE  EntryInv'
<1>a. kept' = kept /\ sweep' = sweep /\ entry' = entry
  BY JobFrame DEF sweepVars
<1>1. ASSUME sweep = "rmtree"
      PROVE  entry \in Jobs /\ Over(entry)' /\ (temp'[entry] = "none" \/ Shielded(entry)')
  <2> PICK j \in Jobs : j = entry
    BY <1>1 DEF TempInv, EntryInv
  <2>1. Over(j) /\ (temp[j] = "none" \/ Shielded(j))
    BY <1>1 DEF TempInv, EntryInv
  <2>2. Effect(j) /\ Over(j)'
    BY <2>1, JobStepHasEffect, OverLeft
  <2>3. CASE temp[j] = "none"
    <3>1. ~\E w \in Workers : Handles(w, j) /\ wpc[w] \in {"prepare", "fetch", "move"}
      BY <2>1 DEF Over, Ended
    <3> QED BY <2>1, <2>2, <2>3, <3>1, DataNeedRun, <1>a
  <2>4. CASE Shielded(j)
    <3>1. Shielded(j)' \/ temp'[j] = "none"
      BY <2>1, <2>2, <2>4, ShieldStays DEF Over
    <3> QED BY <2>1, <2>2, <3>1, <1>a
  <2> QED BY <2>1, <2>3, <2>4
<1> QED BY <1>a, <1>1 DEF TempInv, EntryInv

LEMMA EndKeepsTemp ==
  ASSUME RunInv, TempInv, EndStep
  PROVE  TempInv'
<1>1. NoData'
  BY EndFrame DEF TempInv, NoData
<1>2. StaleInv'
  <2>1. stale \subseteq Jobs
    BY DEF RunInv, TypesInv, PassInv, CleanupTypeOK
  <2> QED BY <2>1, EndFrame DEF TempInv, StaleInv, Sweeping, Shielded, Writing
<1> QED BY <1>1, <1>2, EndFrame DEF TempInv, EntryInv

\* The pass reaches the rmtree of a directory that may go.
LEMMA StatShields ==
  ASSUME RunInv, TempInv, sweep = "stat", entry \in stale
  PROVE  entry \in Jobs /\ Over(entry) /\ Shielded(entry)
<1> PICK j \in Jobs : j = entry
  BY DEF RunInv, TypesInv, PassInv, CleanupTypeOK
<1>1. j \in stale /\ temp[j] # "none" /\ j \notin kept
  BY DEF TempInv, StaleInv, EntryInv
<1>2. Shielded(j)
  BY <1>1 DEF TempInv, StaleInv, Sweeping
<1>3. status[j] \notin {"absent", "queued"} /\ ~Ticketed(j) /\ j <= created
  BY <1>1, StaleHasRow DEF TempInv
<1>4. \A w \in Workers : Handles(w, j) => wpc[w] \in Ended
  <2>1. CASE status[j] \notin TempProtected
    BY <2>1 DEF RunInv, OnceInv, AtRest, TempProtected, ActiveStatus
  <2>2. ASSUME NEW v \in Workers, wjob[v] = j, wpc[v] = "failClear"
        PROVE  \A w \in Workers : Handles(w, j) => wpc[w] \in Ended
    <3>1. Handles(v, j) /\ wpc[v] \in Ended
      BY <2>2 DEF Handles, Ended
    <3> QED BY <1>1, <3>1 DEF RunInv, OnceInv, InOnePlace, SoleRunner
  <2> QED BY <1>2, <2>1, <2>2 DEF Shielded
<1> QED BY <1>2, <1>3, <1>4 DEF Over

LEMMA CleanupKeepsTemp ==
  ASSUME RunInv, ExpiryInv, TempInv, CleanupStep
  PROVE  TempInv'
<1>a. /\ stale \subseteq Jobs /\ entry \in Jobs \cup {NoJob}
      /\ status \in [Jobs -> RowStatus] /\ temp \in [Jobs -> TempStates]
      /\ \A c \in Clients : cleared[c] \subseteq Jobs
  BY DEF RunInv, TypesInv, Types, SharedTypeOK, ApiTypeOK, PassInv, CleanupTypeOK
<1>b. /\ UNCHANGED <<wpc, wjob, cleared>>
      /\ \A j \in Jobs : /\ Ticketed(j)' <=> Ticketed(j)
                         /\ Writing(j)' <=> Writing(j)
                         /\ \A w \in Workers : Handles(w, j)' <=> Handles(w, j)
  BY CleanupLeavesThreads, CleanupFrame DEF Writing, runnerVars, clientVars
<1>c. \A j \in Jobs : /\ \/ status'[j] = status[j]
                         \/ status[j] = "completed" /\ status'[j] = "expired" /\ sweep = "expire"
                      /\ temp'[j] = temp[j] \/ temp'[j] = "none"
  BY CleanupWrites DEF RunInv, ExpiryInv
<1>d. \A j \in Jobs : Shielded(j) => Shielded(j)'
  BY <1>b, <1>c DEF Shielded, TempProtected, RunningStatus
<1>e. \A j \in Jobs : /\ Over(j) => Over(j)'
                      /\ (status[j] \notin TempProtected)' => status[j] \notin TempProtected
  BY <1>b, <1>c, CleanupFrame DEF Over, TempProtected, RunningStatus
<1>1. NoData'
  BY <1>a, <1>b, <1>c DEF TempInv, NoData
<1> USE DEF TempInv
<1>2. ASSUME stale' \subseteq stale, \A j \in stale' : temp'[j] = temp[j],
             \A j \in stale' : Sweeping' /\ j \notin kept' =>
                status[j] \notin TempProtected \/ (Sweeping /\ j \notin kept)
      PROVE  StaleInv'
  BY <1>2, <1>a, <1>d, <1>e DEF StaleInv
<1>3. CASE SweepBegin
  <2>1. /\ UNCHANGED <<stale, temp>> /\ sweep' = "scan"
        /\ kept' = {j \in Jobs : status[j] \in TempProtected}
    BY <1>3 DEF SweepBegin, shared, ageVars
  <2> QED BY <1>1, <1>2, <1>a, <2>1 DEF EntryInv
<1>4. ASSUME NEW i \in Jobs, Visit(i) PROVE TempInv'
  <2>1. UNCHANGED <<stale, temp, kept>> /\ sweep = "scan" /\ sweep' = "stat" /\ entry' \notin kept
    BY <1>4 DEF Visit, shared, ageVars
  <2> QED BY <1>1, <1>2, <2>1 DEF EntryInv, Sweeping
<1>5. CASE Stat
  <2>1. /\ UNCHANGED <<stale, temp, kept, entry>> /\ sweep = "stat"
        /\ sweep' # "stat" /\ (sweep' = "rmtree" => entry \in stale)
    BY <1>5 DEF Stat, shared, ageVars
  <2>2. StaleInv'
    BY <1>2, <2>1 DEF Sweeping
  <2>3. EntryInv'
    BY <1>d, <1>e, <2>1, StatShields DEF EntryInv
  <2> QED BY <1>1, <2>2, <2>3
<1>6. CASE RemoveStale
  <2>1. /\ stale' = {j \in stale : temp'[j] = temp[j]} /\ UNCHANGED kept
        /\ sweep = "rmtree" /\ sweep' = "scan"
    BY <1>6 DEF RemoveStale, Refreshed
  <2> QED BY <1>1, <1>2, <2>1 DEF EntryInv, Sweeping
<1>7. CASE SelectExpired \/ (\E i \in Jobs : RemoveOutput(i)) \/ CommitExpired \/ \E i \in Jobs : FallDue(i)
  <2>1. UNCHANGED <<stale, temp>> /\ sweep' \notin {"scan", "stat", "rmtree"}
    BY <1>7 DEF SelectExpired, RemoveOutput, CommitExpired, FallDue, shared, disk, ageVars, sweepVars
  <2> QED BY <1>1, <1>2, <2>1 DEF EntryInv, Sweeping
<1>8. ASSUME HoursPass, NEW i \in Jobs, Age(i) PROVE TempInv'
  <2>1. /\ UNCHANGED <<status, temp, sweep, kept>> /\ stale' = stale \cup {i} /\ temp[i] # "none"
        /\ sweep \notin {"scan", "stat", "rmtree"} /\ ~Writing(i)
    BY <1>8 DEF HoursPass, Age, shared, sweepVars, Writing, Pausing, Reporting
  <2>2. StaleInv'
    BY <1>b, <1>d, <1>a, <2>1 DEF StaleInv, Sweeping, Shielded
  <2> QED BY <1>1, <2>1, <2>2 DEF EntryInv
<1> QED BY <1>3, <1>4, <1>5, <1>6, <1>7, <1>8 DEF CleanupStep, Sweep, HoursPass

-----------------------------------------------------------------------------
(* The inductive invariant, and what follows from it *)

\* The runs, what may expire, what is published, and the data: each part needs the ones
\* before it to be kept.
SweptInv == RunInv /\ ExpiryInv /\ FileInv /\ TempInv

LEMMA InitSwept ==
  ASSUME RetentionInit
  PROVE  SweptInv
<1>1. TypesInv
  BY InitTypes
<1>a. /\ status = [j \in Jobs |-> "absent"] /\ created = 0 /\ queue = <<>> /\ app = "down"
      /\ temp = [j \in Jobs |-> "none"] /\ out = [j \in Jobs |-> "none"] /\ todo = {}
      /\ wpc = [w \in Workers |-> "idle"] /\ wjob = [w \in Workers |-> NoJob]
      /\ mpc = [w \in Workers |-> "off"] /\ mjob = [w \in Workers |-> NoJob]
      /\ wdying = [w \in Workers |-> FALSE]
      /\ cpc = [c \in Clients |-> "idle"] /\ cjob = [c \in Clients |-> NoJob]
      /\ doomed = [c \in Clients |-> {}] /\ cleared = [c \in Clients |-> {}]
      /\ sweep = "first" /\ expiring = {} /\ emptied = {} /\ stale = {} /\ due = {} /\ cut = {}
  BY DEF RetentionInit, Init, SharedInit, RunnerInit, ApiInit, CleanupInit
<1>2. RunInv
  <2>1. QuietInv
    BY <1>a DEF QuietInv, Busy, InQueue
  <2>2. OnceInv
    BY <1>a DEF OnceInv, InOnePlace, AtRest, Gone, SoleRunner, Handles, Ticketed, InQueue,
                Asks, Chosen
  <2>3. OrderInv /\ ClaimInv /\ MonitorsFollow /\ DeletionsChoose
    BY <1>a DEF OrderInv, ClaimInv, MonitorsFollow, DeletionsChoose
  <2> QED BY <1>1, <2>1, <2>2, <2>3 DEF RunInv
<1>3. ExpiryInv /\ FileInv
  BY <1>a DEF ExpiryInv, Retired, FileInv
<1>4. TempInv
  BY <1>a DEF TempInv, NoData, StaleInv, EntryInv
<1> QED BY <1>2, <1>3, <1>4 DEF SweptInv

LEMMA StepKeepsSwept ==
  ASSUME SweptInv, "resume" \notin Requests, RetentionNext
  PROVE  SweptInv'
<1> USE DEF SweptInv
<1>1. TypesInv'
  BY StepKeepsTypes DEF RunInv
<1>2. CASE JobStep
  <2>1. RunInv' /\ ExpiryInv' /\ FileInv'
    BY <1>1, <1>2, JobKeepsRuns, JobKeepsExpiry, JobKeepsFiles
  <2>2. NoData' /\ StaleInv' /\ EntryInv'
    BY <1>2, JobKeepsNoData, JobKeepsStale, JobKeepsEntry
  <2> QED BY <2>1, <2>2 DEF TempInv
<1>3. CASE EndStep
  BY <1>1, <1>3, EndKeepsRuns, EndKeepsExpiry, EndKeepsFiles, EndKeepsTemp
<1>4. CASE CleanupStep
  BY <1>1, <1>4, CleanupKeepsRuns, CleanupKeepsExpiry, CleanupKeepsFiles, CleanupKeepsTemp
<1> QED BY <1>2, <1>3, <1>4 DEF RetentionNext

LEMMA SweptUnchanged ==
  ASSUME SweptInv, UNCHANGED allVars
  PROVE  SweptInv'
<1>a. /\ UNCHANGED <<status, output, created, queue, temp, out, app, todo>>
      /\ UNCHANGED <<wpc, wjob, wseen, wdying, mpc, mjob>>
      /\ UNCHANGED <<cpc, cjob, cseen, doomed, cleared>>
      /\ UNCHANGED <<sweep, kept, entry, expiring, emptied, stale, due, cut>>
  BY DEF allVars, vars, shared, rows, disk, runnerVars, clientVars, cleanupVars
<1>1. TypesInv'
  BY TypesUnchanged DEF SweptInv, RunInv
<1>2. QuietInv' /\ OnceInv'
  BY <1>a DEF SweptInv, RunInv, QuietInv, Busy, InQueue, OnceInv, InOnePlace, AtRest, Gone,
              SoleRunner, Handles, Ticketed, Asks, Chosen
<1>3. (OrderInv /\ ClaimInv /\ MonitorsFollow /\ DeletionsChoose)'
  BY <1>a DEF SweptInv, RunInv, OrderInv, ClaimInv, MonitorsFollow, MonitorStopped,
              DeletionsChoose
<1>4. ExpiryInv'
  BY <1>a DEF SweptInv, ExpiryInv, Retired, Untouched, Over, Pausing, Ticketed, InQueue,
              Asks, Handles
<1>5. FileInv'
  BY <1>a DEF SweptInv, FileInv, Excused, Unswept
<1>6. TempInv'
  BY <1>a DEF SweptInv, TempInv, NoData, StaleInv, EntryInv, Over, Shielded, Sweeping, Writing,
              Pausing, Reporting, Ticketed, InQueue, Asks, Handles
<1> QED BY <1>1, <1>2, <1>3, <1>4, <1>5, <1>6 DEF SweptInv, RunInv

LEMMA AlwaysSwept ==
  ASSUME "resume" \notin Requests
  PROVE  RetentionSpec => []SweptInv
<1>1. SweptInv /\ [RetentionNext]_allVars => SweptInv'
  BY StepKeepsSwept, SweptUnchanged
<1> QED BY <1>1, InitSwept, PTL DEF RetentionSpec

\* Without resume requests a completed row has its file while requests are served, unless
\* a request or a pass is removing it or a deletion was cut off: whatever the order in
\* which handlers, workers, monitors, passes and crashes take their steps.
THEOREM CompletedHasFile ==
  ASSUME "resume" \notin Requests
  PROVE  RetentionSpec => []FileUnlessRemoved
<1>1. SweptInv => FileUnlessRemoved
  <2>1. SweptInv => \A c \in Clients : cleared[c] \subseteq doomed[c]
    BY DEF SweptInv, RunInv, OnceInv, Gone
  <2> QED BY <2>1 DEF SweptInv, FileInv, Excused, Unswept, FileUnlessRemoved
<1> QED BY <1>1, AlwaysSwept, PTL

\* Without resume requests no temporary directory of a job that is queued, running, paused
\* or interrupted is taken by the cleanup pass, although the pass decides on statuses that
\* it read at its beginning and on a directory's age that it read a step before.
THEOREM CleanupSparesActive ==
  ASSUME "resume" \notin Requests
  PROVE  RetentionSpec => ActiveTempKept
<1> DEFINE Spared ==
      \A j \in Jobs : (status[j] \in TempProtected /\ temp[j] # "none" /\ temp'[j] = "none")
                      => RemovedByOthers(j)
<1>1. ASSUME SweptInv, RetentionNext PROVE Spared
  <2> SUFFICES ASSUME NEW j \in Jobs, status[j] \in TempProtected, temp[j] # "none",
                      temp'[j] = "none"
               PROVE  RemovedByOthers(j)
    OBVIOUS
  <2>1. CASE JobStep
    BY <1>1, <2>1, JobStepHasEffect DEF SweptInv, Effect, DiskEffect
  <2>2. CASE EndStep
    BY <2>2, EndFrame
  <2>3. CASE CleanupStep
    <3>1. sweep = "rmtree" /\ entry = j
      BY <1>1, <2>3, CleanupWrites DEF SweptInv, RunInv
    <3>2. Shielded(j)
      BY <1>1, <3>1 DEF SweptInv, TempInv, EntryInv
    <3> QED BY <3>2 DEF Shielded, RemovedByOthers
  <2> QED BY <1>1, <2>1, <2>2, <2>3 DEF RetentionNext
<1>2. ASSUME UNCHANGED allVars PROVE Spared
  BY <1>2 DEF allVars, vars, shared, disk
<1>3. SweptInv /\ [RetentionNext]_allVars => [Spared]_allVars
  BY <1>1, <1>2
<1> QED BY <1>3, AlwaysSwept, PTL DEF RetentionSpec, ActiveTempKept

-----------------------------------------------------------------------------
(* Rows and files keep the promise of Library *)

\* What the promise says of an item's row, file and removal, field by field: from r, f
\* and l to s, g and m.
Allowed(r, f, l, s, g, m) ==
    \/ s = r /\ g = f /\ m = l
    \/ r = "none" /\ ~f /\ ~l /\ s = "open" /\ ~g /\ ~m
    \/ r = "open" /\ ~l /\ s = "open" /\ ~m
    \/ r = "open" /\ f /\ ~l /\ s = "completed" /\ g /\ ~m
    \/ r = "completed" /\ s = "open" /\ g = f /\ ~m
    \/ r = "completed" /\ s = "completed" /\ g = f /\ (m \/ f)
    \/ r = "completed" /\ l /\ s = "completed" /\ ~g /\ m
    \/ r = "completed" /\ ~f /\ l /\ s = "expired" /\ ~g /\ ~m
    \/ /\ r \in {"open", "completed", "expired"} /\ ~f /\ (r = "completed" => l)
       /\ s = "gone" /\ ~g /\ ~m

LEMMA AllowedGoes ==
  ASSUME NEW r, NEW f \in BOOLEAN, NEW l \in BOOLEAN,
         NEW s, NEW g \in BOOLEAN, NEW m \in BOOLEAN, Allowed(r, f, l, s, g, m),
         NEW a, a = [row |-> r, file |-> f, leaving |-> l],
         NEW b, b = [row |-> s, file |-> g, leaving |-> m]
  PROVE  b = a \/ Kept!Goes(a, b)
<1>a. a.row = r /\ a.file = f /\ a.leaving = l
  OBVIOUS
<1>b. \A v : /\ [a EXCEPT !.row = v] = [row |-> v, file |-> f, leaving |-> l]
             /\ [a EXCEPT !.file = v] = [row |-> r, file |-> v, leaving |-> l]
  OBVIOUS
<1>c. \A v : [a EXCEPT !.leaving = v] = [row |-> r, file |-> f, leaving |-> v]
  OBVIOUS
<1>1. CASE s = r /\ g = f /\ m = l
  BY <1>1
<1>2. CASE r = "none" /\ ~f /\ ~l /\ s = "open" /\ ~g /\ ~m
  <2>1. f = FALSE /\ l = FALSE /\ g = FALSE /\ m = FALSE
    BY <1>2
  <2> QED BY <1>2, <2>1 DEF Kept!Goes, Kept!Begun, Kept!Without
<1>3. CASE r = "open" /\ ~l /\ s = "open" /\ ~m
  <2>1. l = m /\ (g = f \/ g = ~a.file)
    BY <1>a, <1>3
  <2>2. b = a \/ b = [a EXCEPT !.file = ~a.file]
    BY <1>b, <1>3, <2>1
  <2> QED BY <1>a, <1>3, <2>2 DEF Kept!Goes, Kept!WorkedOn
<1>4. CASE r = "open" /\ f /\ ~l /\ s = "completed" /\ g /\ ~m
  <2>1. f = g /\ l = m
    BY <1>4
  <2>2. b = [a EXCEPT !.row = "completed"]
    BY <1>b, <1>4, <2>1
  <2> QED BY <1>a, <1>4, <2>2 DEF Kept!Goes, Kept!Finished
<1>5. CASE r = "completed" /\ s = "open" /\ g = f /\ ~m
  <2>1. m = FALSE
    BY <1>5
  <2>2. b = [a EXCEPT !.row = "open", !.leaving = FALSE]
    <3>1. b = [[a EXCEPT !.row = "open"] EXCEPT !.leaving = FALSE]
      <4> PICK d : d = [row |-> "open", file |-> f, leaving |-> l]
        OBVIOUS
      <4>1. \A v : [d EXCEPT !.leaving = v] = [row |-> "open", file |-> f, leaving |-> v]
        OBVIOUS
      <4> QED BY <1>b, <1>5, <2>1, <4>1
    <3>2. [a EXCEPT !.row = "open", !.leaving = FALSE]
             = [[a EXCEPT !.row = "open"] EXCEPT !.leaving = FALSE]
      OBVIOUS
    <3> QED BY <3>1, <3>2
  <2> QED BY <1>a, <1>5, <2>2 DEF Kept!Goes, Kept!Overwritten
<1>6. CASE r = "completed" /\ s = "completed" /\ g = f /\ (m \/ f)
  <2>1. b = [a EXCEPT !.leaving = m]
    BY <1>c, <1>6
  <2>2. m = TRUE \/ (f /\ m = FALSE)
    BY <1>6
  <2> QED BY <1>a, <1>6, <2>1, <2>2 DEF Kept!Goes, Kept!Condemned, Kept!Spared
<1>7. CASE r = "completed" /\ l /\ s = "completed" /\ ~g /\ m
  <2>1. g = FALSE /\ l = m
    BY <1>7
  <2>2. b = [a EXCEPT !.file = FALSE]
    BY <1>b, <1>7, <2>1
  <2> QED BY <1>a, <1>7, <2>2 DEF Kept!Goes, Kept!Removed
<1>8. CASE r = "completed" /\ ~f /\ l /\ s = "expired" /\ ~g /\ ~m
  <2>1. b = Kept!Without("expired")
    BY <1>8 DEF Kept!Without
  <2> QED BY <1>a, <1>8, <2>1 DEF Kept!Goes, Kept!Expired, Kept!MayGo
<1>9. CASE /\ r \in {"open", "completed", "expired"} /\ ~f /\ (r = "completed" => l)
           /\ s = "gone" /\ ~g /\ ~m
  <2>1. b = Kept!Without("gone")
    BY <1>9 DEF Kept!Without
  <2> QED BY <1>a, <1>9, <2>1 DEF Kept!Goes, Kept!Dropped, Kept!MayGo
<1> QED BY <1>1, <1>2, <1>3, <1>4, <1>5, <1>6, <1>7, <1>8, <1>9 DEF Allowed

\* The three fields of a job, and the row as the status tells it.
LEMMA LifeIs ==
  ASSUME NEW j \in Jobs
  PROVE  /\ LifeOf[j] = [row |-> RowOfItem(j), file |-> out[j] = "file",
                         leaving |-> status[j] = "completed" /\ Leaving(j)]
         /\ LifeOf'[j] = [row |-> RowOfItem(j)', file |-> out'[j] = "file",
                          leaving |-> status'[j] = "completed" /\ Leaving(j)']
  BY DEF LifeOf

\* Every job is in one of five rows, before a step and after it.
RowIs(j) ==
    \/ RowOfItem(j) = "none" /\ j > created /\ status[j] = "absent"
    \/ RowOfItem(j) = "gone" /\ j <= created /\ status[j] = "absent"
    \/ RowOfItem(j) = "completed" /\ j <= created /\ status[j] = "completed"
    \/ RowOfItem(j) = "expired" /\ j <= created /\ status[j] = "expired"
    \/ /\ RowOfItem(j) = "open" /\ j <= created
       /\ status[j] \notin {"absent", "completed", "expired"}

\* A row without file has gone, expired, or says why.
LeavingOrThere(j) ==
    /\ status[j] \in {"absent", "expired"} => out[j] = "none"
    /\ status[j] = "completed" => out[j] = "file" \/ Leaving(j)

LEMMA ItemIs ==
  ASSUME SweptInv, NEW j \in Jobs
  PROVE  RowIs(j) /\ LeavingOrThere(j)
<1>1. j \in Nat /\ created \in Nat
  BY JobsAreNumbers DEF SweptInv, RunInv, TypesInv, Types, SharedTypeOK
<1>2. j > created => status[j] = "absent"
  BY DEF SweptInv, RunInv, OnceInv, AtRest
<1>3. RowIs(j)
  BY <1>1, <1>2 DEF RowIs, RowOfItem
<1>4. LeavingOrThere(j)
  BY DEF SweptInv, RunInv, OnceInv, Gone, ExpiryInv, FileInv, Excused, Unswept, Leaving,
         LeavingOrThere
<1> QED BY <1>3, <1>4

LEMMA ItemWillBe ==
  ASSUME SweptInv', NEW j \in Jobs
  PROVE  RowIs(j)' /\ LeavingOrThere(j)'
<1>1. j \in Nat /\ created' \in Nat
  BY JobsAreNumbers DEF SweptInv, RunInv, TypesInv, Types, SharedTypeOK
<1>2. j > created' => status'[j] = "absent"
  BY DEF SweptInv, RunInv, OnceInv, AtRest
<1>3. RowIs(j)'
  BY <1>1, <1>2 DEF RowIs, RowOfItem
<1>4. LeavingOrThere(j)'
  BY DEF SweptInv, RunInv, OnceInv, Gone, ExpiryInv, FileInv, Excused, Unswept, Leaving,
         LeavingOrThere
<1> QED BY <1>3, <1>4

\* What the step makes of job j is allowed.
Follows(j) ==
    Allowed(RowOfItem(j), out[j] = "file", status[j] = "completed" /\ Leaving(j),
            RowOfItem(j)', out'[j] = "file", status'[j] = "completed" /\ Leaving(j)')

\* A row that stays as it is, with its file: a completed one may be condemned or spared.
LEMMA RestFollows ==
  ASSUME SweptInv, SweptInv', NEW j \in Jobs, UNCHANGED created, status'[j] = status[j],
         out'[j] = out[j]
  PROVE  Follows(j)
<1>1. RowOfItem(j)' = RowOfItem(j)
  BY DEF RowOfItem
<1>2. CASE status[j] = "completed"
  <2>1. RowOfItem(j) = "completed" /\ (out'[j] = "file" \/ Leaving(j)')
    BY <1>2, ItemIs, ItemWillBe DEF RowIs, LeavingOrThere
  <2> QED BY <1>1, <1>2, <2>1 DEF Follows, Allowed
<1>3. CASE status[j] # "completed"
  BY <1>1, <1>3 DEF Follows, Allowed
<1> QED BY <1>2, <1>3

LEMMA EndFollows ==
  ASSUME SweptInv, SweptInv', EndStep, NEW j \in Jobs
  PROVE  Follows(j)
  BY EndFrame, RestFollows

LEMMA CleanupFollows ==
  ASSUME SweptInv, SweptInv', CleanupStep, NEW j \in Jobs
  PROVE  Follows(j)
<1>a. created' = created /\ RowIs(j) /\ RowIs(j)' /\ LeavingOrThere(j) /\ LeavingOrThere(j)'
  BY CleanupFrame, ItemIs, ItemWillBe
<1>1. CASE status'[j] = status[j] /\ out'[j] = out[j]
  BY <1>a, <1>1, RestFollows
<1>2. CASE status'[j] # status[j]
  <2>1. j \in expiring /\ emptied = expiring /\ status[j] # "absent" /\ status'[j] = "expired"
    BY <1>2, CleanupWrites DEF SweptInv, RunInv
  <2>2. status[j] = "completed" /\ out[j] = "none" /\ Leaving(j)
    BY <2>1 DEF SweptInv, ExpiryInv, Leaving
  <2>3. /\ RowOfItem(j) = "completed" /\ RowOfItem(j)' = "expired"
        /\ out[j] # "file" /\ out'[j] # "file" /\ status'[j] # "completed"
    BY <1>a, <2>1, <2>2 DEF RowIs, LeavingOrThere
  <2> QED BY <2>2, <2>3 DEF Follows, Allowed
<1>3. CASE status'[j] = status[j] /\ out'[j] # out[j]
  <2>1. j \in expiring /\ out'[j] = "none" /\ UNCHANGED <<status, expiring, cut>>
    BY <1>3, CleanupWrites DEF SweptInv, RunInv
  <2>2. status[j] \in {"completed", "absent"} /\ Leaving(j) /\ Leaving(j)'
    BY <2>1 DEF SweptInv, ExpiryInv, Leaving
  <2>3. status[j] = "completed"
    BY <1>a, <1>3, <2>1, <2>2 DEF LeavingOrThere
  <2>4. RowOfItem(j) = "completed" /\ RowOfItem(j)' = "completed"
    BY <1>a, <2>1, <2>3 DEF RowIs
  <2> QED BY <2>1, <2>2, <2>3, <2>4 DEF Follows, Allowed
<1> QED BY <1>1, <1>2, <1>3

\* A job that was not created says so, or is queued without any file.
LEMMA NewFollows ==
  ASSUME SweptInv, SweptInv', NEW j \in Jobs, Effect(j), RowOfItem(j) = "none"
  PROVE  Follows(j)
<1>a. RowIs(j) /\ RowIs(j)' /\ LeavingOrThere(j) /\ LeavingOrThere(j)'
  BY ItemIs, ItemWillBe
<1>b. j > created /\ status[j] = "absent" /\ out[j] = "none"
  BY <1>a DEF RowIs, LeavingOrThere
<1>1. CASE j <= created'
  <2>1. status'[j] = "queued" /\ out'[j] = out[j]
    BY <1>b, <1>1 DEF Effect, TicketEffect, DiskEffect
  <2>2. RowOfItem(j)' = "open"
    BY <1>a, <2>1 DEF RowIs
  <2> QED BY <1>b, <2>1, <2>2 DEF Follows, Allowed
<1>2. CASE ~(j <= created')
  <2>1. RowOfItem(j)' = "none" /\ status'[j] = "absent" /\ out'[j] = "none"
    BY <1>a, <1>2 DEF RowIs, LeavingOrThere
  <2> QED BY <1>b, <2>1 DEF Follows, Allowed
<1> QED BY <1>1, <1>2

\* A settled row is written again by nobody but a deletion, and a late pause or report
\* where it says completed and is not due.
LEMMA SettledRow ==
  ASSUME SweptInv, NEW j \in Jobs, Effect(j), RowOfItem(j) # "none",
         status[j] \in {"absent", "completed", "expired"}
  PROVE  \/ status'[j] = status[j]
         \/ status[j] = "completed" /\ status'[j] \in {"paused", "downloading"}
         \/ /\ status[j] # "absent" /\ status'[j] = "absent"
            /\ \E c \in Clients : j \in doomed[c] /\ cleared[c] = doomed[c]
<1>1. j <= created /\ ~(j > created)
  <2>1. j \in Nat /\ created \in Nat
    BY JobsAreNumbers DEF SweptInv, RunInv, TypesInv, Types, SharedTypeOK
  <2>2. j <= created
    BY ItemIs DEF RowIs
  <2> QED BY ONLY <2>1, <2>2
<1>2. status[j] \notin ActiveStatus /\ status[j] \notin RunningStatus
  BY DEF ActiveStatus, RunningStatus
<1>3. ~Ticketed(j) /\ \A w \in Workers : Handles(w, j) => wpc[w] \in Ended
  BY <1>2 DEF SweptInv, RunInv, OnceInv, AtRest
<1>4. status[j] = "expired" => ~Pausing(j) /\ ~Reporting(j)
  BY DEF SweptInv, ExpiryInv, Retired, Untouched, Reporting
<1> QED BY <1>1, <1>2, <1>3, <1>4 DEF Effect, RowEffect

\* A deleted row goes when its file is gone.
LEMMA DropFollows ==
  ASSUME SweptInv, SweptInv', NEW j \in Jobs, Effect(j), j <= created',
         status[j] # "absent", status'[j] = "absent",
         NEW c \in Clients, j \in doomed[c], cleared[c] = doomed[c]
  PROVE  Follows(j)
<1>1. out[j] = "none" /\ Leaving(j)
  BY DEF SweptInv, RunInv, OnceInv, Gone, Leaving
<1>2. out'[j] = "none" /\ RowOfItem(j)' = "gone"
  <2>1. j \in Nat /\ created' \in Nat
    BY JobsAreNumbers DEF SweptInv, RunInv, TypesInv, Types, SharedTypeOK
  <2>2. ~(j > created')
    BY ONLY <2>1, j <= created'
  <2> QED BY <2>2, ItemWillBe DEF RowIs, LeavingOrThere
<1>3. RowOfItem(j) \in {"open", "completed", "expired"}
  BY ItemIs DEF RowIs
<1>4. RowOfItem(j) = "completed" => status[j] = "completed"
  BY ItemIs DEF RowIs
<1> QED BY <1>1, <1>2, <1>3, <1>4 DEF Follows, Allowed

\* No row is forgotten: ids are given once.
LEMMA RowsStay ==
  ASSUME SweptInv, SweptInv', NEW j \in Jobs, Effect(j), RowOfItem(j) # "none"
  PROVE  j <= created' /\ RowOfItem(j)' # "none"
<1>1. j <= created'
  BY ItemIs DEF RowIs, Effect, TicketEffect
<1>2. j \in Nat /\ created' \in Nat
  BY JobsAreNumbers DEF SweptInv, RunInv, TypesInv, Types, SharedTypeOK
<1>3. ~(j > created')
  BY ONLY <1>1, <1>2
<1> QED BY <1>1, <1>3, ItemWillBe DEF RowIs

LEMMA PastFollows ==
  ASSUME SweptInv, SweptInv', NEW j \in Jobs, Effect(j),
         RowOfItem(j) \in {"gone", "expired"}
  PROVE  Follows(j)
<1>a. /\ RowIs(j) /\ RowIs(j)' /\ LeavingOrThere(j) /\ LeavingOrThere(j)'
      /\ j <= created' /\ RowOfItem(j)' # "none"
  BY ItemIs, ItemWillBe, RowsStay
<1>b. status[j] \in {"absent", "expired"} /\ out[j] = "none"
  BY <1>a DEF RowIs, LeavingOrThere
<1>1. CASE status'[j] = status[j]
  <2>1. RowOfItem(j)' = RowOfItem(j) /\ out'[j] = "none"
    BY <1>a, <1>b, <1>1 DEF RowIs, LeavingOrThere
  <2> QED BY <1>b, <1>1, <2>1 DEF Follows, Allowed
<1>2. CASE status'[j] # status[j]
  <2>1. /\ status[j] # "absent" /\ status'[j] = "absent"
        /\ \E c \in Clients : j \in doomed[c] /\ cleared[c] = doomed[c]
    BY <1>b, <1>2, SettledRow
  <2> QED BY <1>a, <2>1, DropFollows
<1> QED BY <1>1, <1>2

\* A completed job: its output goes with a deletion, which is under way before and after.
LEMMA CompletedFollows ==
  ASSUME SweptInv, SweptInv', NEW j \in Jobs, Effect(j), RowOfItem(j) = "completed"
  PROVE  Follows(j)
<1>a. /\ RowIs(j) /\ RowIs(j)' /\ LeavingOrThere(j) /\ LeavingOrThere(j)'
      /\ j <= created' /\ RowOfItem(j)' # "none"
  BY ItemIs, ItemWillBe, RowsStay
<1>b. status[j] = "completed"
  BY <1>a DEF RowIs
<1>1. CASE status'[j] = "completed" /\ out'[j] = out[j]
  <2>1. RowOfItem(j)' = "completed" /\ (out'[j] = "file" \/ Leaving(j)')
    BY <1>a, <1>1 DEF RowIs, LeavingOrThere
  <2> QED BY <1>b, <1>1, <2>1 DEF Follows, Allowed
<1>2. CASE status'[j] = "completed" /\ out'[j] # out[j]
  <2>1. \A w \in Workers : ~(wjob[w] = j /\ wpc[w] \in {"publish", "move"})
    BY <1>b, NobodyPublishes DEF SweptInv, ActiveStatus, RunningStatus
  <2>2. PICK c \in Clients : j \in doomed[c] /\ j \in cleared'[c] /\ out'[j] = "none"
    BY <1>2, <2>1 DEF Effect, DiskEffect, Handles
  <2>3. j \in doomed'[c]
    BY <2>2 DEF SweptInv, RunInv, OnceInv, Gone
  <2>4. Leaving(j) /\ Leaving(j)'
    BY <2>2, <2>3 DEF Leaving
  <2>5. RowOfItem(j)' = "completed"
    BY <1>a, <1>2 DEF RowIs
  <2> QED BY <1>b, <1>2, <2>2, <2>4, <2>5 DEF Follows, Allowed
<1>3. CASE status'[j] \in {"paused", "downloading"}
  <2>1. out'[j] = out[j]
    BY <1>b, <1>3 DEF Effect, DiskEffect
  <2>2. RowOfItem(j)' = "open" /\ status'[j] # "completed"
    BY <1>a, <1>3 DEF RowIs
  <2> QED BY <1>b, <2>1, <2>2 DEF Follows, Allowed
<1>4. CASE status'[j] = "absent"
  <2>1. \E c \in Clients : j \in doomed[c] /\ cleared[c] = doomed[c]
    BY <1>b, <1>4, SettledRow
  <2> QED BY <1>a, <1>b, <1>4, <2>1, DropFollows
<1> QED BY <1>b, <1>1, <1>2, <1>3, <1>4, SettledRow

\* Nobody is removing a job that its run completes.
LEMMA CompletesUnleft ==
  ASSUME SweptInv, "resume" \notin Requests, JobStep, NEW j \in Jobs, NEW w \in Workers,
         Handles(w, j), wpc[w] = "complete", wpc'[w] = "join"
  PROVE  ~Leaving(j)'
<1>a. /\ expiring' = expiring /\ due' = {i \in due : ~Completes(i)}
      /\ cut' = cut \cup UNION {BeingCut(c) : c \in {d \in Clients : DeleteFails(d)}}
  BY JobFrame DEF SweptInv, sweepVars, Renewed, RemembersCut
<1>b. wpc[w] \notin Ended /\ wjob[w] = j
  BY DEF Ended, Handles
<1>1. status[j] \in ActiveStatus /\ ~Chosen(j)
  BY <1>b DEF SweptInv, RunInv, OnceInv, AtRest
<1>2. j \notin cut'
  <2>1. ~Over(j)
    BY <1>b DEF Over
  <2>2. status[j] # "completed"
    BY <1>1 DEF ActiveStatus, RunningStatus
  <2> QED BY <1>a, <2>1, <2>2 DEF SweptInv, ExpiryInv, BeingCut
<1>3. j \notin expiring'
  BY <1>a, <1>b DEF SweptInv, ExpiryInv, Retired, Untouched
<1>4. ~\E c \in Clients : j \in doomed'[c]
  BY <1>1, JobStepHasEffect DEF SweptInv, Effect, ClearEffect, Chosen
<1>5. j \notin due'
  BY <1>a, <1>b DEF Completes
<1> QED BY <1>2, <1>3, <1>4, <1>5 DEF Leaving

LEMMA OpenFollows ==
  ASSUME SweptInv, SweptInv', "resume" \notin Requests, JobStep, NEW j \in Jobs, Effect(j),
         RowOfItem(j) = "open"
  PROVE  Follows(j)
<1>a. /\ RowIs(j) /\ RowIs(j)' /\ LeavingOrThere(j) /\ LeavingOrThere(j)'
      /\ j <= created' /\ RowOfItem(j)' # "none"
  BY ItemIs, ItemWillBe, RowsStay
<1>b. status[j] \notin {"absent", "completed", "expired"} /\ ~(j > created)
  <2>1. j \in Nat /\ created \in Nat
    BY JobsAreNumbers DEF SweptInv, RunInv, TypesInv, Types, SharedTypeOK
  <2>2. j <= created /\ status[j] \notin {"absent", "completed", "expired"}
    BY <1>a DEF RowIs
  <2>3. ~(j > created)
    BY ONLY <2>1, <2>2
  <2> QED BY <2>2, <2>3
<1>1. CASE status'[j] \notin {"absent", "completed", "expired"}
  <2>1. RowOfItem(j)' = "open"
    BY <1>a, <1>1 DEF RowIs
  <2> QED BY <1>b, <1>1, <2>1 DEF Follows, Allowed
<1>2. CASE status'[j] = "absent"
  <2>1. \E c \in Clients : j \in doomed[c] /\ cleared[c] = doomed[c]
    BY <1>b, <1>2 DEF Effect, RowEffect
  <2> QED BY <1>a, <1>b, <1>2, <2>1, DropFollows
<1>3. CASE status'[j] = "completed"
  <2>1. PICK w \in Workers : Handles(w, j) /\ wpc[w] = "complete" /\ wpc'[w] = "join"
    BY <1>b, <1>3 DEF Effect, RowEffect
  <2>2. out[j] = "file" /\ out'[j] = out[j]
    BY <1>b, <1>3, <2>1 DEF SweptInv, FileInv, Handles, Effect, DiskEffect
  <2>3. ~Leaving(j)'
    BY <2>1, CompletesUnleft
  <2>4. RowOfItem(j)' = "completed"
    BY <1>a, <1>3 DEF RowIs
  <2> QED BY <1>b, <2>2, <2>3, <2>4 DEF Follows, Allowed
<1>4. status'[j] # "expired"
  BY <1>b DEF Effect, RowEffect
<1> QED BY <1>1, <1>2, <1>3, <1>4

LEMMA EachFollows ==
  ASSUME SweptInv, SweptInv', "resume" \notin Requests, RetentionNext, NEW j \in Jobs
  PROVE  Follows(j)
<1>1. CASE JobStep
  <2>1. Effect(j)
    BY <1>1, JobStepHasEffect DEF SweptInv
  <2>2. RowOfItem(j) \in {"none", "gone", "expired", "completed", "open"}
    BY ItemIs DEF RowIs
  <2> QED BY <1>1, <2>1, <2>2, NewFollows, PastFollows, CompletedFollows, OpenFollows
<1> QED BY <1>1, EndFollows, CleanupFollows DEF RetentionNext

\* Without resume requests rows and files keep the promise of Library to each other,
\* seen from outside, across requests, runs, late monitors, passes and crashes: nothing is
\* completed without its file, nothing loses it unannounced, and a row goes last and for good.
THEOREM RowsAndFilesKept ==
  ASSUME "resume" \notin Requests
  PROVE  RetentionSpec => KeepsLibrary
<1>1. ASSUME RetentionInit PROVE Kept!LibraryInit
  <2>1. /\ created = 0 /\ status = [j \in Jobs |-> "absent"]
        /\ out = [j \in Jobs |-> "none"]
    BY <1>1 DEF RetentionInit, Init, SharedInit
  <2>2. \A j \in Jobs : j > created
    BY <2>1, JobStateAssumption DEF Jobs
  <2>3. \A j \in Jobs : LifeOf[j] = [row |-> "none", file |-> FALSE, leaving |-> FALSE]
    <3>1. ASSUME NEW j \in Jobs
          PROVE  LifeOf[j] = [row |-> "none", file |-> FALSE, leaving |-> FALSE]
      <4>1. RowOfItem(j) = "none" /\ out[j] # "file" /\ status[j] # "completed"
        <5>1. j \in Nat /\ created \in Nat /\ j > created
          BY <2>1, <2>2, JobsAreNumbers
        <5> QED BY <2>1, <5>1 DEF RowOfItem
      <4>2. (out[j] = "file") = FALSE /\ (status[j] = "completed" /\ Leaving(j)) = FALSE
        BY <4>1
      <4> QED BY <4>1, <4>2, LifeIs
    <3> QED BY <3>1
  <2> QED BY <2>3 DEF Kept!LibraryInit, Kept!Without, LifeOf
<1>2. ASSUME SweptInv, SweptInv', [RetentionNext]_allVars PROVE [Kept!LibraryNext]_LifeOf
  <2>1. CASE RetentionNext
    <3>1. LifeOf' \in [Jobs -> Kept!Lives]
      <4>1. \A j \in Jobs : RowOfItem(j)' \in Kept!ItemRows
        BY <1>2, ItemWillBe DEF RowIs, Kept!ItemRows
      <4>2. \A j \in Jobs : LifeOf'[j] \in Kept!Lives
        <5>1. ASSUME NEW j \in Jobs PROVE LifeOf'[j] \in Kept!Lives
          <6>1. LifeOf'[j] = [row |-> RowOfItem(j)', file |-> out'[j] = "file",
                              leaving |-> status'[j] = "completed" /\ Leaving(j)']
            BY LifeIs
          <6>2. /\ (out'[j] = "file") \in BOOLEAN
                /\ (status'[j] = "completed" /\ Leaving(j)') \in BOOLEAN
            OBVIOUS
          <6> QED BY <4>1, <6>1, <6>2 DEF Kept!Lives
        <5> QED BY <5>1
      <4> QED BY <4>2 DEF LifeOf
    <3>2. \A j \in Jobs : LifeOf'[j] = LifeOf[j] \/ Kept!Goes(LifeOf[j], LifeOf'[j])
      <4>1. ASSUME NEW j \in Jobs
            PROVE  LifeOf'[j] = LifeOf[j] \/ Kept!Goes(LifeOf[j], LifeOf'[j])
        <5> DEFINE f == out[j] = "file"
                   l == status[j] = "completed" /\ Leaving(j)
                   s == RowOfItem(j)'
                   g == out'[j] = "file"
                   m == status'[j] = "completed" /\ Leaving(j)'
        <5>1. Allowed(RowOfItem(j), f, l, s, g, m)
          BY <1>2, <2>1, EachFollows DEF Follows
        <5>2. /\ LifeOf[j] = [row |-> RowOfItem(j), file |-> f, leaving |-> l]
              /\ LifeOf'[j] = [row |-> s, file |-> g, leaving |-> m]
              /\ f \in BOOLEAN /\ l \in BOOLEAN /\ g \in BOOLEAN /\ m \in BOOLEAN
          BY LifeIs
        <5> HIDE DEF f, l, s, g, m
        <5> QED BY <5>1, <5>2, AllowedGoes
      <4> QED BY <4>1
    <3> QED BY <3>1, <3>2 DEF Kept!LibraryNext
  <2>2. CASE UNCHANGED allVars
    BY <2>2 DEF allVars, vars, shared, rows, disk, clientVars, cleanupVars, LifeOf, RowOfItem,
                Leaving
  <2> QED BY <1>2, <2>1, <2>2
<1> QED BY <1>1, <1>2, AlwaysSwept, PTL DEF RetentionSpec, KeepsLibrary, Kept!LibrarySpec

=============================================================================
