--------------------------- MODULE JobSystemProofs --------------------------
(***************************************************************************)
(* Theorems about JobSystem, for every number of jobs, workers and request *)
(* threads, every queue size and every choice of requests and faults: the  *)
(* types, the tickets, the interrupted jobs, and the runs.                 *)
(***************************************************************************)
EXTENDS JobSystem, FiniteSetTheorems, TLAPS

-----------------------------------------------------------------------------
(* Types *)

LEMMA JobsAreNumbers == Jobs \subseteq Nat /\ NoJob \notin Jobs
  BY DEF Jobs, NoJob

\* The values the steps assign are of their types.  The sets stay folded in
\* the proofs below.
LEMMA StatusMembers ==
  /\ "absent" \in RowStatus /\ "queued" \in RowStatus
  /\ "extracting" \in RowStatus /\ "downloading" \in RowStatus
  /\ "processing" \in RowStatus /\ "paused" \in RowStatus
  /\ "completed" \in RowStatus /\ "failed" \in RowStatus
  /\ "interrupted" \in RowStatus
  BY DEF RowStatus, JobStatus

LEMMA PlaceMembers ==
  /\ "none" \in TempStates /\ "empty" \in TempStates
  /\ "part" \in TempStates /\ "media" \in TempStates
  /\ "none" \in OutStates /\ "dir" \in OutStates
  /\ "file" \in OutStates
  /\ "down" \in AppPhases /\ "recovering" \in AppPhases
  /\ "up" \in AppPhases /\ "stopping" \in AppPhases
  BY DEF TempStates, OutStates, AppPhases

LEMMA WorkerMembers ==
  /\ "idle" \in WorkerPC /\ "load" \in WorkerPC
  /\ "claim" \in WorkerPC /\ "prepare" \in WorkerPC
  /\ "fetch" \in WorkerPC /\ "saveDownloading" \in WorkerPC
  /\ "saveProcessing" \in WorkerPC /\ "check" \in WorkerPC
  /\ "report" \in WorkerPC /\ "saveLast" \in WorkerPC
  /\ "publish" \in WorkerPC /\ "move" \in WorkerPC
  /\ "reload" \in WorkerPC /\ "complete" \in WorkerPC
  /\ "failWrite" \in WorkerPC /\ "failClear" \in WorkerPC
  /\ "pause" \in WorkerPC /\ "pauseWrite" \in WorkerPC
  /\ "join" \in WorkerPC /\ "preserve" \in WorkerPC
  /\ "remove" \in WorkerPC /\ "dead" \in WorkerPC
  /\ "none" \in ReporterStatus /\ "downloading" \in ReporterStatus
  /\ "processing" \in ReporterStatus
  BY DEF WorkerPC, ReporterStatus

LEMMA MonitorMembers ==
  /\ "off" \in MonitorPC /\ "wait" \in MonitorPC
  /\ "write" \in MonitorPC
  BY DEF MonitorPC

LEMMA ClientMembers ==
  /\ "idle" \in ClientPC /\ "enqueue" \in ClientPC
  /\ "put" \in ClientPC /\ "reject" \in ClientPC
  /\ "resume" \in ClientPC /\ "pause" \in ClientPC
  /\ "delete" \in ClientPC
  BY DEF ClientPC

\* A commit leaves the status column well typed.
LEMMA FlushedType ==
  ASSUME status \in [Jobs -> RowStatus], NEW j \in Jobs, NEW seen,
         NEW new \in RowStatus
  PROVE  Flushed(j, seen, new) \in [Jobs -> RowStatus]
  BY DEF Flushed

\* A step that writes nothing shared but the status column.
LEMMA StatusStep ==
  ASSUME SharedTypeOK, status' \in [Jobs -> RowStatus],
         UNCHANGED <<output, created, queue, disk, app, todo>>
  PROVE  SharedTypeOK'
  BY DEF SharedTypeOK, disk

\* What Take, Put and Recover do to the queue.
LEMMA QueueOps ==
  ASSUME NEW q \in Seq(Jobs)
  PROVE  /\ Len(q) \in Nat
         /\ \A j \in Jobs : Append(q, j) \in Seq(Jobs) /\ Len(Append(q, j)) = Len(q) + 1
         /\ q # <<>> => /\ Head(q) \in Jobs
                        /\ Tail(q) \in Seq(Jobs)
                        /\ Len(Tail(q)) = Len(q) - 1
  OBVIOUS

\* The types of all variables; the bound of the queue is proved after them.
Types == SharedTypeOK /\ RunnerTypeOK /\ ApiTypeOK

\* Every step of a worker's thread keeps the types.
LEMMA WorkerKeepsTypes ==
  ASSUME Types, NEW w \in Workers, WorkerStep(w)
  PROVE  Types'
<1>0. ApiTypeOK'
  BY DEF WorkerStep, clientVars, Types, ApiTypeOK
<1> SUFFICES SharedTypeOK' /\ RunnerTypeOK'
  BY <1>0 DEF Types
<1>a. SharedTypeOK /\ RunnerTypeOK
  BY DEF Types
<1>b. asleep' \subseteq Workers
  BY <1>a DEF WorkerStep, Take, RunnerTypeOK
<1> USE <1>a, <1>b, StatusMembers, PlaceMembers, WorkerMembers, MonitorMembers,
        FlushedType, SMTT(30)
<1> USE DEF SharedTypeOK, RunnerTypeOK,
            shared, rows, disk, workerVars, monitorVars, runnerVars,
            At, GoTo, RowOf, Commit, Remember, Forget, ForgetReporter
<1>1. CASE Take(w)
  <2>1. queue' \in Seq(Jobs)
    BY <1>1, QueueOps DEF Take
  <2>2. SharedTypeOK'
    BY <1>1, <2>1 DEF Take
  <2>3. Head(queue) \in Jobs
    BY <1>1, QueueOps DEF Take
  <2>4. RunnerTypeOK'
    BY <1>1, <2>3 DEF Take
  <2> QED BY <2>2, <2>4
<1>2. CASE LoadJob(w)
  <2>1. SharedTypeOK'
    BY <1>2 DEF LoadJob
  <2>2. CASE Remember(w) /\ GoTo(w, "claim") /\ UNCHANGED wjob
    BY <1>2, <2>1, <2>2 DEF LoadJob
  <2>3. CASE Return(w) /\ UNCHANGED wseen
    <3>1. \/ GoTo(w, "dead") /\ UNCHANGED wjob
          \/ GoTo(w, "idle") /\ wjob' = [wjob EXCEPT ![w] = NoJob]
      BY <2>3 DEF Return
    <3>2. UNCHANGED <<wseen, wlast, wdying, monitorVars>>
      BY <1>2, <2>3 DEF LoadJob
    <3>3. wjob[w] \in Jobs
      BY <1>2 DEF LoadJob
    <3>4. CASE GoTo(w, "dead") /\ UNCHANGED wjob
      BY <2>1, <3>2, <3>3, <3>4
    <3>5. CASE GoTo(w, "idle") /\ wjob' = [wjob EXCEPT ![w] = NoJob]
      BY <2>1, <3>2, <3>5
    <3> QED BY ONLY <2>1, <3>1, <3>4, <3>5
  <2> QED BY <1>2, <2>2, <2>3 DEF LoadJob
<1>3. CASE Claim(w)
  <2>1. wjob[w] \in Jobs
    BY <1>3 DEF Claim
  <2>2. status' \in [Jobs -> RowStatus]
    BY <1>3, <2>1 DEF Claim
  <2>3. SharedTypeOK'
    BY <1>3, <2>2, StatusStep DEF Claim
  <2>4. RunnerTypeOK'
    <3>1. CASE GoTo(w, "prepare") /\ UNCHANGED wdying
      BY <1>3, <2>1, <3>1 DEF Claim
    <3>2. CASE GoTo(w, "dead") /\ wdying' = [wdying EXCEPT ![w] = TRUE]
      BY <1>3, <2>1, <3>2 DEF Claim
    <3> QED BY <1>3, <3>1, <3>2 DEF Claim
  <2> QED BY <2>3, <2>4
<1>4. CASE Prepare(w)
  <2>1. wjob[w] \in Jobs
    BY <1>4 DEF Prepare
  <2>2. SharedTypeOK'
    BY <1>4, <2>1 DEF Prepare
  <2>3. RunnerTypeOK'
    <3>1. CASE /\ GoTo(w, "fetch")
               /\ mpc' = [mpc EXCEPT ![w] = "wait"]
               /\ mjob' = [mjob EXCEPT ![w] = wjob[w]]
               /\ UNCHANGED wdying
      BY <1>4, <2>1, <3>1 DEF Prepare
    <3>2. CASE /\ GoTo(w, "dead")
               /\ wdying' = [wdying EXCEPT ![w] = TRUE]
               /\ UNCHANGED <<mpc, mjob>>
      BY <1>4, <2>1, <3>2 DEF Prepare
    <3> QED BY <1>4, <3>1, <3>2 DEF Prepare
  <2> QED BY <2>2, <2>3
<1>5. ASSUME NEW new \in {"downloading", "processing"}, ReportFetch(w, new)
      PROVE  SharedTypeOK' /\ RunnerTypeOK'
  BY <1>5 DEF ReportFetch, ReportTo, SavePC
<1>6. CASE SaveProgress(w)
  BY <1>6 DEF SaveProgress, SaveTo, Raise
<1>7. CASE Download(w) \/ FetchReturns(w) \/ FetchFails(w)
  <2>1. CASE Download(w)
    BY <2>1 DEF Download
  <2>2. CASE FetchReturns(w)
    BY <2>2 DEF FetchReturns
  <2>3. CASE FetchFails(w)
    BY <2>3 DEF FetchFails, Raise
  <2> QED BY ONLY <1>7, <2>1, <2>2, <2>3
<1>8. CASE CheckPaused(w)
  BY <1>8 DEF CheckPaused
<1>9. CASE ReportLast(w)
  BY <1>9 DEF ReportLast, ReportTo, Raise
<1>10. CASE SaveLast(w)
  <2>1. wjob[w] \in Jobs
    BY <1>10 DEF SaveLast
  <2>2. CASE RowOf(w) = "absent" /\ Raise(w) /\ UNCHANGED status
    BY <1>10, <2>1, <2>2 DEF SaveLast, Raise
  <2>3. CASE /\ Commit(w, "processing") /\ Forget(w) /\ GoTo(w, "publish")
             /\ wlast' = [wlast EXCEPT ![w] = "processing"]
    <3>1. status' \in [Jobs -> RowStatus]
      BY <2>1, <2>3
    <3>2. SharedTypeOK'
      BY <1>10, <3>1, StatusStep DEF SaveLast
    <3>3. RunnerTypeOK'
      BY <1>10, <2>1, <2>3 DEF SaveLast
    <3> QED BY ONLY <3>2, <3>3
  <2> QED BY <1>10, <2>2, <2>3 DEF SaveLast, SaveTo
<1>11. CASE PublishFile(w)
  BY <1>11 DEF PublishFile, Raise
<1>12. CASE MoveFile(w)
  BY <1>12 DEF MoveFile, Raise
<1>13. CASE Reload(w)
  <2>1. SharedTypeOK'
    BY <1>13 DEF Reload
  <2>2. RunnerTypeOK'
    BY <1>13 DEF Reload
  <2> QED BY <2>1, <2>2
<1>14. CASE Complete(w)
  <2>1. wjob[w] \in Jobs
    BY <1>14 DEF Complete
  <2>2. status' \in [Jobs -> RowStatus] /\ output' \in [Jobs -> BOOLEAN]
    <3>1. status' \in [Jobs -> RowStatus]
      BY <1>14, <2>1 DEF Complete
    <3>2. output' = output \/ output' = [output EXCEPT ![wjob[w]] = TRUE]
      BY <1>14 DEF Complete
    <3>3. output \in [Jobs -> BOOLEAN]
      OBVIOUS
    <3>4. output' \in [Jobs -> BOOLEAN]
      BY ONLY <3>2, <3>3, Zenon
    <3> QED BY <3>1, <3>4
  <2>3. SharedTypeOK'
    BY <1>14, <2>2 DEF Complete
  <2>4. RunnerTypeOK'
    BY <1>14, <2>1 DEF Complete, Raise
  <2> QED BY <2>3, <2>4
<1>15. CASE WriteFailed(w) \/ WritePaused(w)
  <2>1. wjob[w] \in Jobs
    BY <1>15 DEF WriteFailed, WritePaused
  <2>2. status' \in [Jobs -> RowStatus]
    BY <1>15, <2>1 DEF WriteFailed, WritePaused, HandlerCommit
  <2>3. SharedTypeOK'
    BY <1>15, <2>2, StatusStep DEF WriteFailed, WritePaused
  <2>4. RunnerTypeOK'
    <3>1. wdying' = wdying \/ wdying' = [wdying EXCEPT ![w] = TRUE]
      BY <1>15 DEF WriteFailed, WritePaused, HandlerCommit
    <3>2. GoTo(w, "failClear") \/ GoTo(w, "join")
      BY <1>15 DEF WriteFailed, WritePaused, HandlerCommit
    <3>3. wdying \in [Workers -> BOOLEAN]
      OBVIOUS
    <3>4. wdying' \in [Workers -> BOOLEAN]
      BY ONLY <3>1, <3>3, Zenon
    <3>5. Forget(w) /\ UNCHANGED <<wjob, wlast, monitorVars>>
      BY <1>15 DEF WriteFailed, WritePaused, HandlerCommit
    <3> QED BY <2>1, <3>2, <3>4, <3>5
  <2> QED BY <2>3, <2>4
<1>16. CASE ClearFailed(w)
  BY <1>16 DEF ClearFailed, RemoveTemp
<1>17. CASE LoadToPause(w)
  <2>1. SharedTypeOK'
    BY <1>17 DEF LoadToPause
  <2>2. RunnerTypeOK'
    BY <1>17 DEF LoadToPause
  <2> QED BY <2>1, <2>2
<1>18. CASE JoinMonitor(w)
  BY <1>18 DEF JoinMonitor
<1>19. CASE Preserve(w)
  BY <1>19 DEF Preserve, Return
<1>20. CASE Remove(w)
  <2>1. wjob[w] \in Jobs
    BY <1>20 DEF Remove
  <2>2. SharedTypeOK'
    BY <1>20, <2>1 DEF Remove, RemoveTemp
  <2>3. RunnerTypeOK'
    BY <1>20, <2>1 DEF Remove, Return
  <2> QED BY <2>2, <2>3
<1> QED
  BY <1>1, <1>2, <1>3, <1>4, <1>5, <1>6, <1>7, <1>8, <1>9, <1>10, <1>11, <1>12,
     <1>13, <1>14, <1>15, <1>16, <1>17, <1>18, <1>19, <1>20
     DEF WorkerStep, Run

LEMMA MonitorKeepsTypes ==
  ASSUME Types, NEW w \in Workers, MonitorStep(w)
  PROVE  Types'
<1>0. ApiTypeOK'
  BY DEF MonitorStep, clientVars, Types, ApiTypeOK
<1> SUFFICES SharedTypeOK' /\ RunnerTypeOK'
  BY <1>0 DEF Types
<1>a. SharedTypeOK /\ RunnerTypeOK
  BY DEF Types
<1>b. asleep' \subseteq Workers
  BY <1>a DEF MonitorStep, RunnerTypeOK
<1> USE <1>a, <1>b, StatusMembers, MonitorMembers, FlushedType, SMTT(30)
<1> USE DEF SharedTypeOK, RunnerTypeOK, shared, rows, disk, workerVars,
            monitorVars, MonitorEnd, MonitorAgain
<1>1. CASE MonitorLoad(w)
  BY <1>1 DEF MonitorLoad
<1>2. CASE MonitorWrite(w)
  <2>1. mjob[w] \in Jobs
    BY <1>2 DEF MonitorWrite
  <2>2. status' \in [Jobs -> RowStatus]
    BY <1>2, <2>1 DEF MonitorWrite
  <2>3. SharedTypeOK'
    BY <1>2, <2>2, StatusStep DEF MonitorWrite
  <2>4. RunnerTypeOK'
    <3>1. UNCHANGED workerVars
      BY <1>2 DEF MonitorWrite
    <3>2. /\ mpc' \in [Workers -> MonitorPC] /\ mjob' \in [Workers -> Jobs \cup {NoJob}]
          /\ \A v \in Workers : mpc'[v] # "off" => mjob'[v] \in Jobs
          /\ mseen' \in [Workers -> RowStatus]
      <4>1. CASE MonitorEnd(w)
        BY <4>1
      <4>2. CASE /\ mpc' = [mpc EXCEPT ![w] = "wait"] /\ UNCHANGED mjob
                 /\ mseen' = [mseen EXCEPT ![w] = "absent"]
        BY <2>1, <4>2
      <4> QED BY <1>2, <4>1, <4>2 DEF MonitorWrite, MonitorAgain
    <3> QED BY <3>1, <3>2
  <2> QED BY ONLY <2>3, <2>4
<1> QED
  BY <1>1, <1>2 DEF MonitorStep, Monitor

LEMMA RequestKeepsTypes ==
  ASSUME Types, NEW c \in Clients, RequestStep(c)
  PROVE  Types'
<1>0. RunnerTypeOK'
  <2>1. UNCHANGED <<workerVars, monitorVars>> /\ asleep' \subseteq Workers
    BY DEF RequestStep, FinishStep, WakeWorker, runnerVars, workerVars, monitorVars,
           Types, RunnerTypeOK
  <2> QED BY <2>1 DEF workerVars, monitorVars, Types, RunnerTypeOK
<1> SUFFICES SharedTypeOK' /\ ApiTypeOK'
  BY <1>0 DEF Types
<1>a. SharedTypeOK /\ ApiTypeOK
  BY DEF Types
<1> USE <1>a, StatusMembers, PlaceMembers, ClientMembers, FlushedType, SMTT(30)
<1> USE DEF SharedTypeOK, ApiTypeOK, shared, rows, disk, Answer
<1>1. CASE Submit(c)
  <2>1. created + 1 \in Jobs /\ created' \in 0..MaxJobs
    BY <1>1, JobStateAssumption DEF Submit, Jobs
  <2>2. SharedTypeOK'
    BY <1>1, <2>1 DEF Submit
  <2>3. ApiTypeOK'
    BY <1>1, <2>1 DEF Submit
  <2> QED BY <2>2, <2>3
<1>2. ASSUME NEW j \in Jobs, ResumeBegin(c, j) \/ PauseBegin(c, j)
      PROVE  SharedTypeOK' /\ ApiTypeOK'
  <2>1. SharedTypeOK'
    BY <1>2 DEF ResumeBegin, PauseBegin, Begin
  <2>2. CASE ResumeBegin(c, j)
    BY <2>1, <2>2 DEF ResumeBegin, Begin
  <2>3. CASE PauseBegin(c, j)
    BY <2>1, <2>3 DEF PauseBegin, Begin
  <2> QED BY ONLY <1>2, <2>2, <2>3
<1>3. ASSUME NEW j \in Jobs, DeleteOne(c, j)
      PROVE  SharedTypeOK' /\ ApiTypeOK'
  BY <1>3 DEF DeleteOne, DeleteBegin
<1>4. CASE ClearAll(c)
  BY <1>4 DEF ClearAll, DeleteBegin, Inactive
<1>5. CASE ResumeCommit(c)
  <2>1. status' \in [Jobs -> RowStatus]
    BY <1>5 DEF ResumeCommit
  <2>2. SharedTypeOK'
    BY <1>5, <2>1, StatusStep DEF ResumeCommit
  <2>3. ApiTypeOK'
    <3>1. CASE status[cjob[c]] = "absent"
      BY <1>5, <3>1 DEF ResumeCommit
    <3>2. CASE status[cjob[c]] # "absent"
      BY <1>5, <3>2 DEF ResumeCommit
    <3> QED BY <3>1, <3>2
  <2> QED BY <2>2, <2>3
<1>6. CASE Enqueue(c)
  <2>1. SharedTypeOK'
    BY <1>6 DEF Enqueue
  <2>2. ApiTypeOK'
    <3>1. CASE Answer(c)
      BY <1>6, <3>1 DEF Enqueue
    <3>2. CASE /\ cpc' = [cpc EXCEPT ![c] = "put"]
               /\ UNCHANGED <<cjob, cseen, doomed, cleared>>
      BY <1>6, <3>2 DEF Enqueue
    <3>3. CASE /\ cpc' = [cpc EXCEPT ![c] = "reject"]
               /\ cseen' = [cseen EXCEPT ![c] = status[cjob[c]]]
               /\ UNCHANGED <<cjob, doomed, cleared>>
      BY <1>6, <3>3 DEF Enqueue
    <3> QED BY <1>6, <3>1, <3>2, <3>3 DEF Enqueue
  <2> QED BY <2>1, <2>2
<1>7. CASE Reject(c) \/ PauseCommit(c)
  <2>1. status' \in [Jobs -> RowStatus]
    BY <1>7 DEF Reject, PauseCommit
  <2>2. SharedTypeOK'
    BY <1>7, <2>1, StatusStep DEF Reject, PauseCommit
  <2>3. ApiTypeOK'
    <3>1. Answer(c)
      BY <1>7 DEF Reject, PauseCommit
    <3> QED BY <3>1
  <2> QED BY <2>2, <2>3
<1>8. ASSUME NEW j \in Jobs, RemoveFiles(c, j)
      PROVE  SharedTypeOK' /\ ApiTypeOK'
  BY <1>8 DEF RemoveFiles
<1>9. CASE DeleteCommit(c)
  <2>1. SharedTypeOK'
    <3>1. status' \in [Jobs -> RowStatus]
      BY <1>9 DEF DeleteCommit
    <3>2. output' \in [Jobs -> BOOLEAN]
      <4>1. \A j \in Jobs : (IF j \in doomed[c] THEN FALSE ELSE output[j]) \in BOOLEAN
        <5>1. output \in [Jobs -> BOOLEAN]
          OBVIOUS
        <5> QED BY ONLY <5>1, Zenon
      <4>2. output' = [j \in Jobs |-> IF j \in doomed[c] THEN FALSE ELSE output[j]]
        BY <1>9 DEF DeleteCommit
      <4> QED BY ONLY <4>1, <4>2, Zenon
    <3>3. UNCHANGED <<created, queue, temp, out, app, todo>>
      BY <1>9 DEF DeleteCommit
    <3>4. /\ created \in 0..MaxJobs /\ queue \in Seq(Jobs)
          /\ temp \in [Jobs -> TempStates] /\ out \in [Jobs -> OutStates]
          /\ app \in AppPhases /\ todo \subseteq Jobs
      OBVIOUS
    <3> QED BY ONLY <3>1, <3>2, <3>3, <3>4, Zenon DEF SharedTypeOK
  <2>2. ApiTypeOK'
    BY <1>9 DEF DeleteCommit
  <2> QED BY <2>1, <2>2
<1>10. CASE Put(c)
  <2>1. cjob[c] \in Jobs
    BY <1>10 DEF Put
  <2>2. queue' \in Seq(Jobs)
    BY <1>10, <2>1, QueueOps DEF Put
  <2>3. SharedTypeOK'
    BY <1>10, <2>2 DEF Put
  <2>4. ApiTypeOK'
    BY <1>10 DEF Put
  <2> QED BY <2>3, <2>4
<1>11. CASE WalkFails(c)
  BY <1>11 DEF WalkFails, DeleteFails
<1> QED
  BY <1>1, <1>2, <1>3, <1>4, <1>5, <1>6, <1>7, <1>8, <1>9, <1>10, <1>11
     DEF RequestStep, BeginRequest, FinishStep, FinishRequest

LEMMA LifecycleKeepsTypes ==
  ASSUME Types, StartUp \/ ProcessEnd
  PROVE  Types'
<1>a. SharedTypeOK /\ RunnerTypeOK /\ ApiTypeOK
  BY DEF Types
<1> USE <1>a, SMTT(30)
<1>1. CASE (Start \/ Recover \/ Serve \/ ShutDown) /\ UNCHANGED clientVars
  <2>1. RunnerTypeOK'
    BY <1>1 DEF Start, Recover, Serve, ShutDown, Stop, runnerVars, RunnerTypeOK
  <2>2. ApiTypeOK'
    BY <1>1 DEF clientVars, ApiTypeOK
  <2> SUFFICES SharedTypeOK'
    BY <2>1, <2>2 DEF Types
  <2>3. CASE Start
    BY <2>3, StatusMembers, PlaceMembers DEF Start, SharedTypeOK, disk
  <2>4. CASE Recover
    <3> PICK j \in Jobs : /\ Oldest(j, todo)
                          /\ todo' = todo \ {j}
                          /\ IF HasRoom
                             THEN queue' = Append(queue, j) /\ UNCHANGED status
                             ELSE /\ status' = [status EXCEPT ![j] = "failed"]
                                  /\ UNCHANGED queue
      BY <2>4 DEF Recover
    <3>1. queue' \in Seq(Jobs)
      <4>1. queue \in Seq(Jobs)
        BY DEF SharedTypeOK
      <4>2. Append(queue, j) \in Seq(Jobs)
        BY <4>1, QueueOps
      <4> QED BY <4>1, <4>2
    <3>2. status' \in [Jobs -> RowStatus]
      BY StatusMembers DEF SharedTypeOK
    <3>3. todo' \subseteq Jobs
      BY DEF SharedTypeOK
    <3> QED
      BY <2>4, <3>1, <3>2, <3>3 DEF Recover, SharedTypeOK, disk
  <2>5. CASE Serve \/ ShutDown
    BY <2>5, PlaceMembers DEF Serve, ShutDown, Stop, SharedTypeOK, rows, disk
  <2> QED BY <1>1, <2>3, <2>4, <2>5
<1>2. CASE (Exit \/ Crash) /\ ApiReset
  <2>1. EndProcess
    BY <1>2 DEF Exit, Crash
  <2>2. SharedTypeOK'
    <3>1. queue' \in Seq(Jobs)
      BY <2>1 DEF EndProcess
    <3> QED BY <2>1, <3>1, PlaceMembers DEF EndProcess, SharedTypeOK, rows, disk
  <2>3. RunnerTypeOK'
    BY <2>1, StatusMembers, WorkerMembers, MonitorMembers
       DEF EndProcess, RunnerReset, RunnerTypeOK
  <2>4. ApiTypeOK'
    BY <1>2, StatusMembers, ClientMembers DEF ApiReset, ApiTypeOK
  <2> QED BY <2>2, <2>3, <2>4 DEF Types
<1> QED
  BY <1>1, <1>2 DEF StartUp, ProcessEnd

LEMMA AlwaysTyped == Spec => []Types
<1>1. Init => Types
  <2> SUFFICES ASSUME Init PROVE Types
    OBVIOUS
  <2>1. SharedTypeOK
    <3>1. created \in 0..MaxJobs
      BY JobStateAssumption DEF Init, SharedInit
    <3> QED
      BY <3>1, StatusMembers, PlaceMembers DEF Init, SharedInit, SharedTypeOK
  <2>2. RunnerTypeOK
    BY StatusMembers, WorkerMembers, MonitorMembers DEF Init, RunnerInit, RunnerTypeOK
  <2>3. ApiTypeOK
    BY StatusMembers, ClientMembers DEF Init, ApiInit, ApiTypeOK
  <2> QED BY <2>1, <2>2, <2>3 DEF Types
<1>2. Types /\ [Next]_vars => Types'
  <2> SUFFICES ASSUME Types, [Next]_vars PROVE Types'
    OBVIOUS
  <2>1. CASE Next
    BY <2>1, WorkerKeepsTypes, MonitorKeepsTypes, RequestKeepsTypes,
       LifecycleKeepsTypes DEF Next
  <2>2. CASE UNCHANGED vars
    BY <2>2 DEF vars, shared, rows, disk, runnerVars, clientVars,
                Types, SharedTypeOK, RunnerTypeOK, ApiTypeOK
  <2> QED BY <2>1, <2>2
<1> QED BY <1>1, <1>2, PTL DEF Spec

-----------------------------------------------------------------------------
(* The bound of the queue *)

\* The request threads that have passed the size test and not yet appended.
Putting == {c \in Clients : cpc[c] = "put"}

\* The inductive strengthening of QueueBounded: whoever passes the test finds
\* at most MaxQueueSize - 1 tickets and is himself one of the threads that put;
\* an append turns a putting thread into a ticket.  While start() fills the
\* queue no request is served.
QueueInv ==
    /\ Len(queue) + Cardinality(Putting) <= MaxQueueSize + Cardinality(Clients) - 1
    /\ app \in {"down", "recovering"} => \A c \in Clients : cpc[c] = "idle"

LEMMA PuttingCounted ==
  /\ Cardinality(Clients) \in Nat \ {0}
  /\ IsFiniteSet(Putting) /\ Cardinality(Putting) \in 0..Cardinality(Clients)
<1>1. IsFiniteSet(Clients) /\ Clients # {}
  BY ClientsAssumption
<1>2. Cardinality(Clients) \in Nat /\ Cardinality(Clients) # 0
  BY <1>1, FS_CardinalityType, FS_EmptySet
<1>3. Putting \subseteq Clients
  BY DEF Putting
<1>4. IsFiniteSet(Putting) /\ Cardinality(Putting) <= Cardinality(Clients)
  BY <1>1, <1>3, FS_Subset
<1> QED BY <1>2, <1>4, FS_CardinalityType

\* A step that lets no further thread put and appends nothing.
LEMMA NothingPut ==
  ASSUME Types, QueueInv, Len(queue') \in 0..Len(queue), Putting' \subseteq Putting,
         (app \in {"down", "recovering"} => \A c \in Clients : cpc[c] = "idle")'
  PROVE  QueueInv'
<1>1. Cardinality(Putting') <= Cardinality(Putting) /\ Cardinality(Putting') \in Nat
  BY PuttingCounted, FS_Subset, FS_CardinalityType
<1>2. Len(queue) \in Nat
  BY DEF Types, SharedTypeOK
<1> QED BY <1>1, <1>2, PuttingCounted, JobStateAssumption DEF QueueInv

LEMMA RequestKeepsBound ==
  ASSUME Types, QueueInv, NEW c \in Clients, RequestStep(c)
  PROVE  QueueInv'
<1>a. queue \in Seq(Jobs) /\ Len(queue) \in Nat /\ cpc \in [Clients -> ClientPC]
  BY DEF Types, SharedTypeOK, ApiTypeOK
<1>b. app' = app
  BY DEF RequestStep, BeginRequest, FinishStep, FinishRequest, Submit, ResumeBegin, PauseBegin,
         Begin, DeleteOne, ClearAll, DeleteBegin, ResumeCommit, Enqueue, Put, Reject,
         PauseCommit, RemoveFiles, DeleteCommit, WalkFails, DeleteFails, shared
<1>c. app \notin {"down", "recovering"}
  <2>1. app = "up" \/ cpc[c] # "idle"
    BY DEF RequestStep, BeginRequest, FinishStep, FinishRequest, Submit, ResumeBegin,
           PauseBegin, Begin, DeleteOne, ClearAll, DeleteBegin, ResumeCommit, Enqueue, Put,
           Reject, PauseCommit, RemoveFiles, DeleteCommit, WalkFails, DeleteFails
  <2> QED BY <2>1 DEF QueueInv
<1> USE <1>a, PuttingCounted, JobStateAssumption, SMTT(30)
<1>1. CASE Put(c)
  <2>1. c \in Putting /\ Putting' = Putting \ {c}
    BY <1>1 DEF Put, Answer, Putting
  <2>2. Cardinality(Putting') = Cardinality(Putting) - 1
    BY ONLY <2>1, PuttingCounted, FS_RemoveElement
  <2>3. cjob[c] \in Jobs
    BY <1>1 DEF Put, Types, ApiTypeOK
  <2>4. Len(queue') = Len(queue) + 1
    BY <1>1, <2>3, QueueOps DEF Put
  <2> QED BY <1>b, <1>c, <2>2, <2>4 DEF QueueInv
<1>2. CASE HasRoom /\ queue' = queue
  <2>1. Len(queue) <= MaxQueueSize - 1
    BY <1>2 DEF HasRoom
  <2>2. Putting' \subseteq Clients /\ IsFiniteSet(Clients)
    BY ClientsAssumption DEF Putting
  <2>3. Cardinality(Putting') <= Cardinality(Clients) /\ Cardinality(Putting') \in Nat
    BY <2>2, FS_Subset, FS_CardinalityType
  <2> QED BY <1>2, <1>b, <1>c, <2>1, <2>3 DEF QueueInv
<1>3. ~Put(c) => queue' = queue
  <2>1. BeginRequest(c) => queue' = queue
    BY DEF BeginRequest, Submit, ResumeBegin, PauseBegin, Begin, DeleteOne, ClearAll,
           DeleteBegin, shared
  <2>2. ResumeCommit(c) \/ Enqueue(c) \/ Reject(c) \/ PauseCommit(c) => queue' = queue
    BY DEF ResumeCommit, Enqueue, Reject, PauseCommit, shared
  <2>3. ASSUME NEW j \in Jobs, RemoveFiles(c, j) PROVE queue' = queue
    BY <2>3 DEF RemoveFiles
  <2>4. DeleteCommit(c) => queue' = queue
    BY DEF DeleteCommit
  <2>5. WalkFails(c) => queue' = queue
    BY DEF WalkFails, DeleteFails, shared
  <2> QED BY <2>1, <2>2, <2>3, <2>4, <2>5 DEF RequestStep, FinishStep, FinishRequest
<1>4. CASE ~Put(c) /\ ~HasRoom
  <2>1. cpc'[c] # "put" /\ \A d \in Clients \ {c} : cpc'[d] = cpc[d]
    <3>1. CASE BeginRequest(c)
      BY <3>1 DEF BeginRequest, Submit, ResumeBegin, PauseBegin, Begin, DeleteOne, ClearAll,
                  DeleteBegin
    <3>2. CASE ResumeCommit(c) \/ Enqueue(c) \/ Reject(c) \/ PauseCommit(c)
      BY <1>4, <3>2 DEF ResumeCommit, Enqueue, Reject, PauseCommit, Answer
    <3>3. CASE DeleteCommit(c)
      BY <3>3 DEF DeleteCommit, Answer
    <3>5. CASE WalkFails(c)
      BY <3>5 DEF WalkFails, DeleteFails, Answer
    <3>4. ASSUME NEW j \in Jobs, RemoveFiles(c, j)
          PROVE  cpc'[c] # "put" /\ \A d \in Clients \ {c} : cpc'[d] = cpc[d]
      BY <3>4 DEF RemoveFiles
    <3> QED BY <1>4, <3>1, <3>2, <3>3, <3>4, <3>5
                 DEF RequestStep, FinishStep, FinishRequest
  <2>2. Putting' \subseteq Putting
    BY <2>1 DEF Putting
  <2> QED BY <1>b, <1>c, <1>3, <1>4, <2>2, NothingPut
<1> QED BY <1>1, <1>2, <1>3, <1>4

LEMMA OthersKeepBound ==
  ASSUME Types, QueueInv,
         \/ \E w \in Workers : WorkerStep(w) \/ MonitorStep(w)
         \/ StartUp \/ ProcessEnd \/ UNCHANGED vars
  PROVE  QueueInv'
<1>a. queue \in Seq(Jobs) /\ Len(queue) \in Nat /\ app \in AppPhases
  BY DEF Types, SharedTypeOK
<1> USE <1>a, SMTT(30)
<1>1. ASSUME NEW w \in Workers, WorkerStep(w) \/ MonitorStep(w) PROVE QueueInv'
  <2>1. UNCHANGED <<app, clientVars>> /\ (queue' = queue \/ Take(w))
    <3>1. CASE WorkerStep(w)
      BY <3>1 DEF WorkerStep, Run, Take, LoadJob, Claim, Prepare, ReportFetch, SaveProgress,
                  Download, FetchReturns, FetchFails, CheckPaused, ReportLast, SaveLast,
                  PublishFile, MoveFile, Reload, Complete, WriteFailed, ClearFailed,
                  LoadToPause, WritePaused, JoinMonitor, Preserve, Remove, shared
    <3>2. CASE MonitorStep(w)
      BY <3>2 DEF MonitorStep, Monitor, MonitorLoad, MonitorWrite, shared
    <3> QED BY ONLY <1>1, <3>1, <3>2
  <2>2. Len(queue') \in 0..Len(queue)
    BY <2>1, QueueOps DEF Take
  <2>3. Putting' = Putting
    BY <2>1 DEF Putting, clientVars
  <2> QED BY <2>1, <2>2, <2>3, NothingPut DEF QueueInv, clientVars
<1>2. CASE (Start \/ Serve \/ ShutDown) /\ UNCHANGED clientVars
  <2>1. queue' = queue /\ Putting' = Putting
    BY <1>2 DEF Start, Serve, ShutDown, Stop, clientVars, Putting
  <2>2. (app \in {"down", "recovering"} => \A c \in Clients : cpc[c] = "idle")'
    BY <1>2 DEF Start, Serve, ShutDown, Stop, clientVars, QueueInv
  <2> QED BY <2>1, <2>2, NothingPut
<1>3. CASE Recover /\ UNCHANGED clientVars
  <2>1. Putting' = {} /\ app' = app /\ \A c \in Clients : cpc'[c] = "idle"
    BY <1>3 DEF Recover, QueueInv, clientVars, Putting
  <2>2. Cardinality(Putting') = 0
    BY <2>1, FS_EmptySet
  <2>3. Len(queue') = Len(queue) \/ (HasRoom /\ Len(queue') = Len(queue) + 1)
    BY <1>3, QueueOps DEF Recover
  <2>4. Len(queue) <= MaxQueueSize + Cardinality(Clients) - 1
    BY PuttingCounted, JobStateAssumption DEF QueueInv
  <2> QED
    BY <2>1, <2>2, <2>3, <2>4, PuttingCounted, JobStateAssumption DEF QueueInv, HasRoom
<1>4. CASE (Exit \/ Crash) /\ ApiReset
  <2>1. Len(queue') = 0 /\ Putting' = {} /\ \A c \in Clients : cpc'[c] = "idle"
    BY <1>4 DEF Exit, Crash, EndProcess, ApiReset, Putting
  <2> QED BY <2>1, NothingPut
<1>5. CASE UNCHANGED vars
  <2>1. queue' = queue /\ Putting' = Putting /\ UNCHANGED <<app, cpc>>
    BY <1>5 DEF vars, shared, clientVars, Putting
  <2> QED BY <2>1, NothingPut DEF QueueInv
<1> QED
  BY <1>1, <1>2, <1>3, <1>4, <1>5 DEF StartUp, ProcessEnd

\* Type correctness of the whole job subsystem, and the bound of its queue: it
\* may outgrow max_queue_size, by one ticket less than there are request threads.
THEOREM TypeCorrect == Spec => []TypeOK
<1>1. Init => QueueInv
  <2> SUFFICES ASSUME Init PROVE QueueInv
    OBVIOUS
  <2>1. Len(queue) = 0 /\ Putting = {} /\ \A c \in Clients : cpc[c] = "idle"
    BY DEF Init, SharedInit, ApiInit, Putting
  <2>2. Cardinality(Putting) = 0
    BY <2>1, FS_EmptySet
  <2> QED BY <2>1, <2>2, PuttingCounted, JobStateAssumption DEF QueueInv
<1>2. Types /\ QueueInv /\ [Next]_vars => QueueInv'
  BY RequestKeepsBound, OthersKeepBound DEF Next
<1>3. Types /\ QueueInv => TypeOK
  <2> SUFFICES ASSUME Types, QueueInv PROVE QueueBounded
    BY DEF Types, TypeOK
  <2>1. Len(queue) \in Nat
    BY DEF Types, SharedTypeOK
  <2> QED BY <2>1, PuttingCounted, JobStateAssumption DEF QueueInv, QueueBounded
<1> QED BY <1>1, <1>2, <1>3, AlwaysTyped, PTL DEF Spec

-----------------------------------------------------------------------------
(* Every queued job has a ticket *)

\* A request that will still enqueue the job, or fail it: a commit of "failed"
\* over a row that was loaded as failed writes nothing and does not count.
Accounts(c, j) ==
    /\ cjob[c] = j
    /\ cpc[c] \in {"enqueue", "put"} \/ (cpc[c] = "reject" /\ cseen[c] # "failed")

Ticket(j) ==
    \/ InQueue(j)
    \/ \E w \in Workers : wjob[w] = j /\ wpc[w] \in {"load", "claim"}
    \/ \E c \in Clients : Accounts(c, j)

\* The inductive strengthening of QueuedHasTicket: requests exist only while
\* the server is up, a claim was decided on a queued row and so is written, and
\* during start() the jobs without a ticket are the ones still listed.
TicketInv ==
    /\ app # "up" => \A c \in Clients : cpc[c] = "idle"
    /\ \A w \in Workers : wpc[w] = "claim" => wseen[w] = "queued"
    /\ app = "up" => \A j \in Jobs : status[j] = "queued" => Ticket(j)
    /\ app = "recovering" =>
         \A j \in Jobs : status[j] = "queued" => InQueue(j) \/ j \in todo

\* What most steps leave alone, as far as tickets are concerned.
NoNewQueued == \A j \in Jobs : status'[j] = "queued" => status[j] = "queued"

\* A commit of any other status does not make a job queued.
LEMMA FlushedNotQueued ==
  ASSUME status \in [Jobs -> RowStatus], NEW j \in Jobs, NEW seen, NEW new,
         new # "queued", status' = Flushed(j, seen, new)
  PROVE  NoNewQueued
  BY DEF Flushed, NoNewQueued

\* Steps of a worker after the claim, and of the monitors.
LEMMA LaterStepKeepsTickets ==
  ASSUME TypeOK, TicketInv, NoNewQueued, UNCHANGED <<queue, app, todo, clientVars>>,
         \A w \in Workers :
            \/ wpc'[w] = wpc[w] /\ wjob'[w] = wjob[w] /\ wseen'[w] = wseen[w]
            \/ wpc[w] \notin {"load", "claim"} /\ wpc'[w] # "claim"
  PROVE  TicketInv'
<1>1. (app # "up" => \A c \in Clients : cpc[c] = "idle")'
  BY DEF TicketInv, clientVars
<1>2. (\A w \in Workers : wpc[w] = "claim" => wseen[w] = "queued")'
  BY DEF TicketInv
<1>3. ASSUME NEW j \in Jobs, Ticket(j) PROVE Ticket(j)'
  <2>1. CASE InQueue(j)
    BY <2>1 DEF Ticket, InQueue
  <2>2. CASE \E w \in Workers : wjob[w] = j /\ wpc[w] \in {"load", "claim"}
    BY <2>2 DEF Ticket
  <2>3. CASE \E c \in Clients : Accounts(c, j)
    BY <2>3 DEF Ticket, Accounts, clientVars
  <2> QED BY <1>3, <2>1, <2>2, <2>3 DEF Ticket
<1>4. (app = "up" => \A j \in Jobs : status[j] = "queued" => Ticket(j))'
  BY <1>3 DEF TicketInv, NoNewQueued
<1>5. (app = "recovering" =>
         \A j \in Jobs : status[j] = "queued" => InQueue(j) \/ j \in todo)'
  BY DEF TicketInv, NoNewQueued, InQueue
<1> QED BY <1>1, <1>2, <1>4, <1>5 DEF TicketInv

\* A ticket moves from the queue to a worker, and is given up only for a job
\* that is not queued or no longer queued.
LEMMA WorkerKeepsTickets ==
  ASSUME TypeOK, TicketInv, NEW w \in Workers, WorkerStep(w)
  PROVE  TicketInv'
<1>a. /\ SharedTypeOK /\ RunnerTypeOK
      /\ UNCHANGED clientVars
  BY DEF TypeOK, WorkerStep
<1>b. /\ status \in [Jobs -> RowStatus] /\ queue \in Seq(Jobs)
      /\ wpc \in [Workers -> WorkerPC] /\ wseen \in [Workers -> RowStatus]
      /\ wjob \in [Workers -> Jobs \cup {NoJob}]
      /\ \A v \in Workers : wpc[v] # "idle" => wjob[v] \in Jobs
  BY <1>a DEF SharedTypeOK, RunnerTypeOK
<1> USE <1>b, SMTT(30)
<1>1. CASE Take(w)
  <2>1. /\ app = "up" /\ wpc[w] = "idle" /\ queue # <<>> /\ queue' = Tail(queue)
        /\ wjob' = [wjob EXCEPT ![w] = Head(queue)]
        /\ wpc' = [wpc EXCEPT ![w] = "load"]
        /\ UNCHANGED <<status, app, wseen>>
    BY <1>1 DEF Take, At, GoTo, rows
  <2>2. ASSUME NEW j \in Jobs, Ticket(j) PROVE Ticket(j)'
    <3>1. CASE InQueue(j)
      <4> PICK i \in 1..Len(queue) : queue[i] = j
        BY <3>1 DEF InQueue
      <4>1. CASE i = 1
        BY <2>1, <4>1 DEF Ticket
      <4>2. CASE i # 1
        <5>1. i - 1 \in 1..Len(Tail(queue)) /\ Tail(queue)[i - 1] = j
          BY <2>1, <4>2
        <5> QED BY <2>1, <5>1 DEF Ticket, InQueue
      <4> QED BY <4>1, <4>2
    <3>2. CASE \E v \in Workers : wjob[v] = j /\ wpc[v] \in {"load", "claim"}
      BY <2>1, <3>2 DEF Ticket
    <3>3. CASE \E c \in Clients : Accounts(c, j)
      BY <1>a, <3>3 DEF Ticket, Accounts, clientVars
    <3> QED BY <2>2, <3>1, <3>2, <3>3 DEF Ticket
  <2>3. (\A v \in Workers : wpc[v] = "claim" => wseen[v] = "queued")'
    BY <2>1 DEF TicketInv
  <2> QED BY <1>a, <2>1, <2>2, <2>3 DEF TicketInv, clientVars
<1>2. CASE LoadJob(w)
  <2>1. /\ wpc[w] = "load" /\ UNCHANGED <<status, queue, app, todo>>
        /\ \/ /\ status[wjob[w]] = "queued"
              /\ wseen' = [wseen EXCEPT ![w] = "queued"]
              /\ wpc' = [wpc EXCEPT ![w] = "claim"] /\ wjob' = wjob
           \/ /\ status[wjob[w]] # "queued" /\ wseen' = wseen
              /\ \/ wpc' = [wpc EXCEPT ![w] = "dead"] /\ wjob' = wjob
                 \/ /\ wpc' = [wpc EXCEPT ![w] = "idle"]
                    /\ wjob' = [wjob EXCEPT ![w] = NoJob]
    BY <1>2 DEF LoadJob, At, GoTo, RowOf, Remember, Return, shared, rows
  <2>2. ASSUME NEW j \in Jobs, status[j] = "queued", Ticket(j) PROVE Ticket(j)'
    <3>1. CASE InQueue(j)
      BY <2>1, <3>1 DEF Ticket, InQueue
    <3>2. CASE \E v \in Workers : wjob[v] = j /\ wpc[v] \in {"load", "claim"}
      BY <2>1, <2>2, <3>2 DEF Ticket
    <3>3. CASE \E c \in Clients : Accounts(c, j)
      BY <1>a, <3>3 DEF Ticket, Accounts, clientVars
    <3> QED BY <2>2, <3>1, <3>2, <3>3 DEF Ticket
  <2>3. (\A v \in Workers : wpc[v] = "claim" => wseen[v] = "queued")'
    BY <2>1 DEF TicketInv
  <2> QED BY <1>a, <2>1, <2>2, <2>3 DEF TicketInv, clientVars, InQueue
<1>3. CASE Claim(w)
  <2>1. /\ wpc[w] = "claim" /\ UNCHANGED <<queue, app, todo, wjob>>
        /\ \/ status' = Flushed(wjob[w], wseen[w], "extracting") /\ status[wjob[w]] # "absent"
           \/ status' = status /\ status[wjob[w]] = "absent"
        /\ wpc' = [wpc EXCEPT ![w] = "prepare"] \/ wpc' = [wpc EXCEPT ![w] = "dead"]
        /\ wseen' = [wseen EXCEPT ![w] = "absent"]
    BY <1>3 DEF Claim, At, GoTo, RowOf, Commit, Forget
  <2>2. wseen[w] = "queued" /\ wjob[w] \in Jobs
    BY <2>1 DEF TicketInv
  <2>3. NoNewQueued /\ status'[wjob[w]] # "queued"
    BY <2>1, <2>2 DEF Flushed, NoNewQueued
  <2>4. ASSUME NEW j \in Jobs, status'[j] = "queued", Ticket(j) PROVE Ticket(j)'
    <3>1. CASE InQueue(j)
      BY <2>1, <3>1 DEF Ticket, InQueue
    <3>2. CASE \E v \in Workers : wjob[v] = j /\ wpc[v] \in {"load", "claim"}
      BY <2>1, <2>3, <2>4, <3>2 DEF Ticket
    <3>3. CASE \E c \in Clients : Accounts(c, j)
      BY <1>a, <3>3 DEF Ticket, Accounts, clientVars
    <3> QED BY <2>4, <3>1, <3>2, <3>3 DEF Ticket
  <2>5. (\A v \in Workers : wpc[v] = "claim" => wseen[v] = "queued")'
    BY <2>1 DEF TicketInv
  <2> QED BY <1>a, <2>1, <2>3, <2>4, <2>5 DEF TicketInv, NoNewQueued, clientVars, InQueue
<1>4. ASSUME NoNewQueued, UNCHANGED <<queue, app, todo>>,
             wpc[w] \notin {"load", "claim"}, wpc'[w] # "claim",
             \A v \in Workers \ {w} : /\ wpc'[v] = wpc[v] /\ wjob'[v] = wjob[v]
                                      /\ wseen'[v] = wseen[v]
      PROVE  TicketInv'
  BY <1>a, <1>4, LaterStepKeepsTickets
<1> USE DEF shared, rows, disk, workerVars, monitorVars, At, GoTo, RowOf, Commit,
            Remember, Forget, ForgetReporter, Raise, NoNewQueued
<1>5. ASSUME NEW new \in {"downloading", "processing"}, ReportFetch(w, new)
      PROVE  TicketInv'
  BY <1>4, <1>5 DEF ReportFetch, ReportTo, SavePC
<1>6. CASE SaveProgress(w) \/ SaveLast(w)
  <2>1. NoNewQueued
    BY <1>6, FlushedNotQueued DEF SaveProgress, SaveLast, SaveTo
  <2> QED BY <1>4, <1>6, <2>1 DEF SaveProgress, SaveLast, SaveTo
<1>7. CASE Download(w) \/ FetchReturns(w) \/ FetchFails(w)
  BY <1>4, <1>7 DEF Download, FetchReturns, FetchFails, runnerVars
<1>8. CASE CheckPaused(w) \/ ReportLast(w)
  BY <1>4, <1>8 DEF CheckPaused, ReportLast, ReportTo
<1>9. CASE PublishFile(w) \/ MoveFile(w) \/ Reload(w)
  BY <1>4, <1>9 DEF PublishFile, MoveFile, Reload
<1>10. CASE Complete(w)
  <2>1. NoNewQueued
    BY <1>10, FlushedNotQueued DEF Complete
  <2> QED BY <1>4, <1>10, <2>1 DEF Complete
<1>11. CASE WriteFailed(w) \/ WritePaused(w)
  <2>1. NoNewQueued
    BY <1>11, FlushedNotQueued DEF WriteFailed, WritePaused, HandlerCommit
  <2> QED BY <1>4, <1>11, <2>1 DEF WriteFailed, WritePaused, HandlerCommit
<1>12. CASE ClearFailed(w) \/ LoadToPause(w) \/ JoinMonitor(w) \/ Prepare(w)
  BY <1>4, <1>12 DEF ClearFailed, LoadToPause, JoinMonitor, Prepare, RemoveTemp
<1>13. CASE Preserve(w) \/ Remove(w)
  BY <1>4, <1>13 DEF Preserve, Remove, Return, RemoveTemp
<1> QED
  BY <1>1, <1>2, <1>3, <1>5, <1>6, <1>7, <1>8, <1>9, <1>10, <1>11, <1>12, <1>13
     DEF WorkerStep, Run

\* The monitors write nothing but "downloading".
LEMMA MonitorKeepsTickets ==
  ASSUME TypeOK, TicketInv, NEW w \in Workers, MonitorStep(w)
  PROVE  TicketInv'
<1>1. status \in [Jobs -> RowStatus] /\ UNCHANGED clientVars
      /\ (mpc[w] # "off" => mjob[w] \in Jobs)
  BY DEF TypeOK, SharedTypeOK, RunnerTypeOK, MonitorStep
<1>2. UNCHANGED <<queue, app, todo, workerVars>>
  BY DEF MonitorStep, Monitor, MonitorLoad, MonitorWrite, shared
<1>3. NoNewQueued
  BY <1>1, FlushedNotQueued
     DEF MonitorStep, Monitor, MonitorLoad, MonitorWrite, NoNewQueued, shared, rows
<1> QED
  BY <1>1, <1>2, <1>3, LaterStepKeepsTickets DEF workerVars

\* A request gives up its hold on a job only when it has put the ticket in the
\* queue, when it has failed the job, or when the job is not queued.
LEMMA RequestKeepsTickets ==
  ASSUME TypeOK, TicketInv, NEW c \in Clients, RequestStep(c)
  PROVE  TicketInv'
<1>a. /\ status \in [Jobs -> RowStatus] /\ queue \in Seq(Jobs)
      /\ cpc \in [Clients -> ClientPC] /\ cjob \in [Clients -> Jobs \cup {NoJob}]
      /\ cseen \in [Clients -> RowStatus]
      /\ \A d \in Clients : cpc[d] \notin {"idle", "delete"} => cjob[d] \in Jobs
  BY DEF TypeOK, SharedTypeOK, ApiTypeOK
<1>b. UNCHANGED <<wpc, wjob, wseen, app, todo>>
  BY DEF RequestStep, BeginRequest, FinishStep, FinishRequest, Submit, ResumeBegin, PauseBegin,
         Begin, DeleteOne, ClearAll, DeleteBegin, ResumeCommit, Enqueue, Put, Reject,
         PauseCommit, RemoveFiles, DeleteCommit, WalkFails, DeleteFails, runnerVars, workerVars, shared
<1>c. app = "up"
  <2>1. app = "up" \/ cpc[c] # "idle"
    BY DEF RequestStep, BeginRequest, FinishStep, FinishRequest, Submit, ResumeBegin,
           PauseBegin, Begin, DeleteOne, ClearAll, DeleteBegin, ResumeCommit, Enqueue, Put,
           Reject, PauseCommit, RemoveFiles, DeleteCommit, WalkFails, DeleteFails
  <2> QED BY <2>1 DEF TicketInv
<1> USE <1>a, SMTT(30)
<1>d. SUFFICES ASSUME NEW j \in Jobs, status'[j] = "queued" PROVE Ticket(j)'
  BY <1>b, <1>c DEF TicketInv
<1>e. status[j] = "queued" => Ticket(j)
  BY <1>c DEF TicketInv
\* The step concerns request c and job j only through these.
<1>f. ASSUME status[j] = "queued",
             \A i \in 1..Len(queue) : i \in 1..Len(queue') /\ queue'[i] = queue[i],
             \A d \in Clients \ {c} : /\ cpc'[d] = cpc[d] /\ cjob'[d] = cjob[d]
                                      /\ cseen'[d] = cseen[d],
             Accounts(c, j) => Ticket(j)'
      PROVE  Ticket(j)'
  <2>1. CASE InQueue(j)
    BY <1>f, <2>1 DEF Ticket, InQueue
  <2>2. CASE \E w \in Workers : wjob[w] = j /\ wpc[w] \in {"load", "claim"}
    BY <1>b, <2>2 DEF Ticket
  <2>3. CASE \E d \in Clients : Accounts(d, j)
    <3> PICK d \in Clients : Accounts(d, j)
      BY <2>3
    <3>1. CASE d = c
      BY <1>f, <3>1
    <3>2. CASE d # c
      <4>1. Accounts(d, j)'
        BY <1>f, <3>2 DEF Accounts
      <4> QED BY <4>1 DEF Ticket
    <3> QED BY <3>1, <3>2
  <2> QED BY <1>e, <1>f, <2>1, <2>2, <2>3 DEF Ticket
<1> USE DEF shared, rows, disk, Answer
<1>1. CASE Submit(c)
  <2>1. CASE j = created + 1
    BY <1>1, <2>1 DEF Submit, Ticket, Accounts
  <2>2. CASE j # created + 1
    BY <1>1, <1>d, <1>f, <2>2 DEF Submit, Accounts
  <2> QED BY <2>1, <2>2
<1>2. ASSUME NEW k \in Jobs, ResumeBegin(c, k) \/ PauseBegin(c, k)
      PROVE  Ticket(j)'
  BY <1>2, <1>d, <1>f DEF ResumeBegin, PauseBegin, Begin, Accounts
<1>3. CASE ClearAll(c) \/ \E k \in Jobs : DeleteOne(c, k)
  BY <1>3, <1>d, <1>f DEF ClearAll, DeleteOne, DeleteBegin, Accounts
<1>4. CASE ResumeCommit(c)
  <2>1. CASE status[cjob[c]] = "absent"
    BY <1>4, <1>d, <1>f, <2>1 DEF ResumeCommit, Accounts
  <2>2. CASE status[cjob[c]] # "absent"
    <3>1. CASE j = cjob[c]
      BY <1>4, <2>2, <3>1 DEF ResumeCommit, Ticket, Accounts
    <3>2. CASE j # cjob[c]
      BY <1>4, <1>d, <1>f, <2>2, <3>2 DEF ResumeCommit, Flushed, Accounts
    <3> QED BY <3>1, <3>2
  <2> QED BY <2>1, <2>2
<1>5. CASE Enqueue(c)
  <2>1. CASE status[cjob[c]] = "absent"
    BY <1>5, <1>d, <1>f, <2>1 DEF Enqueue, Accounts
  <2>2. CASE cpc' = [cpc EXCEPT ![c] = "put"] /\ UNCHANGED <<cjob, cseen>>
    BY <1>5, <1>d, <1>f, <2>2 DEF Enqueue, Accounts, Ticket
  <2>3. CASE cpc' = [cpc EXCEPT ![c] = "reject"]
    BY <1>5, <1>d, <1>f, <2>3 DEF Enqueue, Accounts, Ticket
  <2> QED BY <1>5, <2>1, <2>2, <2>3 DEF Enqueue
<1>6. CASE Reject(c)
  BY <1>6, <1>d, <1>f DEF Reject, Flushed, Accounts
<1>7. CASE PauseCommit(c)
  BY <1>7, <1>d, <1>f DEF PauseCommit, Flushed, Accounts
<1>8. ASSUME NEW k \in Jobs, RemoveFiles(c, k) PROVE Ticket(j)'
  BY <1>8, <1>d, <1>f DEF RemoveFiles, Accounts
<1>9. CASE DeleteCommit(c)
  BY <1>9, <1>d, <1>f DEF DeleteCommit, Accounts
<1>10. CASE Put(c)
  <2>1. ASSUME j = cjob[c] PROVE InQueue(j)'
    <3>1. Len(queue) + 1 \in 1..Len(queue') /\ queue'[Len(queue) + 1] = j
      BY <1>10, <2>1 DEF Put
    <3> QED BY <3>1 DEF InQueue
  <2> QED BY <1>10, <1>d, <1>f, <2>1 DEF Put, Accounts, Ticket
<1>11. CASE WalkFails(c)
  BY <1>11, <1>d, <1>f DEF WalkFails, DeleteFails, Accounts, shared, rows
<1> QED
  BY <1>1, <1>2, <1>3, <1>4, <1>5, <1>6, <1>7, <1>8, <1>9, <1>10, <1>11
     DEF RequestStep, BeginRequest, FinishStep, FinishRequest

\* start() lists every queued job, puts its ticket back or fails it, and serves
\* only when the list is empty.
LEMMA LifecycleKeepsTickets ==
  ASSUME TypeOK, TicketInv, StartUp \/ ProcessEnd
  PROVE  TicketInv'
<1>a. /\ status \in [Jobs -> RowStatus] /\ queue \in Seq(Jobs) /\ todo \subseteq Jobs
      /\ SharedTypeOK /\ RunnerTypeOK /\ ApiTypeOK
  BY DEF TypeOK, SharedTypeOK
<1> USE <1>a, SMTT(30)
<1>1. CASE Start /\ UNCHANGED clientVars
  BY <1>1 DEF Start, TicketInv, runnerVars, clientVars
<1>2. CASE Recover /\ UNCHANGED clientVars
  <2> PICK k \in Jobs : /\ todo' = todo \ {k}
                        /\ IF HasRoom
                           THEN queue' = Append(queue, k) /\ UNCHANGED status
                           ELSE /\ status' = [status EXCEPT ![k] = "failed"]
                                /\ UNCHANGED queue
    BY <1>2 DEF Recover
  <2>1. ASSUME NEW j \in Jobs, status'[j] = "queued" PROVE InQueue(j)' \/ j \in todo'
    <3>1. InQueue(j) \/ j \in todo
      BY <1>2, <2>1 DEF TicketInv, Recover
    <3>2. CASE InQueue(j)
      <4> PICK i \in 1..Len(queue) : queue[i] = j
        BY <3>2 DEF InQueue
      <4>1. i \in 1..Len(queue') /\ queue'[i] = j
        OBVIOUS
      <4> QED BY <4>1 DEF InQueue
    <3>3. CASE j = k
      <4>1. HasRoom
        BY <2>1, <3>3
      <4>2. Len(queue) + 1 \in 1..Len(queue') /\ queue'[Len(queue) + 1] = j
        BY <3>3, <4>1
      <4> QED BY <4>2 DEF InQueue
    <3> QED BY <3>1, <3>2, <3>3
  <2> QED BY <1>2, <2>1 DEF Recover, TicketInv, runnerVars, clientVars
<1>3. CASE (Serve \/ ShutDown) /\ UNCHANGED clientVars
  <2>1. CASE Serve
    BY <1>3, <2>1 DEF Serve, TicketInv, Ticket, InQueue, Accounts, rows, runnerVars, clientVars
  <2>2. CASE ShutDown
    BY <1>3, <2>2 DEF ShutDown, Stop, TicketInv, rows, runnerVars, clientVars
  <2> QED BY <1>3, <2>1, <2>2
<1>4. CASE (Exit \/ Crash) /\ ApiReset
  BY <1>4 DEF Exit, Crash, EndProcess, RunnerReset, ApiReset, TicketInv
<1> QED
  BY <1>1, <1>2, <1>3, <1>4 DEF StartUp, ProcessEnd

\* The invariant holds in every reachable state and implies that no queued job
\* is forgotten while the server is up.
THEOREM TicketsKept == Spec => []QueuedHasTicket
<1>1. Init => TicketInv
  BY DEF Init, SharedInit, RunnerInit, ApiInit, TicketInv
<1>2. TypeOK /\ TicketInv /\ [Next]_vars => TicketInv'
  <2> SUFFICES ASSUME TypeOK, TicketInv, [Next]_vars PROVE TicketInv'
    OBVIOUS
  <2>1. CASE Next
    BY <2>1, WorkerKeepsTickets, MonitorKeepsTickets, RequestKeepsTickets,
       LifecycleKeepsTickets DEF Next
  <2>2. CASE UNCHANGED vars
    BY <2>2 DEF vars, shared, rows, disk, runnerVars, clientVars,
                TicketInv, Ticket, InQueue, Accounts
  <2> QED BY <2>1, <2>2
<1>3. TicketInv => QueuedHasTicket
  BY DEF TicketInv, Ticket, Accounts, QueuedHasTicket
<1> QED BY <1>1, <1>2, <1>3, TypeCorrect, PTL DEF Spec

-----------------------------------------------------------------------------
(* Interrupted jobs are at rest *)

\* Everything that could still start a run of the job, or is one.
Busy(j) ==
    \/ InQueue(j) \/ j \in todo
    \/ \E w \in Workers : wjob[w] = j \/ mjob[w] = j
    \/ \E c \in Clients : cjob[c] = j /\ cpc[c] \in {"enqueue", "put"}

\* The inductive strengthening of InterruptedIsQuiet: before the server is up
\* nothing runs, start() lists only queued jobs, and the commit of a resume
\* does change the status.
QuietInv ==
    /\ app \in {"down", "recovering"} =>
         /\ \A w \in Workers : /\ wpc[w] = "idle" /\ wjob[w] = NoJob
                               /\ mpc[w] = "off" /\ mjob[w] = NoJob
         /\ \A c \in Clients : cpc[c] = "idle"
    /\ app = "down" => queue = <<>>
    /\ app # "recovering" => todo = {}
    /\ \A j \in todo : status[j] = "queued"
    /\ \A c \in Clients : cpc[c] = "resume" => cseen[c] \in ResumableStatus
    /\ \A j \in Jobs : status[j] = "interrupted" => ~Busy(j)

\* Only start() marks jobs as interrupted.
NoNewInterrupted ==
    \A j \in Jobs : status'[j] = "interrupted" => status[j] = "interrupted"

LEMMA FlushedNotInterrupted ==
  ASSUME status \in [Jobs -> RowStatus], NEW j \in Jobs, NEW seen, NEW new,
         new # "interrupted", status' = Flushed(j, seen, new)
  PROVE  NoNewInterrupted
  BY DEF Flushed, NoNewInterrupted

\* While the server runs, a thread's step that makes nothing busy keeps the
\* invariant.
LEMMA RunningStepKeepsQuiet ==
  ASSUME TypeOK, QuietInv, app \notin {"down", "recovering"}, UNCHANGED <<app, todo>>,
         NoNewInterrupted,
         \A j \in Jobs : Busy(j)' => Busy(j) \/ status'[j] # "interrupted",
         \A c \in Clients : cpc'[c] = "resume" => cseen'[c] \in ResumableStatus
  PROVE  QuietInv'
  BY DEF QuietInv, NoNewInterrupted

LEMMA WorkerKeepsQuiet ==
  ASSUME TypeOK, QuietInv, NEW w \in Workers, WorkerStep(w) \/ MonitorStep(w)
  PROVE  QuietInv'
<1>a. /\ status \in [Jobs -> RowStatus] /\ queue \in Seq(Jobs) /\ app \in AppPhases
      /\ wjob \in [Workers -> Jobs \cup {NoJob}] /\ mjob \in [Workers -> Jobs \cup {NoJob}]
      /\ wpc \in [Workers -> WorkerPC]
      /\ \A v \in Workers : wpc[v] # "idle" => wjob[v] \in Jobs
      /\ \A v \in Workers : mpc[v] # "off" => mjob[v] \in Jobs
  BY DEF TypeOK, SharedTypeOK, RunnerTypeOK
\* The steps of a worker's thread and of the monitors, for <1>b to <1>e.
<1> USE DEF WorkerStep, MonitorStep, Monitor, MonitorLoad, MonitorWrite, Run, Take, LoadJob,
            Claim, Prepare, ReportFetch, SaveProgress, Download, FetchReturns, FetchFails,
            CheckPaused, ReportLast, SaveLast, PublishFile, MoveFile, Reload, Complete,
            WriteFailed, ClearFailed, LoadToPause, WritePaused, JoinMonitor, Preserve,
            Remove
<1>b. UNCHANGED <<app, todo, clientVars>>
  BY DEF shared
<1>c. app \notin {"down", "recovering"}
  <2>1. app = "up" \/ wpc[w] # "idle" \/ mpc[w] # "off"
    BY DEF At
  <2> QED BY <2>1 DEF QuietInv
<1> USE <1>a, SMTT(30)
<1>d. NoNewInterrupted
  <2>1. CASE \E new \in {"extracting", "downloading", "processing", "completed",
                         "failed", "paused"}, j \in Jobs, seen \in RowStatus :
               status' = Flushed(j, seen, new)
    BY <2>1, FlushedNotInterrupted
  <2>2. CASE status' = status
    BY <2>2 DEF NoNewInterrupted
  <2>3. wseen[w] \in RowStatus /\ mseen[w] \in RowStatus
    BY DEF TypeOK, RunnerTypeOK
  <2>4. wpc[w] # "idle" => wjob[w] \in Jobs
    OBVIOUS
  <2>5. \/ status' = status
        \/ \E new \in {"extracting", "downloading", "processing", "completed",
                       "failed", "paused"} :
             \/ wpc[w] # "idle" /\ status' = Flushed(wjob[w], wseen[w], new)
             \/ mpc[w] # "off" /\ status' = Flushed(mjob[w], mseen[w], new)
    BY DEF SaveTo, HandlerCommit, Commit, At, shared, rows
  <2> QED BY <2>1, <2>2, <2>3, <2>4, <2>5
<1>e. \A j \in Jobs : Busy(j)' => Busy(j)
  <2>1. CASE Take(w)
    <3>1. /\ queue # <<>> /\ queue' = Tail(queue) /\ UNCHANGED <<mjob, todo>>
          /\ wjob' = [wjob EXCEPT ![w] = Head(queue)]
      BY <2>1 DEF Take, monitorVars
    <3>2. ASSUME NEW j \in Jobs, InQueue(j)' PROVE InQueue(j)
      <4> PICK i \in 1..Len(queue') : queue'[i] = j
        BY <3>2 DEF InQueue
      <4>1. i + 1 \in 1..Len(queue) /\ queue[i + 1] = j
        BY <3>1
      <4> QED BY <4>1 DEF InQueue
    <3>3. InQueue(Head(queue))
      <4>1. 1 \in 1..Len(queue) /\ queue[1] = Head(queue)
        BY <3>1
      <4> QED BY <4>1 DEF InQueue
    <3> QED BY <1>b, <3>1, <3>2, <3>3 DEF Busy, clientVars
  <2>2. CASE ~Take(w)
    <3>1. queue' = queue
      BY <2>2 DEF shared
    <3>2. wjob' = wjob \/ wjob' = [wjob EXCEPT ![w] = NoJob]
      BY <2>2 DEF Return, workerVars, runnerVars
    <3>3. \/ mjob' = mjob \/ mjob' = [mjob EXCEPT ![w] = NoJob]
          \/ wpc[w] # "idle" /\ mjob' = [mjob EXCEPT ![w] = wjob[w]]
      BY <2>2 DEF MonitorEnd, MonitorAgain, At, monitorVars, runnerVars
    <3> QED BY <1>b, <3>1, <3>2, <3>3, JobsAreNumbers DEF Busy, InQueue, clientVars
  <2> QED BY <2>1, <2>2
<1> QED
  BY <1>b, <1>c, <1>d, <1>e, RunningStepKeepsQuiet DEF QuietInv, clientVars

\* What a step of a request does to everything a job can be busy with.
RequestEffect(c) ==
    /\ NoNewInterrupted
    /\ \A d \in Clients \ {c} : /\ cpc'[d] = cpc[d] /\ cjob'[d] = cjob[d]
                                /\ cseen'[d] = cseen[d]
    /\ queue' = queue \/ (cpc[c] = "put" /\ queue' = Append(queue, cjob[c]))
    /\ cpc'[c] = "resume" => cseen'[c] \in ResumableStatus
    /\ cpc'[c] \in {"enqueue", "put"} =>
         \/ status'[cjob'[c]] = "queued"
         \/ cpc[c] = "enqueue" /\ cjob'[c] = cjob[c]

LEMMA RequestHasEffect ==
  ASSUME TypeOK, QuietInv, NEW c \in Clients, RequestStep(c)
  PROVE  RequestEffect(c)
<1>a. /\ status \in [Jobs -> RowStatus] /\ created \in 0..MaxJobs
      /\ cpc \in [Clients -> ClientPC] /\ cjob \in [Clients -> Jobs \cup {NoJob}]
      /\ cseen \in [Clients -> RowStatus]
      /\ \A d \in Clients : cpc[d] \notin {"idle", "delete"} => cjob[d] \in Jobs
  BY DEF TypeOK, SharedTypeOK, ApiTypeOK
<1> USE <1>a, SMTT(30) DEF RequestEffect, NoNewInterrupted, Answer, shared, rows
<1>1. CASE Submit(c)
  <2>1. created + 1 \in Jobs
    BY <1>1, JobStateAssumption DEF Submit, Jobs
  <2> QED BY <1>1, <2>1 DEF Submit
<1>2. ASSUME NEW j \in Jobs, ResumeBegin(c, j) PROVE RequestEffect(c)
  BY <1>2 DEF ResumeBegin, Begin
<1>3. ASSUME NEW j \in Jobs, PauseBegin(c, j) PROVE RequestEffect(c)
  BY <1>3 DEF PauseBegin, Begin
<1>4. CASE ClearAll(c) \/ \E j \in Jobs : DeleteOne(c, j)
  BY <1>4 DEF ClearAll, DeleteOne, DeleteBegin
<1>5. CASE ResumeCommit(c)
  <2>1. cseen[c] # "queued"
    BY <1>5 DEF ResumeCommit, QuietInv, ResumableStatus
  <2>2. CASE status[cjob[c]] = "absent"
    BY <1>5, <2>2 DEF ResumeCommit
  <2>3. CASE status[cjob[c]] # "absent"
    BY <1>5, <2>1, <2>3 DEF ResumeCommit, Flushed
  <2> QED BY <2>2, <2>3
<1>6. CASE Enqueue(c) \/ Put(c)
  BY <1>6 DEF Enqueue, Put
<1>7. CASE Reject(c)
  BY <1>7 DEF Reject, Flushed
<1>8. CASE PauseCommit(c)
  BY <1>8 DEF PauseCommit, Flushed
<1>9. ASSUME NEW j \in Jobs, RemoveFiles(c, j) PROVE RequestEffect(c)
  BY <1>9 DEF RemoveFiles
<1>10. CASE DeleteCommit(c)
  BY <1>10 DEF DeleteCommit
<1>11. CASE WalkFails(c)
  BY <1>11 DEF WalkFails, DeleteFails
<1> QED
  BY <1>1, <1>2, <1>3, <1>4, <1>5, <1>6, <1>7, <1>8, <1>9, <1>10, <1>11
     DEF RequestStep, BeginRequest, FinishStep, FinishRequest

\* A request makes a job busy only with the commit that sets it to queued.
LEMMA RequestKeepsQuiet ==
  ASSUME TypeOK, QuietInv, NEW c \in Clients, RequestStep(c)
  PROVE  QuietInv'
<1>a. /\ queue \in Seq(Jobs) /\ cjob \in [Clients -> Jobs \cup {NoJob}]
      /\ \A d \in Clients : cpc[d] \notin {"idle", "delete"} => cjob[d] \in Jobs
  BY DEF TypeOK, SharedTypeOK, ApiTypeOK
<1>b. /\ UNCHANGED <<app, todo, wjob, mjob>>
      /\ app = "up" \/ cpc[c] # "idle"
  BY DEF RequestStep, BeginRequest, FinishStep, FinishRequest, Submit, ResumeBegin, PauseBegin,
         Begin, DeleteOne, ClearAll, DeleteBegin, ResumeCommit, Enqueue, Put, Reject,
         PauseCommit, RemoveFiles, DeleteCommit, WalkFails, DeleteFails, runnerVars, workerVars, monitorVars, shared
<1>c. app \notin {"down", "recovering"}
  BY <1>b DEF QuietInv
<1>d. RequestEffect(c)
  BY RequestHasEffect
<1> USE <1>a, SMTT(30)
<1>e. ASSUME NEW j \in Jobs, Busy(j)', status'[j] = "interrupted" PROVE Busy(j)
  <2>1. CASE \/ j \in todo' \/ \E w \in Workers : wjob'[w] = j \/ mjob'[w] = j
    BY <1>b, <2>1 DEF Busy
  <2>2. CASE InQueue(j)'
    <3> PICK i \in 1..Len(queue') : queue'[i] = j
      BY <2>2 DEF InQueue
    <3>1. CASE i \in 1..Len(queue) /\ queue[i] = j
      BY <3>1 DEF Busy, InQueue
    <3>2. CASE cpc[c] = "put" /\ cjob[c] = j
      BY <3>2 DEF Busy
    <3> QED BY <1>d, <3>1, <3>2 DEF RequestEffect
  <2>3. CASE \E d \in Clients : cjob'[d] = j /\ cpc'[d] \in {"enqueue", "put"}
    BY <1>d, <1>e, <2>3 DEF RequestEffect, Busy
  <2> QED BY <1>e, <2>1, <2>2, <2>3 DEF Busy
<1>f. NoNewInterrupted /\ \A d \in Clients : cpc'[d] = "resume" => cseen'[d] \in ResumableStatus
  BY <1>d DEF RequestEffect, QuietInv
<1> QED
  BY <1>b, <1>c, <1>e, <1>f, RunningStepKeepsQuiet

\* start() interrupts jobs while nothing runs and only queued jobs are listed.
LEMMA LifecycleKeepsQuiet ==
  ASSUME TypeOK, QuietInv, StartUp \/ ProcessEnd
  PROVE  QuietInv'
<1>a. /\ status \in [Jobs -> RowStatus] /\ queue \in Seq(Jobs) /\ todo \subseteq Jobs
      /\ app \in AppPhases
  BY DEF TypeOK, SharedTypeOK
<1> USE <1>a, JobsAreNumbers, SMTT(30)
<1>1. CASE Start /\ UNCHANGED clientVars
  <2>1. ~\E j \in Jobs : InQueue(j)'
    BY <1>1 DEF Start, QuietInv, InQueue
  <2>2. ASSUME NEW j \in Jobs, status'[j] = "interrupted" PROVE ~Busy(j)'
    <3>1. j \notin todo'
      BY <1>1, <2>2 DEF Start, RunningStatus
    <3>2. \A w \in Workers : wjob'[w] = NoJob /\ mjob'[w] = NoJob
      BY <1>1 DEF Start, QuietInv, runnerVars
    <3>3. \A c \in Clients : cpc'[c] = "idle"
      BY <1>1 DEF Start, QuietInv, clientVars
    <3> QED BY <2>1, <3>1, <3>2, <3>3 DEF Busy
  <2>3. \A j \in todo' : status'[j] = "queued"
    BY <1>1 DEF Start, RunningStatus
  <2> QED BY <1>1, <2>2, <2>3 DEF Start, QuietInv, runnerVars, clientVars
<1>2. CASE Recover /\ UNCHANGED clientVars
  <2> PICK k \in Jobs : /\ k \in todo /\ todo' = todo \ {k}
                        /\ IF HasRoom
                           THEN queue' = Append(queue, k) /\ UNCHANGED status
                           ELSE /\ status' = [status EXCEPT ![k] = "failed"]
                                /\ UNCHANGED queue
    BY <1>2 DEF Recover, Oldest
  <2>1. status[k] = "queued"
    BY DEF QuietInv
  <2>2. ASSUME NEW j \in Jobs, InQueue(j)' PROVE InQueue(j) \/ j = k
    <3> PICK i \in 1..Len(queue') : queue'[i] = j
      BY <2>2 DEF InQueue
    <3>1. CASE i \in 1..Len(queue) /\ queue[i] = j
      BY <3>1 DEF InQueue
    <3>2. CASE j = k
      BY <3>2
    <3> QED BY <3>1, <3>2
  <2>3. NoNewInterrupted /\ status'[k] # "interrupted"
    BY <2>1 DEF NoNewInterrupted
  <2>4. ASSUME NEW j \in Jobs, status'[j] = "interrupted" PROVE ~Busy(j)'
    <3>1. \A c \in Clients : cpc'[c] = "idle"
      BY <1>2 DEF Recover, QuietInv, clientVars
    <3>2. \A w \in Workers : wjob'[w] = NoJob /\ mjob'[w] = NoJob
      BY <1>2 DEF Recover, QuietInv, runnerVars
    <3>3. j # k /\ ~InQueue(j)' /\ j \notin todo'
      BY <2>2, <2>3, <2>4 DEF QuietInv, Busy, NoNewInterrupted
    <3> QED BY <3>1, <3>2, <3>3 DEF Busy
  <2>5. \A j \in todo' : status'[j] = "queued"
    <3>1. \A j \in todo : j \in Jobs /\ status[j] = "queued"
      BY DEF QuietInv
    <3> QED BY <3>1
  <2> QED BY <1>2, <2>4, <2>5 DEF Recover, QuietInv, runnerVars, clientVars
<1>3. CASE (Serve \/ ShutDown) /\ UNCHANGED clientVars
  <2>1. \A j \in Jobs : Busy(j)' <=> Busy(j)
    BY <1>3 DEF Serve, ShutDown, Stop, Busy, InQueue, runnerVars, clientVars
  <2>2. CASE Serve
    BY <1>3, <2>1, <2>2 DEF Serve, QuietInv, rows, runnerVars, clientVars
  <2>3. CASE ShutDown
    BY <1>3, <2>1, <2>3 DEF ShutDown, Stop, QuietInv, rows, runnerVars, clientVars
  <2> QED BY <1>3, <2>2, <2>3
<1>4. CASE (Exit \/ Crash) /\ ApiReset
  BY <1>4 DEF Exit, Crash, EndProcess, RunnerReset, ApiReset, QuietInv, Busy, InQueue
<1> QED
  BY <1>1, <1>2, <1>3, <1>4 DEF StartUp, ProcessEnd

LEMMA AlwaysQuiet == Spec => []QuietInv
<1>1. Init => QuietInv
  BY JobsAreNumbers DEF Init, SharedInit, RunnerInit, ApiInit, QuietInv, Busy, InQueue
<1>2. TypeOK /\ QuietInv /\ [Next]_vars => QuietInv'
  <2> SUFFICES ASSUME TypeOK, QuietInv, [Next]_vars PROVE QuietInv'
    OBVIOUS
  <2>1. CASE Next
    BY <2>1, WorkerKeepsQuiet, RequestKeepsQuiet, LifecycleKeepsQuiet DEF Next
  <2>2. CASE UNCHANGED vars
    BY <2>2 DEF vars, shared, rows, disk, runnerVars, clientVars,
                QuietInv, Busy, InQueue
  <2> QED BY <2>1, <2>2
<1> QED BY <1>1, <1>2, TypeCorrect, PTL DEF Spec

\* A job marked interrupted has no ticket, no worker and no monitor.
THEOREM InterruptedAtRest == Spec => []InterruptedIsQuiet
<1>1. QuietInv => InterruptedIsQuiet
  BY DEF QuietInv, Busy, InterruptedIsQuiet
<1> QED BY <1>1, AlwaysQuiet, PTL

\* Who removes a temporary directory writes no row in the same step, and is the run of
\* the job or a request that chose it.
LEMMA TempRemovers ==
  ASSUME TypeOK, Next, NEW j \in Jobs, temp[j] # "none", temp'[j] = "none"
  PROVE  /\ status' = status
         /\ (\E w \in Workers : wjob[w] = j) \/ \E c \in Clients : j \in doomed[c]
<1>a. temp \in [Jobs -> TempStates]
  BY DEF TypeOK, SharedTypeOK
<1> USE <1>a, SMTT(30) DEF shared, rows, disk
<1>1. ASSUME NEW w \in Workers, WorkerStep(w) \/ MonitorStep(w)
      PROVE  status' = status /\ wjob[w] = j
  <2>1. CASE ClearFailed(w) \/ Remove(w)
    BY <2>1 DEF ClearFailed, Remove, RemoveTemp
  <2>2. CASE \E new \in {"downloading", "processing"} : ReportFetch(w, new)
    BY <2>2 DEF ReportFetch
  <2>3. CASE Prepare(w) \/ Download(w) \/ FetchReturns(w) \/ MoveFile(w)
    BY <2>3 DEF Prepare, Download, FetchReturns, MoveFile
  <2> QED BY <1>1, <2>1, <2>2, <2>3
             DEF WorkerStep, MonitorStep, Monitor, MonitorLoad, MonitorWrite, Run, Take, LoadJob,
                 Claim, SaveProgress, FetchFails, CheckPaused, ReportLast, SaveLast, PublishFile,
                 Reload, Complete, WriteFailed, LoadToPause, WritePaused, JoinMonitor, Preserve
<1>2. ASSUME NEW c \in Clients, RequestStep(c)
      PROVE  status' = status /\ j \in doomed[c]
  <2>1. ASSUME NEW i \in Jobs, RemoveFiles(c, i) PROVE status' = status /\ j \in doomed[c]
    BY <2>1 DEF RemoveFiles
  <2>2. temp' = temp \/ \E i \in Jobs : RemoveFiles(c, i)
    <3>1. BeginRequest(c) => temp' = temp
      BY DEF BeginRequest, Submit, ResumeBegin, PauseBegin, Begin, DeleteOne, ClearAll,
             DeleteBegin
    <3>2. FinishRequest(c) => temp' = temp \/ \E i \in Jobs : RemoveFiles(c, i)
      <4>1. ResumeCommit(c) => temp' = temp
        BY DEF ResumeCommit
      <4>2. Enqueue(c) => temp' = temp
        BY DEF Enqueue
      <4>3. Reject(c) => temp' = temp
        BY DEF Reject
      <4>4. PauseCommit(c) => temp' = temp
        BY DEF PauseCommit
      <4>5. DeleteCommit(c) => temp' = temp
        BY DEF DeleteCommit
      <4> QED BY <4>1, <4>2, <4>3, <4>4, <4>5 DEF FinishRequest
    <3>3. Put(c) \/ WalkFails(c) => temp' = temp
      BY DEF Put, WalkFails, DeleteFails
    <3> QED BY <1>2, <3>1, <3>2, <3>3 DEF RequestStep, FinishStep
  <2> QED BY <2>1, <2>2
<1>3. CASE StartUp \/ ProcessEnd
  BY <1>3 DEF StartUp, Start, Recover, Serve, ProcessEnd, ShutDown, Stop, Exit, Crash, EndProcess
<1> QED BY <1>1, <1>2, <1>3 DEF Next

\* The data of an interrupted job stay on disk until a request deletes them, whatever
\* requests there are: no late run, and no start, removes what a resume is to continue.
THEOREM InterruptedDataStay == Spec => InterruptedTempKept
<1> DEFINE Kept ==
      \A j \in Jobs : (status'[j] = "interrupted" /\ temp[j] # "none" /\ temp'[j] = "none")
                      => \E c \in Clients : j \in doomed[c]
<1>1. ASSUME TypeOK, QuietInv, Next PROVE Kept
  <2> SUFFICES ASSUME NEW j \in Jobs, status'[j] = "interrupted", temp[j] # "none",
                      temp'[j] = "none"
               PROVE  \E c \in Clients : j \in doomed[c]
    OBVIOUS
  <2>1. /\ status[j] = "interrupted"
        /\ (\E w \in Workers : wjob[w] = j) \/ \E c \in Clients : j \in doomed[c]
    BY <1>1, TempRemovers
  <2>2. \A w \in Workers : wjob[w] # j
    BY <1>1, <2>1 DEF QuietInv, Busy
  <2> QED BY <2>1, <2>2
<1>2. ASSUME UNCHANGED vars PROVE Kept
  BY <1>2 DEF vars, shared, disk
<1>3. TypeOK /\ QuietInv /\ [Next]_vars => [Kept]_vars
  BY <1>1, <1>2
<1> QED BY <1>3, TypeCorrect, AlwaysQuiet, PTL DEF Spec, InterruptedTempKept

-----------------------------------------------------------------------------
(* A job that says extracting or processing has its run *)

Attends(w, j) == WillSettle(w, j) \/ (wjob[w] = j /\ wpc[w] = "dead")

\* What a step of worker w does to the jobs that say extracting or processing: it
\* says so itself only as the run that will settle the job, and it leaves its job
\* only with another status.
RunEffect(w) ==
    /\ app' = app
    /\ \A v \in Workers \ {w} : /\ wpc'[v] = wpc[v] /\ wjob'[v] = wjob[v]
                                /\ wseen'[v] = wseen[v]
    /\ \A j \in Jobs : j # wjob[w] => status'[j] = status[j]
    /\ \A j \in Jobs : j = wjob[w] /\ status'[j] \in {"extracting", "processing"} =>
          \/ Attends(w, j)'
          \/ status'[j] = status[j] /\ ~Attends(w, j)

LEMMA RunEffectKeepsRuns ==
  ASSUME ExtractingHasWorker, NEW w \in Workers, RunEffect(w)
  PROVE  ExtractingHasWorker'
<1> SUFFICES ASSUME NEW j \in Jobs, status'[j] \in {"extracting", "processing"},
                    app' # "down"
             PROVE  \E v \in Workers : Attends(v, j)'
  BY DEF ExtractingHasWorker, Attends
<1>1. ASSUME NEW v \in Workers, v # w, Attends(v, j) PROVE Attends(v, j)'
  BY <1>1 DEF RunEffect, Attends, WillSettle
<1>2. status'[j] = status[j] => \E v \in Workers : Attends(v, j)
  BY DEF ExtractingHasWorker, Attends, RunEffect
<1>3. CASE j = wjob[w]
  <2>1. CASE Attends(w, j)'
    BY <2>1
  <2>2. CASE status'[j] = status[j] /\ ~Attends(w, j)
    BY <1>1, <1>2, <2>2
  <2> QED BY <1>3, <2>1, <2>2 DEF RunEffect
<1>4. CASE j # wjob[w]
  <2>1. ~Attends(w, j)
    BY <1>4 DEF Attends, WillSettle
  <2>2. status'[j] = status[j]
    BY <1>4 DEF RunEffect
  <2> QED BY <1>1, <1>2, <2>1, <2>2
<1> QED BY <1>3, <1>4

\* Every step of a run up to its settling commit keeps the job attended.
LEMMA WorkerHasRunEffect ==
  ASSUME TypeOK, NEW w \in Workers, WorkerStep(w)
  PROVE  RunEffect(w)
<1>a. /\ status \in [Jobs -> RowStatus]
      /\ wpc \in [Workers -> WorkerPC] /\ wseen \in [Workers -> RowStatus]
      /\ wjob \in [Workers -> Jobs \cup {NoJob}]
      /\ \A v \in Workers : wpc[v] # "idle" => wjob[v] \in Jobs
  BY DEF TypeOK, SharedTypeOK, RunnerTypeOK
<1> USE <1>a, SMTT(30)
<1> USE DEF RunEffect, Attends, WillSettle, shared, rows, disk, runnerVars, workerVars,
            monitorVars, At, GoTo, RowOf, Commit, Remember, Forget, ForgetReporter, Flushed
<1>1. CASE Take(w)
  BY <1>1 DEF Take
<1>2. CASE LoadJob(w)
  BY <1>2 DEF LoadJob, Return
<1>3. CASE Claim(w)
  BY <1>3 DEF Claim
<1>4. CASE Prepare(w)
  BY <1>4 DEF Prepare
<1>5. ASSUME NEW new \in {"downloading", "processing"}, ReportFetch(w, new)
      PROVE  RunEffect(w)
  BY <1>5 DEF ReportFetch, ReportTo, SavePC
<1>6. CASE SaveProgress(w) \/ SaveLast(w)
  BY <1>6 DEF SaveProgress, SaveLast, SaveTo, Raise
<1>7. CASE Download(w) \/ FetchReturns(w) \/ FetchFails(w)
  BY <1>7 DEF Download, FetchReturns, FetchFails, Raise
<1>8. CASE CheckPaused(w) \/ ReportLast(w)
  BY <1>8 DEF CheckPaused, ReportLast, ReportTo, Raise
<1>9. CASE PublishFile(w) \/ MoveFile(w) \/ Reload(w)
  BY <1>9 DEF PublishFile, MoveFile, Reload, Raise
<1>10. CASE Complete(w)
  BY <1>10 DEF Complete, Raise
<1>11. CASE WriteFailed(w) \/ WritePaused(w)
  BY <1>11 DEF WriteFailed, WritePaused, HandlerCommit
<1>12. CASE ClearFailed(w) \/ LoadToPause(w) \/ JoinMonitor(w)
  BY <1>12 DEF ClearFailed, LoadToPause, JoinMonitor, RemoveTemp
<1>13. CASE Preserve(w) \/ Remove(w)
  BY <1>13 DEF Preserve, Remove, Return, RemoveTemp
<1> QED
  BY <1>1, <1>2, <1>3, <1>4, <1>5, <1>6, <1>7, <1>8, <1>9, <1>10, <1>11, <1>12, <1>13
     DEF WorkerStep, Run

\* Monitors and requests say neither extracting nor processing, and touch no run.
LEMMA OthersKeepRuns ==
  ASSUME ExtractingHasWorker, UNCHANGED <<app, wpc, wjob, wseen>>,
         \A j \in Jobs : status'[j] \in {"extracting", "processing"} => status'[j] = status[j]
  PROVE  ExtractingHasWorker'
  BY DEF ExtractingHasWorker, WillSettle

LEMMA MonitorKeepsRuns ==
  ASSUME TypeOK, ExtractingHasWorker, NEW w \in Workers, MonitorStep(w)
  PROVE  ExtractingHasWorker'
<1>1. UNCHANGED <<app, wpc, wjob, wseen>>
  BY DEF MonitorStep, Monitor, MonitorLoad, MonitorWrite, shared, workerVars
<1>2. \A j \in Jobs : status'[j] \in {"extracting", "processing"} => status'[j] = status[j]
  BY DEF TypeOK, SharedTypeOK, RunnerTypeOK, MonitorStep, Monitor, MonitorLoad, MonitorWrite,
         Flushed, shared
<1> QED BY <1>1, <1>2, OthersKeepRuns

LEMMA RequestKeepsRuns ==
  ASSUME TypeOK, ExtractingHasWorker, NEW c \in Clients, RequestStep(c)
  PROVE  ExtractingHasWorker'
<1> USE DEF RequestStep, BeginRequest, FinishStep, FinishRequest, Submit, ResumeBegin,
            PauseBegin, Begin, DeleteOne, ClearAll, DeleteBegin, ResumeCommit, Enqueue, Put,
            Reject, PauseCommit, RemoveFiles, DeleteCommit, WalkFails, DeleteFails, shared, rows
<1>1. UNCHANGED <<app, wpc, wjob, wseen>>
  BY DEF runnerVars, workerVars
<1>2. \A j \in Jobs : status'[j] \in {"extracting", "processing"} => status'[j] = status[j]
  <2>1. /\ status \in [Jobs -> RowStatus] /\ created \in 0..MaxJobs
        /\ \A d \in Clients : cpc[d] \notin {"idle", "delete"} => cjob[d] \in Jobs
    BY DEF TypeOK, SharedTypeOK, ApiTypeOK
  <2>2. CASE \E k \in Jobs \cup {created + 1}, new \in {"queued", "failed", "paused"} :
                status' = [status EXCEPT ![k] = new]
    BY <2>1, <2>2
  <2>3. CASE status' = status
    BY <2>3
  <2>4. CASE DeleteCommit(c)
    BY <2>4
  <2>5. Submit(c) => status' = [status EXCEPT ![created + 1] = "queued"]
    OBVIOUS
  <2>6. ResumeCommit(c) => \/ status' = status
                           \/ /\ cjob[c] \in Jobs
                              /\ status' = [status EXCEPT ![cjob[c]] = "queued"]
    BY <2>1 DEF Flushed
  <2>7. Reject(c) => \/ status' = status
                     \/ /\ cjob[c] \in Jobs
                        /\ status' = [status EXCEPT ![cjob[c]] = "failed"]
    BY <2>1 DEF Flushed
  <2>8. PauseCommit(c) => \/ status' = status
                          \/ /\ cjob[c] \in Jobs
                             /\ status' = [status EXCEPT ![cjob[c]] = "paused"]
    BY <2>1 DEF Flushed
  <2>9. \/ Submit(c) \/ ResumeCommit(c) \/ Reject(c) \/ PauseCommit(c) \/ DeleteCommit(c)
        \/ status' = status
    BY DEF rows
  <2> QED BY <2>2, <2>3, <2>4, <2>5, <2>6, <2>7, <2>8, <2>9
<1> QED BY <1>1, <1>2, OthersKeepRuns

\* start() interrupts what says extracting or processing; recovery only fails jobs.
LEMMA LifecycleKeepsRuns ==
  ASSUME TypeOK, ExtractingHasWorker, StartUp \/ ProcessEnd
  PROVE  ExtractingHasWorker'
<1>1. CASE Start
  BY <1>1 DEF Start, ExtractingHasWorker, RunningStatus
<1>2. CASE UNCHANGED <<wpc, wjob, wseen>> /\ app # "down" /\
           \A j \in Jobs : status'[j] \in {"extracting", "processing"} => status'[j] = status[j]
  BY <1>2 DEF ExtractingHasWorker, WillSettle
<1>3. CASE app' = "down"
  BY <1>3 DEF ExtractingHasWorker
<1>4. CASE Recover \/ Serve \/ ShutDown
  BY <1>2, <1>4 DEF Recover, Serve, ShutDown, Stop, runnerVars, rows, TypeOK, SharedTypeOK
<1> QED
  BY <1>1, <1>3, <1>4 DEF StartUp, ProcessEnd, Exit, Crash, EndProcess

\* A job that says extracting or processing while the server is up has a run whose
\* commits will still replace that status, or one that died creating its directory,
\* whatever duplicates of the run, requests, monitors and restarts there are.  (Nothing
\* of the kind holds of downloading: a late monitor writes it when no run is left.)
THEOREM RunningHasRun == Spec => []ExtractingHasWorker
<1>1. Init => ExtractingHasWorker
  BY DEF Init, SharedInit, ExtractingHasWorker
<1>2. TypeOK /\ ExtractingHasWorker /\ [Next]_vars => ExtractingHasWorker'
  <2> SUFFICES ASSUME TypeOK, ExtractingHasWorker, [Next]_vars PROVE ExtractingHasWorker'
    OBVIOUS
  <2>1. CASE Next
    BY <2>1, WorkerHasRunEffect, RunEffectKeepsRuns, MonitorKeepsRuns, RequestKeepsRuns,
       LifecycleKeepsRuns DEF Next
  <2>2. CASE UNCHANGED vars
    BY <2>2 DEF vars, shared, rows, runnerVars, ExtractingHasWorker, WillSettle
  <2> QED BY <2>1, <2>2
<1> QED BY <1>1, <1>2, TypeCorrect, PTL DEF Spec

-----------------------------------------------------------------------------
(* Without resume requests: one run for each job, and nothing after its deletion *)

\* A request that holds the ticket of j.
Asks(c, j) == cjob[c] = j /\ cpc[c] \in {"enqueue", "put", "reject"}

Ticketed(j) == InQueue(j) \/ j \in todo \/ \E c \in Clients : Asks(c, j)

\* Where a run neither writes the row nor publishes any more.
Ended == {"failClear", "join", "preserve", "remove"}

Chosen(j) == \E c \in Clients : j \in doomed[c]

\* A job is found in one place: the queue, the list of start(), a request or a run.
InOnePlace ==
    /\ \A i, k \in 1..Len(queue) : queue[i] = queue[k] => i = k
    /\ \A j \in todo : ~InQueue(j)
    /\ \A j \in Jobs : \A c, d \in Clients : Asks(c, j) /\ Asks(d, j) => c = d
    /\ \A j \in Jobs : \A c \in Clients : Asks(c, j) => ~InQueue(j)
    /\ SoleRunner
    /\ \A j \in Jobs : \A w \in Workers : Handles(w, j) => ~Ticketed(j)

\* A job that may be deleted, or was chosen to be, has no ticket, and its run is as
\* good as over.  An id that was never given out has not even that.
AtRest ==
    /\ \A j \in Jobs : status[j] \notin ActiveStatus \/ Chosen(j) =>
          /\ ~Ticketed(j)
          /\ \A w \in Workers : Handles(w, j) => wpc[w] \in Ended
    /\ \A j \in Jobs : j > created =>
          /\ status[j] = "absent" /\ ~Chosen(j)
          /\ \A w \in Workers : ~Handles(w, j)

\* What a deletion has removed stays removed.
Gone ==
    /\ \A j \in Jobs : status[j] = "absent" => out[j] = "none"
    /\ \A c \in Clients : \A j \in cleared[c] : out[j] = "none"
    /\ \A c \in Clients : cleared[c] \subseteq doomed[c]

OnceInv ==
    /\ \A c \in Clients : cpc[c] # "resume" /\ (cpc[c] = "idle" => doomed[c] = {})
    /\ InOnePlace
    /\ AtRest
    /\ Gone
    /\ \A w \in Workers : wdying[w] => wpc[w] = "dead"
    /\ \A w \in Workers : wpc[w] = "dead" => "mkdir" \in Faults

\* What a step of a run does, apart from taking a ticket: only a run that is not
\* over writes its row or its output, and what it writes last ends it.
OnceEffect(w) ==
    /\ wpc[w] # "idle"
    /\ UNCHANGED <<created, queue, app, todo, clientVars>>
    /\ \A v \in Workers \ {w} : wpc'[v] = wpc[v] /\ wjob'[v] = wjob[v]
    /\ wpc'[w] # "idle" => wjob'[w] = wjob[w]
    /\ wpc[w] \in Ended => wpc'[w] \in Ended \cup {"idle"}
    /\ \A j \in Jobs : \/ status'[j] = status[j] /\ out'[j] = out[j]
                       \/ j = wjob[w] /\ wpc[w] \notin Ended
    /\ \A j \in Jobs : \/ status'[j] \in ActiveStatus \cup {status[j]}
                       \/ wpc'[w] \in Ended /\ status'[j] # "absent"
    /\ wpc'[w] = "dead" => "mkdir" \in Faults

DyingEffect(w) ==
    \/ wdying' = wdying /\ wpc[w] # "dead"
    \/ wdying' = [wdying EXCEPT ![w] = TRUE] /\ wpc'[w] = "dead"

LEMMA OnceEffectKeeps ==
  ASSUME TypeOK, OnceInv, NEW w \in Workers, OnceEffect(w), DyingEffect(w)
  PROVE  OnceInv'
<1>a. /\ wjob \in [Workers -> Jobs \cup {NoJob}] /\ wpc[w] # "idle" => wjob[w] \in Jobs
  BY DEF TypeOK, RunnerTypeOK
<1>b. \A j \in Jobs : /\ Ticketed(j)' <=> Ticketed(j)
                      /\ InQueue(j)' <=> InQueue(j)
                      /\ Chosen(j)' <=> Chosen(j)
                      /\ \A c \in Clients : Asks(c, j)' <=> Asks(c, j)
  BY DEF OnceEffect, Ticketed, InQueue, Asks, Chosen, clientVars
<1>c. \A j \in Jobs : \A v \in Workers : Handles(v, j)' => Handles(v, j)
  BY DEF OnceEffect, Handles
<1>d. SoleRunner'
  BY <1>c DEF OnceInv, InOnePlace, SoleRunner
<1>1. InOnePlace'
  BY <1>b, <1>c, <1>d DEF OnceInv, InOnePlace, OnceEffect, clientVars, TypeOK, SharedTypeOK
<1>2. ASSUME NEW j \in Jobs, (status[j] \notin ActiveStatus \/ Chosen(j))'
      PROVE  ~Ticketed(j)' /\ \A v \in Workers : Handles(v, j)' => wpc'[v] \in Ended
  <2>1. CASE status[j] \notin ActiveStatus \/ Chosen(j)
    <3>1. ~Ticketed(j) /\ \A v \in Workers : Handles(v, j) => wpc[v] \in Ended
      BY <2>1 DEF OnceInv, AtRest
    <3>2. ASSUME NEW v \in Workers, Handles(v, j)' PROVE wpc'[v] \in Ended
      <4>1. wpc[v] \in Ended
        BY <1>c, <3>1, <3>2
      <4> QED BY <3>2, <4>1 DEF OnceEffect, Handles
    <3> QED BY <1>b, <3>1, <3>2
  <2>2. CASE status[j] \in ActiveStatus /\ ~Chosen(j)
    <3>1. status'[j] \notin ActiveStatus
      BY <1>2, <1>b, <2>2
    <3>2. j = wjob[w] /\ wpc'[w] \in Ended
      BY <2>2, <3>1 DEF OnceEffect
    <3>3. Handles(w, j)
      BY <3>2 DEF Handles, OnceEffect
    <3>4. ~Ticketed(j)'
      BY <1>b, <3>3 DEF OnceInv, InOnePlace
    <3>5. ASSUME NEW v \in Workers, Handles(v, j)' PROVE wpc'[v] \in Ended
      <4>1. v = w
        BY <1>c, <3>3, <3>5 DEF OnceInv, InOnePlace, SoleRunner
      <4> QED BY <3>2, <4>1
    <3> QED BY <3>4, <3>5
  <2> QED BY <2>1, <2>2
<1>3. ASSUME NEW j \in Jobs, j > created
      PROVE  status'[j] = "absent" /\ ~Chosen(j)' /\ \A v \in Workers : ~Handles(v, j)'
  <2>1. status[j] = "absent" /\ ~Chosen(j) /\ \A v \in Workers : ~Handles(v, j)
    BY <1>3 DEF OnceInv, AtRest
  <2>2. j # wjob[w]
    BY <2>1 DEF Handles, OnceEffect
  <2> QED BY <1>b, <1>c, <2>1, <2>2 DEF OnceEffect
<1>4. AtRest'
  BY <1>2, <1>3 DEF AtRest, OnceEffect
<1>5. Gone'
  <2>1. ASSUME NEW j \in Jobs, status[j] = "absent" \/ Chosen(j)
        PROVE  status'[j] = status[j] /\ out'[j] = out[j]
    <3>1. Handles(w, j) => wpc[w] \in Ended
      BY <2>1 DEF OnceInv, AtRest, ActiveStatus, RunningStatus
    <3> QED BY <3>1 DEF OnceEffect, Handles
  <2>2. \A c \in Clients : cleared[c] \subseteq Jobs
    BY DEF TypeOK, ApiTypeOK
  <2>3. ASSUME NEW j \in Jobs, status'[j] = "absent" PROVE out'[j] = "none"
    <3>1. status[j] = "absent"
      BY <2>3 DEF OnceEffect, ActiveStatus, RunningStatus
    <3> QED BY <2>1, <3>1 DEF OnceInv, Gone
  <2>4. ASSUME NEW c \in Clients, NEW j \in cleared[c] PROVE out'[j] = "none"
    <3>1. j \in Jobs /\ Chosen(j) /\ out[j] = "none"
      BY <2>2, <2>4 DEF OnceInv, Gone, Chosen
    <3> QED BY <2>1, <3>1
  <2>5. doomed' = doomed /\ cleared' = cleared
    BY DEF OnceEffect, clientVars
  <2> QED BY <2>3, <2>4, <2>5 DEF Gone, OnceInv
<1>6. (\A v \in Workers : wdying[v] => wpc[v] = "dead")'
  <2>1. \A v \in Workers : wdying[v] => wpc[v] = "dead"
    BY DEF OnceInv
  <2>2. \A v \in Workers : v # w => wpc'[v] = wpc[v]
    BY DEF OnceEffect
  <2>3. wdying \in [Workers -> BOOLEAN]
    BY DEF TypeOK, RunnerTypeOK
  <2>4. CASE wdying' = wdying /\ wpc[w] # "dead"
    BY ONLY <2>1, <2>2, <2>4, w \in Workers, Zenon
  <2>5. CASE wdying' = [wdying EXCEPT ![w] = TRUE] /\ wpc'[w] = "dead"
    <3>1. \A v \in Workers : v # w => wdying'[v] = wdying[v]
      BY ONLY <2>3, <2>5, Zenon
    <3> QED BY ONLY <2>1, <2>2, <2>5, <3>1, Zenon
  <2> QED BY <2>4, <2>5 DEF DyingEffect
<1>7. (\A c \in Clients : cpc[c] # "resume" /\ (cpc[c] = "idle" => doomed[c] = {}))'
  BY DEF OnceInv, OnceEffect, clientVars
<1>8. (\A v \in Workers : wpc[v] = "dead" => "mkdir" \in Faults)'
  BY DEF OnceInv, OnceEffect
<1> QED BY <1>1, <1>4, <1>5, <1>6, <1>7, <1>8 DEF OnceInv

\* A run that is not over has a row that nobody may delete, so no commit of it fails.
LEMMA RunHasRow ==
  ASSUME TypeOK, OnceInv, NEW w \in Workers, Run(w)
  PROVE  /\ wpc[w] \notin {"idle", "dead"} /\ wjob[w] \in Jobs
         /\ wpc[w] \notin Ended => RowOf(w) # "absent"
         /\ Return(w) => GoTo(w, "idle") /\ wjob' = [wjob EXCEPT ![w] = NoJob]
<1>1. wpc[w] \notin {"idle", "dead"}
  BY DEF Run, LoadJob, Claim, Prepare, ReportFetch, SaveProgress, Download, FetchReturns,
         FetchFails, CheckPaused, ReportLast, SaveLast, PublishFile, MoveFile, Reload,
         Complete, WriteFailed, ClearFailed, LoadToPause, WritePaused, JoinMonitor, Preserve,
         Remove, At
<1>2. wjob[w] \in Jobs
  BY <1>1 DEF TypeOK, RunnerTypeOK
<1>3. wpc[w] \notin Ended => RowOf(w) # "absent"
  BY <1>1, <1>2 DEF OnceInv, AtRest, Handles, ActiveStatus, RunningStatus, RowOf
<1>4. ~wdying[w]
  BY <1>1 DEF OnceInv
<1>5. Return(w) => GoTo(w, "idle") /\ wjob' = [wjob EXCEPT ![w] = NoJob]
  BY ONLY <1>4, Zenon DEF Return
<1> QED BY <1>1, <1>2, <1>3, <1>5

LEMMA RunMoves ==
  ASSUME TypeOK, OnceInv, NEW w \in Workers, Run(w)
  PROVE  /\ UNCHANGED <<created, queue, app, todo>>
         /\ \A v \in Workers \ {w} : wpc'[v] = wpc[v] /\ wjob'[v] = wjob[v]
         /\ wpc'[w] # "idle" => wjob'[w] = wjob[w]
         /\ wpc[w] \in Ended => wpc'[w] \in Ended \cup {"idle"}
         /\ wpc'[w] = "dead" => "mkdir" \in Faults
<1>a. /\ wpc \in [Workers -> WorkerPC]
      /\ wjob \in [Workers -> Jobs \cup {NoJob}]
  BY DEF TypeOK, RunnerTypeOK
<1>b. wpc[w] \notin Ended => RowOf(w) # "absent"
  BY RunHasRow
<1>c. Return(w) => GoTo(w, "idle") /\ wjob' = [wjob EXCEPT ![w] = NoJob]
  BY RunHasRow
<1> USE <1>a, SMTT(30) DEF Ended, shared, rows, disk, runnerVars, At, GoTo
<1>1. CASE LoadJob(w) \/ Preserve(w) \/ Remove(w)
  <2>1. UNCHANGED <<created, queue, app, todo>> /\ wpc[w] \in {"load", "preserve", "remove"}
    BY <1>1 DEF LoadJob, Preserve, Remove
  <2>2. \/ GoTo(w, "idle") /\ wjob' = [wjob EXCEPT ![w] = NoJob]
        \/ GoTo(w, "claim") /\ wjob' = wjob /\ wpc[w] = "load"
        \/ GoTo(w, "remove") /\ wjob' = wjob
    BY <1>1, <1>c DEF LoadJob, Preserve, Remove
  <2> QED BY <2>1, <2>2
<1>2. CASE Claim(w)
  BY <1>2, <1>b DEF Claim
<1>3. CASE Prepare(w)
  BY <1>3 DEF Prepare
<1>4. ASSUME NEW new \in {"downloading", "processing"}, ReportFetch(w, new)
      PROVE  /\ UNCHANGED <<created, queue, app, todo>>
             /\ wjob' = wjob /\ wpc[w] = "fetch"
             /\ \E pc : pc # "dead" /\ GoTo(w, pc)
  BY <1>4 DEF ReportFetch, ReportTo, SavePC
<1>5. CASE \/ SaveProgress(w) \/ SaveLast(w) \/ Download(w) \/ FetchReturns(w)
           \/ FetchFails(w) \/ CheckPaused(w) \/ ReportLast(w)
  <2>1. /\ UNCHANGED <<created, queue, app, todo>>
        /\ wjob' = wjob /\ wpc[w] \notin Ended
    BY <1>5 DEF SaveProgress, SaveLast, Download, FetchReturns, FetchFails, CheckPaused,
                ReportLast
  <2>2. wpc' = wpc \/ \E pc : pc # "dead" /\ GoTo(w, pc)
    BY <1>5 DEF SaveProgress, SaveLast, Download, FetchReturns, FetchFails, CheckPaused,
                ReportLast, SaveTo, ReportTo, Raise
  <2>3. wpc[w] # "dead"
    BY RunHasRow
  <2> QED BY <2>1, <2>2, <2>3
<1>6. CASE \/ PublishFile(w) \/ MoveFile(w) \/ Reload(w) \/ Complete(w)
  <2>1. /\ UNCHANGED <<created, queue, app, todo>>
        /\ wjob' = wjob /\ wpc[w] \notin Ended
    BY <1>6 DEF PublishFile, MoveFile, Reload, Complete
  <2>2. \E pc : pc # "dead" /\ GoTo(w, pc)
    BY <1>6 DEF PublishFile, MoveFile, Reload, Complete, Raise
  <2> QED BY <2>1, <2>2
<1>7. CASE WriteFailed(w) \/ WritePaused(w) \/ ClearFailed(w) \/ LoadToPause(w)
           \/ JoinMonitor(w)
  <2>1. UNCHANGED <<created, queue, app, todo>> /\ wjob' = wjob
    BY <1>7 DEF WriteFailed, WritePaused, ClearFailed, LoadToPause, JoinMonitor
  <2>2. \E pc \in {"failClear", "join", "preserve", "pauseWrite"} :
           GoTo(w, pc) /\ (pc = "pauseWrite" => wpc[w] = "pause")
    BY <1>7 DEF WriteFailed, WritePaused, ClearFailed, LoadToPause, JoinMonitor,
                HandlerCommit
  <2> QED BY <2>1, <2>2
<1>8. CASE \E new \in {"downloading", "processing"} : ReportFetch(w, new)
  BY <1>4, <1>8
<1> QED BY <1>1, <1>2, <1>3, <1>5, <1>6, <1>7, <1>8 DEF Run

\* The statuses a run writes; the one it ends with, apart from paused, ends it.
LEMMA RunWrites ==
  ASSUME TypeOK, OnceInv, NEW w \in Workers, Run(w)
  PROVE  \/ status' = status
         \/ /\ wpc[w] \notin Ended
            /\ \E new \in {"extracting", "downloading", "processing", "paused", "completed",
                           "failed"} :
                  /\ status' = [status EXCEPT ![wjob[w]] = new]
                  /\ new \in {"completed", "failed"} => wpc'[w] \in Ended
<1>a. wpc \in [Workers -> WorkerPC]
  BY DEF TypeOK, RunnerTypeOK
<1>b. wpc[w] \notin Ended => RowOf(w) # "absent"
  BY RunHasRow
<1> USE <1>a, SMTT(30) DEF Ended, shared, rows, At, GoTo, Commit, Flushed
<1>1. CASE Claim(w)
  BY <1>1 DEF Claim
<1>2. CASE SaveProgress(w) \/ SaveLast(w)
  BY <1>2 DEF SaveProgress, SaveLast, SaveTo
<1>3. CASE Complete(w)
  BY <1>3 DEF Complete
<1>4. CASE WriteFailed(w) \/ WritePaused(w)
  BY <1>4 DEF WriteFailed, WritePaused, HandlerCommit
<1>5. CASE \E new \in {"downloading", "processing"} : ReportFetch(w, new)
  BY <1>5 DEF ReportFetch
<1> QED
  BY <1>1, <1>2, <1>3, <1>4, <1>5
     DEF Run, LoadJob, Prepare, Download, FetchReturns, FetchFails, CheckPaused, ReportLast,
         PublishFile, MoveFile, Reload, ClearFailed, LoadToPause, JoinMonitor, Preserve,
         Remove

LEMMA RunPublishes ==
  ASSUME TypeOK, NEW w \in Workers, Run(w)
  PROVE  \/ out' = out
         \/ wpc[w] \notin Ended /\ \E new : out' = [out EXCEPT ![wjob[w]] = new]
<1> USE SMTT(30) DEF Ended, shared, rows, disk, At
<1>1. CASE PublishFile(w) \/ MoveFile(w)
  BY <1>1 DEF PublishFile, MoveFile
<1>2. CASE \E new \in {"downloading", "processing"} : ReportFetch(w, new)
  BY <1>2 DEF ReportFetch
<1> QED
  BY <1>1, <1>2
     DEF Run, LoadJob, Claim, Prepare, SaveProgress, Download, FetchReturns, FetchFails,
         CheckPaused, ReportLast, SaveLast, Reload, Complete, WriteFailed, ClearFailed,
         LoadToPause, WritePaused, JoinMonitor, Preserve, Remove

LEMMA RunDies ==
  ASSUME TypeOK, OnceInv, NEW w \in Workers, Run(w)
  PROVE  DyingEffect(w)
<1>a. wpc \in [Workers -> WorkerPC]
  BY DEF TypeOK, RunnerTypeOK
<1>b. wpc[w] \notin Ended => RowOf(w) # "absent"
  BY RunHasRow
<1>c. wpc[w] # "dead"
  BY RunHasRow
<1> USE DEF DyingEffect, runnerVars, At, GoTo
<1>1. CASE Claim(w)
  BY <1>1, <1>b, <1>c DEF Claim, Ended
<1>2. CASE Prepare(w)
  <2>1. CASE UNCHANGED wdying
    BY <1>c, <2>1
  <2>2. CASE GoTo(w, "dead") /\ wdying' = [wdying EXCEPT ![w] = TRUE]
    <3>1. wpc'[w] = "dead"
      BY <1>a, <2>2
    <3> QED BY ONLY <2>2, <3>1, Zenon DEF DyingEffect
  <2> QED BY ONLY <1>2, <2>1, <2>2, Zenon DEF Prepare
<1>3. CASE WriteFailed(w) \/ WritePaused(w)
  BY <1>3, <1>b, <1>c DEF WriteFailed, WritePaused, HandlerCommit, Ended
<1>4. CASE \E new \in {"downloading", "processing"} : ReportFetch(w, new)
  BY <1>4, <1>c DEF ReportFetch
<1> QED
  BY <1>c, <1>1, <1>2, <1>3, <1>4
     DEF Run, LoadJob, SaveProgress, Download, FetchReturns, FetchFails,
         CheckPaused, ReportLast, SaveLast, PublishFile, MoveFile, Reload, Complete,
         ClearFailed, LoadToPause, JoinMonitor, Preserve, Remove

LEMMA RunHasOnceEffect ==
  ASSUME TypeOK, OnceInv, NEW w \in Workers, Run(w), UNCHANGED clientVars
  PROVE  OnceEffect(w) /\ DyingEffect(w)
<1>a. /\ status \in [Jobs -> RowStatus] /\ out \in [Jobs -> OutStates]
      /\ wjob[w] \in Jobs /\ wpc[w] # "idle"
  BY RunHasRow DEF TypeOK, SharedTypeOK
<1>1. ASSUME NEW j \in Jobs, j # wjob[w] \/ wpc[w] \in Ended
      PROVE  status'[j] = status[j] /\ out'[j] = out[j]
  <2>1. status' = status \/ \E new : status' = [status EXCEPT ![wjob[w]] = new]
    BY RunWrites
  <2>2. out' = out \/ \E new : out' = [out EXCEPT ![wjob[w]] = new]
    BY RunPublishes
  <2>3. CASE j # wjob[w]
    BY <1>a, <2>1, <2>2, <2>3
  <2>4. CASE wpc[w] \in Ended
    BY <2>4, RunWrites, RunPublishes
  <2> QED BY <1>1, <2>3, <2>4
<1>2. ASSUME NEW j \in Jobs
      PROVE  \/ status'[j] \in ActiveStatus \cup {status[j]}
             \/ wpc'[w] \in Ended /\ status'[j] # "absent"
  <2>1. CASE j # wjob[w]
    BY <1>1, <2>1
  <2>2. CASE j = wjob[w] /\ status' = status
    BY <2>2
  <2>3. ASSUME j = wjob[w],
               NEW new \in {"extracting", "downloading", "processing", "paused",
                            "completed", "failed"},
               status' = [status EXCEPT ![wjob[w]] = new],
               new \in {"completed", "failed"} => wpc'[w] \in Ended
        PROVE  \/ status'[j] \in ActiveStatus
               \/ wpc'[w] \in Ended /\ status'[j] # "absent"
    BY <1>a, <2>3 DEF ActiveStatus, RunningStatus
  <2> QED BY <2>1, <2>2, <2>3, RunWrites
<1>3. OnceEffect(w)
  <2>1. \A j \in Jobs : \/ status'[j] = status[j] /\ out'[j] = out[j]
                        \/ j = wjob[w] /\ wpc[w] \notin Ended
    BY <1>1
  <2> HIDE DEF Ended
  <2> QED BY <1>a, <1>2, <2>1, RunMoves, Zenon DEF OnceEffect
<1> QED BY <1>3, RunDies

\* A ticket moves from the queue to a worker.
LEMMA TakeKeepsOnce ==
  ASSUME TypeOK, OnceInv, NEW w \in Workers, Take(w), UNCHANGED clientVars
  PROVE  OnceInv'
<1>a. /\ queue \in Seq(Jobs) /\ wpc \in [Workers -> WorkerPC]
      /\ wjob \in [Workers -> Jobs \cup {NoJob}] /\ wdying \in [Workers -> BOOLEAN]
  BY DEF TypeOK, SharedTypeOK, RunnerTypeOK
<1> PICK k \in Jobs : queue # <<>> /\ k = Head(queue)
  BY <1>a DEF Take
<1>b. /\ wpc[w] = "idle" /\ queue # <<>> /\ queue' = Tail(queue)
      /\ wjob' = [wjob EXCEPT ![w] = k] /\ wpc' = [wpc EXCEPT ![w] = "load"]
      /\ UNCHANGED <<status, created, out, todo, wdying>>
      /\ UNCHANGED <<cpc, cjob, doomed, cleared>>
  BY DEF Take, At, GoTo, rows, disk, clientVars
<1>c. InQueue(k) /\ 1 \in 1..Len(queue) /\ queue[1] = k
  BY <1>a, <1>b DEF InQueue
<1>d. \A i \in 1..Len(queue') : i + 1 \in 1..Len(queue) /\ queue'[i] = queue[i + 1]
  BY <1>a, <1>b
<1>e. \A i, n \in 1..Len(queue) : queue[i] = queue[n] => i = n
  BY DEF OnceInv, InOnePlace
<1>f. \A j \in Jobs : InQueue(j)' => InQueue(j) /\ j # k
  BY <1>c, <1>d, <1>e DEF InQueue
<1>g. \A j \in Jobs : /\ Ticketed(j)' => Ticketed(j)
                      /\ Chosen(j)' <=> Chosen(j)
                      /\ \A c \in Clients : Asks(c, j)' <=> Asks(c, j)
  BY <1>b, <1>f DEF Ticketed, Chosen, Asks
<1>h. \A j \in Jobs : \A v \in Workers : Handles(v, j)' => Handles(v, j) \/ (v = w /\ j = k)
  BY <1>a, <1>b DEF Handles
<1>i. ~Ticketed(k)'
  <2>1. ~InQueue(k)' /\ k \notin todo'
    BY <1>b, <1>c, <1>f DEF OnceInv, InOnePlace
  <2>2. \A c \in Clients : ~Asks(c, k)'
    BY <1>c, <1>g DEF OnceInv, InOnePlace
  <2> QED BY <2>1, <2>2 DEF Ticketed
<1>j. /\ Ticketed(k) /\ status[k] \in ActiveStatus /\ ~Chosen(k)
      /\ \A v \in Workers : ~Handles(v, k)
  BY <1>c DEF OnceInv, InOnePlace, AtRest, Ticketed
<1>1. InOnePlace'
  <2>1. (\A i, n \in 1..Len(queue) : queue[i] = queue[n] => i = n)'
    BY <1>a, <1>b, <1>d, <1>e
  <2>2. SoleRunner'
    BY <1>h, <1>j DEF OnceInv, InOnePlace, SoleRunner
  <2>3. (\A j \in Jobs : \A v \in Workers : Handles(v, j) => ~Ticketed(j))'
    BY <1>g, <1>h, <1>i DEF OnceInv, InOnePlace
  <2> QED BY <1>b, <1>f, <1>g, <2>1, <2>2, <2>3 DEF OnceInv, InOnePlace, TypeOK, SharedTypeOK
<1>2. AtRest'
  <2>1. ASSUME NEW j \in Jobs, (status[j] \notin ActiveStatus \/ Chosen(j))'
        PROVE  ~Ticketed(j)' /\ \A v \in Workers : Handles(v, j)' => wpc'[v] \in Ended
    <3>1. j # k /\ ~Ticketed(j) /\ \A v \in Workers : Handles(v, j) => wpc[v] \in Ended
      BY <1>b, <1>g, <1>j, <2>1 DEF OnceInv, AtRest
    <3>2. \A v \in Workers : Handles(v, j)' => v # w /\ wpc'[v] \in Ended
      BY <1>a, <1>b, <1>h, <3>1 DEF Handles
    <3> QED BY <1>g, <3>1, <3>2
  <2>2. ASSUME NEW j \in Jobs, j > created
        PROVE  status'[j] = "absent" /\ ~Chosen(j)' /\ \A v \in Workers : ~Handles(v, j)'
    <3>1. status[j] = "absent" /\ ~Chosen(j) /\ \A v \in Workers : ~Handles(v, j)
      BY <2>2 DEF OnceInv, AtRest
    <3>2. j # k
      BY <1>j, <3>1 DEF ActiveStatus, RunningStatus
    <3> QED BY <1>b, <1>g, <1>h, <3>1, <3>2
  <2> QED BY <1>b, <2>1, <2>2 DEF AtRest
<1>3. Gone'
  BY <1>b DEF OnceInv, Gone
<1>4. (\A v \in Workers : wdying[v] => wpc[v] = "dead")'
  <2>1. \A v \in Workers : wdying[v] => wpc[v] = "dead"
    BY DEF OnceInv
  <2>2. \A v \in Workers : wdying[v] => v # w
    BY <1>b, <2>1
  <2>3. \A v \in Workers : v # w => wpc'[v] = wpc[v]
    BY <1>a, <1>b
  <2>4. wdying' = wdying
    BY <1>b
  <2> QED BY ONLY <2>1, <2>2, <2>3, <2>4, Zenon
<1>5. (\A v \in Workers : wpc[v] = "dead" => "mkdir" \in Faults)'
  BY <1>a, <1>b DEF OnceInv
<1> QED BY <1>b, <1>1, <1>2, <1>3, <1>4, <1>5 DEF OnceInv

\* The monitors write the status of rows that are there.
LEMMA MonitorKeepsOnce ==
  ASSUME TypeOK, OnceInv, NEW w \in Workers, MonitorStep(w)
  PROVE  OnceInv'
<1>a. UNCHANGED <<created, queue, todo, out, wpc, wjob, wdying, cpc, cjob, doomed, cleared>>
  BY DEF MonitorStep, Monitor, MonitorLoad, MonitorWrite, shared, disk, workerVars,
         clientVars
<1>b. ASSUME NEW j \in Jobs
      PROVE  status'[j] = status[j] \/ (status[j] # "absent" /\ status'[j] = "downloading")
  BY DEF TypeOK, SharedTypeOK, RunnerTypeOK, MonitorStep, Monitor, MonitorLoad, MonitorWrite,
         Flushed, shared
<1>c. \A j \in Jobs : /\ Ticketed(j)' <=> Ticketed(j)
                      /\ Chosen(j)' <=> Chosen(j)
                      /\ InQueue(j)' <=> InQueue(j)
                      /\ \A c \in Clients : Asks(c, j)' <=> Asks(c, j)
                      /\ \A v \in Workers : Handles(v, j)' <=> Handles(v, j)
  BY <1>a DEF Ticketed, InQueue, Chosen, Asks, Handles
<1>1. InOnePlace'
  BY <1>a, <1>c DEF OnceInv, InOnePlace, SoleRunner, TypeOK, SharedTypeOK
<1>2. AtRest'
  <2>1. \A j \in Jobs : (status[j] \notin ActiveStatus)' => status[j] \notin ActiveStatus
    BY <1>b DEF ActiveStatus, RunningStatus
  <2>2. \A j \in Jobs : status[j] = "absent" => status'[j] = "absent"
    BY <1>b
  <2> QED BY <1>a, <1>c, <2>1, <2>2 DEF OnceInv, AtRest
<1>3. Gone'
  BY <1>a, <1>b DEF OnceInv, Gone
<1> QED BY <1>a, <1>1, <1>2, <1>3 DEF OnceInv

\* Requests that add no ticket: what becomes deletable has none left.
LEMMA LetGoKeepsPlaces ==
  ASSUME TypeOK, OnceInv, UNCHANGED <<queue, todo, created, wpc, wjob>>,
         \A c \in Clients : \A j \in Jobs : Asks(c, j)' => Asks(c, j),
         \A j \in Jobs : (status[j] \notin ActiveStatus \/ Chosen(j))' =>
            \/ status[j] \notin ActiveStatus \/ Chosen(j)
            \/ ~Ticketed(j)' /\ \A w \in Workers : ~Handles(w, j),
         \A j \in Jobs : j > created =>
            status'[j] = status[j] /\ (Chosen(j)' => Chosen(j) \/ status[j] # "absent")
  PROVE  InOnePlace' /\ AtRest'
<1>1. \A j \in Jobs : /\ Ticketed(j)' => Ticketed(j)
                      /\ InQueue(j)' <=> InQueue(j)
                      /\ \A w \in Workers : Handles(w, j)' <=> Handles(w, j)
  BY DEF Ticketed, InQueue, Handles
<1>2. InOnePlace'
  BY <1>1 DEF OnceInv, InOnePlace, SoleRunner, TypeOK, SharedTypeOK
<1>3. ASSUME NEW j \in Jobs, (status[j] \notin ActiveStatus \/ Chosen(j))'
      PROVE  ~Ticketed(j)' /\ \A w \in Workers : Handles(w, j)' => wpc'[w] \in Ended
  BY <1>1, <1>3 DEF OnceInv, AtRest
<1>4. ASSUME NEW j \in Jobs, j > created
      PROVE  status'[j] = "absent" /\ ~Chosen(j)' /\ \A w \in Workers : ~Handles(w, j)'
  BY <1>1, <1>4 DEF OnceInv, AtRest
<1> QED BY <1>2, <1>3, <1>4 DEF AtRest

\* The tickets a request holds after its step, and what no request touches.
LEMMA RequestFrame ==
  ASSUME TypeOK, QuietInv, OnceInv, "resume" \notin Requests,
         NEW c \in Clients, RequestStep(c)
  PROVE  /\ UNCHANGED <<app, todo, workerVars, monitorVars>> /\ todo = {}
         /\ \A d \in Clients \ {c} : /\ cpc'[d] = cpc[d] /\ cjob'[d] = cjob[d]
                                     /\ doomed'[d] = doomed[d] /\ cleared'[d] = cleared[d]
         /\ cpc'[c] # "resume" /\ (cpc'[c] = "idle" => doomed'[c] = {})
<1>a. /\ cpc \in [Clients -> ClientPC] /\ cjob \in [Clients -> Jobs \cup {NoJob}]
      /\ doomed \in [Clients -> SUBSET Jobs] /\ cleared \in [Clients -> SUBSET Jobs]
      /\ app \in AppPhases
  BY DEF TypeOK, SharedTypeOK, ApiTypeOK
<1>b. cpc[c] # "resume" /\ (cpc[c] = "idle" => doomed[c] = {})
  BY DEF OnceInv
<1>1. /\ UNCHANGED <<app, todo, workerVars, monitorVars>>
      /\ app = "up" \/ cpc[c] # "idle"
  BY DEF RequestStep, BeginRequest, FinishStep, FinishRequest, Submit, ResumeBegin, PauseBegin,
         Begin, DeleteOne, ClearAll, DeleteBegin, ResumeCommit, Enqueue, Put, Reject,
         PauseCommit, RemoveFiles, DeleteCommit, WalkFails, DeleteFails, runnerVars, workerVars, monitorVars, shared
<1>2. todo = {}
  BY <1>1 DEF QuietInv
<1>3. CASE BeginRequest(c)
  BY <1>a, <1>b, <1>1, <1>2, <1>3
     DEF BeginRequest, Submit, ResumeBegin, PauseBegin, Begin, DeleteOne, ClearAll,
         DeleteBegin
<1>4. CASE FinishRequest(c) \/ Put(c) \/ WalkFails(c)
  BY <1>a, <1>b, <1>1, <1>2, <1>4
     DEF FinishRequest, ResumeCommit, Enqueue, Put, Reject, PauseCommit, RemoveFiles,
         DeleteCommit, WalkFails, DeleteFails, Answer
<1> QED BY <1>3, <1>4 DEF RequestStep, FinishStep

\* A new job has the one ticket its request holds.
LEMMA SubmitKeepsOnce ==
  ASSUME TypeOK, QuietInv, OnceInv, "resume" \notin Requests,
         NEW c \in Clients, RequestStep(c), Submit(c)
  PROVE  InOnePlace' /\ AtRest' /\ Gone'
<1> PICK n \in Jobs : n = created + 1
  BY JobStateAssumption DEF Submit, Jobs, TypeOK, SharedTypeOK
<1>a. /\ created \in Nat /\ cpc \in [Clients -> ClientPC]
      /\ cjob \in [Clients -> Jobs \cup {NoJob}] /\ status \in [Jobs -> RowStatus]
  BY DEF TypeOK, SharedTypeOK, ApiTypeOK
<1>b. /\ created' = n /\ status' = [status EXCEPT ![n] = "queued"] /\ cpc[c] = "idle"
      /\ cpc' = [cpc EXCEPT ![c] = "enqueue"] /\ cjob' = [cjob EXCEPT ![c] = n]
      /\ UNCHANGED <<queue, out, todo, doomed, cleared, wpc, wjob>>
  BY RequestFrame DEF Submit, disk, workerVars
<1>c. /\ status[n] = "absent" /\ ~Chosen(n) /\ ~Ticketed(n)
      /\ \A w \in Workers : ~Handles(w, n)
  BY <1>a DEF OnceInv, AtRest, ActiveStatus, RunningStatus
<1>d. \A j \in Jobs : /\ InQueue(j)' <=> InQueue(j)
                      /\ Chosen(j)' <=> Chosen(j)
                      /\ \A w \in Workers : Handles(w, j)' <=> Handles(w, j)
  BY <1>b DEF InQueue, Chosen, Handles
<1>e. \A j \in Jobs : \A d \in Clients :
         Asks(d, j)' => (Asks(d, j) /\ d # c) \/ (d = c /\ j = n)
  BY <1>a, <1>b DEF Asks
<1>f. \A j \in Jobs : j # n => (Ticketed(j)' => Ticketed(j))
  BY <1>b, <1>d, <1>e DEF Ticketed
<1>1. InOnePlace'
  <2>1. (\A j \in Jobs : \A d, e \in Clients : Asks(d, j) /\ Asks(e, j) => d = e)'
    BY <1>c, <1>e DEF OnceInv, InOnePlace, Ticketed
  <2>2. (\A j \in Jobs : \A d \in Clients : Asks(d, j) => ~InQueue(j))'
    BY <1>c, <1>d, <1>e DEF OnceInv, InOnePlace, Ticketed
  <2>3. (\A j \in Jobs : \A w \in Workers : Handles(w, j) => ~Ticketed(j))'
    BY <1>c, <1>d, <1>f DEF OnceInv, InOnePlace
  <2>4. SoleRunner'
    BY <1>d DEF OnceInv, InOnePlace, SoleRunner
  <2>5. (\A j \in todo : ~InQueue(j))'
    BY <1>b, RequestFrame
  <2> QED BY <1>b, <2>1, <2>2, <2>3, <2>4, <2>5 DEF OnceInv, InOnePlace
<1>2. AtRest'
  <2>1. ASSUME NEW j \in Jobs, (status[j] \notin ActiveStatus \/ Chosen(j))'
        PROVE  ~Ticketed(j)' /\ \A w \in Workers : Handles(w, j)' => wpc'[w] \in Ended
    <3>1. j # n
      BY <1>a, <1>b, <1>c, <1>d, <2>1 DEF ActiveStatus
    <3>2. status[j] \notin ActiveStatus \/ Chosen(j)
      BY <1>a, <1>b, <1>d, <2>1, <3>1
    <3> QED BY <1>b, <1>d, <1>f, <3>1, <3>2 DEF OnceInv, AtRest
  <2>2. ASSUME NEW j \in Jobs, j > n
        PROVE  status'[j] = "absent" /\ ~Chosen(j)' /\ \A w \in Workers : ~Handles(w, j)'
    <3>1. j > created /\ j # n
      BY <1>a, <2>2 DEF Jobs
    <3> QED BY <1>a, <1>b, <1>d, <3>1 DEF OnceInv, AtRest
  <2> QED BY <1>b, <2>1, <2>2 DEF AtRest
<1>3. Gone'
  BY <1>a, <1>b DEF OnceInv, Gone
<1> QED BY <1>1, <1>2, <1>3

\* The ticket moves from the request to the queue.
LEMMA AppendKeepsOnce ==
  ASSUME TypeOK, QuietInv, OnceInv, "resume" \notin Requests,
         NEW c \in Clients, RequestStep(c), cpc[c] = "put",
         queue' = Append(queue, cjob[c]), Answer(c),
         UNCHANGED <<status, created, out>>
  PROVE  InOnePlace' /\ AtRest' /\ Gone'
<1> PICK k \in Jobs : k = cjob[c]
  BY DEF TypeOK, ApiTypeOK
<1>a. /\ queue \in Seq(Jobs) /\ cpc \in [Clients -> ClientPC]
      /\ cjob \in [Clients -> Jobs \cup {NoJob}]
      /\ doomed \in [Clients -> SUBSET Jobs] /\ cleared \in [Clients -> SUBSET Jobs]
  BY DEF TypeOK, SharedTypeOK, ApiTypeOK
<1>b. /\ cpc'[c] = "idle" /\ doomed'[c] = {} /\ cleared'[c] = {}
      /\ \A d \in Clients : d # c => /\ cpc'[d] = cpc[d] /\ cjob'[d] = cjob[d]
                                     /\ doomed'[d] = doomed[d] /\ cleared'[d] = cleared[d]
  BY <1>a DEF Answer
<1>c. UNCHANGED <<wpc, wjob, todo>> /\ todo = {}
  BY RequestFrame DEF workerVars
<1>d. Asks(c, k)
  BY DEF Asks
<1>e. /\ ~InQueue(k) /\ Ticketed(k) /\ \A d \in Clients : Asks(d, k) => d = c
      /\ \A w \in Workers : ~Handles(w, k)
      /\ status[k] \in ActiveStatus /\ ~Chosen(k)
  BY <1>d DEF OnceInv, InOnePlace, AtRest, Ticketed
<1>f. \A i \in 1..Len(queue') : \/ i \in 1..Len(queue) /\ queue'[i] = queue[i]
                                \/ i = Len(queue) + 1 /\ queue'[i] = k
  BY <1>a
<1>g. \A j \in Jobs : InQueue(j)' => InQueue(j) \/ j = k
  BY <1>f DEF InQueue
<1>h. \A j \in Jobs : /\ Chosen(j)' => Chosen(j)
                      /\ \A w \in Workers : Handles(w, j)' <=> Handles(w, j)
                      /\ \A d \in Clients : Asks(d, j)' => Asks(d, j) /\ d # c
  BY <1>b, <1>c DEF Chosen, Asks, Handles
<1>i. \A j \in Jobs : Ticketed(j)' => Ticketed(j)
  BY <1>c, <1>e, <1>g, <1>h DEF Ticketed
<1>1. InOnePlace'
  <2>1. (\A i, n \in 1..Len(queue) : queue[i] = queue[n] => i = n)'
    <3>1. \A i \in 1..Len(queue) : queue[i] # k
      BY <1>e DEF InQueue
    <3> QED BY <1>a, <1>f, <3>1 DEF OnceInv, InOnePlace
  <2>2. (\A j \in Jobs : \A d \in Clients : Asks(d, j) => ~InQueue(j))'
    BY <1>e, <1>g, <1>h DEF OnceInv, InOnePlace
  <2>3. (\A j \in Jobs : \A d, e \in Clients : Asks(d, j) /\ Asks(e, j) => d = e)'
    BY <1>h DEF OnceInv, InOnePlace
  <2>4. SoleRunner' /\ (\A j \in Jobs : \A w \in Workers : Handles(w, j) => ~Ticketed(j))'
    BY <1>h, <1>i DEF OnceInv, InOnePlace, SoleRunner
  <2> QED BY <1>c, <2>1, <2>2, <2>3, <2>4 DEF InOnePlace
<1>2. AtRest'
  BY <1>c, <1>h, <1>i DEF OnceInv, AtRest
<1>3. Gone'
  BY <1>b DEF OnceInv, Gone
<1> QED BY <1>1, <1>2, <1>3

LEMMA RequestKeepsOnce ==
  ASSUME TypeOK, QuietInv, OnceInv, "resume" \notin Requests,
         NEW c \in Clients, RequestStep(c)
  PROVE  OnceInv'
<1>a. /\ status \in [Jobs -> RowStatus] /\ out \in [Jobs -> OutStates]
      /\ created \in 0..MaxJobs
      /\ cpc \in [Clients -> ClientPC] /\ cjob \in [Clients -> Jobs \cup {NoJob}]
      /\ doomed \in [Clients -> SUBSET Jobs] /\ cleared \in [Clients -> SUBSET Jobs]
      /\ \A d \in Clients : cpc[d] \notin {"idle", "delete"} => cjob[d] \in Jobs
  BY DEF TypeOK, SharedTypeOK, ApiTypeOK
<1>b. UNCHANGED <<wpc, wjob, wdying, todo>>
  BY RequestFrame DEF workerVars
<1> SUFFICES InOnePlace' /\ AtRest' /\ Gone'
  <2>1. (\A d \in Clients : cpc[d] # "resume" /\ (cpc[d] = "idle" => doomed[d] = {}))'
    BY RequestFrame DEF OnceInv
  <2>2. /\ (\A w \in Workers : wdying[w] => wpc[w] = "dead")'
        /\ (\A w \in Workers : wpc[w] = "dead" => "mkdir" \in Faults)'
    BY <1>b DEF OnceInv
  <2> QED BY <2>1, <2>2 DEF OnceInv
<1>c. Asks(c, cjob[c]) /\ cjob[c] \in Jobs =>
         /\ status[cjob[c]] \in ActiveStatus /\ \A w \in Workers : ~Handles(w, cjob[c])
         /\ ~InQueue(cjob[c]) /\ cjob[c] \notin todo
         /\ \A d \in Clients : Asks(d, cjob[c]) => d = c
  BY RequestFrame DEF OnceInv, InOnePlace, AtRest, Ticketed
<1> USE SMTT(30)
<1>1. CASE Submit(c)
  BY <1>1, SubmitKeepsOnce
<1>2. ASSUME NEW j \in Jobs, PauseBegin(c, j) PROVE InOnePlace' /\ AtRest' /\ Gone'
  <2>1. /\ UNCHANGED <<status, out, created, queue, doomed, cleared>>
        /\ cpc' = [cpc EXCEPT ![c] = "pause"]
    BY <1>2 DEF PauseBegin, Begin, shared, rows, disk
  <2>2. \A d \in Clients : \A i \in Jobs : Asks(d, i)' => Asks(d, i)
    BY <1>a, <2>1, RequestFrame DEF Asks
  <2>3. InOnePlace' /\ AtRest'
    BY <1>b, <2>1, <2>2, LetGoKeepsPlaces DEF Chosen
  <2> QED BY <2>1, <2>3 DEF OnceInv, Gone
<1>3. ASSUME NEW chosen \in SUBSET Inactive, DeleteBegin(c, chosen)
      PROVE  InOnePlace' /\ AtRest' /\ Gone'
  <2>1. /\ UNCHANGED <<status, out, created, queue, cleared>>
        /\ cpc' = [cpc EXCEPT ![c] = "delete"] /\ cpc[c] = "idle"
        /\ doomed' = [doomed EXCEPT ![c] = chosen]
    BY <1>3 DEF DeleteBegin, shared, rows, disk
  <2>2. \A d \in Clients : \A i \in Jobs : Asks(d, i)' => Asks(d, i)
    BY <1>a, <2>1, RequestFrame DEF Asks
  <2>3. \A i \in Jobs : Chosen(i)' =>
           Chosen(i) \/ (status[i] \notin ActiveStatus /\ status[i] # "absent")
    BY <1>a, <2>1 DEF Chosen, Inactive
  <2>4. InOnePlace' /\ AtRest'
    BY <1>b, <2>1, <2>2, <2>3, LetGoKeepsPlaces
  <2>5. doomed[c] = {} /\ cleared[c] = {}
    BY <2>1 DEF OnceInv, Gone
  <2>6. Gone'
    BY <1>a, <2>1, <2>5 DEF OnceInv, Gone
  <2> QED BY <2>4, <2>6
<1>4. CASE Enqueue(c)
  <2>1. cjob[c] \in Jobs /\ status[cjob[c]] # "absent" /\ cpc[c] = "enqueue"
    BY <1>4, <1>a, <1>c DEF Enqueue, Asks, ActiveStatus, RunningStatus
  <2>2. /\ UNCHANGED <<status, out, created, queue, cjob, doomed, cleared>>
        /\ \/ cpc' = [cpc EXCEPT ![c] = "put"]
           \/ cpc' = [cpc EXCEPT ![c] = "reject"]
    BY <1>4, <2>1 DEF Enqueue, shared, rows, disk
  <2>3. \A d \in Clients : \A i \in Jobs : Asks(d, i)' => Asks(d, i)
    BY <1>a, <2>1, <2>2 DEF Asks
  <2>4. InOnePlace' /\ AtRest'
    BY <1>b, <2>2, <2>3, LetGoKeepsPlaces DEF Chosen
  <2> QED BY <2>2, <2>4 DEF OnceInv, Gone
<1>5. CASE Reject(c) \/ PauseCommit(c)
  <2>1. /\ UNCHANGED <<out, created, queue>> /\ Answer(c) /\ cjob[c] \in Jobs
        /\ \/ status' = status
           \/ cpc[c] = "reject" /\ status' = [status EXCEPT ![cjob[c]] = "failed"]
           \/ status' = [status EXCEPT ![cjob[c]] = "paused"]
        /\ status' # status => status[cjob[c]] # "absent"
    BY <1>5, <1>a DEF Reject, PauseCommit, Flushed, disk
  <2>2. \A d \in Clients : \A i \in Jobs : Asks(d, i)' => Asks(d, i) /\ d # c
    BY <1>a, <2>1 DEF Asks, Answer
  <2>3. \A i \in Jobs : Chosen(i)' => Chosen(i)
    BY <1>a, <2>1 DEF Chosen, Answer
  <2>4. ASSUME NEW i \in Jobs, status'[i] \notin ActiveStatus, status[i] \in ActiveStatus
        PROVE  ~Ticketed(i)' /\ \A w \in Workers : ~Handles(w, i)
    <3>1. i = cjob[c] /\ Asks(c, i)
      BY <1>a, <2>1, <2>4 DEF Asks, ActiveStatus
    <3>2. ~Ticketed(i)'
      BY <1>b, <1>c, <2>1, <2>2, <3>1 DEF Ticketed, InQueue
    <3> QED BY <1>c, <3>1, <3>2
  <2>5. \A i \in Jobs : i > created => status[i] = "absent"
    BY DEF OnceInv, AtRest
  <2>6. \A i \in Jobs : /\ status[i] = "absent" => status'[i] = status[i]
                        /\ status'[i] = "absent" => status[i] = "absent"
    BY <1>a, <2>1
  <2>7. InOnePlace' /\ AtRest'
    BY <1>b, <2>1, <2>2, <2>3, <2>4, <2>5, <2>6, LetGoKeepsPlaces
  <2>8. Gone'
    BY <1>a, <2>1, <2>6 DEF OnceInv, Gone, Answer
  <2> QED BY <2>7, <2>8
<1>6. ASSUME NEW j \in Jobs, RemoveFiles(c, j) PROVE InOnePlace' /\ AtRest' /\ Gone'
  <2>1. /\ UNCHANGED <<status, created, queue, cpc, cjob, doomed>> /\ j \in doomed[c]
        /\ out' = [out EXCEPT ![j] = "none"]
        /\ cleared' = [cleared EXCEPT ![c] = @ \cup {j}]
    BY <1>6 DEF RemoveFiles, rows
  <2>2. InOnePlace' /\ AtRest'
    BY <1>b, <2>1, LetGoKeepsPlaces DEF Chosen, Asks
  <2>3. Gone'
    BY <1>a, <2>1 DEF OnceInv, Gone
  <2> QED BY <2>2, <2>3
<1>7. CASE DeleteCommit(c)
  <2>1. /\ UNCHANGED <<out, created, queue>> /\ Answer(c) /\ cleared[c] = doomed[c]
        /\ \A i \in Jobs : status'[i] = IF i \in doomed[c] THEN "absent" ELSE status[i]
    BY <1>7 DEF DeleteCommit, disk
  <2>2. \A d \in Clients : \A i \in Jobs : Asks(d, i)' => Asks(d, i)
    BY <1>a, <2>1 DEF Asks, Answer
  <2>3. \A i \in Jobs : /\ Chosen(i)' => Chosen(i)
                        /\ i \in doomed[c] => Chosen(i)
    BY <1>a, <2>1 DEF Chosen, Answer
  <2>4. \A i \in Jobs : i > created => ~Chosen(i)
    BY DEF OnceInv, AtRest
  <2>5. InOnePlace' /\ AtRest'
    BY <1>b, <2>1, <2>2, <2>3, <2>4, LetGoKeepsPlaces
  <2>6. Gone'
    BY <1>a, <2>1 DEF OnceInv, Gone, Answer
  <2> QED BY <2>5, <2>6
<1>8. CASE Put(c)
  <2>1. /\ queue' = Append(queue, cjob[c]) /\ Answer(c) /\ cpc[c] = "put"
        /\ UNCHANGED <<status, created, out>>
    BY <1>8 DEF Put, rows, disk
  <2> QED BY <2>1, AppendKeepsOnce
<1>10. CASE WalkFails(c)
  <2>1. /\ UNCHANGED <<status, created, queue, out>> /\ Answer(c) /\ cpc[c] = "delete"
    BY <1>10 DEF WalkFails, DeleteFails, shared, rows, disk
  <2>2. \A d \in Clients : \A i \in Jobs : Asks(d, i)' => Asks(d, i)
    BY <1>a, <2>1 DEF Asks, Answer
  <2>3. \A i \in Jobs : Chosen(i)' => Chosen(i)
    BY <1>a, <2>1 DEF Chosen, Answer
  <2>4. InOnePlace' /\ AtRest'
    BY <1>b, <2>1, <2>2, <2>3, LetGoKeepsPlaces
  <2>5. Gone'
    BY <1>a, <2>1 DEF OnceInv, Gone, Answer
  <2> QED BY <2>4, <2>5
<1>9. \/ Submit(c) \/ Enqueue(c) \/ Put(c) \/ Reject(c) \/ PauseCommit(c) \/ DeleteCommit(c)
      \/ WalkFails(c)
      \/ \E j \in Jobs : PauseBegin(c, j) \/ RemoveFiles(c, j)
      \/ \E chosen \in SUBSET Inactive : DeleteBegin(c, chosen)
  <2>1. ~ResumeCommit(c) /\ \A j \in Jobs : ~ResumeBegin(c, j)
    BY DEF ResumeCommit, ResumeBegin, Begin, OnceInv
  <2>2. ASSUME NEW j \in Jobs, DeleteOne(c, j)
        PROVE  \E chosen \in SUBSET Inactive : DeleteBegin(c, chosen)
    <3>1. {j} \in SUBSET Inactive /\ DeleteBegin(c, {j})
      BY <2>2 DEF DeleteOne
    <3> QED BY <3>1
  <2>3. ClearAll(c) => \E chosen \in SUBSET Inactive : DeleteBegin(c, chosen)
    BY Inactive \in SUBSET Inactive DEF ClearAll
  <2> QED BY <2>1, <2>2, <2>3 DEF RequestStep, BeginRequest, FinishStep, FinishRequest
<1> QED BY <1>1, <1>2, <1>3, <1>4, <1>5, <1>6, <1>7, <1>8, <1>9, <1>10

\* Before the server is up nothing runs, and no job is listed that is queued already.
LEMMA LifecycleKeepsOnce ==
  ASSUME TypeOK, QuietInv, OnceInv, StartUp \/ ProcessEnd
  PROVE  OnceInv'
<1>a. /\ status \in [Jobs -> RowStatus] /\ queue \in Seq(Jobs) /\ todo \subseteq Jobs
      /\ created \in 0..MaxJobs
  BY DEF TypeOK, SharedTypeOK
<1>1. CASE Start /\ UNCHANGED clientVars
  <2>1. /\ UNCHANGED <<created, queue, out, wpc, wjob, wdying, clientVars>>
        /\ \A j \in Jobs : status'[j] = IF status[j] \in RunningStatus
                                        THEN "interrupted" ELSE status[j]
        /\ todo' = {j \in Jobs : status[j] = "queued"}
    BY <1>1 DEF Start, disk, runnerVars
  <2>2. /\ queue = <<>> /\ \A w \in Workers : wpc[w] = "idle"
        /\ \A c \in Clients : cpc[c] = "idle" /\ doomed[c] = {}
    BY <1>1 DEF Start, QuietInv, OnceInv
  <2>3. \A j \in Jobs : /\ ~InQueue(j)' /\ ~Chosen(j)'
                        /\ \A c \in Clients : ~Asks(c, j)'
                        /\ \A w \in Workers : ~Handles(w, j)'
    BY <2>1, <2>2 DEF InQueue, Chosen, Asks, Handles, clientVars
  <2>4. InOnePlace'
    BY <1>a, <2>1, <2>2, <2>3 DEF InOnePlace, SoleRunner
  <2>5. \A j \in Jobs : Ticketed(j)' => status'[j] \in ActiveStatus
    BY <2>1, <2>3 DEF Ticketed, ActiveStatus, RunningStatus
  <2>6. \A j \in Jobs : status'[j] = "absent" <=> status[j] = "absent"
    BY <2>1 DEF RunningStatus
  <2>7. AtRest'
    BY <2>1, <2>3, <2>5, <2>6 DEF OnceInv, AtRest
  <2>8. Gone'
    BY <2>1, <2>6 DEF OnceInv, Gone, clientVars
  <2> QED BY <2>1, <2>4, <2>7, <2>8 DEF OnceInv, clientVars
<1>2. CASE Recover /\ UNCHANGED clientVars
  <2> PICK k \in Jobs : /\ k \in todo /\ todo' = todo \ {k}
                        /\ IF HasRoom
                           THEN queue' = Append(queue, k) /\ UNCHANGED status
                           ELSE /\ status' = [status EXCEPT ![k] = "failed"]
                                /\ UNCHANGED queue
    BY <1>2 DEF Recover, Oldest
  <2>1. /\ UNCHANGED <<created, out, wpc, wjob, wdying, clientVars>>
        /\ \A w \in Workers : wpc[w] = "idle"
        /\ \A c \in Clients : cpc[c] = "idle" /\ doomed[c] = {}
        /\ status[k] = "queued" /\ ~InQueue(k)
    BY <1>2 DEF Recover, QuietInv, OnceInv, InOnePlace, runnerVars, disk
  <2>2. \A j \in Jobs : /\ ~Chosen(j)'
                        /\ \A c \in Clients : ~Asks(c, j)'
                        /\ \A w \in Workers : ~Handles(w, j)'
    BY <2>1 DEF Chosen, Asks, Handles, clientVars
  <2>3. \A i \in 1..Len(queue') : \/ i \in 1..Len(queue) /\ queue'[i] = queue[i]
                                  \/ i = Len(queue) + 1 /\ queue'[i] = k /\ HasRoom
    BY <1>a
  <2>4. \A j \in Jobs : InQueue(j)' => InQueue(j) \/ (j = k /\ HasRoom)
    BY <2>3 DEF InQueue
  <2>5. InOnePlace'
    <3>1. (\A i, n \in 1..Len(queue) : queue[i] = queue[n] => i = n)'
      <4>1. \A i \in 1..Len(queue) : queue[i] # k
        BY <2>1 DEF InQueue
      <4> QED BY <1>a, <2>3, <4>1 DEF OnceInv, InOnePlace
    <3>2. (\A j \in todo : ~InQueue(j))'
      BY <1>a, <2>4 DEF OnceInv, InOnePlace
    <3> QED BY <2>2, <3>1, <3>2 DEF InOnePlace, SoleRunner
  <2>6. \A j \in Jobs : Ticketed(j)' => Ticketed(j) /\ status'[j] = status[j]
    <3>1. ASSUME NEW j \in Jobs, Ticketed(j)' PROVE InQueue(j)' \/ j \in todo'
      BY <2>2, <3>1 DEF Ticketed
    <3>2. ASSUME NEW j \in Jobs, Ticketed(j)' PROVE Ticketed(j)
      BY <2>4, <3>1, <3>2 DEF Ticketed
    <3>3. ASSUME NEW j \in Jobs, Ticketed(j)' PROVE j # k \/ HasRoom
      BY <2>1, <2>4, <3>1, <3>3
    <3> QED BY <1>a, <3>2, <3>3
  <2>7. \A j \in Jobs : status'[j] = "absent" <=> status[j] = "absent"
    BY <1>a, <2>1
  <2>8. AtRest'
    BY <2>1, <2>2, <2>6, <2>7 DEF OnceInv, AtRest
  <2>9. Gone'
    BY <2>1, <2>7 DEF OnceInv, Gone, clientVars
  <2> QED BY <2>1, <2>5, <2>8, <2>9 DEF OnceInv, clientVars
<1>3. CASE (Serve \/ ShutDown) /\ UNCHANGED clientVars
  <2>1. UNCHANGED <<rows, queue, disk, todo, runnerVars, clientVars>>
    BY <1>3 DEF Serve, ShutDown, Stop
  <2> QED
    BY <2>1 DEF OnceInv, InOnePlace, AtRest, Gone, SoleRunner, Handles, Ticketed, InQueue,
                Asks, Chosen, rows, disk, runnerVars, clientVars
<1>4. CASE (Exit \/ Crash) /\ ApiReset
  <2>1. /\ UNCHANGED <<status, created, out>> /\ queue' = <<>> /\ todo' = {}
        /\ \A w \in Workers : wpc'[w] = "idle" /\ wdying'[w] = FALSE
        /\ \A c \in Clients : cpc'[c] = "idle" /\ doomed'[c] = {} /\ cleared'[c] = {}
    BY <1>4 DEF Exit, Crash, EndProcess, RunnerReset, ApiReset, rows, disk
  <2>2. \A j \in Jobs : /\ ~Ticketed(j)' /\ ~InQueue(j)' /\ ~Chosen(j)'
                        /\ \A c \in Clients : ~Asks(c, j)'
                        /\ \A w \in Workers : ~Handles(w, j)'
    BY <2>1 DEF Ticketed, InQueue, Chosen, Asks, Handles
  <2>3. InOnePlace'
    BY <2>1, <2>2 DEF InOnePlace, SoleRunner
  <2>4. AtRest' /\ Gone'
    BY <2>1, <2>2 DEF OnceInv, AtRest, Gone
  <2> QED BY <2>1, <2>3, <2>4 DEF OnceInv
<1> QED
  BY <1>1, <1>2, <1>3, <1>4 DEF StartUp, ProcessEnd

LEMMA AlwaysOnce ==
  ASSUME "resume" \notin Requests
  PROVE  Spec => []OnceInv
<1>1. Init => OnceInv
  BY DEF Init, SharedInit, RunnerInit, ApiInit, OnceInv, InOnePlace, AtRest, Gone,
         SoleRunner, Handles, Ticketed, InQueue, Asks, Chosen
<1>2. TypeOK /\ QuietInv /\ OnceInv /\ [Next]_vars => OnceInv'
  <2> SUFFICES ASSUME TypeOK, QuietInv, OnceInv, [Next]_vars PROVE OnceInv'
    OBVIOUS
  <2>1. ASSUME NEW w \in Workers, WorkerStep(w) PROVE OnceInv'
    BY <2>1, TakeKeepsOnce, RunHasOnceEffect, OnceEffectKeeps DEF WorkerStep
  <2>2. CASE Next
    BY <2>1, <2>2, MonitorKeepsOnce, RequestKeepsOnce, LifecycleKeepsOnce DEF Next
  <2>3. CASE UNCHANGED vars
    BY <2>3 DEF vars, shared, rows, disk, runnerVars, clientVars, OnceInv, InOnePlace,
                AtRest, Gone, SoleRunner, Handles, Ticketed, InQueue, Asks, Chosen
  <2> QED BY <2>2, <2>3
<1> QED BY <1>1, <1>2, TypeCorrect, AlwaysQuiet, PTL DEF Spec

\* Without resume requests no job is run by two workers at once: a ticket is never
\* doubled by submission, recovery or a pause that comes while the job waits.
THEOREM OneRunEach ==
  ASSUME "resume" \notin Requests
  PROVE  Spec => []SoleRunner
<1>1. OnceInv => SoleRunner
  BY DEF OnceInv, InOnePlace
<1> QED BY <1>1, AlwaysOnce, PTL

\* Without resume requests, and as long as directories can be made, no worker task
\* ends before the process: no commit of a run finds its row deleted.
THEOREM NobodyDies ==
  ASSUME "resume" \notin Requests, "mkdir" \notin Faults
  PROVE  Spec => []WorkersSurvive
<1>1. OnceInv => WorkersSurvive
  BY DEF OnceInv, WorkersSurvive
<1> QED BY <1>1, AlwaysOnce, PTL

\* Only a run that is not over writes to a temporary directory.
LEMMA TempWriters ==
  ASSUME TypeOK, Next, NEW j \in Jobs, temp[j] = "none", temp'[j] # "none"
  PROVE  \E w \in Workers : Handles(w, j) /\ wpc[w] \notin Ended
<1>a. temp \in [Jobs -> TempStates]
  BY DEF TypeOK, SharedTypeOK
<1> USE <1>a, SMTT(30) DEF shared, rows, disk
<1>1. ASSUME NEW w \in Workers, WorkerStep(w) \/ MonitorStep(w)
      PROVE  Handles(w, j) /\ wpc[w] \notin Ended
  <2>1. CASE ClearFailed(w) \/ Remove(w)
    BY <2>1 DEF ClearFailed, Remove, RemoveTemp
  <2>2. CASE \E new \in {"downloading", "processing"} : ReportFetch(w, new)
    BY <2>2 DEF ReportFetch, Handles, Ended
  <2>3. CASE Prepare(w)
    BY <2>3 DEF Prepare, At, Handles, Ended
  <2>4. CASE Download(w)
    BY <2>4 DEF Download, At, Handles, Ended
  <2>5. CASE FetchReturns(w)
    BY <2>5 DEF FetchReturns, At, Handles, Ended
  <2>6. CASE MoveFile(w)
    BY <2>6 DEF MoveFile, At, Handles, Ended
  <2> QED BY <1>1, <2>1, <2>2, <2>3, <2>4, <2>5, <2>6
             DEF WorkerStep, MonitorStep, Monitor, MonitorLoad, MonitorWrite, Run, Take, LoadJob,
                 Claim, SaveProgress, FetchFails, CheckPaused, ReportLast, SaveLast, PublishFile,
                 Reload, Complete, WriteFailed, LoadToPause, WritePaused, JoinMonitor, Preserve
<1>2. ASSUME NEW c \in Clients, RequestStep(c) PROVE FALSE
  <2>1. BeginRequest(c) => temp' = temp
    BY DEF BeginRequest, Submit, ResumeBegin, PauseBegin, Begin, DeleteOne, ClearAll, DeleteBegin
  <2>2. FinishRequest(c) => temp' = temp \/ \E i \in Jobs : RemoveFiles(c, i)
    <3>1. ResumeCommit(c) => temp' = temp
      BY DEF ResumeCommit
    <3>2. Enqueue(c) => temp' = temp
      BY DEF Enqueue
    <3>3. Reject(c) => temp' = temp
      BY DEF Reject
    <3>4. PauseCommit(c) => temp' = temp
      BY DEF PauseCommit
    <3>5. DeleteCommit(c) => temp' = temp
      BY DEF DeleteCommit
    <3> QED BY <3>1, <3>2, <3>3, <3>4, <3>5 DEF FinishRequest
  <2>3. ASSUME NEW i \in Jobs, RemoveFiles(c, i) PROVE FALSE
    BY <2>3 DEF RemoveFiles
  <2>4. Put(c) \/ WalkFails(c) => temp' = temp
    BY DEF Put, WalkFails, DeleteFails
  <2> QED BY <1>2, <2>1, <2>2, <2>3, <2>4 DEF RequestStep, FinishStep
<1>3. CASE StartUp \/ ProcessEnd
  BY <1>3 DEF StartUp, Start, Recover, Serve, ProcessEnd, ShutDown, Stop, Exit, Crash, EndProcess
<1> QED BY <1>1, <1>2, <1>3 DEF Next

\* The temporary directory of a deleted job is gone, and so is that of a job whose
\* files a request has removed.
TempGone ==
    /\ \A j \in Jobs : status[j] = "absent" => temp[j] = "none"
    /\ \A c \in Clients : \A j \in cleared[c] : temp[j] = "none"

\* A row is only deleted by a request that removed its files, and the request says so
\* in the step that removes them.
LEMMA RowDeleters ==
  ASSUME TypeOK, OnceInv, Next
  PROVE  /\ \A j \in Jobs : status'[j] = "absent" =>
               status[j] = "absent" \/ \E c \in Clients : j \in cleared[c]
         /\ \A c \in Clients : \A j \in cleared'[c] : j \in cleared[c] \/ temp'[j] = "none"
<1>a. /\ status \in [Jobs -> RowStatus] /\ temp \in [Jobs -> TempStates]
      /\ cjob \in [Clients -> Jobs \cup {NoJob}]
      /\ cleared \in [Clients -> SUBSET Jobs] /\ doomed \in [Clients -> SUBSET Jobs]
  BY DEF TypeOK, SharedTypeOK, ApiTypeOK
<1>1. ASSUME NEW w \in Workers, WorkerStep(w)
      PROVE  /\ \A j \in Jobs : status'[j] = "absent" => status[j] = "absent"
             /\ cleared' = cleared
  <2>1. CASE Take(w)
    BY <1>1, <2>1 DEF WorkerStep, Take, shared, rows, clientVars
  <2>2. CASE Run(w) /\ UNCHANGED clientVars
    BY <2>2, RunHasOnceEffect DEF OnceEffect, ActiveStatus, RunningStatus, clientVars
  <2> QED BY <1>1, <2>1, <2>2 DEF WorkerStep
<1>2. ASSUME NEW w \in Workers, MonitorStep(w)
      PROVE  /\ \A j \in Jobs : status'[j] = "absent" => status[j] = "absent"
             /\ cleared' = cleared
  BY <1>2, <1>a DEF RunnerTypeOK, TypeOK, MonitorStep, Monitor, MonitorLoad, MonitorWrite,
                    Flushed, shared, rows, clientVars
<1>3. ASSUME NEW c \in Clients, RequestStep(c)
      PROVE  /\ \A j \in Jobs : status'[j] = "absent" =>
                   status[j] = "absent" \/ j \in cleared[c]
             /\ \A d \in Clients : \A j \in cleared'[d] : j \in cleared[d] \/ temp'[j] = "none"
  <2>1. CASE BeginRequest(c)
    <3>1. CASE Submit(c)
      BY <1>a, <3>1 DEF Submit
    <3>2. CASE ~Submit(c)
      BY <2>1, <3>2 DEF BeginRequest, ResumeBegin, PauseBegin, Begin, DeleteOne, ClearAll,
                        DeleteBegin, shared, rows
    <3> QED BY <3>1, <3>2
  <2>2. CASE ResumeCommit(c) \/ Enqueue(c) \/ Reject(c) \/ PauseCommit(c)
    <3>1. /\ \A j \in Jobs : status'[j] = "absent" => status[j] = "absent"
          /\ cleared' = cleared \/ Answer(c)
      BY <1>a, <2>2 DEF ResumeCommit, Enqueue, Reject, PauseCommit, Flushed, shared, rows
    <3> QED BY <1>a, <3>1 DEF Answer
  <2>3. ASSUME NEW j \in Jobs, RemoveFiles(c, j)
        PROVE  /\ status' = status
               /\ \A d \in Clients : \A i \in cleared'[d] : i \in cleared[d] \/ temp'[i] = "none"
    BY <1>a, <2>3 DEF RemoveFiles, rows
  <2>4. CASE DeleteCommit(c)
    BY <1>a, <2>4 DEF DeleteCommit, Answer
  <2>5. CASE Put(c) \/ WalkFails(c)
    BY <1>a, <2>5 DEF Put, WalkFails, DeleteFails, Answer, shared, rows
  <2> QED BY <1>3, <2>1, <2>2, <2>3, <2>4, <2>5 DEF RequestStep, FinishStep, FinishRequest
<1>4. CASE StartUp
  BY <1>a, <1>4 DEF StartUp, Start, Recover, Serve, rows, clientVars
<1>5. CASE ProcessEnd
  BY <1>a, <1>5 DEF ProcessEnd, ShutDown, Stop, Exit, Crash, EndProcess, ApiReset, rows, clientVars
<1> QED BY <1>1, <1>2, <1>3, <1>4, <1>5 DEF Next

\* Without resume requests nothing is left of a deleted job, neither its output nor its
\* temporary directory, whatever pauses, crashes, late monitors and late clean-up there
\* were.
THEOREM DeletedIsGone ==
  ASSUME "resume" \notin Requests
  PROVE  Spec => []DeletedLeavesNothing
<1>1. Init => TempGone
  BY DEF Init, SharedInit, ApiInit, TempGone
<1>2. ASSUME TypeOK, TypeOK', OnceInv, TempGone, Next PROVE TempGone'
  <2>1. ASSUME NEW j \in Jobs, status[j] = "absent" \/ Chosen(j), temp[j] = "none"
        PROVE  temp'[j] = "none"
    <3>1. \A w \in Workers : Handles(w, j) => wpc[w] \in Ended
      BY <1>2, <2>1 DEF OnceInv, AtRest, ActiveStatus, RunningStatus
    <3> QED BY <1>2, <2>1, <3>1, TempWriters
  <2>2. ASSUME NEW c \in Clients, NEW j \in cleared[c]
        PROVE  j \in Jobs /\ Chosen(j) /\ temp[j] = "none"
    BY <1>2 DEF OnceInv, Gone, Chosen, TempGone, TypeOK, ApiTypeOK
  <2>3. ASSUME NEW j \in Jobs, status'[j] = "absent" PROVE temp'[j] = "none"
    BY <1>2, <2>1, <2>2, <2>3, RowDeleters DEF TempGone
  <2>4. ASSUME NEW c \in Clients, NEW j \in cleared'[c] PROVE temp'[j] = "none"
    BY <1>2, <2>1, <2>2, <2>4, RowDeleters
  <2> QED BY <2>3, <2>4 DEF TempGone
<1>3. ASSUME TempGone, UNCHANGED vars PROVE TempGone'
  BY <1>3 DEF TempGone, vars, shared, rows, disk, clientVars
<1>4. TypeOK /\ OnceInv /\ TempGone => DeletedLeavesNothing
  <2> SUFFICES ASSUME TypeOK, OnceInv, TempGone, NEW j \in 1..created, status[j] = "absent"
               PROVE  temp[j] = "none" /\ out[j] = "none"
    BY DEF DeletedLeavesNothing
  <2>1. j \in Jobs
    BY JobStateAssumption DEF TypeOK, SharedTypeOK, Jobs
  <2> QED BY <2>1 DEF OnceInv, Gone, TempGone
<1> QED BY <1>1, <1>2, <1>3, <1>4, AlwaysOnce, TypeCorrect, PTL DEF Spec

=============================================================================
