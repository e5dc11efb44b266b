------------------------------ MODULE MCIntake ------------------------------
(***************************************************************************)
(* Small instances for TLC of what stands around the jobs: the rate        *)
(* limiter, the import of a playlist, inspection with download, the page   *)
(* in the browser, and the backup of the storage.  They share no state, so *)
(* each behaviour is one of a single part, the others at rest.             *)
(***************************************************************************)
EXTENDS RateLimiter, Import, Downloader, Page, Backup, TLC

VARIABLE part

vars == <<part, limiterVars, importVars, downloaderVars, pageVars, backupVars>>

Sized(ext, vcodec, acodec) ==
    {[ext |-> ext, vcodec |-> vcodec, acodec |-> acodec,
      height |-> s[1], exact |-> s[2], approx |-> s[3]] :
        s \in {<<0, 0, 0>>, <<720, 0, 0>>, <<0, SizeLimit, 0>>,
               <<720, SizeLimit - 1, SizeLimit + 1>>, <<0, 0, SizeLimit + 1>>}}

Unsized(ext, vcodec, acodec) ==
    {f \in Sized(ext, vcodec, acodec) : f.height = 0 /\ f.exact = 0 /\ f.approx = 0}

\* Every mp4 that may be downloaded, in sizes around the limit; and one of each of
\* what may stand beside it: a sound, a video of another kind, a storyboard.
Choice ==
    Sized("mp4", "named", "none") \cup Sized("mp4", "missing", "none")
    \cup Sized("mp4", "named", "named") \cup Sized("mp4", "missing", "missing")
    \cup Unsized("mp4", "none", "named") \cup Unsized("m4a", "none", "named")
    \cup Unsized("other", "none", "named") \cup Unsized("other", "named", "none")
    \cup Unsized("other", "none", "none")

Combined == Unsized("mp4", "named", "named")

\* The parts at rest stay in one state of theirs.
SmallUpload == [importer |-> "text", typed |-> TRUE, large |-> FALSE,
                readable |-> TRUE, lines |-> <<>>]
SmallMedium == [formats |-> <<CHOOSE f \in Combined : TRUE>>, listed |-> TRUE,
                duration |-> Unknown]

\* Formats and durations do not meet in the code: a medium has several formats, or
\* any duration.
Init ==
    /\ \/ /\ part = "import" /\ medium = SmallMedium
       \/ /\ part = "download" /\ upload = SmallUpload
          /\ \/ medium \in [formats : FormatLists, listed : BOOLEAN, duration : {Unknown}]
             \/ medium \in [formats : [1..1 -> Combined], listed : {TRUE},
                            duration : 0..MaxDuration]
       \/ /\ part \in {"limiter", "panel", "review", "backup"}
          /\ upload = SmallUpload /\ medium = SmallMedium
    /\ DownloaderInit /\ LimiterInit /\ ImportInit /\ PageInit /\ BackupInit

Next ==
    \/ /\ part = "limiter" /\ LimiterNext
       /\ UNCHANGED <<part, importVars, downloaderVars, pageVars, backupVars>>
    \/ /\ part = "import" /\ ImportNext
       /\ UNCHANGED <<part, limiterVars, downloaderVars, pageVars, backupVars>>
    \/ /\ part = "download" /\ DownloaderNext
       /\ medium.formats \notin [1..1 -> Combined] => request'.segment = Whole
       /\ UNCHANGED <<part, limiterVars, importVars, pageVars, backupVars>>
    \/ /\ part = "panel" /\ PanelNext
       /\ UNCHANGED <<part, limiterVars, importVars, downloaderVars, reviewVars, backupVars>>
    \/ /\ part = "review" /\ ReviewNext
       /\ UNCHANGED <<part, limiterVars, importVars, downloaderVars, panelVars, backupVars>>
    \/ /\ part = "backup" /\ BackupNext
       /\ UNCHANGED <<part, limiterVars, importVars, downloaderVars, pageVars>>

\* Threads, clients and jobs differ only in name.
Symmetry == Permutations(Threads) \cup Permutations(Keys) \cup Permutations(PageJobs)

Spec == Init /\ [][Next]_vars

=============================================================================
