------------------------------- MODULE MCLive -------------------------------
(***************************************************************************)
(* Small instances for TLC of what must happen in the end: the job system  *)
(* under fair threads, and the page that watches jobs.  The two share no   *)
(* state, so each behaviour is one of a single part, the others at rest.   *)
(***************************************************************************)
EXTENDS JobSystem, Page

VARIABLE part

liveVars == <<part, vars, pageVars>>

LiveInit ==
    /\ part \in {"jobs", "panel"}
    /\ Init
    /\ PageInit

LiveNext ==
    \/ part = "jobs" /\ Next /\ UNCHANGED <<part, pageVars>>
    \/ part = "panel" /\ PanelNext /\ UNCHANGED <<part, vars, reviewVars>>

\* The browser gets an answer for what it sends, and its timers fire.
PageFairness ==
    /\ \A i \in Polls : WF_liveVars(PollStep(i) /\ UNCHANGED <<part, vars, reviewVars>>)
    /\ WF_liveVars(Answered /\ UNCHANGED <<part, vars, reviewVars>>)

LiveSpec == LiveInit /\ [][LiveNext]_liveVars /\ Fairness /\ PageFairness

=============================================================================
