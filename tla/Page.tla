-------------------------------- MODULE Page --------------------------------
(***************************************************************************)
(* app/static/app.js: the job panel and the playlist review of the page.   *)
(* JavaScript runs one callback at a time, but a function that awaits an   *)
(* answer goes on later, after whatever ran meanwhile: several polls and   *)
(* loads are under way at once, and their answers come in any order.       *)
(***************************************************************************)
EXTENDS Naturals, FiniteSets

CONSTANTS
    PageJobs,    \* the jobs this page may start
    MaxPolls,    \* bound: calls of startPolling that have not returned or have a timer
    MaxAsked,    \* bound: requests of one kind for one job under way at once
    Playlists,
    MaxLoads     \* bound: loads of one playlist under way at once

ASSUME PageAssumption ==
    /\ IsFiniteSet(PageJobs)
    /\ MaxPolls \in Nat \ {0}
    /\ MaxAsked \in Nat \ {0}
    /\ MaxLoads \in Nat \ {0}

Polls == 1..MaxPolls
Nothing == "nothing"

\* What the server says of a job: active (queued or running), or ended, which stands
\* for all of terminalStates.
Shown == {"active", "ended"}

VARIABLES
    job,         \* the server's jobs
    panel,       \* renderedJob: whose it is and the status shown
    poll,        \* calls of startPolling: where each is
    pollTimer,   \* the call whose timer pollTimer names, 0 when none is pending
    unsent,      \* payloads the submit handler has still to post
    first,       \* the first job it created
    asked,       \* how many pauses, resumes and deletions of each job await an answer
    lost,        \* a poll failed since the last submission or resume

    selected,    \* selectedPlaylistId
    displayed,   \* the playlist whose tracks the review shows
    loading,     \* how many loads of each playlist are under way
    imported,    \* importPlaylist waits for the list of playlists
    failed       \* a load failed since the last one that succeeded

panelVars == <<job, panel, poll, pollTimer, unsent, first, asked, lost>>
reviewVars == <<selected, displayed, loading, imported, failed>>
pageVars == <<panelVars, reviewVars>>

Idle == [at |-> "idle", job |-> Nothing, answer |-> Nothing]
Kinds == {"pause", "resume", "delete"}
Calls == [at : {"idle", "asked", "answered", "history", "waiting"},
          job : PageJobs \cup {Nothing}, answer : Shown \cup {"gone", Nothing}]

PageTypeOK ==
    /\ job \in [PageJobs -> Shown \cup {"none", "gone"}]
    /\ panel \in [job : PageJobs \cup {Nothing}, status : Shown \cup {Nothing}]
    /\ poll \in [Polls -> Calls]
    /\ pollTimer \in Polls \cup {0}
    /\ unsent \subseteq PageJobs
    /\ first \in PageJobs \cup {Nothing}
    /\ asked \in [Kinds -> [PageJobs -> 0..MaxAsked]]
    /\ lost \in BOOLEAN
    /\ selected \in Playlists \cup {Nothing}
    /\ displayed \in Playlists \cup {Nothing}
    /\ loading \in [Playlists -> 0..MaxLoads]
    /\ imported \in BOOLEAN
    /\ failed \in BOOLEAN

PageInit ==
    /\ job = [m \in PageJobs |-> "none"]
    /\ panel = [job |-> Nothing, status |-> Nothing]
    /\ poll = [i \in Polls |-> Idle]
    /\ pollTimer = 0
    /\ unsent = {}
    /\ first = Nothing
    /\ asked = [k \in Kinds |-> [m \in PageJobs |-> 0]]
    /\ lost = FALSE
    /\ selected = Nothing
    /\ displayed = Nothing
    /\ loading = [p \in Playlists |-> 0]
    /\ imported = FALSE
    /\ failed = FALSE

-----------------------------------------------------------------------------
(* startPolling *)

renderJob(m, status) == panel' = [job |-> m, status |-> status]

\* What runs before the first await: the timer that pollTimer names is cleared (it may
\* be another call's), and the fetch goes out.
Polling(i, m) ==
    /\ poll' = [k \in Polls |->
                  IF k = i THEN [at |-> "asked", job |-> m, answer |-> Nothing]
                  ELSE IF k = pollTimer THEN Idle
                  ELSE poll[k]]
    /\ pollTimer' = 0

\* A handler of the page calls it for the job it has just started.
startPolling(m) ==
    /\ \E i \in Polls : poll[i].at = "idle" /\ Polling(i, m)
    /\ lost' = FALSE

TimerFires(i) ==
    /\ poll[i].at = "waiting"
    /\ Polling(i, poll[i].job)
    /\ UNCHANGED <<job, panel, unsent, first, asked, lost>>

\* Mutant: a browser cache answers for the job it has seen.
ServerReadsCached(i) ==
    /\ poll[i].at = "asked"
    /\ poll' = [poll EXCEPT ![i].at = "answered",
                          ![i].answer = IF panel.job = poll[i].job THEN panel.status
                                        ELSE job[poll[i].job]]
    /\ UNCHANGED <<job, panel, pollTimer, unsent, first, asked, lost>>

ServerReads(i) ==
    /\ poll[i].at = "asked"
    /\ poll' = [poll EXCEPT ![i].at = "answered", ![i].answer = job[poll[i].job]]
    /\ UNCHANGED <<job, panel, pollTimer, unsent, first, asked, lost>>

\* Mutant: the answer is shown without a look at response.ok.
PollShowsUnchecked(i) ==
    /\ poll[i].at = "answered"
    /\ renderJob(poll[i].job, poll[i].answer)
    /\ poll' = [poll EXCEPT ![i] = IF poll[i].answer = "active"
                                  THEN [Idle EXCEPT !.at = "history", !.job = poll[i].job]
                                  ELSE Idle]
    /\ UNCHANGED <<job, pollTimer, unsent, first, asked, lost>>

\* The answer is shown whatever the panel shows by now.  A terminal status ends the
\* polling; a job that is gone is a 404, and the call returns with an error.
PollShows(i) ==
    LET m == poll[i].job
    IN  /\ poll[i].at = "answered"
        /\ CASE poll[i].answer = "active" ->
                   /\ renderJob(m, "active")
                   /\ poll' = [poll EXCEPT ![i] = [at |-> "history", job |-> m,
                                                  answer |-> Nothing]]
                   /\ UNCHANGED lost
             [] poll[i].answer = "ended" ->
                   /\ renderJob(m, "ended")
                   /\ poll' = [poll EXCEPT ![i] = Idle]
                   /\ UNCHANGED lost
             [] poll[i].answer = "gone" ->
                   /\ poll' = [poll EXCEPT ![i] = Idle]
                   /\ lost' = TRUE
                   /\ UNCHANGED panel
        /\ UNCHANGED <<job, pollTimer, unsent, first, asked>>

\* loadHistory has returned.
PollAgain(i) ==
    /\ poll[i].at = "history"
    /\ poll' = [poll EXCEPT ![i].at = "waiting"]
    /\ pollTimer' = i
    /\ UNCHANGED <<job, panel, unsent, first, asked, lost>>

\* fetch or json() rejects: nothing catches it and nothing polls again.
PollRejects(i) ==
    /\ poll[i].at \in {"asked", "answered", "history"}
    /\ poll' = [poll EXCEPT ![i] = Idle]
    /\ lost' = TRUE
    /\ UNCHANGED <<job, panel, pollTimer, unsent, first, asked>>

-----------------------------------------------------------------------------
(* The submit handler: one POST after the other, the button disabled meanwhile *)

SendForm(ms) ==
    /\ unsent = {} /\ first = Nothing
    /\ ms # {} /\ \A m \in ms : job[m] = "none"
    /\ unsent' = ms
    /\ UNCHANGED <<job, panel, poll, pollTimer, first, asked, lost>>

JobCreated(m) ==
    /\ m \in unsent
    /\ job' = [job EXCEPT ![m] = "active"]
    /\ unsent' = unsent \ {m}
    /\ first' = IF first = Nothing THEN m ELSE first
    /\ UNCHANGED <<panel, poll, pollTimer, asked, lost>>

\* An error ends the handler: what it has created runs, and the panel does not show it.
\* A full queue leaves a failed row as well.
PostRefused(m) ==
    /\ m \in unsent
    /\ job' = job \/ job' = [job EXCEPT ![m] = "ended"]
    /\ unsent' = {}
    /\ first' = Nothing
    /\ UNCHANGED <<panel, poll, pollTimer, asked, lost>>

Submitted ==
    /\ unsent = {} /\ first # Nothing
    /\ renderJob(first, "active")
    /\ startPolling(first)
    /\ first' = Nothing
    /\ UNCHANGED <<job, unsent, asked>>

-----------------------------------------------------------------------------
(* pauseJob, resumeJob, deleteJob: from the panel or from the history, whose rows *)
(* may be old, so the server decides.                                             *)

\* Only the buttons of the panel are disabled until the answer is there: those of the
\* history send as many requests as they are clicked, for one job or several.
Ask(kind, m) ==
    /\ asked[kind][m] < MaxAsked
    /\ asked' = [asked EXCEPT ![kind][m] = @ + 1]

Replied(kind, m) ==
    /\ asked[kind][m] > 0
    /\ asked' = [asked EXCEPT ![kind][m] = @ - 1]

\* A click, and the server's decision: a request it refuses changes nothing.
PauseClicked(m) ==
    /\ Ask("pause", m)
    /\ job[m] = "active"
    /\ job' = [job EXCEPT ![m] = "ended"]
    /\ UNCHANGED <<panel, poll, pollTimer, unsent, first, lost>>

ResumeClicked(m) ==
    /\ Ask("resume", m)
    /\ job[m] = "ended"
    /\ job' = [job EXCEPT ![m] = "active"]
    /\ UNCHANGED <<panel, poll, pollTimer, unsent, first, lost>>

DeleteClicked(m) ==
    /\ Ask("delete", m)
    /\ job[m] = "ended"
    /\ job' = [job EXCEPT ![m] = "gone"]
    /\ UNCHANGED <<panel, poll, pollTimer, unsent, first, lost>>

Paused(m) ==
    /\ Replied("pause", m)
    /\ renderJob(m, "ended")
    /\ UNCHANGED <<job, poll, pollTimer, unsent, first, lost>>

\* Mutant: the polling that ended with the pause is not started again.
ResumedUnpolled(m) ==
    /\ Replied("resume", m)
    /\ renderJob(m, "active")
    /\ UNCHANGED <<job, poll, pollTimer, unsent, first, lost>>

Resumed(m) ==
    /\ Replied("resume", m)
    /\ renderJob(m, "active")
    /\ startPolling(m)
    /\ UNCHANGED <<job, unsent, first>>

Deleted(m) ==
    /\ Replied("delete", m)
    /\ panel' = IF panel.job = m THEN [job |-> Nothing, status |-> Nothing] ELSE panel
    /\ UNCHANGED <<job, poll, pollTimer, unsent, first, lost>>

\* The answer never arrives: the page shows an error only.
AnswerLost(kind, m) ==
    /\ Replied(kind, m)
    /\ UNCHANGED <<job, panel, poll, pollTimer, unsent, first, lost>>

\* The server: a run comes to its end.
RunEnds(m) ==
    /\ job[m] = "active"
    /\ job' = [job EXCEPT ![m] = "ended"]
    /\ UNCHANGED <<panel, poll, pollTimer, unsent, first, asked, lost>>

PollStep(i) == TimerFires(i) \/ ServerReads(i) \/ PollShows(i) \/ PollAgain(i)

Answered ==
    \/ \E m \in PageJobs : JobCreated(m) \/ Paused(m) \/ Resumed(m) \/ Deleted(m)
    \/ Submitted

PanelNext ==
    \/ \E i \in Polls : PollStep(i) \/ PollRejects(i)
    \/ Answered
    \/ \E ms \in SUBSET PageJobs : SendForm(ms)
    \/ \E m \in PageJobs : PostRefused(m) \/ RunEnds(m)
                       \/ PauseClicked(m) \/ ResumeClicked(m) \/ DeleteClicked(m)
    \/ \E kind \in Kinds, m \in PageJobs : AnswerLost(kind, m)

-----------------------------------------------------------------------------
(* The review of imported playlists *)

Load(p) ==
    /\ loading[p] < MaxLoads
    /\ loading' = [loading EXCEPT ![p] = @ + 1]

\* A click on a playlist, or the first of the list when none is selected.
Choose(p) ==
    /\ selected' = p
    /\ Load(p)
    /\ UNCHANGED <<displayed, imported, failed>>

\* A page, a filter, or the end of a search, an edit or a batch.
LoadAgain ==
    /\ selected # Nothing
    /\ Load(selected)
    /\ UNCHANGED <<selected, displayed, imported, failed>>

Imported(p) ==
    /\ ~imported
    /\ selected' = p
    /\ imported' = TRUE
    /\ UNCHANGED <<displayed, loading, failed>>

\* loadPlaylists has returned: importPlaylist loads what is selected now.  Or it was
\* rejected, and the handler only shows a message.
ListShown ==
    /\ imported
    /\ imported' = FALSE
    /\ \/ Load(selected) /\ UNCHANGED failed
       \/ failed' = TRUE /\ UNCHANGED loading
    /\ UNCHANGED <<selected, displayed>>

\* Mutant: the click has selected the playlist already, the answer leaves it.
LoadedUnselected(p) ==
    /\ loading[p] > 0
    /\ loading' = [loading EXCEPT ![p] = @ - 1]
    /\ displayed' = p
    /\ failed' = FALSE
    /\ UNCHANGED <<selected, imported>>

\* The answers select as well: the last one decides what is selected and displayed.
Loaded(p) ==
    /\ loading[p] > 0
    /\ loading' = [loading EXCEPT ![p] = @ - 1]
    /\ selected' = p
    /\ displayed' = p
    /\ failed' = FALSE
    /\ UNCHANGED imported

LoadFails(p) ==
    /\ loading[p] > 0
    /\ loading' = [loading EXCEPT ![p] = @ - 1]
    /\ failed' = TRUE
    /\ UNCHANGED <<selected, displayed, imported>>

ReviewNext ==
    \/ \E p \in Playlists : Choose(p) \/ Imported(p) \/ Loaded(p) \/ LoadFails(p)
    \/ LoadAgain \/ ListShown

PageNext ==
    \/ PanelNext /\ UNCHANGED reviewVars
    \/ ReviewNext /\ UNCHANGED panelVars

PageSpec == PageInit /\ [][PageNext]_pageVars

-----------------------------------------------------------------------------
(* Properties *)

\* The panel does not freeze on an active status: as long as it shows one some poll,
\* of the job shown or of another, is under way or has a timer, although polls clear
\* each other's timers and show their answers in any order.  Only a poll that failed
\* since the last submission or resume ends this.
PanelWatched ==
    panel.status = "active" =>
        lost \/ \E i \in Polls : poll[i].at # "idle"

\* Once all jobs have ended for good the panel stops saying that one is active.
JobsAtRest == \A m \in PageJobs : job[m] # "active"
PanelSettles ==
    (<>[]JobsAtRest) => <>[](panel.status # "active" \/ lost)

\* When no load is under way, requests go to the playlist whose tracks are displayed,
\* unless the load of the selected one has failed.
ReviewAgrees ==
    (~imported /\ ~failed /\ \A p \in Playlists : loading[p] = 0) => selected = displayed

=============================================================================
