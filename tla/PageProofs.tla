----------------------------- MODULE PageProofs -----------------------------
(***************************************************************************)
(* What holds of the page for any number of jobs, polls and playlists.     *)
(***************************************************************************)
EXTENDS Page, TLAPS

-----------------------------------------------------------------------------
(* Types *)

\* A job the page polls or asks about exists, so that there is something to answer.
Known(m) == m \in PageJobs /\ job[m] # "none"

CallsAreKnown ==
    \A i \in Polls :
        /\ poll[i].at # "idle" => Known(poll[i].job)
        /\ poll[i].at = "answered" => poll[i].answer \in Shown \cup {"gone"}

RequestsAreKnown ==
    /\ first # Nothing => Known(first)
    /\ \A k \in Kinds, m \in PageJobs : asked[k][m] > 0 => Known(m)

PanelTyped ==
    /\ job \in [PageJobs -> Shown \cup {"none", "gone"}]
    /\ panel \in [job : PageJobs \cup {Nothing}, status : Shown \cup {Nothing}]
    /\ poll \in [Polls -> Calls]
    /\ pollTimer \in Polls \cup {0}
    /\ unsent \subseteq PageJobs
    /\ first \in PageJobs \cup {Nothing}
    /\ asked \in [Kinds -> [PageJobs -> 0..MaxAsked]]
    /\ lost \in BOOLEAN

PanelInv == PanelTyped /\ CallsAreKnown /\ RequestsAreKnown

\* A load is started for a playlist that is selected.
ReviewTyped ==
    /\ selected \in Playlists \cup {Nothing}
    /\ displayed \in Playlists \cup {Nothing}
    /\ loading \in [Playlists -> 0..MaxLoads]
    /\ imported \in BOOLEAN
    /\ failed \in BOOLEAN
    /\ imported => selected \in Playlists

LEMMA CallMembers ==
  /\ Idle \in Calls /\ Idle.at = "idle"
  /\ \A m \in PageJobs :
        /\ [at |-> "asked", job |-> m, answer |-> Nothing] \in Calls
        /\ [at |-> "history", job |-> m, answer |-> Nothing] \in Calls
  /\ \A c \in Calls :
        /\ [c EXCEPT !.at = "waiting"] \in Calls
        /\ \A s \in Shown \cup {"gone"} :
              [c EXCEPT !.at = "answered", !.answer = s] \in Calls
  BY DEF Idle, Calls, Nothing

LEMMA CallFields ==
  ASSUME NEW c \in Calls
  PROVE  /\ c.job \in PageJobs \cup {Nothing}
         /\ [c EXCEPT !.at = "waiting"].job = c.job
         /\ [c EXCEPT !.at = "waiting"].at = "waiting"
         /\ \A s : /\ [c EXCEPT !.at = "answered", !.answer = s].job = c.job
                   /\ [c EXCEPT !.at = "answered", !.answer = s].at = "answered"
                   /\ [c EXCEPT !.at = "answered", !.answer = s].answer = s
  BY DEF Calls

\* Once there, a job of the server stays known: no step takes it back to "none".
LEMMA KnownStays ==
  ASSUME job \in [PageJobs -> Shown \cup {"none", "gone"}],
         NEW m \in PageJobs, NEW s \in Shown \cup {"gone"},
         job' = [job EXCEPT ![m] = s]
  PROVE  /\ job' \in [PageJobs -> Shown \cup {"none", "gone"}]
         /\ job'[m] # "none"
         /\ \A k \in PageJobs : job[k] # "none" => job'[k] # "none"
  BY DEF Shown

LEMMA PollingKeepsTypes ==
  ASSUME PanelTyped, CallsAreKnown, NEW i \in Polls, NEW m, Known(m), Polling(i, m),
         UNCHANGED job
  PROVE  /\ poll' \in [Polls -> Calls] /\ pollTimer' \in Polls \cup {0}
         /\ CallsAreKnown'
         /\ poll'[i].at = "asked"
<1> DEFINE new == [at |-> "asked", job |-> m, answer |-> Nothing]
<1>1. m \in PageJobs /\ new \in Calls /\ new.at = "asked" /\ new.job = m
  BY CallMembers DEF Known
<1>2. /\ poll \in [Polls -> Calls]
      /\ \A k \in Polls : \/ poll'[k] = poll[k]
                          \/ poll'[k] = Idle
                          \/ poll'[k] = new
  BY DEF PanelTyped, Polling
<1>3. poll' \in [Polls -> Calls]
  BY <1>1, CallMembers DEF PanelTyped, Polling
<1>4. CallsAreKnown'
  <2> SUFFICES ASSUME NEW k \in Polls
               PROVE  /\ poll'[k].at # "idle" =>
                             poll'[k].job \in PageJobs /\ job'[poll'[k].job] # "none"
                      /\ poll'[k].at = "answered" => poll'[k].answer \in Shown \cup {"gone"}
    BY DEF CallsAreKnown, Known
  <2>1. /\ poll[k].at # "idle" => Known(poll[k].job)
        /\ poll[k].at = "answered" => poll[k].answer \in Shown \cup {"gone"}
    BY DEF CallsAreKnown
  <2>2. CASE poll'[k] = poll[k]
    BY <2>1, <2>2 DEF Known
  <2>3. CASE poll'[k] = Idle
    BY <2>3, CallMembers
  <2>4. CASE poll'[k] = new
    <3> HIDE DEF new
    <3>1. m \in PageJobs /\ job'[m] # "none"
      BY DEF Known
    <3> QED BY <2>4, <1>1, <3>1
  <2> QED BY <1>2, <2>2, <2>3, <2>4
<1>5. poll'[i] = new
  BY DEF Polling
<1>6. pollTimer' = 0
  BY DEF Polling
<1> QED BY <1>1, <1>3, <1>4, <1>5, <1>6

\* A step that changes one call only.
LEMMA CallChangeKeepsTypes ==
  ASSUME PanelTyped, CallsAreKnown, NEW i \in Polls, NEW c \in Calls,
         poll' = [poll EXCEPT ![i] = c], UNCHANGED job,
         c.at # "idle" => Known(c.job),
         c.at = "answered" => c.answer \in Shown \cup {"gone"}
  PROVE  /\ poll' \in [Polls -> Calls]
         /\ CallsAreKnown'
         /\ poll'[i] = c
<1>1. poll \in [Polls -> Calls]
  BY DEF PanelTyped
<1>2. poll' \in [Polls -> Calls] /\ poll'[i] = c
  BY <1>1
<1>3. ASSUME NEW k \in Polls
      PROVE  /\ poll'[k].at # "idle" =>
                             poll'[k].job \in PageJobs /\ job'[poll'[k].job] # "none"
             /\ poll'[k].at = "answered" => poll'[k].answer \in Shown \cup {"gone"}
  <2>1. CASE k = i
    BY <2>1, <1>2 DEF Known
  <2>2. CASE k # i
    <3>1. poll'[k] = poll[k]
      BY <1>1, <2>2
    <3> QED BY <3>1 DEF CallsAreKnown, Known
  <2> QED BY <2>1, <2>2
<1> QED BY <1>2, <1>3 DEF CallsAreKnown, Known

\* A step of the server's jobs that no call takes part in.
LEMMA JobChangeKeepsTypes ==
  ASSUME PanelTyped, CallsAreKnown, RequestsAreKnown,
         NEW m \in PageJobs, NEW s \in Shown \cup {"gone"},
         job' = [job EXCEPT ![m] = s], UNCHANGED poll
  PROVE  /\ job' \in [PageJobs -> Shown \cup {"none", "gone"}]
         /\ CallsAreKnown'
         /\ Known(m)'
         /\ \A k : Known(k) => Known(k)'
<1>1. /\ job' \in [PageJobs -> Shown \cup {"none", "gone"}]
      /\ job'[m] # "none"
      /\ \A k \in PageJobs : job[k] # "none" => job'[k] # "none"
  BY KnownStays DEF PanelTyped
<1>2. \A k : Known(k) => Known(k)'
  BY <1>1 DEF Known
<1>3. Known(m)'
  BY <1>1 DEF Known
<1>4. CallsAreKnown'
  BY <1>2 DEF CallsAreKnown
<1> QED BY <1>1, <1>2, <1>3, <1>4

\* A request is counted for the job it is about.
LEMMA AskKeepsTypes ==
  ASSUME PanelTyped, RequestsAreKnown, NEW k \in Kinds, NEW m \in PageJobs, Ask(k, m)
  PROVE  /\ asked' \in [Kinds -> [PageJobs -> 0..MaxAsked]]
         /\ \A l \in Kinds, n \in PageJobs : asked'[l][n] > 0 => n = m \/ Known(n)
<1>1. /\ asked \in [Kinds -> [PageJobs -> 0..MaxAsked]]
      /\ asked[k] \in [PageJobs -> 0..MaxAsked] /\ MaxAsked \in Nat
  BY PageAssumption DEF PanelTyped
<1>2. asked[k][m] + 1 \in 0..MaxAsked
  BY <1>1 DEF Ask
<1>3. PICK count \in [PageJobs -> 0..MaxAsked] :
        /\ asked' = [asked EXCEPT ![k] = count]
        /\ \A n \in PageJobs : n # m => count[n] = asked[k][n]
  <2>1. [asked[k] EXCEPT ![m] = @ + 1] \in [PageJobs -> 0..MaxAsked]
    BY <1>1, <1>2
  <2> QED BY <1>1, <2>1 DEF Ask
<1> QED BY <1>1, <1>3 DEF RequestsAreKnown

\* An answer is about a job the page knows, and takes one request away.
LEMMA AnswerKeepsTypes ==
  ASSUME PanelTyped, RequestsAreKnown, NEW k \in Kinds, NEW m \in PageJobs, Replied(k, m)
  PROVE  /\ asked' \in [Kinds -> [PageJobs -> 0..MaxAsked]]
         /\ \A l \in Kinds, n \in PageJobs : asked'[l][n] > 0 => Known(n)
         /\ Known(m)
<1>1. /\ asked \in [Kinds -> [PageJobs -> 0..MaxAsked]]
      /\ asked[k] \in [PageJobs -> 0..MaxAsked] /\ MaxAsked \in Nat
  BY PageAssumption DEF PanelTyped
<1>2. asked[k][m] - 1 \in 0..MaxAsked /\ Known(m)
  BY <1>1 DEF Replied, RequestsAreKnown
<1>3. PICK count \in [PageJobs -> 0..MaxAsked] :
        /\ asked' = [asked EXCEPT ![k] = count]
        /\ \A n \in PageJobs : n # m => count[n] = asked[k][n]
  <2>1. [asked[k] EXCEPT ![m] = @ - 1] \in [PageJobs -> 0..MaxAsked]
    BY <1>1, <1>2
  <2> QED BY <1>1, <2>1 DEF Replied
<1> QED BY <1>1, <1>2, <1>3 DEF RequestsAreKnown

LEMMA PollStepKeepsTypes ==
  ASSUME PanelInv, NEW i \in Polls, PollStep(i) \/ PollRejects(i)
  PROVE  PanelInv'
<1> DEFINE m == poll[i].job
<1>1. PanelTyped /\ CallsAreKnown /\ RequestsAreKnown /\ poll[i] \in Calls
  BY DEF PanelInv, PanelTyped
<1>2. ASSUME UNCHANGED <<job, first, asked>>
      PROVE  RequestsAreKnown'
  BY <1>1, <1>2 DEF RequestsAreKnown, Known
<1>3. poll[i].at # "idle" => Known(m)
  BY DEF PanelInv, CallsAreKnown
<1>4. CASE TimerFires(i)
  <2>1. Known(m) /\ Polling(i, m) /\ UNCHANGED <<job, panel, unsent, first, asked, lost>>
    BY <1>3, <1>4 DEF TimerFires
  <2> HIDE DEF m
  <2>2. poll' \in [Polls -> Calls] /\ pollTimer' \in Polls \cup {0} /\ CallsAreKnown'
    BY <1>1, <2>1, PollingKeepsTypes
  <2> QED BY <1>1, <1>2, <2>1, <2>2 DEF PanelInv, PanelTyped
<1>5. CASE ServerReads(i)
  <2> DEFINE c == [poll[i] EXCEPT !.at = "answered", !.answer = job[m]]
  <2>1. /\ poll' = [poll EXCEPT ![i] = c] /\ poll[i].at = "asked"
        /\ UNCHANGED <<job, panel, pollTimer, unsent, first, asked, lost>>
    BY <1>5 DEF ServerReads
  <2>2. Known(m) /\ job[m] \in Shown \cup {"gone"}
    BY <1>1, <1>3, <2>1 DEF Known, PanelTyped
  <2>3. c \in Calls /\ c.at = "answered" /\ c.job = m /\ c.answer = job[m]
    <3> DEFINE a == job[m]
    <3> HIDE DEF a
    <3>1. /\ [poll[i] EXCEPT !.at = "answered", !.answer = a] \in Calls
          /\ [poll[i] EXCEPT !.at = "answered", !.answer = a].at = "answered"
          /\ [poll[i] EXCEPT !.at = "answered", !.answer = a].job = poll[i].job
          /\ [poll[i] EXCEPT !.at = "answered", !.answer = a].answer = a
      <4>1. a \in Shown \cup {"gone"}
        BY <2>2 DEF a
      <4> QED BY <4>1, <1>1, CallMembers, CallFields
    <3> QED BY <3>1 DEF a
  <2> HIDE DEF c, m
  <2>4. poll' \in [Polls -> Calls] /\ CallsAreKnown'
    BY <1>1, <2>1, <2>2, <2>3, CallChangeKeepsTypes
  <2> QED BY <1>1, <1>2, <2>1, <2>4 DEF PanelInv, PanelTyped
<1>6. CASE PollShows(i)
  <2> DEFINE c == [at |-> "history", job |-> m, answer |-> Nothing]
  <2>1. /\ poll[i].at = "answered" /\ Known(m) /\ poll[i].answer \in Shown \cup {"gone"}
        /\ UNCHANGED <<job, pollTimer, unsent, first, asked>>
    BY <1>1, <1>3, <1>6 DEF PollShows, CallsAreKnown
  <2>2. /\ lost' \in BOOLEAN
        /\ panel' \in [job : PageJobs \cup {Nothing}, status : Shown \cup {Nothing}]
        /\ poll' = [poll EXCEPT ![i] = c] \/ poll' = [poll EXCEPT ![i] = Idle]
    <3>1. m \in PageJobs /\ lost \in BOOLEAN
          /\ panel \in [job : PageJobs \cup {Nothing}, status : Shown \cup {Nothing}]
      BY <1>1, <2>1 DEF Known, PanelTyped
    <3>2. CASE poll[i].answer = "active"
      BY <1>6, <3>1, <3>2 DEF PollShows, renderJob, Shown
    <3>3. CASE poll[i].answer = "ended"
      BY <1>6, <3>1, <3>3 DEF PollShows, renderJob, Shown
    <3>4. CASE poll[i].answer = "gone"
      BY <1>6, <3>1, <3>4 DEF PollShows, renderJob, Shown
    <3> QED BY <2>1, <3>2, <3>3, <3>4 DEF Shown
  <2>3. c \in Calls /\ c.at = "history" /\ c.job = m
    BY <2>1, CallMembers DEF Known
  <2> HIDE DEF c, m
  <2>4. poll' \in [Polls -> Calls] /\ CallsAreKnown'
    <3>1. CASE poll' = [poll EXCEPT ![i] = c]
      BY <1>1, <2>1, <2>3, <3>1, CallChangeKeepsTypes
    <3>2. CASE poll' = [poll EXCEPT ![i] = Idle]
      BY <1>1, <2>1, <3>2, CallMembers, CallChangeKeepsTypes
    <3> QED BY <2>2, <3>1, <3>2
  <2> QED BY <1>1, <1>2, <2>1, <2>2, <2>4 DEF PanelInv, PanelTyped
<1>7. CASE PollAgain(i)
  <2> DEFINE c == [poll[i] EXCEPT !.at = "waiting"]
  <2>1. /\ poll' = [poll EXCEPT ![i] = c] /\ poll[i].at = "history" /\ pollTimer' = i
        /\ UNCHANGED <<job, panel, unsent, first, asked, lost>>
    BY <1>7 DEF PollAgain
  <2>2. c \in Calls /\ c.at = "waiting" /\ c.job = m /\ Known(m)
    BY <1>1, <1>3, <2>1, CallMembers, CallFields
  <2> HIDE DEF c, m
  <2>3. poll' \in [Polls -> Calls] /\ CallsAreKnown'
    BY <1>1, <2>1, <2>2, CallChangeKeepsTypes
  <2> QED BY <1>1, <1>2, <2>1, <2>3 DEF PanelInv, PanelTyped
<1>8. CASE PollRejects(i)
  <2>1. /\ poll' = [poll EXCEPT ![i] = Idle] /\ lost' = TRUE
        /\ UNCHANGED <<job, panel, pollTimer, unsent, first, asked>>
    BY <1>8 DEF PollRejects
  <2>2. poll' \in [Polls -> Calls] /\ CallsAreKnown'
    BY <1>1, <2>1, CallMembers, CallChangeKeepsTypes
  <2> QED BY <1>1, <1>2, <2>1, <2>2 DEF PanelInv, PanelTyped
<1> QED BY <1>4, <1>5, <1>6, <1>7, <1>8 DEF PollStep

\* A handler shows a job it knows and starts to poll it.
LEMMA StartedKeepsTypes ==
  ASSUME PanelInv, NEW m, Known(m), startPolling(m), renderJob(m, "active"), UNCHANGED job
  PROVE  /\ poll' \in [Polls -> Calls] /\ pollTimer' \in Polls \cup {0}
         /\ CallsAreKnown' /\ lost' = FALSE
         /\ panel' \in [job : PageJobs \cup {Nothing}, status : Shown \cup {Nothing}]
         /\ \E i \in Polls : poll'[i].at = "asked"
<1>1. PICK i \in Polls : Polling(i, m)
  BY DEF startPolling
<1>2. /\ poll' \in [Polls -> Calls] /\ pollTimer' \in Polls \cup {0}
      /\ CallsAreKnown' /\ poll'[i].at = "asked"
  BY <1>1, PollingKeepsTypes DEF PanelInv
<1> QED BY <1>2 DEF startPolling, renderJob, Known, Shown

LEMMA AnsweredKeepsTypes ==
  ASSUME PanelInv, Answered
  PROVE  PanelInv'
<1> USE DEF PanelInv
<1>1. ASSUME NEW m \in PageJobs, JobCreated(m)
      PROVE  PanelInv'
  <2>1. /\ job' = [job EXCEPT ![m] = "active"] /\ UNCHANGED poll
        /\ unsent' = unsent \ {m} /\ first' = IF first = Nothing THEN m ELSE first
        /\ UNCHANGED <<panel, pollTimer, asked, lost>>
    BY <1>1 DEF JobCreated
  <2>2. /\ job' \in [PageJobs -> Shown \cup {"none", "gone"}]
        /\ CallsAreKnown' /\ Known(m)' /\ \A k : Known(k) => Known(k)'
    BY <2>1, JobChangeKeepsTypes DEF Shown
  <2>3. RequestsAreKnown'
    <3>1. first' # Nothing => first' \in PageJobs /\ job'[first'] # "none"
      <4>1. first = Nothing => first' = m
        BY <2>1
      <4>2. first # Nothing => first' = first
        BY <2>1
      <4> QED BY <2>2, <4>1, <4>2 DEF RequestsAreKnown, Known
    <3>2. \A k \in Kinds, n \in PageJobs : asked'[k][n] > 0 => job'[n] # "none"
      BY <2>1, <2>2 DEF RequestsAreKnown, Known
    <3> QED BY <2>1, <3>1, <3>2 DEF RequestsAreKnown, Known
  <2>4. PanelTyped'
    BY <2>1, <2>2 DEF PanelTyped
  <2> QED BY <2>2, <2>3, <2>4
<1>2. ASSUME Submitted
      PROVE  PanelInv'
  <2>1. /\ Known(first) /\ startPolling(first) /\ renderJob(first, "active")
        /\ first' = Nothing /\ UNCHANGED <<job, unsent, asked>>
    BY <1>2 DEF Submitted, RequestsAreKnown
  <2>2. /\ poll' \in [Polls -> Calls] /\ pollTimer' \in Polls \cup {0}
        /\ CallsAreKnown' /\ lost' = FALSE
        /\ panel' \in [job : PageJobs \cup {Nothing}, status : Shown \cup {Nothing}]
    BY <2>1, StartedKeepsTypes
  <2>3. RequestsAreKnown'
    BY <2>1 DEF RequestsAreKnown, Known
  <2> QED BY <2>1, <2>2, <2>3 DEF PanelTyped
<1>3. ASSUME NEW m \in PageJobs, Resumed(m)
      PROVE  PanelInv'
  <2>1. /\ Replied("resume", m) /\ startPolling(m) /\ renderJob(m, "active")
        /\ UNCHANGED <<job, unsent, first>>
    BY <1>3 DEF Resumed
  <2>2. /\ asked' \in [Kinds -> [PageJobs -> 0..MaxAsked]]
        /\ \A l \in Kinds, n \in PageJobs : asked'[l][n] > 0 => Known(n)
        /\ Known(m)
    BY <2>1, AnswerKeepsTypes DEF Kinds
  <2>3. /\ poll' \in [Polls -> Calls] /\ pollTimer' \in Polls \cup {0}
        /\ CallsAreKnown' /\ lost' = FALSE
        /\ panel' \in [job : PageJobs \cup {Nothing}, status : Shown \cup {Nothing}]
    BY <2>1, <2>2, StartedKeepsTypes
  <2>4. RequestsAreKnown'
    BY <2>1, <2>2 DEF RequestsAreKnown, Known
  <2> QED BY <2>1, <2>2, <2>3, <2>4 DEF PanelTyped
<1>4. ASSUME NEW m \in PageJobs, Paused(m) \/ Deleted(m)
      PROVE  PanelInv'
  <2>1. PICK kind \in Kinds :
          /\ Replied(kind, m)
          /\ \/ panel' = [job |-> m, status |-> "ended"]
             \/ panel' = [job |-> Nothing, status |-> Nothing]
             \/ panel' = panel
          /\ UNCHANGED <<job, poll, pollTimer, unsent, first, lost>>
    BY <1>4 DEF Paused, Deleted, renderJob, Kinds
  <2>2. /\ asked' \in [Kinds -> [PageJobs -> 0..MaxAsked]]
        /\ \A l \in Kinds, n \in PageJobs : asked'[l][n] > 0 => Known(n)
    BY <2>1, AnswerKeepsTypes
  <2>3. panel' \in [job : PageJobs \cup {Nothing}, status : Shown \cup {Nothing}]
    BY <2>1 DEF PanelTyped, Shown
  <2>4. CallsAreKnown' /\ RequestsAreKnown'
    BY <2>1, <2>2 DEF CallsAreKnown, RequestsAreKnown, Known
  <2>5. PanelTyped'
    BY <2>1, <2>2, <2>3 DEF PanelTyped
  <2> QED BY <2>4, <2>5
<1> QED BY <1>1, <1>2, <1>3, <1>4 DEF Answered

LEMMA RequestKeepsTypes ==
  ASSUME PanelInv,
         \/ \E ms \in SUBSET PageJobs : SendForm(ms)
         \/ \E kind \in Kinds, m \in PageJobs : AnswerLost(kind, m)
  PROVE  PanelInv'
<1> USE DEF PanelInv
<1>1. ASSUME NEW ms \in SUBSET PageJobs, SendForm(ms)
      PROVE  PanelInv'
  BY <1>1 DEF SendForm, PanelTyped, CallsAreKnown, RequestsAreKnown, Known
<1>2. ASSUME NEW kind \in Kinds, NEW m \in PageJobs, AnswerLost(kind, m)
      PROVE  PanelInv'
  <2>1. Replied(kind, m) /\ UNCHANGED <<job, panel, poll, pollTimer, unsent, first, lost>>
    BY <1>2 DEF AnswerLost
  <2>2. /\ asked' \in [Kinds -> [PageJobs -> 0..MaxAsked]]
        /\ \A l \in Kinds, n \in PageJobs : asked'[l][n] > 0 => Known(n)
    BY <2>1, AnswerKeepsTypes
  <2> QED BY <2>1, <2>2 DEF PanelTyped, CallsAreKnown, RequestsAreKnown, Known
<1> QED BY <1>1, <1>2

LEMMA ServerKeepsTypes ==
  ASSUME PanelInv, NEW m \in PageJobs,
         \/ PostRefused(m) \/ RunEnds(m)
         \/ PauseClicked(m) \/ ResumeClicked(m) \/ DeleteClicked(m)
  PROVE  PanelInv'
<1> USE DEF PanelInv
<1>1. PICK s \in Shown \cup {"gone"} :
        \/ UNCHANGED <<job, asked>>
        \/ job' = [job EXCEPT ![m] = s]
  BY DEF PostRefused, RunEnds, PauseClicked, ResumeClicked, DeleteClicked, Shown
<1>2. /\ UNCHANGED <<panel, poll, pollTimer, lost>>
      /\ unsent' \in {unsent, {}} /\ first' \in {first, Nothing}
      /\ \/ UNCHANGED <<job, asked>>
         \/ /\ job' = [job EXCEPT ![m] = s]
            /\ UNCHANGED asked \/ \E k \in Kinds : Ask(k, m)
  <2>1. CASE PostRefused(m)
    BY <2>1, <1>1 DEF PostRefused
  <2>2. CASE RunEnds(m)
    BY <2>2, <1>1 DEF RunEnds
  <2>3. CASE PauseClicked(m)
    BY <2>3, <1>1 DEF PauseClicked, Kinds, PanelTyped
  <2>4. CASE ResumeClicked(m)
    BY <2>4, <1>1 DEF ResumeClicked, Kinds, PanelTyped
  <2>5. CASE DeleteClicked(m)
    BY <2>5, <1>1 DEF DeleteClicked, Kinds, PanelTyped
  <2> QED BY <2>1, <2>2, <2>3, <2>4, <2>5
<1>3. CASE UNCHANGED <<job, asked>>
  BY <1>2, <1>3 DEF PanelTyped, CallsAreKnown, RequestsAreKnown, Known
<1>4. CASE job' = [job EXCEPT ![m] = s] /\ ~UNCHANGED <<job, asked>>
  <2>1. /\ job' \in [PageJobs -> Shown \cup {"none", "gone"}]
        /\ CallsAreKnown' /\ Known(m)' /\ \A k : Known(k) => Known(k)'
    BY <1>2, <1>4, JobChangeKeepsTypes
  <2>2. /\ asked' \in [Kinds -> [PageJobs -> 0..MaxAsked]]
        /\ \A l \in Kinds, n \in PageJobs : asked'[l][n] > 0 => n = m \/ Known(n)
    <3>1. CASE UNCHANGED asked
      BY <3>1 DEF PanelTyped, RequestsAreKnown
    <3>2. CASE \E k \in Kinds : Ask(k, m)
      BY <3>2, AskKeepsTypes
    <3> QED BY <1>2, <1>4, <3>1, <3>2
  <2>3. \A k : Known(k) => (k \in PageJobs /\ job'[k] # "none")
    BY <2>1 DEF Known
  <2>4. job'[m] # "none"
    BY <2>1 DEF Known
  <2>5. RequestsAreKnown'
    BY <1>2, <2>2, <2>3, <2>4 DEF RequestsAreKnown, Known
  <2>6. PanelTyped'
    BY <1>2, <2>1, <2>2 DEF PanelTyped
  <2> QED BY <2>1, <2>5, <2>6
<1> QED BY <1>2, <1>3, <1>4

LEMMA PanelNextKeepsTypes ==
  ASSUME PanelInv, PanelNext
  PROVE  PanelInv'
BY PollStepKeepsTypes, AnsweredKeepsTypes, RequestKeepsTypes, ServerKeepsTypes DEF PanelNext

LEMMA LoadKeepsTypes ==
  ASSUME ReviewTyped, NEW p \in Playlists, Load(p)
  PROVE  loading' \in [Playlists -> 0..MaxLoads] /\ loading'[p] # 0
<1>1. MaxLoads \in Nat /\ loading[p] \in 0..MaxLoads
  BY PageAssumption DEF ReviewTyped
<1>2. loading[p] + 1 \in 0..MaxLoads /\ loading[p] + 1 # 0
  BY <1>1 DEF Load
<1> QED BY <1>2 DEF Load, ReviewTyped

LEMMA UnloadKeepsTypes ==
  ASSUME ReviewTyped, NEW p \in Playlists, loading[p] > 0,
         loading' = [loading EXCEPT ![p] = @ - 1]
  PROVE  loading' \in [Playlists -> 0..MaxLoads]
<1>1. MaxLoads \in Nat /\ loading[p] \in 0..MaxLoads
  BY PageAssumption DEF ReviewTyped
<1>2. loading[p] - 1 \in 0..MaxLoads
  BY <1>1
<1> QED BY <1>2 DEF ReviewTyped

LEMMA ReviewKeepsTypes ==
  ASSUME ReviewTyped, ReviewNext
  PROVE  ReviewTyped'
<1>1. ASSUME NEW p \in Playlists, Choose(p)
      PROVE  ReviewTyped'
  BY <1>1, LoadKeepsTypes DEF Choose, ReviewTyped
<1>2. ASSUME NEW p \in Playlists, Imported(p)
      PROVE  ReviewTyped'
  BY <1>2 DEF Imported, ReviewTyped
<1>3. ASSUME NEW p \in Playlists, Loaded(p) \/ LoadFails(p)
      PROVE  ReviewTyped'
  <2>1. loading' \in [Playlists -> 0..MaxLoads]
    BY <1>3, UnloadKeepsTypes DEF Loaded, LoadFails
  <2>2. CASE Loaded(p)
    BY <2>1, <2>2 DEF Loaded, ReviewTyped
  <2>3. CASE LoadFails(p)
    BY <2>1, <2>3 DEF LoadFails, ReviewTyped
  <2> QED BY <1>3, <2>2, <2>3
<1>4. ASSUME LoadAgain
      PROVE  ReviewTyped'
  <2>1. selected \in Playlists /\ Load(selected)
    BY <1>4 DEF LoadAgain, ReviewTyped
  <2> QED BY <1>4, <2>1, LoadKeepsTypes DEF LoadAgain, ReviewTyped
<1>5. ASSUME ListShown
      PROVE  ReviewTyped'
  <2>1. loading' \in [Playlists -> 0..MaxLoads] /\ failed' \in BOOLEAN
    BY <1>5, LoadKeepsTypes DEF ListShown, ReviewTyped
  <2> QED BY <1>5, <2>1 DEF ListShown, ReviewTyped
<1> QED BY <1>1, <1>2, <1>3, <1>4, <1>5 DEF ReviewNext

TypeInv == PanelInv /\ ReviewTyped

LEMMA InitTypes ==
  ASSUME PageInit
  PROVE  TypeInv
<1>1. PanelTyped
  <2>1. 0 \in 0..MaxAsked
    BY PageAssumption
  <2>2. asked \in [Kinds -> [PageJobs -> 0..MaxAsked]]
    BY <2>1 DEF PageInit
  <2> QED BY <2>2, CallMembers DEF PageInit, PanelTyped, Shown
<1>2. CallsAreKnown /\ RequestsAreKnown
  <2>1. \A k \in Kinds, m \in PageJobs : ~(asked[k][m] > 0)
    BY DEF PageInit
  <2> QED BY <2>1, CallMembers DEF PageInit, CallsAreKnown, RequestsAreKnown
<1>3. ReviewTyped
  <2>1. 0 \in 0..MaxLoads
    BY PageAssumption
  <2>2. loading \in [Playlists -> 0..MaxLoads]
    BY <2>1 DEF PageInit
  <2> QED BY <2>2 DEF PageInit, ReviewTyped
<1> QED BY <1>1, <1>2, <1>3 DEF TypeInv, PanelInv

LEMMA NextKeepsTypes ==
  ASSUME TypeInv, [PageNext]_pageVars
  PROVE  TypeInv'
<1>1. ASSUME UNCHANGED panelVars
      PROVE  PanelInv'
  BY <1>1 DEF panelVars, TypeInv, PanelInv, PanelTyped, CallsAreKnown, RequestsAreKnown,
     Known
<1>2. ASSUME UNCHANGED reviewVars
      PROVE  ReviewTyped'
  BY <1>2 DEF reviewVars, TypeInv, ReviewTyped
<1>3. CASE PanelNext /\ UNCHANGED reviewVars
  BY <1>2, <1>3, PanelNextKeepsTypes DEF TypeInv
<1>4. CASE ReviewNext /\ UNCHANGED panelVars
  BY <1>1, <1>4, ReviewKeepsTypes DEF TypeInv
<1>5. CASE UNCHANGED pageVars
  BY <1>1, <1>2, <1>5 DEF pageVars, TypeInv
<1> QED BY <1>3, <1>4, <1>5 DEF PageNext

LEMMA TypesHold == PageSpec => []TypeInv
<1>1. PageInit => TypeInv
  BY InitTypes
<1>2. TypeInv /\ [PageNext]_pageVars => TypeInv'
  BY NextKeepsTypes
<1> QED BY <1>1, <1>2, PTL DEF PageSpec

\* Every variable of the page has its type, for any number of jobs, calls and loads.
THEOREM PageTypeCorrect == PageSpec => []PageTypeOK
<1>1. TypeInv => PageTypeOK
  BY DEF TypeInv, PanelInv, PanelTyped, ReviewTyped, PageTypeOK
<1> QED BY <1>1, TypesHold, PTL

-----------------------------------------------------------------------------
(* The panel is watched *)

LEMMA InitWatched ==
  ASSUME PageInit
  PROVE  PanelWatched
BY DEF PageInit, PanelWatched, Nothing

\* Every step of a poll that does not lose it shows an ended job or leaves a call that
\* is not idle, whichever timer it clears on the way.
LEMMA PollStepWatches ==
  ASSUME PanelInv, NEW i \in Polls, PollStep(i) \/ PollRejects(i)
  PROVE  \/ lost' \/ panel'.status = "ended"
         \/ \E k \in Polls : poll'[k].at # "idle"
<1>1. poll \in [Polls -> Calls] /\ poll[i] \in Calls
  BY DEF PanelInv, PanelTyped
<1>2. CASE TimerFires(i)
  <2>1. poll'[i].at = "asked"
    BY <1>2 DEF TimerFires, Polling
  <2> QED BY <2>1
<1>3. CASE ServerReads(i)
  <2>1. poll'[i] = [poll[i] EXCEPT !.at = "answered", !.answer = job[poll[i].job]]
    BY <1>1, <1>3 DEF ServerReads
  <2>2. poll'[i].at = "answered"
    BY <1>1, <2>1 DEF Calls
  <2> QED BY <2>2
<1>4. CASE PollShows(i)
  <2>1. poll[i].answer \in Shown \cup {"gone"}
    BY <1>4 DEF PollShows, PanelInv, CallsAreKnown
  <2>2. CASE poll[i].answer = "active"
    <3>1. poll'[i].at = "history"
      BY <1>1, <1>4, <2>2 DEF PollShows
    <3> QED BY <3>1
  <2>3. CASE poll[i].answer = "ended"
    BY <1>4, <2>3 DEF PollShows, renderJob
  <2>4. CASE poll[i].answer = "gone"
    BY <1>4, <2>4 DEF PollShows
  <2> QED BY <2>1, <2>2, <2>3, <2>4 DEF Shown
<1>5. CASE PollAgain(i)
  <2>1. poll'[i] = [poll[i] EXCEPT !.at = "waiting"]
    BY <1>1, <1>5 DEF PollAgain
  <2>2. poll'[i].at = "waiting"
    BY <1>1, <2>1, CallFields
  <2> QED BY <2>2
<1>6. CASE PollRejects(i)
  BY <1>6 DEF PollRejects
<1> QED BY <1>2, <1>3, <1>4, <1>5, <1>6 DEF PollStep

LEMMA StepWatches ==
  ASSUME PanelInv, PanelWatched, PanelNext
  PROVE  PanelWatched'
<1>1. ASSUME NEW i \in Polls, PollStep(i) \/ PollRejects(i)
      PROVE  PanelWatched'
  BY <1>1, PollStepWatches DEF PanelWatched
<1>2. ASSUME Submitted
      PROVE  PanelWatched'
  <2>1. Known(first) /\ startPolling(first) /\ renderJob(first, "active") /\ UNCHANGED job
    BY <1>2 DEF Submitted, PanelInv, RequestsAreKnown
  <2>2. \E i \in Polls : poll'[i].at = "asked"
    BY <2>1, StartedKeepsTypes
  <2> QED BY <2>2 DEF PanelWatched
<1>3. ASSUME NEW m \in PageJobs, Resumed(m)
      PROVE  PanelWatched'
  <2>1. Known(m) /\ startPolling(m) /\ renderJob(m, "active") /\ UNCHANGED job
    BY <1>3, AnswerKeepsTypes DEF Resumed, PanelInv, Kinds
  <2>2. \E i \in Polls : poll'[i].at = "asked"
    BY <2>1, StartedKeepsTypes
  <2> QED BY <2>2 DEF PanelWatched
<1>4. ASSUME NEW m \in PageJobs, Paused(m) \/ Deleted(m)
      PROVE  PanelWatched'
  <2>1. /\ panel'.status \in {"ended", Nothing} \/ panel' = panel
        /\ UNCHANGED <<poll, lost>>
    BY <1>4 DEF Paused, Deleted, renderJob
  <2> QED BY <2>1 DEF PanelWatched, Nothing
<1>5. ASSUME UNCHANGED <<panel, poll, lost>>
      PROVE  PanelWatched'
  BY <1>5 DEF PanelWatched
<1>6. ASSUME NEW m \in PageJobs,
             \/ JobCreated(m) \/ PostRefused(m) \/ RunEnds(m)
             \/ PauseClicked(m) \/ ResumeClicked(m) \/ DeleteClicked(m)
      PROVE  PanelWatched'
  BY <1>5, <1>6 DEF JobCreated, PostRefused, RunEnds, PauseClicked, ResumeClicked,
     DeleteClicked
<1>7. ASSUME NEW ms \in SUBSET PageJobs, SendForm(ms)
      PROVE  PanelWatched'
  BY <1>5, <1>7 DEF SendForm
<1>8. ASSUME NEW kind \in Kinds, NEW m \in PageJobs, AnswerLost(kind, m)
      PROVE  PanelWatched'
  BY <1>5, <1>8 DEF AnswerLost
<1> QED BY <1>1, <1>2, <1>3, <1>4, <1>6, <1>7, <1>8 DEF PanelNext, Answered

\* As long as the panel shows an active job some call of startPolling, of that job or
\* of another, is under way or has a timer, unless a poll has failed: for any number of
\* jobs and polls that clear each other's timers and answer in any order.
THEOREM PanelIsWatched == PageSpec => []PanelWatched
<1>1. PageInit => PanelWatched
  BY InitWatched
<1>2. TypeInv /\ PanelWatched /\ [PageNext]_pageVars => PanelWatched'
  <2> SUFFICES ASSUME TypeInv, PanelWatched, [PageNext]_pageVars
               PROVE  PanelWatched'
    OBVIOUS
  <2>1. CASE PanelNext
    BY <2>1, StepWatches DEF TypeInv
  <2>2. CASE UNCHANGED panelVars
    BY <2>2 DEF panelVars, PanelWatched
  <2> QED BY <2>1, <2>2 DEF PageNext, pageVars
<1> QED BY <1>1, <1>2, TypesHold, PTL DEF PageSpec

-----------------------------------------------------------------------------
(* The review agrees with the selection *)

LEMMA StepAgrees ==
  ASSUME ReviewTyped, ReviewAgrees, ReviewNext
  PROVE  ReviewAgrees'
<1>1. ASSUME NEW p \in Playlists, Choose(p)
      PROVE  ReviewAgrees'
  <2>1. loading'[p] # 0
    BY <1>1, LoadKeepsTypes DEF Choose
  <2> QED BY <2>1 DEF ReviewAgrees
<1>2. ASSUME NEW p \in Playlists, Imported(p) \/ Loaded(p) \/ LoadFails(p)
      PROVE  ReviewAgrees'
  BY <1>2 DEF Imported, Loaded, LoadFails, ReviewAgrees
<1>3. ASSUME LoadAgain
      PROVE  ReviewAgrees'
  <2>1. selected \in Playlists /\ loading'[selected] # 0
    BY <1>3, LoadKeepsTypes DEF LoadAgain, ReviewTyped
  <2> QED BY <2>1 DEF ReviewAgrees
<1>4. ASSUME ListShown
      PROVE  ReviewAgrees'
  <2>1. failed' \/ (selected \in Playlists /\ loading'[selected] # 0)
    BY <1>4, LoadKeepsTypes DEF ListShown, ReviewTyped
  <2> QED BY <2>1 DEF ReviewAgrees
<1> QED BY <1>1, <1>2, <1>3, <1>4 DEF ReviewNext

\* When nothing is being loaded and the last load has succeeded, the playlist whose
\* tracks are displayed is the one that requests go to.
THEOREM ReviewIsSelected == PageSpec => []ReviewAgrees
<1>1. PageInit => ReviewAgrees
  BY DEF PageInit, ReviewAgrees
<1>2. TypeInv /\ ReviewAgrees /\ [PageNext]_pageVars => ReviewAgrees'
  <2> SUFFICES ASSUME TypeInv, ReviewAgrees, [PageNext]_pageVars
               PROVE  ReviewAgrees'
    OBVIOUS
  <2>1. CASE ReviewNext
    BY <2>1, StepAgrees DEF TypeInv
  <2>2. CASE UNCHANGED reviewVars
    BY <2>2 DEF reviewVars, ReviewAgrees
  <2> QED BY <2>1, <2>2 DEF PageNext, pageVars
<1> QED BY <1>1, <1>2, TypesHold, PTL DEF PageSpec

=============================================================================
