----------------------------- MODULE Playlists ------------------------------
(***************************************************************************)
(* app/services/media_resolution.py, app/services/playlist_queue.py and    *)
(* the request handlers of app/api/routes/playlists.py that change tracks: *)
(* searching candidates for a track, editing it, and queueing candidates   *)
(* as download jobs, one or several in a batch.  Requests, and the threads *)
(* of a batch search, run at the same time on sessions of their own.       *)
(*                                                                         *)
(* The job side is seen through JobSubmissionService only: a submission    *)
(* commits a job and gets its ticket into the queue, or is refused.  A     *)
(* crash of the process loses every thread and keeps what is committed;    *)
(* a job that was committed is taken up when the server starts again.      *)
(***************************************************************************)
EXTENDS Naturals, Sequences, FiniteSets

CONSTANTS
    Tracks,         \* the tracks of a playlist
    Media,          \* provider_media_id of what a search may find
    Users,          \* request and batch threads
    MaxResults,     \* the limit of a search
    MaxCandidates,  \* bound: ids given to candidate rows
    MaxBatch,       \* bound: candidates in a queue request
    MaxLost,        \* bound: jobs of a candidate that crashes may leave unrecorded
    Actions         \* bound: the kinds of request of the run, crashes, unhandled exceptions

ASSUME PlaylistsAssumption ==
    /\ IsFiniteSet(Users)
    /\ MaxResults \in Nat /\ MaxCandidates \in Nat /\ MaxBatch \in Nat
    /\ MaxLost \in Nat
    /\ Actions \subseteq {"resolve", "edit", "queue", "crash", "raise"}

VARIABLES
    resolution,  \* resolution_status of each track
    rows,        \* rows of resolved_media_candidates
    made,        \* number of candidate ids used
    items,       \* rows of download_queue_items (their key is unique)
    accepted,    \* jobs submitted for each candidate, and not refused
    upc,         \* where the thread of each user is
    utrack,      \* the track it works on
    useen,       \* the track's status as its session knows it
    found,       \* the results of its search, best first
    keep,        \* candidates it read with queue items
    drop,        \* candidates it read without
    plan,        \* candidates it has still to queue
    lost         \* history: jobs of each candidate a crash left without queue item

tables == <<resolution, rows, made, items, accepted>>
threads == <<upc, utrack, useen, found, keep, drop, plan>>
vars == <<tables, threads, lost>>

Ids == 1..MaxCandidates
Status == {"pending", "searching", "resolved", "no_match", "failed"}
UserPC == {"idle", "refresh", "search", "replace", "edit", "lookup", "submit", "record"}

Rows == [id : Ids, track : Tracks, media : Media, rank : Nat]
Results == UNION {[1..n -> Media] : n \in 0..MaxResults}
\* A search lists a medium once.
Distinct(list) == \A i, k \in DOMAIN list : list[i] = list[k] => i = k

\* One idempotency key per candidate: the format and its options are fixed.
Items == [candidate : Ids, track : Tracks]

RowsOf(t) == {r \in rows : r.track = t}
Queued(c) == \E i \in items : i.candidate = c
Stored(c) == \E r \in rows : r.id = c

\* TRACK_STATUS_TRANSITIONS; a transition to the same status is allowed too.
CanBecome(from, to) ==
    \/ from = to
    \/ to = "searching"
    \/ from = "searching" /\ to \in {"resolved", "no_match", "failed"}

\* A commit writes the status only if it differs from the one the session had.
Saved(t, seen, new) ==
    IF seen = new THEN resolution ELSE [resolution EXCEPT ![t] = new]

Init ==
    /\ resolution = [t \in Tracks |-> "pending"]
    /\ rows = {}
    /\ made = 0
    /\ items = {}
    /\ accepted = [c \in Ids |-> 0]
    /\ upc = [u \in Users |-> "idle"]
    /\ utrack \in [Users -> Tracks]
    /\ useen = [u \in Users |-> "pending"]
    /\ found = [u \in Users |-> <<>>]
    /\ keep = [u \in Users |-> {}]
    /\ drop = [u \in Users |-> {}]
    /\ plan = [u \in Users |-> <<>>]
    /\ lost = [c \in Ids |-> 0]

At(u, pc) == upc[u] = pc
Searching(u) == upc[u] \in {"refresh", "search", "replace"}
GoTo(u, pc) == upc' = [upc EXCEPT ![u] = pc]

\* The request is answered, or ends with an exception and is rolled back.
Ends(u) ==
    /\ GoTo(u, "idle")
    /\ useen' = [useen EXCEPT ![u] = "pending"]
    /\ found' = [found EXCEPT ![u] = <<>>]
    /\ keep' = [keep EXCEPT ![u] = {}]
    /\ drop' = [drop EXCEPT ![u] = {}]
    /\ plan' = [plan EXCEPT ![u] = <<>>]
    /\ UNCHANGED utrack

-----------------------------------------------------------------------------
(* resolve_track *)

\* MaxCandidates bounds the searches that may start.
RoomForSearch ==
    made + MaxResults * (1 + Cardinality({u \in Users : Searching(u)})) <= MaxCandidates

\* The first commit.  Every status may become searching, and a status that was
\* searching when it was loaded is left alone: either way this is one step.
MarkSearching(u, t) ==
    /\ "resolve" \in Actions
    /\ At(u, "idle")
    /\ RoomForSearch
    /\ resolution' = [resolution EXCEPT ![t] = "searching"]
    /\ utrack' = [utrack EXCEPT ![u] = t]
    /\ GoTo(u, "refresh")
    /\ UNCHANGED <<rows, made, items, accepted, useen, found, keep, drop, plan>>

\* session.refresh: the status that the later transition starts from.
Refresh(u) ==
    /\ At(u, "refresh")
    /\ useen' = [useen EXCEPT ![u] = resolution[utrack[u]]]
    /\ GoTo(u, "search")
    /\ UNCHANGED <<tables, utrack, found, keep, drop, plan>>

\* Mutant of SearchReturns: the limit is not handed to the provider.
SearchReturnsUnlimited(u) ==
    /\ At(u, "search")
    /\ found' = [found EXCEPT ![u] = [i \in 1..MaxResults + 1 |-> CHOOSE m \in Media : TRUE]]
    /\ GoTo(u, "replace")
    /\ UNCHANGED <<tables, utrack, useen, keep, drop, plan>>

\* The provider answers (no results is the empty list), and
\* _replace_candidates reads the track's candidates and their queue items.
SearchReturns(u) ==
    /\ At(u, "search")
    /\ \E list \in Results :
       /\ Distinct(list)
       /\ found' = [found EXCEPT ![u] = list]
    /\ keep' = [keep EXCEPT ![u] = {r \in RowsOf(utrack[u]) : Queued(r.id)}]
    /\ drop' = [drop EXCEPT ![u] = {r \in RowsOf(utrack[u]) : ~Queued(r.id)}]
    /\ GoTo(u, "replace")
    /\ UNCHANGED <<tables, utrack, useen, plan>>

\* A search error fails the track, unless the transition is refused.
SearchFails(u) ==
    /\ At(u, "search")
    /\ \/ resolution' = IF CanBecome(useen[u], "failed")
                        THEN Saved(utrack[u], useen[u], "failed")
                        ELSE resolution
       \/ "raise" \in Actions /\ UNCHANGED resolution
    /\ Ends(u)
    /\ UNCHANGED <<rows, made, items, accepted>>

\* The rows _replace_candidates inserts: what is not kept already, ranked
\* behind as many places as there are kept candidates.
Fresh(u) ==
    {[id |-> made + i, track |-> utrack[u], media |-> found[u][i],
      rank |-> i - 1 + Cardinality(keep[u])] :
        i \in {k \in DOMAIN found[u] : \A r \in keep[u] : r.media # found[u][k]}}

\* The unique constraints on (track, provider, media) and (track, provider, rank).
Clash(u) ==
    \E r \in rows \ drop[u], n \in Fresh(u) :
        r.track = n.track /\ (r.media = n.media \/ r.rank = n.rank)

Outcome(u) == IF found[u] = <<>> THEN "no_match" ELSE "resolved"

\* Deletes, inserts and the transition, in one transaction.  IntegrityError and
\* the ValueError of a refused transition leave the request and undo it all.
Replace(u) ==
    /\ At(u, "replace")
    /\ IF Clash(u) \/ ~CanBecome(useen[u], Outcome(u))
       THEN UNCHANGED tables
       ELSE /\ rows' = (rows \ drop[u]) \cup Fresh(u)
            /\ made' = made + Len(found[u])
            /\ resolution' = Saved(utrack[u], useen[u], Outcome(u))
            /\ UNCHANGED <<items, accepted>>
    /\ Ends(u)

-----------------------------------------------------------------------------
(* update_track *)

\* The track and its queue items are read.  With queue items the status is left
\* alone, and such an edit changes nothing that is modelled here.
EditBegin(u, t) ==
    /\ "edit" \in Actions
    /\ At(u, "idle")
    /\ \A i \in items : i.track # t
    /\ utrack' = [utrack EXCEPT ![u] = t]
    /\ useen' = [useen EXCEPT ![u] = resolution[t]]
    /\ GoTo(u, "edit")
    /\ UNCHANGED <<tables, found, keep, drop, plan>>

\* The status is reset, whatever became of the track in the meantime.
EditCommit(u) ==
    /\ At(u, "edit")
    /\ resolution' = Saved(utrack[u], useen[u], "pending")
    /\ Ends(u)
    /\ UNCHANGED <<rows, made, items, accepted>>

-----------------------------------------------------------------------------
(* queue_candidate and queue_tracks_batch: submit_candidate for each choice *)

\* The choices are candidates a client has been shown, at any time.
QueueBegin(u, choices) ==
    /\ "queue" \in Actions
    /\ At(u, "idle")
    /\ plan' = [plan EXCEPT ![u] = choices]
    /\ GoTo(u, "lookup")
    /\ UNCHANGED <<tables, utrack, useen, found, keep, drop>>

Choice(u) == Head(plan[u])

\* On to the next choice of a batch.
NextChoice(u) ==
    IF Len(plan[u]) = 1
    THEN Ends(u)
    ELSE /\ plan' = [plan EXCEPT ![u] = Tail(@)]
         /\ GoTo(u, "lookup")
         /\ UNCHANGED <<utrack, useen, found, keep, drop>>

\* Mutant of Lookup: the idempotency key is not looked up.
LookupKeyless(u) ==
    /\ At(u, "lookup")
    /\ IF ~Stored(Choice(u))
       THEN NextChoice(u)
       ELSE /\ \E r \in rows : /\ r.id = Choice(u)
                             /\ utrack' = [utrack EXCEPT ![u] = r.track]
            /\ GoTo(u, "submit")
            /\ UNCHANGED <<useen, found, keep, drop, plan>>
    /\ UNCHANGED tables

\* The candidate may be gone, and its queue item may exist already.
Lookup(u) ==
    /\ At(u, "lookup")
    /\ IF ~Stored(Choice(u)) \/ Queued(Choice(u))
       THEN NextChoice(u)
       ELSE /\ \E r \in rows : /\ r.id = Choice(u)
                             /\ utrack' = [utrack EXCEPT ![u] = r.track]
            /\ GoTo(u, "submit")
            /\ UNCHANGED <<useen, found, keep, drop, plan>>
    /\ UNCHANGED tables

\* Mutant of Submit: a full queue is not an exception.
SubmitAlways(u) ==
    /\ At(u, "submit")
    /\ \E full \in BOOLEAN :
         accepted' = [accepted EXCEPT ![Choice(u)] = IF full THEN @ ELSE @ + 1]
    /\ GoTo(u, "record")
    /\ UNCHANGED <<resolution, rows, made, items, utrack, useen, found, keep, drop, plan>>

\* JobSubmissionService.submit: the job has its ticket, or its URL is refused,
\* or the queue is full, which ends the whole batch.
Submit(u) ==
    /\ At(u, "submit")
    /\ \/ /\ accepted' = [accepted EXCEPT ![Choice(u)] = @ + 1]
          /\ GoTo(u, "record")
          /\ UNCHANGED <<utrack, useen, found, keep, drop, plan>>
       \/ /\ NextChoice(u) \/ Ends(u)
          /\ UNCHANGED accepted
    /\ UNCHANGED <<resolution, rows, made, items>>

\* Mutant of Record: the second commit is missing.
RecordUncommitted(u) ==
    /\ At(u, "record")
    /\ NextChoice(u)
    /\ UNCHANGED tables

\* The second commit updates the candidate (StaleDataError if it is gone) and
\* inserts the queue item (IntegrityError if there is one): an exception ends
\* the request, the rest of a batch included.
Record(u) ==
    /\ At(u, "record")
    /\ IF Stored(Choice(u)) /\ ~Queued(Choice(u))
       THEN /\ items' = items \cup {[candidate |-> Choice(u), track |-> utrack[u]]}
            /\ NextChoice(u)
       ELSE Ends(u) /\ UNCHANGED items
    /\ UNCHANGED <<resolution, rows, made, accepted>>

-----------------------------------------------------------------------------

Choices == UNION {[1..n -> 1..made] : n \in 1..MaxBatch}

Step(u) ==
    \/ \E t \in Tracks : MarkSearching(u, t) \/ EditBegin(u, t)
    \/ Refresh(u) \/ SearchReturns(u) \/ SearchFails(u) \/ Replace(u)
    \/ EditCommit(u)
    \/ \E choices \in Choices : QueueBegin(u, choices)
    \/ Lookup(u) \/ Submit(u) \/ Record(u)

Submitting(c) == {u \in Users : upc[u] = "submit" /\ Choice(u) = c}
Recording(c) == {u \in Users : upc[u] = "record" /\ Choice(u) = c}

\* The process ends at any point.  Of the threads that were submitting, some have
\* committed their job already.
Crash ==
    /\ "crash" \in Actions
    /\ \E committed \in SUBSET {u \in Users : At(u, "submit")} :
         LET Jobs(c) == Submitting(c) \cap committed
         IN  /\ accepted' = [c \in Ids |-> accepted[c] + Cardinality(Jobs(c))]
             /\ lost' = [c \in Ids |->
                    lost[c] + Cardinality(Recording(c)) + Cardinality(Jobs(c))]
    /\ \A c \in Ids : lost'[c] <= MaxLost
    /\ upc' = [u \in Users |-> "idle"]
    /\ useen' = [u \in Users |-> "pending"]
    /\ found' = [u \in Users |-> <<>>]
    /\ keep' = [u \in Users |-> {}]
    /\ drop' = [u \in Users |-> {}]
    /\ plan' = [u \in Users |-> <<>>]
    /\ UNCHANGED <<resolution, rows, made, items, utrack>>

Next ==
    \/ (\E u \in Users : Step(u)) /\ UNCHANGED lost
    \/ Crash

Spec == Init /\ [][Next]_vars

-----------------------------------------------------------------------------
(* Properties *)

\* Every variable keeps its type, and the unique keys of the tables hold.
PlaylistsTypeOK ==
    /\ resolution \in [Tracks -> Status]
    /\ rows \subseteq Rows
    /\ \A r, q \in rows : r.id = q.id => r = q
    /\ made \in 0..MaxCandidates
    /\ \A r \in rows : r.id <= made
    /\ items \subseteq Items
    /\ accepted \in [Ids -> Nat]
    /\ upc \in [Users -> UserPC]
    /\ utrack \in [Users -> Tracks]
    /\ useen \in [Users -> Status]
    /\ found \in [Users -> Results]
    /\ keep \in [Users -> SUBSET Rows]
    /\ drop \in [Users -> SUBSET Rows]
    /\ plan \in [Users -> Seq(Ids)]
    /\ lost \in [Ids -> Nat]

\* A queue item stands for a job that is in the download queue, never for one
\* that was refused: submit_candidate commits the item last.
ItemsHaveJobs == \A i \in items : accepted[i.candidate] > 0

\* A job that was submitted for a candidate is known to the playlist: its item
\* is there, or about to be committed, or the candidate itself is gone.  No
\* interleaving of searches, edits and batches, and no failing commit, leaves
\* a job that runs for a candidate that shows as not queued; only a crash between
\* the two commits does, once for each job it lost.
SubmittedIsRecorded ==
    \A c \in Ids : accepted[c] > lost[c] =>
        \/ Queued(c)
        \/ ~Stored(c)
        \/ \E u \in Users : upc[u] = "record" /\ Choice(u) = c

\* Duplicate submissions are bounded by the requests that run side by side: a
\* thread that got a second job for a candidate finds it queued, or gone, when
\* it comes back, however often requests are repeated afterwards.  A job whose
\* item a crash lost is submitted once more.
DuplicatesBounded == \A c \in Ids : accepted[c] <= Cardinality(Users) + lost[c]

-----------------------------------------------------------------------------
(* Promises of the documentation that the code does not keep *)

\* The idempotency key protects against double submission: one job for each.
OneJobPerKey == \A c \in Ids : accepted[c] <= 1

\* A track that says searching is being searched: a search can be repeated
\* after candidates were queued, and it always settles the track.
SearchingHasSearcher ==
    \A t \in Tracks : resolution[t] = "searching" =>
        \E u \in Users : utrack[u] = t /\ Searching(u)

=============================================================================
