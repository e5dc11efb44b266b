--------------------------- MODULE PlaylistsProofs --------------------------
(***************************************************************************)
(* Theorems about Playlists, for every number of tracks, media and threads *)
(* and every bound.                                                        *)
(***************************************************************************)
EXTENDS Playlists, FiniteSetTheorems, FunctionTheorems, SequenceTheorems, TLAPS

-----------------------------------------------------------------------------
(* Types *)

Searchers == {u \in Users : Searching(u)}

\* The searches under way have room for the ids they may use.
RoomKept == made + MaxResults * Cardinality(Searchers) <= MaxCandidates

Busy(u) == upc[u] \in {"lookup", "submit", "record"}

\* A thread in a batch has a choice, and choices are candidates that existed.
PlansKept ==
    \A u \in Users :
        /\ Busy(u) => plan[u] # <<>>
        /\ \A i \in DOMAIN plan[u] : plan[u][i] <= made

KeptAreFew == \A u \in Users : IsFiniteSet(keep[u])

TypeInv == PlaylistsTypeOK /\ RoomKept /\ PlansKept /\ KeptAreFew

LEMMA PlaceMembers ==
  /\ "idle" \in UserPC /\ "refresh" \in UserPC
  /\ "search" \in UserPC /\ "replace" \in UserPC
  /\ "edit" \in UserPC /\ "lookup" \in UserPC
  /\ "submit" \in UserPC /\ "record" \in UserPC
  /\ "pending" \in Status /\ "searching" \in Status
  /\ "resolved" \in Status /\ "no_match" \in Status
  /\ "failed" \in Status
  BY DEF UserPC, Status

LEMMA ResultsAreLists ==
  ASSUME NEW list \in Results
  PROVE  /\ Len(list) \in 0..MaxResults
         /\ DOMAIN list = 1..Len(list)
         /\ \A i \in DOMAIN list : list[i] \in Media
  <1>1. PICK n \in 0..MaxResults : list \in [1..n -> Media]
    BY DEF Results
  <1>2. Len(list) = n
    BY <1>1
  <1> QED BY <1>1, <1>2

LEMMA NoResults == <<>> \in Results
  <1>1. 0 \in 0..MaxResults
    BY PlaylistsAssumption DEF PlaylistsAssumption
  <1>2. <<>> \in [1..0 -> Media]
    OBVIOUS
  <1> QED BY <1>1, <1>2 DEF Results

LEMMA ChoicesAreLists ==
  ASSUME made \in 0..MaxCandidates, NEW choices \in Choices
  PROVE  /\ choices \in Seq(Ids) /\ choices # <<>>
         /\ \A i \in DOMAIN choices : choices[i] <= made
  <1>1. PICK n \in 1..MaxBatch : choices \in [1..n -> 1..made]
    BY DEF Choices
  <1>2. MaxCandidates \in Nat
    BY PlaylistsAssumption DEF PlaylistsAssumption
  <1>3. 1..made \subseteq Ids
    BY <1>2 DEF Ids
  <1>4. choices \in Seq(Ids) /\ Len(choices) = n
    BY <1>1, <1>3
  <1> QED BY <1>1, <1>4

LEMMA TailIsShifted ==
  ASSUME NEW S, NEW s \in Seq(S), s # <<>>, Len(s) # 1
  PROVE  /\ Tail(s) \in Seq(S) /\ Tail(s) # <<>>
         /\ \A i \in DOMAIN Tail(s) :
                i + 1 \in DOMAIN s /\ Tail(s)[i] = s[i + 1]
  <1>1. Len(s) \in Nat /\ Len(s) # 0 /\ DOMAIN s = 1..Len(s)
    BY EmptySeq
  <1>2. Tail(s) \in Seq(S) /\ Len(Tail(s)) = Len(s) - 1
    BY <1>1, HeadTailProperties
  <1>3. \A i \in 1..(Len(s) - 1) : Tail(s)[i] = s[i + 1]
    BY <1>1, HeadTailProperties
  <1>4. Len(Tail(s)) # 0 /\ DOMAIN Tail(s) = 1..(Len(s) - 1)
    BY <1>1, <1>2
  <1>5. Tail(s) # <<>>
    BY <1>4, EmptySeq
  <1>6. \A i \in 1..(Len(s) - 1) : i + 1 \in 1..Len(s)
    BY <1>1
  <1> QED BY <1>1, <1>2, <1>3, <1>4, <1>5, <1>6

\* What Ends and NextChoice leave behind.
LEMMA EndsKeepsTypes ==
  ASSUME TypeInv, NEW u \in Users, Ends(u)
  PROVE  /\ upc' \in [Users -> UserPC] /\ utrack' \in [Users -> Tracks]
         /\ useen' \in [Users -> Status] /\ found' \in [Users -> Results]
         /\ keep' \in [Users -> SUBSET Rows] /\ drop' \in [Users -> SUBSET Rows]
         /\ KeptAreFew'
         /\ plan' \in [Users -> Seq(Ids)]
         /\ \A v \in Users :
               /\ Busy(v)' => plan'[v] # <<>>
               /\ \A i \in DOMAIN plan'[v] : plan'[v][i] <= made
  <1>1. upc' \in [Users -> UserPC] /\ utrack' \in [Users -> Tracks]
    BY PlaceMembers DEF TypeInv, PlaylistsTypeOK, Ends, GoTo
  <1>2. useen' \in [Users -> Status] /\ found' \in [Users -> Results]
    BY PlaceMembers, NoResults DEF TypeInv, PlaylistsTypeOK, Ends
  <1>3. keep' \in [Users -> SUBSET Rows] /\ drop' \in [Users -> SUBSET Rows]
    BY DEF TypeInv, PlaylistsTypeOK, Ends
  <1>4. plan' \in [Users -> Seq(Ids)]
    BY DEF TypeInv, PlaylistsTypeOK, Ends
  <1>5. ASSUME NEW v \in Users
        PROVE  /\ Busy(v)' => plan'[v] # <<>>
               /\ \A i \in DOMAIN plan'[v] : plan'[v][i] <= made
    BY DEF TypeInv, PlaylistsTypeOK, PlansKept, Ends, GoTo, Busy
  <1>6. KeptAreFew'
    BY FS_EmptySet DEF TypeInv, PlaylistsTypeOK, KeptAreFew, Ends
  <1> QED BY <1>1, <1>2, <1>3, <1>4, <1>5, <1>6

LEMMA NextChoiceKeepsTypes ==
  ASSUME TypeInv, NEW u \in Users, Busy(u), NextChoice(u)
  PROVE  /\ upc' \in [Users -> UserPC] /\ utrack' \in [Users -> Tracks]
         /\ useen' \in [Users -> Status] /\ found' \in [Users -> Results]
         /\ keep' \in [Users -> SUBSET Rows] /\ drop' \in [Users -> SUBSET Rows]
         /\ KeptAreFew'
         /\ plan' \in [Users -> Seq(Ids)]
         /\ \A v \in Users :
               /\ Busy(v)' => plan'[v] # <<>>
               /\ \A i \in DOMAIN plan'[v] : plan'[v][i] <= made
  <1>1. CASE Ends(u)
    BY <1>1, EndsKeepsTypes
  <1>2. CASE ~Ends(u)
    <2>1. /\ plan[u] \in Seq(Ids) /\ plan[u] # <<>> /\ Len(plan[u]) # 1
          /\ plan' = [plan EXCEPT ![u] = Tail(plan[u])]
          /\ upc' = [upc EXCEPT ![u] = "lookup"]
          /\ UNCHANGED <<utrack, useen, found, keep, drop>>
      BY <1>2 DEF TypeInv, PlaylistsTypeOK, PlansKept, NextChoice, GoTo
    <2>2. /\ Tail(plan[u]) \in Seq(Ids) /\ Tail(plan[u]) # <<>>
          /\ \A i \in DOMAIN Tail(plan[u]) :
                i + 1 \in DOMAIN plan[u] /\ Tail(plan[u])[i] = plan[u][i + 1]
      BY <2>1, TailIsShifted
    <2>3. plan' \in [Users -> Seq(Ids)] /\ upc' \in [Users -> UserPC]
      BY <2>1, <2>2, PlaceMembers DEF TypeInv, PlaylistsTypeOK
    <2>4. ASSUME NEW v \in Users
          PROVE  /\ Busy(v)' => plan'[v] # <<>>
                 /\ \A i \in DOMAIN plan'[v] : plan'[v][i] <= made
      <3>1. CASE v = u
        BY <2>1, <2>2, <3>1 DEF TypeInv, PlaylistsTypeOK, PlansKept
      <3>2. CASE v # u
        BY <2>1, <3>2 DEF TypeInv, PlaylistsTypeOK, PlansKept, Busy
      <3> QED BY <3>1, <3>2
    <2> QED BY <2>1, <2>3, <2>4 DEF TypeInv, PlaylistsTypeOK, KeptAreFew
  <1> QED BY <1>1, <1>2


\* The thread of u enters, keeps or leaves a search: what becomes of the room.
LEMMA SearchersAreFinite ==
  /\ IsFiniteSet(Searchers) /\ Cardinality(Searchers) \in Nat
  <1>1. Searchers \in SUBSET Users /\ IsFiniteSet(Users)
    BY PlaylistsAssumption DEF Searchers, PlaylistsAssumption
  <1>2. IsFiniteSet(Searchers)
    BY <1>1, FS_Subset
  <1> QED BY <1>2, FS_CardinalityType

LEMMA RoomStays ==
  ASSUME TypeInv, NEW u \in Users, NEW pc, GoTo(u, pc), UNCHANGED made,
         Searching(u) <=> pc \in {"refresh", "search", "replace"}
  PROVE  RoomKept'
  <1>1. Searchers' = Searchers
    BY DEF TypeInv, PlaylistsTypeOK, Searchers, Searching, GoTo
  <1> QED BY <1>1 DEF TypeInv, RoomKept

LEMMA RoomIsTaken ==
  ASSUME TypeInv, NEW u \in Users, ~Searching(u), GoTo(u, "refresh"),
         RoomForSearch, UNCHANGED made
  PROVE  RoomKept'
  <1>1. Searchers' = Searchers \cup {u} /\ u \notin Searchers
    BY DEF TypeInv, PlaylistsTypeOK, Searchers, Searching, GoTo
  <1>2. Cardinality(Searchers') = Cardinality(Searchers) + 1
    BY <1>1, SearchersAreFinite, FS_AddElement
  <1>3. made + MaxResults * (1 + Cardinality(Searchers)) <= MaxCandidates
    BY DEF RoomForSearch, Searchers
  <1>4. 1 + Cardinality(Searchers) = Cardinality(Searchers)'
    BY <1>2, SearchersAreFinite
  <1> QED BY <1>3, <1>4 DEF RoomKept

LEMMA RoomIsLeft ==
  ASSUME TypeInv, NEW u \in Users, Searching(u), GoTo(u, "idle"),
         NEW k \in 0..MaxResults, made' = made + k
  PROVE  RoomKept' /\ made' \in 0..MaxCandidates
  <1> DEFINE n == Cardinality(Searchers)
  <1>1. Searchers' = Searchers \ {u} /\ u \in Searchers
    BY DEF TypeInv, PlaylistsTypeOK, Searchers, Searching, GoTo
  <1>2. Cardinality(Searchers') = n - 1 /\ n \in Nat
    BY <1>1, SearchersAreFinite, FS_RemoveElement
  <1>3. n # 0
    BY <1>1, SearchersAreFinite, FS_EmptySet
  <1>4. /\ made \in Nat /\ MaxCandidates \in Nat /\ MaxResults \in Nat
        /\ made + MaxResults * n <= MaxCandidates
    BY PlaylistsAssumption DEF PlaylistsAssumption, TypeInv, PlaylistsTypeOK, RoomKept
  <1> HIDE DEF n
  <1>5. PICK m \in Nat : n = m + 1
    BY <1>2, <1>3
  <1>6. MaxResults * n = MaxResults * m + MaxResults /\ MaxResults * m \in Nat
    BY <1>4, <1>5
  <1>7. made' + MaxResults * m <= MaxCandidates
    BY <1>4, <1>6
  <1>8. Cardinality(Searchers)' = m
    BY <1>2, <1>5
  <1>9. RoomKept'
    BY <1>7, <1>8 DEF RoomKept
  <1> QED BY <1>4, <1>6, <1>7, <1>9


LEMMA SavedIsStatus ==
  ASSUME PlaylistsTypeOK, NEW t \in Tracks, NEW seen, NEW new \in Status
  PROVE  Saved(t, seen, new) \in [Tracks -> Status]
  BY DEF PlaylistsTypeOK, Saved

\* The rows a search inserts are typed, have new ids, and have different ones.
LEMMA FreshRows ==
  ASSUME TypeInv, NEW u \in Users, upc[u] = "replace",
         made + Len(found[u]) <= MaxCandidates
  PROVE  /\ Fresh(u) \subseteq Rows
         /\ \A r \in Fresh(u) : r.id > made /\ r.id <= made + Len(found[u])
         /\ \A r, q \in Fresh(u) : r.id = q.id => r = q
  <1> DEFINE row(i) == [id |-> made + i, track |-> utrack[u], media |-> found[u][i],
                        rank |-> i - 1 + Cardinality(keep[u])]
  <1>1. /\ found[u] \in Results /\ utrack[u] \in Tracks /\ made \in Nat
        /\ MaxCandidates \in Nat
    BY PlaylistsAssumption DEF PlaylistsAssumption, TypeInv, PlaylistsTypeOK
  <1>2. /\ DOMAIN found[u] = 1..Len(found[u]) /\ Len(found[u]) \in Nat
        /\ \A i \in DOMAIN found[u] : found[u][i] \in Media
    BY <1>1, ResultsAreLists
  <1>3. Cardinality(keep[u]) \in Nat
    BY FS_CardinalityType DEF TypeInv, KeptAreFew
  <1>4. \A r \in Fresh(u) : \E i \in 1..Len(found[u]) : r = row(i)
    BY <1>2 DEF Fresh
  <1>5. ASSUME NEW i \in 1..Len(found[u])
        PROVE  /\ row(i) \in Rows
               /\ row(i).id = made + i /\ made + i > made
               /\ made + i <= made + Len(found[u])
    <2>1. made + i \in Ids
      BY <1>1, <1>2 DEF Ids
    <2>2. i - 1 + Cardinality(keep[u]) \in Nat /\ found[u][i] \in Media
      BY <1>2, <1>3
    <2> QED BY <1>1, <1>2, <2>1, <2>2 DEF Rows
  <1>6. \A i, k \in 1..Len(found[u]) : made + i = made + k => i = k
    BY <1>1, <1>2
  <1> HIDE DEF row
  <1> QED BY <1>4, <1>5, <1>6


\* Ids tell rows apart, so there are finitely many.
LEMMA RowsAreFew ==
  ASSUME PlaylistsTypeOK
  PROVE  IsFiniteSet(rows)
  <1> DEFINE f == [r \in rows |-> r.id]
  <1>1. f \in [rows -> Ids] /\ \A r, q \in rows : f[r] = f[q] => r = q
    BY DEF PlaylistsTypeOK, Rows
  <1>2. IsFiniteSet(Ids)
    BY FS_Interval, PlaylistsAssumption DEF Ids, PlaylistsAssumption
  <1> HIDE DEF f
  <1>3. f \in Injection(rows, Ids)
    BY <1>1, Fun_IsInj
  <1> QED BY <1>2, <1>3, FS_Injection

LEMMA InitTypes == Init => TypeInv
  <1> SUFFICES ASSUME Init PROVE TypeInv
    OBVIOUS
  <1>1. PlaylistsTypeOK
    <2>1. 0 \in 0..MaxCandidates
      BY PlaylistsAssumption DEF PlaylistsAssumption
    <2>2. <<>> \in Seq(Ids)
      BY EmptySeq
    <2> QED BY <2>1, <2>2, PlaceMembers, NoResults DEF Init, PlaylistsTypeOK
  <1>2. RoomKept
    <2>1. Searchers = {}
      BY DEF Init, Searchers, Searching
    <2>2. Cardinality(Searchers) = 0
      BY <2>1, FS_EmptySet
    <2> QED BY <2>2, PlaylistsAssumption DEF PlaylistsAssumption, RoomKept, Init
  <1>3. PlansKept
    BY DEF Init, PlansKept, Busy
  <1>4. KeptAreFew
    BY FS_EmptySet DEF Init, KeptAreFew
  <1> QED BY <1>1, <1>2, <1>3, <1>4 DEF TypeInv

LEMMA SearchKeepsTypes ==
  ASSUME TypeInv, UNCHANGED lost, NEW u \in Users,
         \/ \E t \in Tracks : MarkSearching(u, t)
         \/ Refresh(u) \/ SearchReturns(u) \/ SearchFails(u)
  PROVE  TypeInv'
  <1>1. ASSUME NEW t \in Tracks, MarkSearching(u, t)
        PROVE  TypeInv'
    <2>1. RoomKept'
      BY <1>1, RoomIsTaken DEF MarkSearching, At, Searching
    <2>2. PlaylistsTypeOK'
      BY <1>1, PlaceMembers DEF TypeInv, PlaylistsTypeOK, MarkSearching, GoTo, tables
    <2>3. PlansKept' /\ KeptAreFew'
      BY <1>1 DEF TypeInv, PlaylistsTypeOK, MarkSearching, GoTo, PlansKept, KeptAreFew, Busy
    <2> QED BY <2>1, <2>2, <2>3 DEF TypeInv
  <1>2. ASSUME Refresh(u)
        PROVE  TypeInv'
    <2>1. RoomKept'
      BY <1>2, RoomStays DEF Refresh, At, Searching, tables
    <2>2. PlaylistsTypeOK'
      BY <1>2, PlaceMembers DEF TypeInv, PlaylistsTypeOK, Refresh, GoTo, tables
    <2>3. PlansKept' /\ KeptAreFew'
      BY <1>2 DEF TypeInv, PlaylistsTypeOK, Refresh, GoTo, tables, PlansKept, KeptAreFew, Busy
    <2> QED BY <2>1, <2>2, <2>3 DEF TypeInv
  <1>3. ASSUME SearchReturns(u)
        PROVE  TypeInv'
    <2>1. RoomKept'
      BY <1>3, RoomStays DEF SearchReturns, At, Searching, tables
    <2>2. RowsOf(utrack[u]) \subseteq rows
      BY DEF RowsOf
    <2>3. PlaylistsTypeOK'
      BY <1>3, <2>2, PlaceMembers
      DEF TypeInv, PlaylistsTypeOK, SearchReturns, GoTo, tables
    <2>4. PlansKept'
      BY <1>3 DEF TypeInv, PlaylistsTypeOK, SearchReturns, GoTo, tables, PlansKept, Busy
    <2>5. KeptAreFew'
      <3>1. \A S \in SUBSET rows : IsFiniteSet(S)
        BY RowsAreFew, FS_Subset DEF TypeInv
      <3> QED BY <1>3, <2>2, <3>1
              DEF TypeInv, PlaylistsTypeOK, SearchReturns, KeptAreFew
    <2> QED BY <2>1, <2>3, <2>4, <2>5 DEF TypeInv
  <1>4. ASSUME SearchFails(u)
        PROVE  TypeInv'
    <2>1. made \in Nat /\ 0 \in 0..MaxResults
      BY PlaylistsAssumption DEF PlaylistsAssumption, TypeInv, PlaylistsTypeOK
    <2>2. Searching(u) /\ Ends(u) /\ GoTo(u, "idle") /\ made' = made + 0
      BY <1>4, <2>1 DEF SearchFails, At, Searching, Ends
    <2>3. RoomKept'
      BY <2>1, <2>2, RoomIsLeft
    <2>4. resolution' \in [Tracks -> Status]
      BY <1>4, PlaceMembers, SavedIsStatus DEF TypeInv, PlaylistsTypeOK, SearchFails
    <2>5. PlaylistsTypeOK' /\ PlansKept' /\ KeptAreFew'
      BY <1>4, <2>2, <2>4, EndsKeepsTypes
      DEF TypeInv, PlaylistsTypeOK, PlansKept, SearchFails
    <2> QED BY <2>3, <2>5 DEF TypeInv
  <1> QED BY <1>1, <1>2, <1>3, <1>4

LEMMA ReplaceKeepsTypes ==
  ASSUME TypeInv, UNCHANGED lost, NEW u \in Users, Replace(u)
  PROVE  TypeInv'
  <1>1. /\ Searching(u) /\ Ends(u) /\ GoTo(u, "idle") /\ upc[u] = "replace"
        /\ UNCHANGED <<items, accepted>>
    BY DEF Replace, At, Searching, Ends, tables
  <1>2. /\ Len(found[u]) \in 0..MaxResults /\ 0 \in 0..MaxResults
        /\ made \in Nat /\ MaxCandidates \in Nat
    BY ResultsAreLists, PlaylistsAssumption
    DEF PlaylistsAssumption, TypeInv, PlaylistsTypeOK
  <1>3. CASE UNCHANGED tables
    <2>1. made' = made + 0
      BY <1>2, <1>3 DEF tables
    <2>2. RoomKept'
      BY <1>1, <1>2, <2>1, RoomIsLeft
    <2>3. PlaylistsTypeOK' /\ PlansKept' /\ KeptAreFew'
      BY <1>1, <1>3, EndsKeepsTypes DEF TypeInv, PlaylistsTypeOK, PlansKept, tables
    <2> QED BY <2>2, <2>3 DEF TypeInv
  <1>4. CASE /\ rows' = (rows \ drop[u]) \cup Fresh(u)
             /\ made' = made + Len(found[u])
             /\ resolution' = Saved(utrack[u], useen[u], Outcome(u))
    <2>1. RoomKept' /\ made' \in 0..MaxCandidates
      BY <1>1, <1>2, <1>4, RoomIsLeft
    <2>2. made + Len(found[u]) <= MaxCandidates
      BY <1>4, <2>1
    <2>3. /\ Fresh(u) \subseteq Rows
          /\ \A r \in Fresh(u) : r.id > made /\ r.id <= made'
          /\ \A r, q \in Fresh(u) : r.id = q.id => r = q
      BY <1>1, <1>4, <2>2, FreshRows
    <2>4. rows' \subseteq Rows
      BY <1>4, <2>3 DEF TypeInv, PlaylistsTypeOK
    <2>5. \A r \in rows : r.id \in Nat /\ r.id <= made
      BY DEF TypeInv, PlaylistsTypeOK, Rows, Ids
    <2>6. \A r \in Fresh(u) : r.id \in Nat
      BY <2>3 DEF Rows, Ids
    <2>7. made <= made'
      BY <1>2, <1>4
    <2>8. \A r \in rows' : r.id <= made'
      BY <1>2, <1>4, <2>1, <2>3, <2>5, <2>7
    <2>9. \A r \in rows, q \in Fresh(u) : r.id # q.id
      BY <1>2, <2>3, <2>5, <2>6
    <2>10. \A r, q \in rows' : r.id = q.id => r = q
      BY <1>4, <2>3, <2>9 DEF TypeInv, PlaylistsTypeOK
    <2>11. resolution' \in [Tracks -> Status]
      BY <1>4, PlaceMembers, SavedIsStatus DEF TypeInv, PlaylistsTypeOK, Outcome
    <2>12. PlaylistsTypeOK'
      BY <1>1, <2>1, <2>4, <2>8, <2>10, <2>11, EndsKeepsTypes
      DEF TypeInv, PlaylistsTypeOK
    <2>13. PlansKept'
      <3>1. ASSUME NEW v \in Users, NEW i \in DOMAIN plan'[v]
            PROVE  plan'[v][i] <= made'
        <4>1. plan'[v][i] <= made
          BY <1>1, EndsKeepsTypes
        <4>2. plan'[v][i] \in Nat
          <5>1. plan'[v] \in Seq(Ids)
            BY <2>12 DEF PlaylistsTypeOK
          <5>2. plan'[v][i] \in Ids
            BY <5>1
          <5> QED BY <5>2 DEF Ids
        <4> QED BY <1>2, <2>1, <2>7, <4>1, <4>2
      <3> QED BY <1>1, <3>1, EndsKeepsTypes DEF PlansKept
    <2>14. KeptAreFew'
      BY <1>1, EndsKeepsTypes
    <2> QED BY <2>1, <2>12, <2>13, <2>14 DEF TypeInv
  <1> QED BY <1>3, <1>4 DEF Replace


LEMMA EditKeepsTypes ==
  ASSUME TypeInv, UNCHANGED lost, NEW u \in Users,
         (\E t \in Tracks : EditBegin(u, t)) \/ EditCommit(u)
  PROVE  TypeInv'
  <1>1. ASSUME NEW t \in Tracks, EditBegin(u, t)
        PROVE  TypeInv'
    <2>1. RoomKept'
      BY <1>1, RoomStays DEF EditBegin, At, Searching, tables
    <2>2. PlaylistsTypeOK'
      BY <1>1, PlaceMembers DEF TypeInv, PlaylistsTypeOK, EditBegin, GoTo, tables
    <2>3. PlansKept' /\ KeptAreFew'
      BY <1>1 DEF TypeInv, PlaylistsTypeOK, EditBegin, GoTo, tables, PlansKept, KeptAreFew, Busy
    <2> QED BY <2>1, <2>2, <2>3 DEF TypeInv
  <1>2. ASSUME EditCommit(u)
        PROVE  TypeInv'
    <2>1. RoomKept'
      BY <1>2, RoomStays DEF EditCommit, Ends, At, Searching
    <2>2. Ends(u) /\ resolution' \in [Tracks -> Status]
      BY <1>2, PlaceMembers, SavedIsStatus DEF TypeInv, PlaylistsTypeOK, EditCommit
    <2>3. PlaylistsTypeOK' /\ PlansKept' /\ KeptAreFew'
      BY <1>2, <2>2, EndsKeepsTypes DEF TypeInv, PlaylistsTypeOK, PlansKept, EditCommit
    <2> QED BY <2>1, <2>3 DEF TypeInv
  <1> QED BY <1>1, <1>2

\* The choice of a thread in a batch is a candidate that existed.
LEMMA ChoiceExisted ==
  ASSUME TypeInv, NEW u \in Users, Busy(u)
  PROVE  Choice(u) \in Ids /\ Choice(u) <= made
  <1>1. plan[u] \in Seq(Ids) /\ plan[u] # <<>>
    BY DEF TypeInv, PlaylistsTypeOK, PlansKept
  <1>2. 1 \in DOMAIN plan[u] /\ Head(plan[u]) = plan[u][1] /\ Head(plan[u]) \in Ids
    BY <1>1, EmptySeq, LenProperties, HeadTailProperties
  <1> QED BY <1>1, <1>2 DEF TypeInv, PlansKept, Choice

LEMMA NextChoiceKeepsRoom ==
  ASSUME TypeInv, NEW u \in Users, Busy(u), NextChoice(u) \/ Ends(u), UNCHANGED made
  PROVE  RoomKept'
  <1>1. PICK pc \in {"idle", "lookup"} : GoTo(u, pc)
    BY DEF NextChoice, Ends
  <1> QED BY <1>1, RoomStays DEF Busy, Searching

LEMMA QueueKeepsTypes ==
  ASSUME TypeInv, UNCHANGED lost, NEW u \in Users,
         \/ \E choices \in Choices : QueueBegin(u, choices)
         \/ Lookup(u) \/ Submit(u) \/ Record(u)
  PROVE  TypeInv'
  <1>1. ASSUME NEW choices \in Choices, QueueBegin(u, choices)
        PROVE  TypeInv'
    <2>1. RoomKept'
      BY <1>1, RoomStays DEF QueueBegin, At, Searching, tables
    <2>2. /\ choices \in Seq(Ids) /\ choices # <<>>
          /\ \A i \in DOMAIN choices : choices[i] <= made
      BY ChoicesAreLists DEF TypeInv, PlaylistsTypeOK
    <2>3. PlaylistsTypeOK' /\ KeptAreFew'
      BY <1>1, <2>2, PlaceMembers
      DEF TypeInv, PlaylistsTypeOK, QueueBegin, GoTo, tables, KeptAreFew
    <2>4. PlansKept'
      BY <1>1, <2>2 DEF TypeInv, PlaylistsTypeOK, QueueBegin, GoTo, tables, PlansKept, Busy
    <2> QED BY <2>1, <2>3, <2>4 DEF TypeInv
  <1>2. ASSUME Busy(u), NextChoice(u) \/ Ends(u), UNCHANGED <<resolution, rows, made>>,
               items' \subseteq Items, accepted' \in [Ids -> Nat]
        PROVE  TypeInv'
    <2>1. RoomKept'
      BY <1>2, NextChoiceKeepsRoom
    <2>2. PlaylistsTypeOK' /\ PlansKept' /\ KeptAreFew'
      BY <1>2, EndsKeepsTypes, NextChoiceKeepsTypes DEF TypeInv, PlaylistsTypeOK, PlansKept
    <2> QED BY <2>1, <2>2 DEF TypeInv
  <1>3. ASSUME NEW pc \in {"submit", "record"}, Busy(u), GoTo(u, pc),
               UNCHANGED <<resolution, rows, made, items, useen, found, keep, drop, plan>>,
               accepted' \in [Ids -> Nat], utrack' \in [Users -> Tracks]
        PROVE  TypeInv'
    <2>1. RoomKept'
      BY <1>3, RoomStays DEF Busy, Searching
    <2>2. PlaylistsTypeOK' /\ PlansKept' /\ KeptAreFew'
      BY <1>3, PlaceMembers
      DEF TypeInv, PlaylistsTypeOK, PlansKept, KeptAreFew, GoTo, Busy
    <2> QED BY <2>1, <2>2 DEF TypeInv
  <1>4. items \subseteq Items /\ accepted \in [Ids -> Nat] /\ utrack \in [Users -> Tracks]
    BY DEF TypeInv, PlaylistsTypeOK
  <1>5. ASSUME Lookup(u)
        PROVE  TypeInv'
    <2>1. Busy(u) /\ UNCHANGED tables
      BY <1>5 DEF Lookup, At, Busy
    <2>2. CASE NextChoice(u)
      BY <1>2, <1>4, <2>1, <2>2 DEF tables
    <2>3. CASE ~NextChoice(u)
      <3>1. /\ \E r \in rows : utrack' = [utrack EXCEPT ![u] = r.track]
            /\ GoTo(u, "submit") /\ UNCHANGED <<useen, found, keep, drop, plan>>
        BY <1>5, <2>3 DEF Lookup
      <3>2. utrack' \in [Users -> Tracks]
        BY <3>1 DEF TypeInv, PlaylistsTypeOK, Rows
      <3> QED BY <1>3, <1>4, <2>1, <3>1, <3>2 DEF tables
    <2> QED BY <2>2, <2>3
  <1>6. ASSUME Submit(u)
        PROVE  TypeInv'
    <2>1. Busy(u) /\ UNCHANGED <<resolution, rows, made, items>>
      BY <1>6 DEF Submit, At, Busy
    <2>2. CASE (NextChoice(u) \/ Ends(u)) /\ UNCHANGED accepted
      BY <1>2, <1>4, <2>1, <2>2
    <2>3. CASE /\ accepted' = [accepted EXCEPT ![Choice(u)] = @ + 1]
               /\ GoTo(u, "record")
               /\ UNCHANGED <<utrack, useen, found, keep, drop, plan>>
      <3>1. accepted' \in [Ids -> Nat]
        BY <1>4, <2>1, <2>3, ChoiceExisted
      <3> QED BY <1>3, <1>4, <2>1, <2>3, <3>1
    <2> QED BY <1>6, <2>2, <2>3 DEF Submit
  <1>7. ASSUME Record(u)
        PROVE  TypeInv'
    <2>1. Busy(u) /\ UNCHANGED <<resolution, rows, made, accepted>>
      BY <1>7 DEF Record, At, Busy
    <2>2. [candidate |-> Choice(u), track |-> utrack[u]] \in Items
      BY <1>4, <2>1, ChoiceExisted DEF Items
    <2>3. NextChoice(u) \/ Ends(u)
      BY <1>7 DEF Record
    <2>4. items' \subseteq Items
      BY <1>4, <1>7, <2>2 DEF Record
    <2> QED BY <1>2, <1>4, <2>1, <2>3, <2>4
  <1> QED BY <1>1, <1>5, <1>6, <1>7

LEMMA DisjointThreads ==
  ASSUME NEW S \in SUBSET Users, NEW T \in SUBSET Users, S \cap T = {}
  PROVE  /\ IsFiniteSet(S) /\ Cardinality(S) \in Nat
         /\ IsFiniteSet(T) /\ Cardinality(T) \in Nat
         /\ Cardinality(Users) \in Nat
         /\ Cardinality(S) + Cardinality(T) <= Cardinality(Users)
  <1>1. IsFiniteSet(Users)
    BY PlaylistsAssumption DEF PlaylistsAssumption
  <1>2. IsFiniteSet(S) /\ IsFiniteSet(T)
    BY <1>1, FS_Subset
  <1>3. Cardinality(S \cup T) <= Cardinality(Users)
    BY <1>1, FS_Subset
  <1>4. Cardinality(S) \in Nat /\ Cardinality(T) \in Nat /\ Cardinality(Users) \in Nat
    BY <1>1, <1>2, FS_CardinalityType
  <1>5. Cardinality(S \cup T) = Cardinality(S) + Cardinality(T)
    <2>1. Cardinality(S \cap T) = 0
      BY FS_EmptySet
    <2>2. Cardinality(S \cup T) = Cardinality(S) + Cardinality(T) - Cardinality(S \cap T)
      BY <1>2, FS_Union
    <2> QED BY <1>4, <2>1, <2>2
  <1> QED BY <1>2, <1>3, <1>4, <1>5

LEMMA CountsAreNumbers ==
  ASSUME NEW c
  PROVE  /\ IsFiniteSet(Submitting(c)) /\ Cardinality(Submitting(c)) \in Nat
         /\ IsFiniteSet(Recording(c)) /\ Cardinality(Recording(c)) \in Nat
         /\ Cardinality(Users) \in Nat
  <1>1. /\ Submitting(c) \in SUBSET Users /\ Recording(c) \in SUBSET Users
        /\ Submitting(c) \cap Recording(c) = {}
    BY DEF Submitting, Recording
  <1> QED BY <1>1, DisjointThreads

\* The jobs a crash adds to those that were accepted, and to those that are lost.
LEMMA CrashLoses ==
  ASSUME Crash, TypeInv
  PROVE  \E more \in [Ids -> Nat] :
            /\ accepted' = [c \in Ids |-> accepted[c] + more[c]]
            /\ lost' = [c \in Ids |-> lost[c] + Cardinality(Recording(c)) + more[c]]
  <1>1. PICK committed \in SUBSET {u \in Users : At(u, "submit")} :
            /\ accepted' = [c \in Ids |->
                   accepted[c] + Cardinality(Submitting(c) \cap committed)]
            /\ lost' = [c \in Ids |-> lost[c] + Cardinality(Recording(c))
                                        + Cardinality(Submitting(c) \cap committed)]
    BY DEF Crash
  <1> DEFINE more == [c \in Ids |-> Cardinality(Submitting(c) \cap committed)]
  <1>2. \A c \in Ids : Cardinality(Submitting(c) \cap committed) \in Nat
    <2> TAKE c \in Ids
    <2>1. (Submitting(c) \cap committed) \in SUBSET Users /\ {} \in SUBSET Users
      BY DEF Submitting
    <2> QED BY <2>1, DisjointThreads
  <1>3. more \in [Ids -> Nat]
    BY <1>2
  <1> QED BY <1>1, <1>3

LEMMA CrashKeepsTypes ==
  ASSUME Crash, TypeInv
  PROVE  TypeInv'
  <1>1. accepted' \in [Ids -> Nat] /\ lost' \in [Ids -> Nat]
    <2>1. PICK more \in [Ids -> Nat] :
            /\ accepted' = [c \in Ids |-> accepted[c] + more[c]]
            /\ lost' = [c \in Ids |-> lost[c] + Cardinality(Recording(c)) + more[c]]
      BY CrashLoses
    <2>2. \A c \in Ids : Cardinality(Recording(c)) \in Nat
      BY CountsAreNumbers
    <2> QED BY <2>1, <2>2 DEF TypeInv, PlaylistsTypeOK
  <1>2. PlaylistsTypeOK'
    BY <1>1, PlaceMembers, NoResults, EmptySeq DEF Crash, TypeInv, PlaylistsTypeOK
  <1>3. Searchers' = {} /\ Cardinality({}) = 0
    BY FS_EmptySet DEF Crash, Searchers, Searching
  <1>4. RoomKept'
    <2>1. made' = made /\ made \in 0..MaxCandidates /\ MaxCandidates \in Nat /\ MaxResults \in Nat
      BY PlaylistsAssumption DEF Crash, TypeInv, PlaylistsTypeOK, PlaylistsAssumption
    <2>2. Cardinality(Searchers)' = 0
      BY <1>3
    <2> QED BY <2>1, <2>2 DEF RoomKept
  <1>5. PlansKept' /\ KeptAreFew'
    BY FS_EmptySet DEF Crash, PlansKept, Busy, KeptAreFew
  <1> QED BY <1>2, <1>4, <1>5 DEF TypeInv

\* Every step keeps the types.
LEMMA StepKeepsTypes ==
  ASSUME TypeInv, [Next]_vars
  PROVE  TypeInv'
  <1>1. CASE UNCHANGED vars
    BY <1>1 DEF TypeInv, PlaylistsTypeOK, RoomKept, PlansKept, KeptAreFew,
                Searchers, Searching, Busy, vars, tables, threads
  <1>2. ASSUME NEW u \in Users, Step(u), UNCHANGED lost
        PROVE  TypeInv'
    BY <1>2, SearchKeepsTypes, ReplaceKeepsTypes, EditKeepsTypes, QueueKeepsTypes DEF Step
  <1> QED BY <1>1, <1>2, CrashKeepsTypes DEF Next

LEMMA TypesAlways == Spec => []TypeInv
  BY InitTypes, StepKeepsTypes, PTL DEF Spec

\* Every variable keeps its type, candidate ids stay unique and within their
\* bound, however searches, edits and batches interleave.
THEOREM TypeCorrect == Spec => []PlaylistsTypeOK
  <1>1. TypeInv => PlaylistsTypeOK
    BY DEF TypeInv
  <1> QED BY <1>1, TypesAlways, PTL


-----------------------------------------------------------------------------
(* Jobs and queue items *)

\* What a step may do to jobs, items and candidates, seen from the threads
\* that are about to submit a choice or to record it.
OthersStay(u) == \A v \in Users \ {u} : upc'[v] = upc[v] /\ plan'[v] = plan[v]

Elsewhere(u) == upc'[u] \notin {"submit", "record"}

Aside(u) ==
    /\ OthersStay(u) /\ Elsewhere(u) /\ upc[u] # "record"
    /\ UNCHANGED <<rows, made, items, accepted>>

Replaced(u) ==
    /\ OthersStay(u) /\ Elsewhere(u) /\ upc[u] = "replace"
    /\ made <= made' /\ \A r \in rows' \ rows : r.id > made
    /\ UNCHANGED <<items, accepted>>

Chosen(u) ==
    /\ OthersStay(u) /\ upc[u] = "lookup" /\ upc'[u] = "submit"
    /\ Stored(Choice(u)) /\ ~Queued(Choice(u))
    /\ UNCHANGED <<rows, made, items, accepted, plan>>

Accepted(u) ==
    /\ OthersStay(u) /\ upc[u] = "submit" /\ upc'[u] = "record"
    /\ accepted' = [accepted EXCEPT ![Choice(u)] = @ + 1]
    /\ UNCHANGED <<rows, made, items, plan>>

Recorded(u) ==
    /\ OthersStay(u) /\ Elsewhere(u) /\ upc[u] = "record"
    /\ items \subseteq items'
    /\ \A i \in items' \ items : i.candidate = Choice(u)
    /\ (\E i \in items' : i.candidate = Choice(u)) \/ ~Stored(Choice(u))
    /\ UNCHANGED <<rows, made, accepted>>

LEMMA EndsLeaves ==
  ASSUME TypeInv, NEW u \in Users, Ends(u) \/ (Busy(u) /\ NextChoice(u))
  PROVE  OthersStay(u) /\ Elsewhere(u)
  BY DEF TypeInv, PlaylistsTypeOK, Ends, NextChoice, GoTo, OthersStay, Elsewhere

LEMMA StepKinds ==
  ASSUME TypeInv, UNCHANGED lost, NEW u \in Users, Step(u)
  PROVE  Aside(u) \/ Replaced(u) \/ Chosen(u) \/ Accepted(u) \/ Recorded(u)
  <1>0. upc \in [Users -> UserPC] /\ plan \in [Users -> Seq(Ids)]
    BY DEF TypeInv, PlaylistsTypeOK
  <1>1. ASSUME NEW t \in Tracks, MarkSearching(u, t)
        PROVE  Aside(u)
    BY <1>0, <1>1 DEF MarkSearching, At, GoTo, Aside, OthersStay, Elsewhere
  <1>2. ASSUME NEW t \in Tracks, EditBegin(u, t)
        PROVE  Aside(u)
    BY <1>0, <1>2 DEF EditBegin, At, GoTo, tables, Aside, OthersStay, Elsewhere
  <1>3. CASE Refresh(u)
    BY <1>0, <1>3 DEF Refresh, At, GoTo, tables, Aside, OthersStay, Elsewhere
  <1>4. CASE SearchReturns(u)
    BY <1>0, <1>4 DEF SearchReturns, At, GoTo, tables, Aside, OthersStay, Elsewhere
  <1>5. CASE SearchFails(u)
    BY <1>5, EndsLeaves DEF SearchFails, At, Aside
  <1>6. CASE Replace(u)
    <2>1. /\ OthersStay(u) /\ Elsewhere(u) /\ upc[u] = "replace"
          /\ UNCHANGED <<items, accepted>>
      BY <1>6, EndsLeaves DEF Replace, At, tables
    <2>2. CASE UNCHANGED tables
      BY <2>1, <2>2 DEF tables, Aside
    <2>3. CASE /\ rows' = (rows \ drop[u]) \cup Fresh(u)
               /\ made' = made + Len(found[u])
      <3>1. Len(found[u]) \in Nat /\ made \in Nat
        BY ResultsAreLists, PlaylistsAssumption
        DEF TypeInv, PlaylistsTypeOK, PlaylistsAssumption
      <3>2. TypeInv'
        BY <1>6, ReplaceKeepsTypes
      <3>3. made + Len(found[u]) <= MaxCandidates
        BY <2>3, <3>1, <3>2, PlaylistsAssumption
        DEF TypeInv, PlaylistsTypeOK, PlaylistsAssumption
      <3>4. \A r \in Fresh(u) : r.id > made
        BY <2>1, <3>3, FreshRows
      <3> QED BY <2>1, <2>3, <3>1, <3>4 DEF Replaced
    <2> QED BY <1>6, <2>2, <2>3 DEF Replace
  <1>7. CASE EditCommit(u)
    BY <1>7, EndsLeaves DEF EditCommit, At, Aside
  <1>8. ASSUME NEW choices \in Choices, QueueBegin(u, choices)
        PROVE  Aside(u)
    BY <1>0, <1>8 DEF QueueBegin, At, GoTo, tables, Aside, OthersStay, Elsewhere
  <1>9. CASE Lookup(u)
    <2>1. Busy(u) /\ upc[u] = "lookup" /\ UNCHANGED <<rows, made, items, accepted>>
      BY <1>9 DEF Lookup, At, Busy, tables
    <2>2. CASE NextChoice(u)
      BY <2>1, <2>2, EndsLeaves DEF Aside
    <2>3. CASE ~NextChoice(u)
      BY <1>0, <1>9, <2>1, <2>3 DEF Lookup, GoTo, Chosen, OthersStay
    <2> QED BY <2>2, <2>3
  <1>10. CASE Submit(u)
    <2>1. Busy(u) /\ upc[u] = "submit" /\ UNCHANGED <<rows, made, items>>
      BY <1>10 DEF Submit, At, Busy
    <2>2. CASE (NextChoice(u) \/ Ends(u)) /\ UNCHANGED accepted
      BY <2>1, <2>2, EndsLeaves DEF Aside
    <2>3. CASE /\ accepted' = [accepted EXCEPT ![Choice(u)] = @ + 1]
               /\ GoTo(u, "record") /\ UNCHANGED plan
      BY <1>0, <2>1, <2>3 DEF GoTo, Accepted, OthersStay
    <2> QED BY <1>10, <2>2, <2>3 DEF Submit
  <1>11. CASE Record(u)
    <2>1. /\ Busy(u) /\ upc[u] = "record" /\ UNCHANGED <<rows, made, accepted>>
          /\ NextChoice(u) \/ Ends(u)
      BY <1>11 DEF Record, At, Busy
    <2>2. OthersStay(u) /\ Elsewhere(u)
      BY <2>1, EndsLeaves
    <2>3. /\ items \subseteq items'
          /\ \A i \in items' \ items : i.candidate = Choice(u)
          /\ (\E i \in items' : i.candidate = Choice(u)) \/ ~Stored(Choice(u))
      <3>1. CASE items' = items \cup {[candidate |-> Choice(u), track |-> utrack[u]]}
        <4>1. [candidate |-> Choice(u), track |-> utrack[u]] \in items'
          BY <3>1
        <4>2. \E i \in items' : i.candidate = Choice(u)
          BY <4>1
        <4> QED BY <3>1, <4>2
      <3>2. CASE UNCHANGED items /\ ~(Stored(Choice(u)) /\ ~Queued(Choice(u)))
        BY <3>2 DEF Queued
      <3> QED BY <1>11, <3>1, <3>2 DEF Record
    <2> QED BY <2>1, <2>2, <2>3 DEF Recorded
  <1> QED BY <1>1, <1>2, <1>3, <1>4, <1>5, <1>6, <1>7, <1>8, <1>9, <1>10, <1>11 DEF Step


\* While a candidate can still be submitted, the jobs it has are those of the
\* threads about to record one, and those crashes made it lose.
OpenIsCounted ==
    \A c \in Ids :
        ~Queued(c) /\ (Stored(c) \/ c > made) 
            => accepted[c] <= Cardinality(Recording(c)) + lost[c]

\* A thread that is about to submit a candidate has room for its job.
JobsAreFew ==
    \A c \in Ids :
        accepted[c] + Cardinality(Submitting(c)) <= Cardinality(Users) + lost[c]

CountInv == TypeInv /\ OpenIsCounted /\ JobsAreFew

LEMMA CountsWhenLeaving ==
  ASSUME NEW u \in Users, OthersStay(u), Elsewhere(u), NEW c
  PROVE  /\ Submitting(c)' = Submitting(c) \ {u}
         /\ Recording(c)' = Recording(c) \ {u}
  BY DEF OthersStay, Elsewhere, Submitting, Recording, Choice

LEMMA AsideKeepsCounts ==
  ASSUME CountInv, TypeInv', lost' = lost, NEW u \in Users, Aside(u) \/ Replaced(u)
  PROVE  OpenIsCounted' /\ JobsAreFew'
  <1>1. /\ OthersStay(u) /\ Elsewhere(u) /\ upc[u] # "record"
        /\ UNCHANGED <<items, accepted>>
        /\ made <= made' /\ \A r \in rows' \ rows : r.id > made
    BY DEF Aside, Replaced, CountInv, TypeInv, PlaylistsTypeOK
  <1>2. /\ made \in Nat /\ made' \in Nat /\ accepted \in [Ids -> Nat]
        /\ lost \in [Ids -> Nat] /\ Ids \subseteq Nat
    BY DEF CountInv, TypeInv, PlaylistsTypeOK, Ids
  <1>3. ASSUME NEW c \in Ids, ~Queued(c)', Stored(c)' \/ c > made'
        PROVE  accepted'[c] <= Cardinality(Recording(c)') + lost[c]
    <2>1. ~Queued(c) /\ (Stored(c) \/ c > made)
      BY <1>1, <1>2, <1>3 DEF Queued, Stored
    <2>2. Recording(c)' = Recording(c)
      BY <1>1, CountsWhenLeaving DEF Recording
    <2> QED BY <1>1, <2>1, <2>2 DEF CountInv, OpenIsCounted
  <1>4. ASSUME NEW c \in Ids
        PROVE  accepted'[c] + Cardinality(Submitting(c)') <= Cardinality(Users) + lost[c]
    <2>1. Submitting(c)' \in SUBSET Submitting(c)
      BY <1>1, CountsWhenLeaving
    <2>2. /\ Cardinality(Submitting(c)') <= Cardinality(Submitting(c))
          /\ Cardinality(Submitting(c)') \in Nat
      BY <2>1, CountsAreNumbers, FS_Subset, FS_CardinalityType
    <2>3. /\ accepted[c] + Cardinality(Submitting(c)) <= Cardinality(Users) + lost[c]
          /\ accepted[c] \in Nat /\ lost[c] \in Nat
      BY <1>2 DEF CountInv, JobsAreFew
    <2> QED BY <1>1, <2>2, <2>3, CountsAreNumbers
  <1> QED BY <1>3, <1>4 DEF OpenIsCounted, JobsAreFew

LEMMA ChosenKeepsCounts ==
  ASSUME CountInv, lost' = lost, NEW u \in Users, Chosen(u)
  PROVE  OpenIsCounted' /\ JobsAreFew'
  <1>1. Choice(u)' = Choice(u) /\ UNCHANGED <<rows, made, items, accepted>>
    BY DEF Chosen, Choice
  <1>2. accepted \in [Ids -> Nat] /\ lost \in [Ids -> Nat]
    BY DEF CountInv, TypeInv, PlaylistsTypeOK
  <1>3. ASSUME NEW c
        PROVE  /\ Recording(c)' = Recording(c)
               /\ Submitting(c)' = IF c = Choice(u) THEN Submitting(c) \cup {u}
                                    ELSE Submitting(c)
    BY <1>1 DEF Chosen, OthersStay, Recording, Submitting, Choice
  <1>4. OpenIsCounted'
    BY <1>1, <1>3 DEF CountInv, OpenIsCounted, Queued, Stored
  <1>5. ASSUME NEW c \in Ids
        PROVE  accepted[c] + Cardinality(Submitting(c)') <= Cardinality(Users) + lost[c]
    <2>1. CASE c # Choice(u)
      BY <1>3, <2>1 DEF CountInv, JobsAreFew
    <2>2. CASE c = Choice(u)
      <3>1. /\ accepted[c] <= Cardinality(Recording(c)) + lost[c]
            /\ accepted[c] \in Nat /\ lost[c] \in Nat
        BY <1>2, <2>2 DEF CountInv, OpenIsCounted, Chosen
      <3>2. /\ Submitting(c) \cup {u} \in SUBSET Users /\ Recording(c) \in SUBSET Users
            /\ (Submitting(c) \cup {u}) \cap Recording(c) = {}
        BY DEF Submitting, Recording, Chosen
      <3>3. /\ Cardinality(Submitting(c) \cup {u}) + Cardinality(Recording(c))
                  <= Cardinality(Users)
            /\ Cardinality(Submitting(c) \cup {u}) \in Nat
        BY <3>2, DisjointThreads
      <3>4. Cardinality(Submitting(c)') = Cardinality(Submitting(c) \cup {u})
        BY <1>3, <2>2
      <3> QED BY <3>1, <3>3, <3>4, CountsAreNumbers
    <2> QED BY <2>1, <2>2
  <1> QED BY <1>1, <1>4, <1>5 DEF JobsAreFew

LEMMA AcceptedKeepsCounts ==
  ASSUME CountInv, lost' = lost, NEW u \in Users, Accepted(u)
  PROVE  OpenIsCounted' /\ JobsAreFew'
  <1>1. Choice(u)' = Choice(u) /\ UNCHANGED <<rows, made, items>>
    BY DEF Accepted, Choice
  <1>2. accepted \in [Ids -> Nat] /\ lost \in [Ids -> Nat]
    BY DEF CountInv, TypeInv, PlaylistsTypeOK
  <1>3. ASSUME NEW c
        PROVE  /\ Recording(c)' = IF c = Choice(u) THEN Recording(c) \cup {u}
                                  ELSE Recording(c)
               /\ Submitting(c)' = IF c = Choice(u) THEN Submitting(c) \ {u}
                                   ELSE Submitting(c)
    BY <1>1 DEF Accepted, OthersStay, Recording, Submitting, Choice
  <1>4. ASSUME NEW c \in Ids, c # Choice(u)
        PROVE  /\ accepted'[c] = accepted[c]
               /\ Recording(c)' = Recording(c) /\ Submitting(c)' = Submitting(c)
    BY <1>2, <1>3, <1>4 DEF Accepted
  <1>5. ASSUME NEW c \in Ids, c = Choice(u)
        PROVE  /\ accepted'[c] = accepted[c] + 1
               /\ Cardinality(Recording(c)') = Cardinality(Recording(c)) + 1
               /\ Cardinality(Submitting(c)') = Cardinality(Submitting(c)) - 1
    <2>1. u \in Submitting(c) /\ u \notin Recording(c)
      BY <1>5 DEF Accepted, Submitting, Recording
    <2>2. Cardinality(Recording(c) \cup {u}) = Cardinality(Recording(c)) + 1
      BY <2>1, CountsAreNumbers, FS_AddElement
    <2>3. Cardinality(Submitting(c) \ {u}) = Cardinality(Submitting(c)) - 1
      BY <2>1, CountsAreNumbers, FS_RemoveElement
    <2> QED BY <1>2, <1>3, <1>5, <2>2, <2>3 DEF Accepted
  <1>6. ASSUME NEW c \in Ids, ~Queued(c)', Stored(c)' \/ c > made'
        PROVE  accepted'[c] <= Cardinality(Recording(c)') + lost[c]
    <2>1. /\ accepted[c] <= Cardinality(Recording(c)) + lost[c]
          /\ accepted[c] \in Nat /\ lost[c] \in Nat
      BY <1>1, <1>2, <1>6 DEF CountInv, OpenIsCounted, Queued, Stored
    <2> QED BY <1>4, <1>5, <2>1, CountsAreNumbers
  <1>7. ASSUME NEW c \in Ids
        PROVE  accepted'[c] + Cardinality(Submitting(c)') <= Cardinality(Users) + lost[c]
    <2>1. /\ accepted[c] + Cardinality(Submitting(c)) <= Cardinality(Users) + lost[c]
          /\ accepted[c] \in Nat /\ lost[c] \in Nat
      BY <1>2 DEF CountInv, JobsAreFew
    <2> QED BY <1>4, <1>5, <2>1, CountsAreNumbers
  <1> QED BY <1>6, <1>7 DEF OpenIsCounted, JobsAreFew

LEMMA RecordedKeepsCounts ==
  ASSUME CountInv, lost' = lost, NEW u \in Users, Recorded(u)
  PROVE  OpenIsCounted' /\ JobsAreFew'
  <1>1. UNCHANGED <<rows, made, accepted>> /\ upc[u] = "record"
    BY DEF Recorded
  <1>2. Choice(u) \in Ids /\ Choice(u) <= made
    BY <1>1, ChoiceExisted DEF CountInv, Busy
  <1>3. /\ made \in Nat /\ Ids \subseteq Nat
    BY DEF CountInv, TypeInv, PlaylistsTypeOK, Ids
  <1>4. ASSUME NEW c
        PROVE  /\ Submitting(c)' = Submitting(c)
               /\ c # Choice(u) => Recording(c)' = Recording(c)
    BY CountsWhenLeaving DEF Recorded, Submitting, Recording
  <1>5. ASSUME NEW c \in Ids, ~Queued(c)', Stored(c)' \/ c > made'
        PROVE  accepted'[c] <= Cardinality(Recording(c)') + lost[c]
    <2>1. c # Choice(u)
      BY <1>1, <1>2, <1>3, <1>5 DEF Recorded, Queued, Stored
    <2>2. ~Queued(c)
      BY <1>5 DEF Recorded, Queued
    <2> QED BY <1>1, <1>4, <1>5, <2>1, <2>2 DEF CountInv, OpenIsCounted, Stored
  <1>6. JobsAreFew'
    BY <1>1, <1>4 DEF CountInv, JobsAreFew
  <1> QED BY <1>5, <1>6 DEF OpenIsCounted


\* The jobs of the threads a crash stops are the jobs it loses.
LEMMA CrashKeepsCounts ==
  ASSUME CountInv, Crash
  PROVE  OpenIsCounted' /\ JobsAreFew'
  <1>1. PICK more \in [Ids -> Nat] :
            /\ accepted' = [c \in Ids |-> accepted[c] + more[c]]
            /\ lost' = [c \in Ids |-> lost[c] + Cardinality(Recording(c)) + more[c]]
    BY CrashLoses DEF CountInv
  <1>2. /\ accepted \in [Ids -> Nat] /\ lost \in [Ids -> Nat]
        /\ UNCHANGED <<rows, made, items>>
    BY DEF CountInv, TypeInv, PlaylistsTypeOK, Crash
  <1>3. \A c : Submitting(c)' = {} /\ Recording(c)' = {}
    BY DEF Crash, Submitting, Recording
  <1>4. Cardinality({}) = 0
    BY FS_EmptySet
  <1>5. ASSUME NEW c \in Ids
        PROVE  /\ accepted'[c] = accepted[c] + more[c]
               /\ lost'[c] = lost[c] + Cardinality(Recording(c)) + more[c]
               /\ Cardinality(Recording(c)') = 0 /\ Cardinality(Submitting(c)') = 0
               /\ accepted[c] \in Nat /\ more[c] \in Nat /\ lost[c] \in Nat
               /\ Cardinality(Recording(c)) \in Nat /\ Cardinality(Submitting(c)) \in Nat
               /\ Cardinality(Users) \in Nat
    BY <1>1, <1>2, <1>3, <1>4, CountsAreNumbers
  <1>6. ASSUME NEW c \in Ids, ~Queued(c)', Stored(c)' \/ c > made'
        PROVE  accepted'[c] <= Cardinality(Recording(c)') + lost'[c]
    <2>1. accepted[c] <= Cardinality(Recording(c)) + lost[c]
      BY <1>2, <1>6 DEF CountInv, OpenIsCounted, Queued, Stored
    <2> QED BY <1>5, <2>1
  <1>7. ASSUME NEW c \in Ids
        PROVE  accepted'[c] + Cardinality(Submitting(c)') <= Cardinality(Users) + lost'[c]
    <2>1. accepted[c] + Cardinality(Submitting(c)) <= Cardinality(Users) + lost[c]
      BY DEF CountInv, JobsAreFew
    <2> QED BY <1>5, <2>1
  <1> QED BY <1>6, <1>7 DEF OpenIsCounted, JobsAreFew

LEMMA InitCounts == Init => CountInv
  <1> SUFFICES ASSUME Init PROVE CountInv
    OBVIOUS
  <1>1. ASSUME NEW c \in Ids
        PROVE  accepted[c] = 0 /\ lost[c] = 0 /\ Submitting(c) = {}
    BY DEF Init, Submitting
  <1>2. Cardinality({}) = 0
    BY FS_EmptySet
  <1>3. OpenIsCounted
    BY <1>1, CountsAreNumbers DEF OpenIsCounted
  <1>4. JobsAreFew
    BY <1>1, <1>2, CountsAreNumbers DEF JobsAreFew
  <1> QED BY <1>3, <1>4, InitTypes DEF CountInv

LEMMA StepKeepsCounts ==
  ASSUME CountInv, [Next]_vars
  PROVE  CountInv'
  <1>1. TypeInv'
    BY StepKeepsTypes DEF CountInv
  <1>2. CASE UNCHANGED vars
    <2>1. \A c \in Ids : Submitting(c)' = Submitting(c) /\ Recording(c)' = Recording(c)
      BY <1>2 DEF vars, threads, Submitting, Recording, Choice
    <2>2. OpenIsCounted' /\ JobsAreFew'
      BY <1>2, <2>1 DEF CountInv, OpenIsCounted, JobsAreFew, vars, tables, Queued, Stored
    <2> QED BY <1>1, <2>2 DEF CountInv
  <1>3. ASSUME NEW u \in Users, Step(u), UNCHANGED lost
        PROVE  CountInv'
    <2>1. Aside(u) \/ Replaced(u) \/ Chosen(u) \/ Accepted(u) \/ Recorded(u)
      BY <1>3, StepKinds DEF CountInv
    <2>2. OpenIsCounted' /\ JobsAreFew'
      BY <1>1, <1>3, <2>1, AsideKeepsCounts, ChosenKeepsCounts, AcceptedKeepsCounts,
         RecordedKeepsCounts
    <2> QED BY <1>1, <2>2 DEF CountInv
  <1>4. CASE Crash
    BY <1>1, <1>4, CrashKeepsCounts DEF CountInv
  <1> QED BY <1>2, <1>3, <1>4 DEF Next

LEMMA CountsAlways == Spec => []CountInv
  BY InitCounts, StepKeepsCounts, PTL DEF Spec

\* However many requests queue a candidate, one after the other or at once,
\* it never has more jobs than there are threads: submit_candidate submits a
\* second job only beside a request that has not committed its queue item yet.
THEOREM DuplicatesAreConcurrent == Spec => []DuplicatesBounded
  <1>1. CountInv => DuplicatesBounded
    <2> SUFFICES ASSUME CountInv, NEW c \in Ids
                 PROVE  accepted[c] <= Cardinality(Users) + lost[c]
      BY DEF DuplicatesBounded
    <2>1. /\ accepted[c] \in Nat /\ lost[c] \in Nat
          /\ accepted[c] + Cardinality(Submitting(c)) <= Cardinality(Users) + lost[c]
      BY DEF CountInv, TypeInv, PlaylistsTypeOK, JobsAreFew
    <2> QED BY <2>1, CountsAreNumbers
  <1> QED BY <1>1, CountsAlways, PTL

\* No interleaving of searches, edits and batches, and no commit that fails,
\* leaves a stored candidate with a job and without a queue item, but for the
\* moment between the two commits of submit_candidate.
THEOREM JobsAreRecorded == Spec => []SubmittedIsRecorded
  <1>1. CountInv => SubmittedIsRecorded
    <2> SUFFICES ASSUME CountInv, NEW c \in Ids, accepted[c] > lost[c], ~Queued(c), Stored(c)
                 PROVE  \E u \in Users : upc[u] = "record" /\ Choice(u) = c
      BY DEF SubmittedIsRecorded
    <2>1. /\ accepted[c] <= Cardinality(Recording(c)) + lost[c]
          /\ accepted[c] \in Nat /\ lost[c] \in Nat
      BY DEF CountInv, TypeInv, PlaylistsTypeOK, OpenIsCounted
    <2>2. Cardinality(Recording(c)) # 0
      BY <2>1, CountsAreNumbers
    <2>3. Recording(c) # {}
      BY <2>2, FS_EmptySet
    <2> QED BY <2>3 DEF Recording
  <1> QED BY <1>1, CountsAlways, PTL

\* A thread that is about to record a choice has a job for it.
JobsInv ==
    /\ TypeInv /\ ItemsHaveJobs
    /\ \A u \in Users : upc[u] = "record" => accepted[Choice(u)] > 0

LEMMA StepKeepsJobs ==
  ASSUME JobsInv, [Next]_vars
  PROVE  JobsInv'
  <1>1. TypeInv'
    BY StepKeepsTypes DEF JobsInv
  <1>2. CASE UNCHANGED vars
    BY <1>1, <1>2 DEF JobsInv, ItemsHaveJobs, Choice, vars, tables, threads
  <1>3. ASSUME NEW u \in Users, Step(u), UNCHANGED lost
        PROVE  JobsInv'
    <2>1. /\ accepted \in [Ids -> Nat]
          /\ items \subseteq Items
          /\ \A v \in Users : upc[v] = "record" => Choice(v) \in Ids
      BY ChoiceExisted DEF JobsInv, TypeInv, PlaylistsTypeOK, Busy
    <2>2. Aside(u) \/ Replaced(u) \/ Chosen(u) \/ Accepted(u) \/ Recorded(u)
      BY <1>3, StepKinds DEF JobsInv
    <2>3. \A c \in Ids : accepted[c] > 0 => accepted'[c] > 0
      BY <2>1, <2>2 DEF Aside, Replaced, Chosen, Accepted, Recorded
    <2>4. ASSUME NEW v \in Users, upc'[v] = "record"
          PROVE  accepted'[Choice(v)'] > 0
      <3>1. CASE v # u
        BY <2>1, <2>2, <2>3, <2>4, <3>1
        DEF JobsInv, Aside, Replaced, Chosen, Accepted, Recorded, OthersStay, Choice
      <3>2. CASE v = u
        <4>1. Accepted(u)
          BY <2>2, <2>4, <3>2 DEF Aside, Replaced, Chosen, Recorded, Elsewhere
        <4>2. Choice(u)' = Choice(u) /\ Choice(u) \in Ids
          BY <4>1, ChoiceExisted DEF Accepted, Choice, JobsInv, Busy
        <4> QED BY <2>1, <3>2, <4>1, <4>2 DEF Accepted
      <3> QED BY <3>1, <3>2
    <2>5. ASSUME NEW i \in items'
          PROVE  accepted'[i.candidate] > 0
      <3>1. CASE i \in items
        BY <2>1, <2>3, <3>1 DEF JobsInv, ItemsHaveJobs, Items
      <3>2. CASE i \notin items
        <4>1. Recorded(u)
          BY <2>2, <2>5, <3>2 DEF Aside, Replaced, Chosen, Accepted
        <4> QED BY <2>5, <3>2, <4>1 DEF JobsInv, Recorded
      <3> QED BY <3>1, <3>2
    <2> QED BY <1>1, <2>4, <2>5 DEF JobsInv, ItemsHaveJobs
  <1>4. CASE Crash
    <2>1. PICK more \in [Ids -> Nat] : accepted' = [c \in Ids |-> accepted[c] + more[c]]
      BY <1>4, CrashLoses DEF JobsInv
    <2>2. /\ accepted \in [Ids -> Nat] /\ items' = items /\ items \subseteq Items
          /\ \A u \in Users : upc'[u] # "record"
      BY <1>4 DEF JobsInv, TypeInv, PlaylistsTypeOK, Crash
    <2>3. ASSUME NEW i \in items
          PROVE  accepted'[i.candidate] > 0
      <3>1. i.candidate \in Ids /\ accepted[i.candidate] > 0
        BY <2>2 DEF JobsInv, ItemsHaveJobs, Items
      <3> QED BY <2>1, <2>2, <3>1
    <2> QED BY <1>1, <2>2, <2>3 DEF JobsInv, ItemsHaveJobs
  <1> QED BY <1>2, <1>3, <1>4 DEF Next

\* A queue item is only ever written for a job that got into the queue.
THEOREM ItemsAreJobs == Spec => []ItemsHaveJobs
  <1>1. Init => JobsInv
    BY InitTypes DEF Init, JobsInv, ItemsHaveJobs
  <1>2. JobsInv => ItemsHaveJobs
    BY DEF JobsInv
  <1> QED BY <1>1, <1>2, StepKeepsJobs, PTL DEF Spec

=============================================================================
