---------------------------- MODULE ImportProofs ----------------------------
(***************************************************************************)
(* Theorems about Import, for files of any length and any limit: the types *)
(* of its state, that the lines read are accounted for, and that the       *)
(* import implements ImportPromise.                                        *)
(***************************************************************************)
EXTENDS Import, FiniteSetTheorems, SequenceTheorems, TLAPS

-----------------------------------------------------------------------------
(* Files *)

LEMMA FilesAreLists ==
  ASSUME NEW u \in Uploads
  PROVE  /\ Len(u.lines) \in Nat
         /\ DOMAIN u.lines = 1..Len(u.lines)
         /\ \A i \in 1..Len(u.lines) : u.lines[i] \in Lines
         /\ u.importer \in {"shazam_csv", "text", "other"}
         /\ u.importer = "shazam_csv" => \A i \in 1..Len(u.lines) : NotBlank(u.lines[i])
  <1>1. u.lines \in Files /\ u.importer \in {"shazam_csv", "text", "other"}
    BY DEF Uploads
  <1>2. PICK n \in 0..MaxLines : u.lines \in [1..n -> Lines]
    BY <1>1 DEF Files
  <1>3. n \in Nat
    BY UploadsAssumption, <1>2 DEF UploadsAssumption
  <1>4. Len(u.lines) = n /\ DOMAIN u.lines = 1..n
    BY <1>2, <1>3
  <1>5. u.importer = "shazam_csv" => \A i \in DOMAIN u.lines : NotBlank(u.lines[i])
    BY DEF Uploads
  <1> QED BY <1>1, <1>2, <1>3, <1>4, <1>5

\* The first lines and the other lines among n + 1 lines are those among n, and
\* maybe the last one.
LEMMA OneMoreLine ==
  ASSUME NEW u \in Uploads, NEW n \in Nat, n < Len(u.lines)
  PROVE  /\ IsFirst(u, n + 1) =>
               /\ FirstLines(u) \cap 1..(n + 1) = (FirstLines(u) \cap 1..n) \cup {n + 1}
               /\ OtherLines(u) \cap 1..(n + 1) = OtherLines(u) \cap 1..n
         /\ ~IsFirst(u, n + 1) =>
               FirstLines(u) \cap 1..(n + 1) = FirstLines(u) \cap 1..n
         /\ ~IsFirst(u, n + 1) /\ NotBlank(u.lines[n + 1]) =>
               OtherLines(u) \cap 1..(n + 1) = (OtherLines(u) \cap 1..n) \cup {n + 1}
         /\ ~NotBlank(u.lines[n + 1]) =>
               OtherLines(u) \cap 1..(n + 1) = OtherLines(u) \cap 1..n
  <1>1. Len(u.lines) \in Nat /\ DOMAIN u.lines = 1..Len(u.lines)
    BY FilesAreLists
  <1>2. 1..(n + 1) = (1..n) \cup {n + 1} /\ n + 1 \in DOMAIN u.lines
    BY <1>1
  <1>3. n + 1 \in FirstLines(u) <=> IsFirst(u, n + 1)
    BY <1>2 DEF FirstLines
  <1>4. n + 1 \in OtherLines(u) <=> NotBlank(u.lines[n + 1]) /\ ~IsFirst(u, n + 1)
    BY <1>2 DEF OtherLines
  <1> QED BY <1>2, <1>3, <1>4

\* A line is the first of its song exactly if its song was not seen before.
SeenUpTo(u, n) == {u.lines[i] : i \in 1..n} \cap Songs

LEMMA FirstIsUnseen ==
  ASSUME NEW u \in Uploads, NEW n \in Nat, n < Len(u.lines)
  PROVE  /\ IsFirst(u, n + 1) <=> u.lines[n + 1] \in Songs \ SeenUpTo(u, n)
         /\ u.lines[n + 1] \in Songs =>
               SeenUpTo(u, n + 1) = SeenUpTo(u, n) \cup {u.lines[n + 1]}
         /\ u.lines[n + 1] \notin Songs => SeenUpTo(u, n + 1) = SeenUpTo(u, n)
  <1>1. 1..(n + 1) = (1..n) \cup {n + 1} /\ (n + 1) - 1 = n
    OBVIOUS
  <1> QED BY <1>1 DEF IsFirst, SeenUpTo

-----------------------------------------------------------------------------
(* Lists *)

TrackEntries == [line : Nat, song : Songs]
IssueEntries == [line : Nat, row : Nat,
                 code : {"DUPLICATE_TRACK", "TRACK_METADATA_MISSING",
                         "TEXT_TRACK_FORMAT_INVALID"}]

\* The entries of list are for the lines of a set, in their order.
Ordered(list, set) ==
    /\ {list[m].line : m \in DOMAIN list} = set
    /\ \A k, m \in DOMAIN list : k < m => list[k].line < list[m].line

LEMMA AppendIsOneMore ==
  ASSUME NEW R, NEW list \in Seq(R), NEW e \in R
  PROVE  /\ Append(list, e) \in Seq(R)
         /\ Len(list) \in Nat /\ DOMAIN list = 1..Len(list)
         /\ DOMAIN Append(list, e) = (DOMAIN list) \cup {Len(list) + 1}
         /\ \A m \in DOMAIN list : Append(list, e)[m] = list[m]
         /\ Append(list, e)[Len(list) + 1] = e
  <1>1. Len(list) \in Nat /\ DOMAIN list = 1..Len(list)
    OBVIOUS
  <1>2. Len(Append(list, e)) = Len(list) + 1 /\ Append(list, e) \in Seq(R)
    OBVIOUS
  <1>3. DOMAIN Append(list, e) = 1..(Len(list) + 1)
    BY <1>2
  <1>4. 1..(Len(list) + 1) = (1..Len(list)) \cup {Len(list) + 1}
    BY <1>1
  <1> QED BY <1>1, <1>2, <1>3, <1>4

LEMMA OrderedGrows ==
  ASSUME NEW R, NEW list \in Seq(R), NEW e \in R, NEW set, NEW n \in Nat,
         Ordered(list, set), set \subseteq 1..n, e.line = n + 1
  PROVE  Ordered(Append(list, e), set \cup {n + 1})
  <1>1. PICK more \in Seq(R) : more = Append(list, e)
    BY AppendIsOneMore
  <1>2. /\ Len(list) \in Nat /\ DOMAIN list = 1..Len(list)
        /\ DOMAIN more = (DOMAIN list) \cup {Len(list) + 1}
        /\ \A m \in DOMAIN list : more[m] = list[m]
        /\ more[Len(list) + 1] = e
    BY <1>1, AppendIsOneMore
  <1>3. {more[m].line : m \in DOMAIN more} = set \cup {n + 1}
    BY <1>2 DEF Ordered
  <1>4. \A m \in DOMAIN list : list[m].line \in 1..n
    BY DEF Ordered
  <1>5. \A k, m \in DOMAIN more : k < m => more[k].line < more[m].line
    <2> SUFFICES ASSUME NEW k \in DOMAIN more, NEW m \in DOMAIN more, k < m
                 PROVE  more[k].line < more[m].line
      OBVIOUS
    <2>1. k \in DOMAIN list
      BY <1>2
    <2>2. CASE m \in DOMAIN list
      BY <2>1, <2>2, <1>2 DEF Ordered
    <2>3. CASE m = Len(list) + 1
      <3>1. more[m].line = n + 1 /\ more[k].line \in 1..n
        BY <2>1, <2>3, <1>2, <1>4
      <3> QED BY <3>1
    <2> QED BY <2>2, <2>3, <1>2
  <1> QED BY <1>1, <1>3, <1>5 DEF Ordered

LEMMA TracksGrow ==
  ASSUME NEW u \in Uploads, NEW n \in Nat, n < Len(u.lines), IsFirst(u, n + 1),
         NEW list \in Seq(TrackEntries), TracksUpTo(u, n, list),
         NEW e \in TrackEntries, e = [line |-> n + 1, song |-> u.lines[n + 1]]
  PROVE  TracksUpTo(u, n + 1, Append(list, e)) /\ Append(list, e) \in Seq(TrackEntries)
  <1>1. Ordered(list, FirstLines(u) \cap 1..n)
    BY DEF TracksUpTo, Ordered
  <1>2. Ordered(Append(list, e), (FirstLines(u) \cap 1..n) \cup {n + 1})
    BY <1>1, OrderedGrows
  <1>3. \A m \in DOMAIN Append(list, e) :
            Append(list, e)[m].song = u.lines[Append(list, e)[m].line]
    BY AppendIsOneMore DEF TracksUpTo
  <1> QED BY <1>2, <1>3, OneMoreLine, AppendIsOneMore DEF TracksUpTo, Ordered

LEMMA IssuesGrow ==
  ASSUME NEW u \in Uploads, NEW n \in Nat, n < Len(u.lines),
         ~IsFirst(u, n + 1), NotBlank(u.lines[n + 1]),
         NEW list \in Seq(IssueEntries), IssuesUpTo(u, n, list),
         NEW e \in IssueEntries,
         e = [line |-> n + 1, row |-> RowNumber(u, n + 1), code |-> IssueCode(u, n + 1)]
  PROVE  IssuesUpTo(u, n + 1, Append(list, e)) /\ Append(list, e) \in Seq(IssueEntries)
  <1>1. Ordered(list, OtherLines(u) \cap 1..n)
    BY DEF IssuesUpTo, Ordered
  <1>2. Ordered(Append(list, e), (OtherLines(u) \cap 1..n) \cup {n + 1})
    BY <1>1, OrderedGrows
  <1>3. \A m \in DOMAIN Append(list, e) :
            /\ Append(list, e)[m].row = RowNumber(u, Append(list, e)[m].line)
            /\ Append(list, e)[m].code = IssueCode(u, Append(list, e)[m].line)
    BY AppendIsOneMore DEF IssuesUpTo
  <1> QED BY <1>2, <1>3, OneMoreLine, AppendIsOneMore DEF IssuesUpTo, Ordered

-----------------------------------------------------------------------------
(* Counting *)

CountedUpTo(u, n) == {i \in 1..n : NotBlank(u.lines[i])}

LEMMA CountsAreNumbers ==
  ASSUME NEW u, NEW n \in Nat
  PROVE  /\ IsFiniteSet(CountedUpTo(u, n))
         /\ Cardinality(CountedUpTo(u, n)) \in Nat
         /\ Cardinality(CountedUpTo(u, n)) <= n
  <1>1. IsFiniteSet(1..n) /\ Cardinality(1..n) = n
    BY FS_Interval
  <1>2. CountedUpTo(u, n) \in SUBSET (1..n)
    BY DEF CountedUpTo
  <1> QED BY <1>1, <1>2, FS_Subset, FS_CardinalityType

LEMMA CountOneMore ==
  ASSUME NEW u, NEW n \in Nat
  PROVE  /\ NotBlank(u.lines[n + 1]) =>
               Cardinality(CountedUpTo(u, n + 1)) = Cardinality(CountedUpTo(u, n)) + 1
         /\ ~NotBlank(u.lines[n + 1]) => CountedUpTo(u, n + 1) = CountedUpTo(u, n)
  <1>1. 1..(n + 1) = (1..n) \cup {n + 1} /\ n + 1 \notin 1..n
    OBVIOUS
  <1>2. n + 1 \notin CountedUpTo(u, n) /\ IsFiniteSet(CountedUpTo(u, n))
    BY <1>1, CountsAreNumbers DEF CountedUpTo
  <1>3. NotBlank(u.lines[n + 1]) =>
            CountedUpTo(u, n + 1) = CountedUpTo(u, n) \cup {n + 1}
    BY <1>1 DEF CountedUpTo
  <1>4. ~NotBlank(u.lines[n + 1]) => CountedUpTo(u, n + 1) = CountedUpTo(u, n)
    BY <1>1 DEF CountedUpTo
  <1> QED BY <1>2, <1>3, <1>4, FS_AddElement

LEMMA CountGrows ==
  ASSUME NEW u, NEW n \in Nat, NEW m \in Nat, n <= m
  PROVE  Cardinality(CountedUpTo(u, n)) <= Cardinality(CountedUpTo(u, m))
  <1>1. CountedUpTo(u, n) \in SUBSET CountedUpTo(u, m)
    BY DEF CountedUpTo
  <1> QED BY <1>1, CountsAreNumbers, FS_Subset

-----------------------------------------------------------------------------
(* The inductive invariant *)

\* No line is read of an upload that is refused before its lines are.
OpenedRightly == at >= 0 => FirstRefusal(upload) = "none"

SeenKept == at >= 0 => seen = SeenUpTo(upload, at)

\* A CSV file is limited by the position of its rows, a text by its lines that are
\* not blank.
CountKept ==
    at >= 0 =>
        /\ upload.importer = "shazam_csv" => at <= MaxTracks
        /\ upload.importer = "text" => counted = Cardinality(CountedUpTo(upload, at))

ListsTyped == tracks \in Seq(TrackEntries) /\ issues \in Seq(IssueEntries)

NothingRead == at < 0 => counted = 0 /\ seen = {} /\ tracks = <<>> /\ issues = <<>>

ImportInv ==
    /\ ImportTypeOK /\ OpenedRightly /\ NothingRead /\ SeenKept /\ CountKept /\ ListsTyped
    /\ LinesAccounted

LEMMA InitImports == ImportInit => ImportInv
  <1> SUFFICES ASSUME ImportInit PROVE ImportInv
    OBVIOUS
  <1>1. at = -1 /\ upload \in Uploads /\ answer = "none" /\ counted = 0 /\ seen = {}
        /\ tracks = <<>> /\ issues = <<>>
    BY DEF ImportInit
  <1>2. Len(upload.lines) \in Nat /\ MaxTracks \in Nat
    BY <1>1, FilesAreLists, UploadsAssumption DEF UploadsAssumption
  <1>3. ImportTypeOK
    BY <1>1, <1>2 DEF ImportTypeOK, Answers
  <1>4. ~(at >= 0)
    BY <1>1
  <1> QED BY <1>1, <1>3, <1>4
        DEF ImportInv, OpenedRightly, NothingRead, SeenKept, CountKept, ListsTyped, LinesAccounted

\* A request that is refused, or an import that is stored, leaves the rest of the
\* state alone.
LEMMA AnswerKeeps ==
  ASSUME ImportInv, answer' \in Answers,
         UNCHANGED <<upload, at, counted, seen, tracks, issues>>
  PROVE  ImportInv'
  BY DEF ImportInv, ImportTypeOK, OpenedRightly, NothingRead, SeenKept, CountKept,
         ListsTyped, LinesAccounted

LEMMA RefusalsAreAnswers ==
  /\ "none" \in Answers /\ "created" \in Answers /\ "file_invalid" \in Answers
  /\ "too_many_rows" \in Answers /\ "server_error" \in Answers
  /\ \A u : FirstRefusal(u) \in Answers
  BY DEF Answers, FirstRefusal

LEMMA OpenKeeps ==
  ASSUME ImportInv, Open
  PROVE  ImportInv'
  <1>1. CASE FirstRefusal(upload) # "none"
    BY <1>1, AnswerKeeps, RefusalsAreAnswers DEF Open, Refuse
  <1>2. CASE FirstRefusal(upload) = "none"
    <2>1. at' = 0 /\ UNCHANGED <<upload, answer, stored, counted, seen, tracks, issues>>
          /\ at = -1 /\ upload \in Uploads
      BY <1>2 DEF Open, ImportInv, ImportTypeOK
    <2>2. Len(upload.lines) \in Nat /\ MaxTracks \in Nat
      BY <2>1, FilesAreLists, UploadsAssumption DEF UploadsAssumption
    <2>3. seen = {} /\ counted = 0 /\ tracks = <<>> /\ issues = <<>>
      BY <2>1 DEF ImportInv, NothingRead
    <2>4. at' \in -1..Len(upload'.lines) /\ counted' \in 0..MaxTracks /\ ~(at' < 0)
      BY <2>1, <2>2, <2>3
    <2>5. ImportTypeOK'
      BY <2>1, <2>4 DEF ImportInv, ImportTypeOK
    <2>6. 1..0 = {}
      OBVIOUS
    <2>7. SeenKept' /\ CountKept' /\ OpenedRightly'
      <3>1. CountedUpTo(upload, 0) = {} /\ SeenUpTo(upload, 0) = {}
        BY <2>6 DEF CountedUpTo, SeenUpTo
      <3>2. Cardinality(CountedUpTo(upload, 0)) = 0
        BY <3>1, FS_EmptySet
      <3> QED BY <3>1, <3>2, <1>2, <2>1, <2>2, <2>3
              DEF SeenKept, CountKept, OpenedRightly
    <2>8. LinesAccounted'
      <3>1. FirstLines(upload) \cap 1..0 = {} /\ OtherLines(upload) \cap 1..0 = {}
        BY <2>6
      <3>2. TracksUpTo(upload, 0, <<>>) /\ IssuesUpTo(upload, 0, <<>>)
        BY <3>1 DEF TracksUpTo, IssuesUpTo
      <3> QED BY <3>2, <2>1, <2>3 DEF LinesAccounted
    <2> QED BY <2>1, <2>3, <2>4, <2>5, <2>7, <2>8
            DEF ImportInv, NothingRead, ListsTyped
  <1> QED BY <1>1, <1>2

\* A line within the limit adds one entry to one of the lists, the right one.
LEMMA HandleKeeps ==
  ASSUME ImportInv, Reading, NotBlank(Line), Handle(RowNumber(upload, at + 1))
  PROVE  /\ at \in Nat /\ at' = at + 1 /\ at' \in 0..Len(upload.lines)
         /\ upload' = upload /\ answer' = answer /\ seen' \subseteq Songs
         /\ OpenedRightly' /\ NothingRead' /\ SeenKept' /\ ListsTyped' /\ LinesAccounted'
  <1>1. PICK u \in Uploads, n \in Nat : u = upload /\ n = at /\ n < Len(u.lines)
    BY DEF ImportInv, ImportTypeOK, Reading
  <1>2. /\ at' = n + 1 /\ upload' = u /\ answer' = answer /\ Line = u.lines[n + 1]
        /\ Len(u.lines) \in Nat /\ DOMAIN u.lines = 1..Len(u.lines)
        /\ u.lines[n + 1] \in Lines /\ n + 1 \in 1..Len(u.lines)
    BY <1>1, FilesAreLists DEF Handle, Line
  <1>3. /\ seen = SeenUpTo(u, n) /\ FirstRefusal(u) = "none"
        /\ tracks \in Seq(TrackEntries) /\ issues \in Seq(IssueEntries)
        /\ TracksUpTo(u, n, tracks) /\ IssuesUpTo(u, n, issues)
    BY <1>1 DEF ImportInv, SeenKept, OpenedRightly, ListsTyped, LinesAccounted
  <1>4. /\ IsFirst(u, n + 1) <=> u.lines[n + 1] \in Songs \ SeenUpTo(u, n)
        /\ u.lines[n + 1] \in Songs =>
              SeenUpTo(u, n + 1) = SeenUpTo(u, n) \cup {u.lines[n + 1]}
        /\ u.lines[n + 1] \notin Songs => SeenUpTo(u, n + 1) = SeenUpTo(u, n)
    BY <1>1, FirstIsUnseen
  <1>5. /\ seen' = SeenUpTo(u, n + 1)
        /\ tracks' \in Seq(TrackEntries) /\ issues' \in Seq(IssueEntries)
        /\ TracksUpTo(u, n + 1, tracks') /\ IssuesUpTo(u, n + 1, issues')
    <2>1. CASE Line \in Songs \ seen
      <3>1. AddTrack
        BY <2>1, UploadsAssumption DEF Handle, UploadsAssumption
      <3>2. PICK e \in TrackEntries :
                /\ e = [line |-> n + 1, song |-> u.lines[n + 1]]
                /\ tracks' = Append(tracks, e)
        BY <3>1, <2>1, <1>1, <1>2 DEF AddTrack, TrackEntries
      <3>3. IsFirst(u, n + 1)
        BY <2>1, <1>2, <1>3, <1>4
      <3>4. TracksUpTo(u, n + 1, tracks') /\ tracks' \in Seq(TrackEntries)
        BY <3>2, <3>3, <1>1, <1>3, TracksGrow
      <3>5. IssuesUpTo(u, n + 1, issues)
        BY <3>3, <1>1, <1>3, OneMoreLine DEF IssuesUpTo
      <3> QED BY <3>1, <3>4, <3>5, <2>1, <1>2, <1>3, <1>4 DEF AddTrack
    <2>2. CASE Line \notin Songs \ seen
      <3>1. ~IsFirst(u, n + 1) /\ NotBlank(u.lines[n + 1])
        BY <2>2, <1>2, <1>3, <1>4
      <3>2. PICK code : AddIssue(RowNumber(upload, at + 1), code) /\ code = IssueCode(u, n + 1)
        <4>1. CASE Line = "broken" /\ AddIssue(RowNumber(upload, at + 1), NameMissing(upload))
          BY <4>1, <1>1, <1>2, UploadsAssumption DEF IssueCode, UploadsAssumption
        <4>2. CASE Line \in seen /\ AddIssue(RowNumber(upload, at + 1), "DUPLICATE_TRACK")
          BY <4>2, <1>1, <1>2, <1>3 DEF IssueCode, SeenUpTo
        <4> QED BY <4>1, <4>2, <2>2 DEF Handle
      <3>3. code \in {"DUPLICATE_TRACK", "TRACK_METADATA_MISSING",
                      "TEXT_TRACK_FORMAT_INVALID"}
        BY <3>2 DEF IssueCode, NameMissing
      <3>4. RowNumber(u, n + 1) \in Nat
        BY DEF RowNumber
      <3>5. PICK e \in IssueEntries :
                /\ e = [line |-> n + 1, row |-> RowNumber(u, n + 1),
                        code |-> IssueCode(u, n + 1)]
                /\ issues' = Append(issues, e)
        BY <3>2, <3>3, <3>4, <1>1 DEF AddIssue, IssueEntries
      <3>6. IssuesUpTo(u, n + 1, issues') /\ issues' \in Seq(IssueEntries)
        BY <3>1, <3>5, <1>1, <1>3, IssuesGrow
      <3>7. TracksUpTo(u, n + 1, tracks)
        BY <3>1, <1>1, <1>3, OneMoreLine DEF TracksUpTo
      <3>8. SeenUpTo(u, n + 1) = SeenUpTo(u, n)
        BY <2>2, <1>2, <1>3, <1>4
      <3> QED BY <3>2, <3>6, <3>7, <3>8, <1>3 DEF AddIssue
    <2> QED BY <2>1, <2>2
  <1> QED BY <1>1, <1>2, <1>3, <1>5
          DEF OpenedRightly, NothingRead, SeenKept, ListsTyped, LinesAccounted, SeenUpTo

LEMMA CsvRowKeeps ==
  ASSUME ImportInv, CsvRow
  PROVE  ImportInv'
  <1>1. CASE at >= MaxTracks
    BY <1>1, AnswerKeeps, RefusalsAreAnswers DEF CsvRow, Refuse
  <1>2. CASE ~(at >= MaxTracks)
    <2>1. /\ Reading /\ upload.importer = "shazam_csv" /\ Handle(at + 2)
          /\ counted' = counted /\ upload \in Uploads
      BY <1>2 DEF CsvRow, ImportInv, ImportTypeOK
    <2>2. at \in Nat /\ at + 1 \in 1..Len(upload.lines) /\ MaxTracks \in Nat
      BY <2>1, FilesAreLists, UploadsAssumption
         DEF Reading, ImportInv, ImportTypeOK, UploadsAssumption
    <2>3. RowNumber(upload, at + 1) = at + 2 /\ NotBlank(Line)
      BY <2>1, <2>2, FilesAreLists DEF RowNumber, Line
    <2>4. /\ at' = at + 1 /\ at' \in 0..Len(upload.lines)
          /\ upload' = upload /\ answer' = answer /\ seen' \subseteq Songs
          /\ OpenedRightly' /\ NothingRead' /\ SeenKept' /\ ListsTyped' /\ LinesAccounted'
      BY <2>1, <2>3, HandleKeeps
    <2>5. at' <= MaxTracks /\ upload'.importer # "text" /\ at' \in -1..Len(upload'.lines)
      BY <1>2, <2>1, <2>2, <2>4
    <2>6. ImportTypeOK'
      BY <2>1, <2>4, <2>5 DEF ImportInv, ImportTypeOK
    <2> QED BY <2>4, <2>5, <2>6 DEF ImportInv, CountKept
  <1> QED BY <1>1, <1>2

LEMMA TextLineKeeps ==
  ASSUME ImportInv, TextLine
  PROVE  ImportInv'
  <1>1. /\ Reading /\ upload.importer = "text" /\ upload \in Uploads
        /\ at \in Nat /\ at < Len(upload.lines) /\ Len(upload.lines) \in Nat
        /\ MaxTracks \in Nat /\ counted \in Nat /\ counted <= MaxTracks
        /\ counted = Cardinality(CountedUpTo(upload, at))
    BY FilesAreLists, UploadsAssumption
       DEF TextLine, Reading, ImportInv, ImportTypeOK, CountKept, UploadsAssumption
  <1>2. CASE Line = "blank"
    <2>1. at' = at + 1 /\ UNCHANGED <<upload, answer, stored, counted, seen, tracks, issues>>
      BY <1>2 DEF TextLine
    <2>2. /\ upload.lines[at + 1] \notin Songs /\ ~NotBlank(upload.lines[at + 1])
          /\ ~IsFirst(upload, at + 1)
      BY <1>2, UploadsAssumption DEF Line, NotBlank, IsFirst, UploadsAssumption
    <2>3. SeenUpTo(upload, at + 1) = SeenUpTo(upload, at)
      BY <1>1, <2>2, FirstIsUnseen
    <2>4. CountedUpTo(upload, at + 1) = CountedUpTo(upload, at)
      BY <1>1, <2>2, CountOneMore
    <2>5. /\ FirstLines(upload) \cap 1..(at + 1) = FirstLines(upload) \cap 1..at
          /\ OtherLines(upload) \cap 1..(at + 1) = OtherLines(upload) \cap 1..at
      BY <1>1, <2>2, OneMoreLine
    <2>6. LinesAccounted'
      <3>1. TracksUpTo(upload, at, tracks) /\ IssuesUpTo(upload, at, issues)
        BY <1>1 DEF ImportInv, LinesAccounted
      <3>2. TracksUpTo(upload, at + 1, tracks) /\ IssuesUpTo(upload, at + 1, issues)
        BY <2>5, <3>1 DEF TracksUpTo, IssuesUpTo
      <3> QED BY <2>1, <3>2 DEF LinesAccounted
    <2>7. SeenKept' /\ CountKept' /\ OpenedRightly' /\ NothingRead' /\ ListsTyped'
      <3>1. /\ seen = SeenUpTo(upload, at) /\ FirstRefusal(upload) = "none"
            /\ ~(at' < 0) /\ ListsTyped
        BY <1>1, <2>1 DEF ImportInv, SeenKept, OpenedRightly
      <3> QED BY <1>1, <2>1, <2>3, <2>4, <3>1
              DEF SeenKept, CountKept, OpenedRightly, NothingRead, ListsTyped,
                  SeenUpTo, CountedUpTo
    <2>8. ImportTypeOK'
      <3>1. at' \in -1..Len(upload'.lines)
        BY <1>1, <2>1
      <3> QED BY <2>1, <3>1 DEF ImportInv, ImportTypeOK
    <2> QED BY <2>6, <2>7, <2>8 DEF ImportInv
  <1>3. CASE Line # "blank" /\ counted >= MaxTracks
    BY <1>1, <1>3, AnswerKeeps, RefusalsAreAnswers DEF TextLine, Refuse
  <1>4. CASE Line # "blank" /\ counted < MaxTracks
    <2>1. counted' = counted + 1 /\ Handle(at + 1)
      BY <1>1, <1>4 DEF TextLine
    <2>2. RowNumber(upload, at + 1) = at + 1 /\ NotBlank(Line)
      BY <1>1, <1>4 DEF RowNumber, NotBlank
    <2>3. /\ at' = at + 1 /\ at' \in 0..Len(upload.lines)
          /\ upload' = upload /\ answer' = answer /\ seen' \subseteq Songs
          /\ OpenedRightly' /\ NothingRead' /\ SeenKept' /\ ListsTyped' /\ LinesAccounted'
      BY <1>1, <2>1, <2>2, HandleKeeps
    <2>4. counted' = Cardinality(CountedUpTo(upload, at + 1))
      BY <1>1, <2>1, <2>2, CountOneMore DEF Line
    <2>5. counted' \in 0..MaxTracks /\ at' \in -1..Len(upload'.lines)
      BY <1>1, <1>4, <2>1, <2>3
    <2>6. ImportTypeOK'
      BY <1>1, <2>3, <2>5 DEF ImportInv, ImportTypeOK
    <2>7. CountKept'
      BY <1>1, <2>3, <2>4 DEF CountKept, CountedUpTo
    <2> QED BY <2>3, <2>6, <2>7 DEF ImportInv
  <1> QED BY <1>1, <1>2, <1>3, <1>4

LEMMA FinishKeeps ==
  ASSUME ImportInv, Finish
  PROVE  ImportInv'
  BY AnswerKeeps, RefusalsAreAnswers DEF Finish, Refuse

LEMMA ImportsKeep == ImportInv /\ [ImportNext]_importVars => ImportInv'
  <1> SUFFICES ASSUME ImportInv, [ImportNext]_importVars PROVE ImportInv'
    OBVIOUS
  <1>1. CASE Open
    BY <1>1, OpenKeeps
  <1>2. CASE CsvRow
    BY <1>2, CsvRowKeeps
  <1>3. CASE TextLine
    BY <1>3, TextLineKeeps
  <1>4. CASE Finish
    BY <1>4, FinishKeeps
  <1>5. CASE Breaks
    BY <1>5, AnswerKeeps, RefusalsAreAnswers DEF Breaks, Refuse
  <1>6. CASE UNCHANGED importVars
    BY <1>6, AnswerKeeps DEF importVars, ImportInv, ImportTypeOK
  <1> QED BY <1>1, <1>2, <1>3, <1>4, <1>5, <1>6 DEF ImportNext

LEMMA AlwaysImports == ImportSpec => []ImportInv
  BY InitImports, ImportsKeep, PTL DEF ImportSpec

\* The state of an import is of its type, and text lines are never counted beyond
\* the limit (the loops of shazam_csv.py and plain_text.py).
THEOREM ImportsAreTyped == ImportSpec => []ImportTypeOK
  <1>1. ImportInv => ImportTypeOK
    BY DEF ImportInv
  <1> QED BY <1>1, AlwaysImports, PTL

\* At every point of a file the tracks and issues found so far account for every
\* line read, whatever file it is (shazam_csv.py:44, plain_text.py:34).
THEOREM NoLineIsLost == ImportSpec => []LinesAccounted
  <1>1. ImportInv => LinesAccounted
    BY DEF ImportInv
  <1> QED BY <1>1, AlwaysImports, PTL

-----------------------------------------------------------------------------
(* The refinement *)

\* The promise is stated about the same files, in the same words.
LEMMA SameWords ==
  /\ Promise!Uploads = Uploads
  /\ \A u : Promise!FirstLines(u) = FirstLines(u) /\ Promise!OtherLines(u) = OtherLines(u)
  /\ \A u, n, list : Promise!TracksUpTo(u, n, list) <=> TracksUpTo(u, n, list)
  /\ \A u, n, list : Promise!IssuesUpTo(u, n, list) <=> IssuesUpTo(u, n, list)
  <1>1. \A line : Promise!NotBlank(line) <=> NotBlank(line)
    BY DEF Promise!NotBlank, NotBlank
  <1>2. \A u, i : Promise!IsFirst(u, i) <=> IsFirst(u, i)
    BY DEF Promise!IsFirst, IsFirst
  <1>3. \A u, i : /\ Promise!RowNumber(u, i) = RowNumber(u, i)
                  /\ Promise!IssueCode(u, i) = IssueCode(u, i)
    BY DEF Promise!RowNumber, RowNumber, Promise!IssueCode, IssueCode,
           Promise!NameMissing, NameMissing
  <1>4. \A u : Promise!FirstLines(u) = FirstLines(u) /\ Promise!OtherLines(u) = OtherLines(u)
    BY <1>1, <1>2 DEF Promise!FirstLines, FirstLines, Promise!OtherLines, OtherLines
  <1>5. Promise!Files = Files
    BY DEF Promise!Files, Files, Promise!Lines, Lines
  <1>6. Promise!Uploads = Uploads
    BY <1>1, <1>5 DEF Promise!Uploads, Uploads
  <1>7. \A u, n, list : Promise!TracksUpTo(u, n, list) <=> TracksUpTo(u, n, list)
    BY <1>4 DEF Promise!TracksUpTo, TracksUpTo
  <1>8. \A u, n, list : Promise!IssuesUpTo(u, n, list) <=> IssuesUpTo(u, n, list)
    BY <1>3, <1>4 DEF Promise!IssuesUpTo, IssuesUpTo
  <1> QED BY <1>4, <1>6, <1>7, <1>8

LEMMA SameCount == \A S : Promise!Cardinality(S) = Cardinality(S)
  BY DEF Promise!Cardinality, Cardinality

LEMMA CountedIsAll ==
  ASSUME NEW u \in Uploads
  PROVE  /\ Promise!Counted(u) = CountedUpTo(u, Len(u.lines))
         /\ u.importer = "shazam_csv" =>
               Cardinality(Promise!Counted(u)) = Len(u.lines)
  <1>1. Len(u.lines) \in Nat /\ DOMAIN u.lines = 1..Len(u.lines)
    BY FilesAreLists
  <1>2. Promise!Counted(u) = CountedUpTo(u, Len(u.lines))
    BY <1>1 DEF Promise!Counted, CountedUpTo, Promise!NotBlank, NotBlank
  <1>3. u.importer = "shazam_csv" => CountedUpTo(u, Len(u.lines)) = 1..Len(u.lines)
    BY FilesAreLists DEF CountedUpTo
  <1>4. Cardinality(1..Len(u.lines)) = Len(u.lines)
    BY <1>1, FS_Interval
  <1> QED BY <1>2, <1>3, <1>4

\* A refusal for a reason is a refusal of the promise.
LEMMA RefusalIsPromised ==
  ASSUME answer = "none", NEW code \in Promise!Codes, Promise!Reason(code),
         answer' = code, UNCHANGED <<upload, stored>>
  PROVE  Promise!Next
  BY DEF Promise!Next, Promise!Refuse

LEMMA CodesArePromised ==
  /\ "format_unsupported" \in Promise!Codes /\ "file_too_large" \in Promise!Codes
  /\ "importer_unknown" \in Promise!Codes /\ "file_invalid" \in Promise!Codes
  /\ "too_many_rows" \in Promise!Codes /\ "server_error" \in Promise!Codes
  BY DEF Promise!Codes

LEMMA OpenIsPromised ==
  ASSUME ImportInv, Open
  PROVE  Promise!Next \/ UNCHANGED <<upload, answer, stored>>
  <1>1. CASE FirstRefusal(upload) # "none"
    <2>1. /\ answer = "none" /\ answer' = FirstRefusal(upload)
          /\ UNCHANGED <<upload, stored>>
      BY <1>1 DEF Open, Refuse
    <2>2. /\ FirstRefusal(upload) \in Promise!Codes
          /\ Promise!Reason(FirstRefusal(upload))
      BY <1>1, CodesArePromised DEF FirstRefusal, Promise!Reason
    <2> QED BY <2>1, <2>2, RefusalIsPromised
  <1>2. CASE FirstRefusal(upload) = "none"
    BY <1>2 DEF Open
  <1> QED BY <1>1, <1>2

\* Only an upload that passed the first checks meets an error of the server.
LEMMA BreaksIsPromised ==
  ASSUME ImportInv, Breaks
  PROVE  Promise!Next
  <1>1. FirstRefusal(upload) = "none"
    <2>1. CASE at = -1
      BY <2>1, FilesAreLists DEF Breaks, ImportInv, ImportTypeOK
    <2>2. CASE at # -1
      BY <2>2 DEF ImportInv, ImportTypeOK, OpenedRightly
    <2> QED BY <2>1, <2>2
  <1>2. Promise!Reason("server_error")
    BY <1>1, FilesAreLists DEF FirstRefusal, Promise!Reason, Promise!Accepted, ImportInv,
       ImportTypeOK
  <1> QED BY <1>2, CodesArePromised, RefusalIsPromised DEF Breaks, Refuse

\* A file is refused as too long only if it is.
LEMMA LimitIsTrue ==
  ASSUME ImportInv, CsvRow \/ TextLine
  PROVE  Promise!Next \/ UNCHANGED <<upload, answer, stored>>
  <1>1. /\ upload \in Uploads /\ at \in Nat /\ at < Len(upload.lines)
        /\ Len(upload.lines) \in Nat /\ MaxTracks \in Nat
        /\ answer = "none" /\ counted \in Nat /\ counted <= MaxTracks
        /\ at + 1 \in Nat /\ at + 1 <= Len(upload.lines)
    BY FilesAreLists, UploadsAssumption
       DEF CsvRow, TextLine, Reading, ImportInv, ImportTypeOK, UploadsAssumption
  <1>2. CASE Refuse("too_many_rows") /\ Cardinality(Promise!Counted(upload)) > MaxTracks
    <2>1. Promise!Reason("too_many_rows")
      BY <1>2, SameCount DEF Promise!Reason
    <2> QED BY <1>1, <1>2, <2>1, CodesArePromised, RefusalIsPromised DEF Refuse
  <1>3. CASE CsvRow
    <2>1. CASE at >= MaxTracks
      <3>1. Refuse("too_many_rows") /\ upload.importer = "shazam_csv"
        BY <1>3, <2>1 DEF CsvRow
      <3>2. Cardinality(Promise!Counted(upload)) = Len(upload.lines)
        BY <1>1, <3>1, CountedIsAll
      <3>3. Cardinality(Promise!Counted(upload)) > MaxTracks
        BY <1>1, <2>1, <3>2
      <3> QED BY <3>1, <3>3, <1>2
    <2>2. CASE ~(at >= MaxTracks)
      BY <1>3, <2>2 DEF CsvRow, Handle, AddIssue, AddTrack
    <2> QED BY <2>1, <2>2
  <1>4. CASE TextLine
    <2>1. CASE Line = "blank"
      BY <1>4, <2>1 DEF TextLine
    <2>2. CASE Line # "blank" /\ counted < MaxTracks
      BY <1>1, <1>4, <2>2 DEF TextLine, Handle
    <2>3. CASE Line # "blank" /\ ~(counted < MaxTracks)
      <3>1. Refuse("too_many_rows") /\ upload.importer = "text" /\ counted = MaxTracks
        BY <1>1, <1>4, <2>3 DEF TextLine
      <3>2. counted = Cardinality(CountedUpTo(upload, at)) /\ NotBlank(upload.lines[at + 1])
        BY <1>1, <2>3, <3>1 DEF ImportInv, CountKept, NotBlank, Line
      <3>3. Cardinality(CountedUpTo(upload, at + 1)) = MaxTracks + 1
        BY <1>1, <3>1, <3>2, CountOneMore
      <3>4. /\ Cardinality(CountedUpTo(upload, at + 1))
                  <= Cardinality(CountedUpTo(upload, Len(upload.lines)))
            /\ Cardinality(CountedUpTo(upload, Len(upload.lines))) \in Nat
        BY <1>1, CountGrows, CountsAreNumbers
      <3>5. Cardinality(Promise!Counted(upload)) > MaxTracks
        BY <1>1, <3>3, <3>4, CountedIsAll
      <3> QED BY <3>1, <3>5, <1>2
    <2> QED BY <2>1, <2>2, <2>3
  <1> QED BY <1>3, <1>4

\* At the end of the file the two lists are what the promise asks for.
LEMMA FinishIsPromised ==
  ASSUME ImportInv, Finish
  PROVE  Promise!Next
  <1>1. /\ upload \in Uploads /\ answer = "none" /\ at = Len(upload.lines)
        /\ Len(upload.lines) \in Nat /\ MaxTracks \in Nat /\ at >= 0
        /\ counted \in Nat /\ counted <= MaxTracks
    BY FilesAreLists, UploadsAssumption DEF Finish, ImportInv, ImportTypeOK, UploadsAssumption
  <1>2. DOMAIN upload.lines = 1..at
    BY <1>1, FilesAreLists
  <1>3. /\ FirstLines(upload) \cap 1..at = FirstLines(upload)
        /\ OtherLines(upload) \cap 1..at = OtherLines(upload)
    BY <1>2 DEF FirstLines, OtherLines
  <1>4. /\ TracksUpTo(upload, at, tracks) /\ IssuesUpTo(upload, at, issues)
        /\ tracks \in Seq(TrackEntries) /\ issues \in Seq(IssueEntries)
    BY <1>1 DEF ImportInv, LinesAccounted, ListsTyped
  <1>5. tracks = <<>> <=> FirstLines(upload) = {}
    <2>1. tracks = <<>> <=> DOMAIN tracks = {}
      BY <1>4
    <2>2. {tracks[m].line : m \in DOMAIN tracks} = FirstLines(upload)
      BY <1>3, <1>4 DEF TracksUpTo
    <2> QED BY <2>1, <2>2
  <1>6. issues = <<>> <=> OtherLines(upload) = {}
    <2>1. issues = <<>> <=> DOMAIN issues = {}
      BY <1>4
    <2>2. {issues[m].line : m \in DOMAIN issues} = OtherLines(upload)
      BY <1>3, <1>4 DEF IssuesUpTo
    <2> QED BY <2>1, <2>2
  <1>7. CASE tracks = <<>>
    <2>1. Promise!Reason("file_invalid")
      BY <1>5, <1>7, SameWords DEF Promise!Reason
    <2>2. answer' = "file_invalid" /\ UNCHANGED <<upload, stored>>
      BY <1>7 DEF Finish, Refuse
    <2> QED BY <1>1, <2>1, <2>2, CodesArePromised, RefusalIsPromised
  <1>8. CASE tracks # <<>>
    <2>1. /\ answer' = "created" /\ upload' = upload
          /\ stored' = [tracks |-> tracks, issues |-> issues,
                        status |-> IF issues = <<>> THEN "ready" ELSE "partial"]
      BY <1>8 DEF Finish
    <2>2. Cardinality(Promise!Counted(upload)) <= MaxTracks
      <3>1. FirstRefusal(upload) = "none"
        BY <1>1 DEF ImportInv, OpenedRightly
      <3>2. upload.importer # "other"
        BY <3>1 DEF FirstRefusal
      <3>3. CASE upload.importer = "shazam_csv"
        BY <1>1, <3>3, CountedIsAll DEF ImportInv, CountKept
      <3>4. CASE upload.importer = "text"
        BY <1>1, <3>4, CountedIsAll DEF ImportInv, CountKept
      <3> QED BY <1>1, <3>2, <3>3, <3>4, FilesAreLists
    <2>3. /\ TracksUpTo(upload, Len(upload.lines), stored'.tracks)
          /\ IssuesUpTo(upload, Len(upload.lines), stored'.issues)
          /\ stored'.status = IF OtherLines(upload) = {} THEN "ready" ELSE "partial"
      BY <1>1, <1>4, <1>6, <2>1
    <2>4. Promise!Create
      BY <1>1, <1>5, <1>8, <2>1, <2>2, <2>3, SameWords, SameCount DEF Promise!Create
    <2> QED BY <2>4 DEF Promise!Next
  <1> QED BY <1>7, <1>8

LEMMA InitIsPromised == ImportInit => Promise!Init
  BY SameWords DEF ImportInit, Promise!Init

LEMMA StepsArePromised ==
  ImportInv /\ [ImportNext]_importVars
      => [Promise!Next]_<<upload, answer, stored>>
  BY OpenIsPromised, LimitIsTrue, FinishIsPromised, BreaksIsPromised DEF ImportNext, importVars

\* The import keeps its promise for every file: it is refused for a true reason or fails, and
\* nothing is stored, or all of its lines are, as tracks or as issues
\* (PlaylistImportService.import_playlist, service.py:38).
THEOREM ImportIsHonest == ImportSpec => KeepsPromise
  BY InitIsPromised, StepsArePromised, AlwaysImports, PTL
     DEF ImportSpec, KeepsPromise, Promise!Spec

=============================================================================
