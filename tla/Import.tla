------------------------------- MODULE Import -------------------------------
(***************************************************************************)
(* POST /playlists/import: the handler in app/api/routes/playlists.py,     *)
(* PlaylistImportService, and the loops of the two importers, which read   *)
(* a file line by line (shazam_csv.py, plain_text.py).  The playlist is    *)
(* stored by a single commit at the end.                                   *)
(***************************************************************************)
EXTENDS Uploads

VARIABLES
    upload,   \* the uploaded file
    answer,   \* the code the request is answered with
    stored,   \* the playlist row with its tracks and issues
    at,       \* lines read
    counted,  \* source_rows: lines counted against the limit
    seen,     \* duplicate keys of the tracks so far
    tracks,   \* ImportedTrack list
    issues    \* ImportIssue list

importVars == <<upload, answer, stored, at, counted, seen, tracks, issues>>

Promise == INSTANCE ImportPromise

ImportInit ==
    /\ upload \in Uploads
    /\ answer = "none"
    /\ stored = Promise!NothingStored
    /\ at = -1 /\ counted = 0
    /\ seen = {} /\ tracks = <<>> /\ issues = <<>>

Refuse(code) ==
    /\ answer' = code
    /\ UNCHANGED <<upload, stored, at, counted, seen, tracks, issues>>

\* The first check the upload fails: _validate_upload_type, the size of what was
\* read, the registry, then decoding and the header.  Only the type of the two
\* known importers is validated.
FirstRefusal(u) ==
    IF u.importer # "other" /\ ~u.typed THEN "format_unsupported"
    ELSE IF u.large THEN "file_too_large"
    ELSE IF u.importer = "other" THEN "importer_unknown"
    ELSE IF ~u.readable THEN "file_invalid"
    ELSE "none"

Open ==
    /\ at = -1 /\ answer = "none"
    /\ IF FirstRefusal(upload) # "none"
       THEN Refuse(FirstRefusal(upload))
       ELSE /\ at' = 0
            /\ UNCHANGED <<upload, answer, stored, counted, seen, tracks, issues>>

Reading == answer = "none" /\ at >= 0 /\ at < Len(upload.lines)
Line == upload.lines[at + 1]

AddIssue(row, code) ==
    /\ issues' = Append(issues, [line |-> at + 1, row |-> row, code |-> code])
    /\ UNCHANGED <<seen, tracks>>

\* Mutant of AddTrack: the key is not remembered.
AddTrackUnseen ==
    /\ tracks' = Append(tracks, [line |-> at + 1, song |-> Line])
    /\ UNCHANGED <<seen, issues>>

AddTrack ==
    /\ seen' = seen \cup {Line}
    /\ tracks' = Append(tracks, [line |-> at + 1, song |-> Line])
    /\ UNCHANGED issues

\* A line within the limit: normalize raises, the key was seen, or it is a track.
Handle(row) ==
    /\ at' = at + 1
    /\ \/ Line = "broken" /\ AddIssue(row, NameMissing(upload))
       \/ Line \in seen /\ AddIssue(row, "DUPLICATE_TRACK")
       \/ Line \in Songs \ seen /\ AddTrack
    /\ UNCHANGED <<upload, answer, stored>>

\* Mutant of CsvRow: off by one.
CsvRowOneMore ==
    /\ Reading /\ upload.importer = "shazam_csv"
    /\ IF at > MaxTracks
       THEN Refuse("too_many_rows")
       ELSE Handle(at + 2) /\ UNCHANGED counted

\* ShazamCsvImporter: the limit is on the position of the row.
CsvRow ==
    /\ Reading /\ upload.importer = "shazam_csv"
    /\ IF at >= MaxTracks
       THEN Refuse("too_many_rows")
       ELSE Handle(at + 2) /\ UNCHANGED counted

\* Mutant of TextLine: the limit is tested after the line.
TextLineOneMore ==
    /\ Reading /\ upload.importer = "text"
    /\ IF counted > MaxTracks THEN Refuse("too_many_rows")
       ELSE /\ counted' = counted + 1
            /\ Handle(at + 1)

\* PlainTextImporter: blank lines and comments are passed over, and not counted.
TextLine ==
    /\ Reading /\ upload.importer = "text"
    /\ \/ /\ Line = "blank"
          /\ at' = at + 1
          /\ UNCHANGED <<upload, answer, stored, counted, seen, tracks, issues>>
       \/ /\ Line # "blank" /\ counted >= MaxTracks
          /\ Refuse("too_many_rows")
       \/ /\ Line # "blank" /\ counted < MaxTracks
          /\ counted' = counted + 1
          /\ Handle(at + 1)

\* The end of the loop, and the single commit of PlaylistImportService.
Finish ==
    /\ answer = "none" /\ at = Len(upload.lines)
    /\ IF tracks = <<>>
       THEN Refuse("file_invalid")
       ELSE /\ answer' = "created"
            /\ stored' = [tracks |-> tracks, issues |-> issues,
                          status |-> IF issues = <<>> THEN "ready" ELSE "partial"]
            /\ UNCHANGED <<upload, at, counted, seen, tracks, issues>>

\* What nothing catches: DictReader raises csv.Error on the header, which it reads
\* outside _rows, or the commit fails.  The session is rolled back.
Breaks ==
    /\ answer = "none"
    /\ \/ at = -1 /\ FirstRefusal(upload) = "none" /\ upload.importer = "shazam_csv"
       \/ at = Len(upload.lines) /\ tracks # <<>>
    /\ Refuse("server_error")

ImportNext == Open \/ CsvRow \/ TextLine \/ Finish \/ Breaks

ImportSpec == ImportInit /\ [][ImportNext]_importVars

-----------------------------------------------------------------------------
(* Properties *)

Answers == {"none", "created", "format_unsupported", "file_too_large",
            "importer_unknown", "file_invalid", "too_many_rows", "server_error"}

ImportTypeOK ==
    /\ upload \in Uploads
    /\ answer \in Answers
    /\ at \in -1..Len(upload.lines)
    /\ counted \in 0..MaxTracks
    /\ seen \subseteq Songs

\* While a file is read, the tracks and issues found so far account for every line
\* read: no song twice, no line lost or reported twice, each issue with its row,
\* whatever blank lines, limits and rejected rows come between.
LinesAccounted ==
    at >= 0 =>
        /\ TracksUpTo(upload, at, tracks)
        /\ IssuesUpTo(upload, at, issues)

\* The import, one line after the other and with its checks in the order of the
\* code, implements the promise: all of the file or nothing, and a true reason.
KeepsPromise == Promise!Spec

=============================================================================
