------------------------------ MODULE Uploads -------------------------------
(***************************************************************************)
(* The files that are uploaded to import a playlist, and what an imported  *)
(* playlist holds (app/services/playlist_import/base.py,                   *)
(* app/models/playlist.py).                                                *)
(*                                                                         *)
(* A file is given by what the loop of its importer sees, line by line: a  *)
(* line names a song, or is broken (a CSV row without artist or title, a   *)
(* text line that is not 'Artist - Title'), or is blank (a comment is too; *)
(* csv.DictReader skips blank lines itself).  Two lines name the same song *)
(* when their duplicate_key is the same.                                   *)
(***************************************************************************)
EXTENDS Integers, Sequences, FiniteSets

CONSTANTS
    Songs,      \* values of NormalizedTrackMetadata.duplicate_key
    MaxTracks,  \* playlist_import_max_tracks
    MaxLines    \* bound: lines of a file

ASSUME UploadsAssumption ==
    /\ MaxTracks \in Nat \ {0} /\ MaxLines \in Nat
    /\ "blank" \notin Songs /\ "broken" \notin Songs

Lines == Songs \cup {"blank", "broken"}
Files == UNION {[1..n -> Lines] : n \in 0..MaxLines}

NotBlank(line) == line # "blank"

\* importer: the importer key; "other" is one nobody registered (an empty form field
\* is replaced by the default before the handler sees it).
\* typed: file name and content type are those of the importer.  large: more than
\* playlist_import_max_bytes.  readable: it decodes, parses, and has the columns.
Uploads ==
    {u \in [importer : {"shazam_csv", "text", "other"},
            typed : BOOLEAN, large : BOOLEAN, readable : BOOLEAN, lines : Files] :
        u.importer = "shazam_csv" => \A i \in DOMAIN u.lines : NotBlank(u.lines[i])}

\* Rows of a CSV file are numbered after its header, lines of a text from one.
RowNumber(u, i) == IF u.importer = "shazam_csv" THEN i + 1 ELSE i

NameMissing(u) ==
    IF u.importer = "shazam_csv" THEN "TRACK_METADATA_MISSING" ELSE "TEXT_TRACK_FORMAT_INVALID"

\* What a file says, without reading it row by row: the first line of each song is
\* a track, every other line that is not blank is an issue.
IsFirst(u, i) ==
    /\ u.lines[i] \in Songs
    /\ \A k \in 1..(i - 1) : u.lines[k] # u.lines[i]
FirstLines(u) == {i \in DOMAIN u.lines : IsFirst(u, i)}
OtherLines(u) == {i \in DOMAIN u.lines : NotBlank(u.lines[i]) /\ ~IsFirst(u, i)}

IssueCode(u, i) == IF u.lines[i] \in Songs THEN "DUPLICATE_TRACK" ELSE NameMissing(u)

\* list holds one track for each first line among the first n lines, in their order.
TracksUpTo(u, n, list) ==
    /\ {list[m].line : m \in DOMAIN list} = FirstLines(u) \cap 1..n
    /\ \A m \in DOMAIN list : list[m].song = u.lines[list[m].line]
    /\ \A k, m \in DOMAIN list : k < m => list[k].line < list[m].line

\* list holds one issue for each other line among the first n, in their order.
IssuesUpTo(u, n, list) ==
    /\ {list[m].line : m \in DOMAIN list} = OtherLines(u) \cap 1..n
    /\ \A m \in DOMAIN list :
           /\ list[m].row = RowNumber(u, list[m].line)
           /\ list[m].code = IssueCode(u, list[m].line)
    /\ \A k, m \in DOMAIN list : k < m => list[k].line < list[m].line

=============================================================================
