--------------------------- MODULE ImportPromise ----------------------------
(***************************************************************************)
(* What the import of a playlist promises: an upload is answered once.     *)
(* Either nothing is stored and there is a reason for it, or the playlist  *)
(* stored holds every song of the file once, where it first occurs, and    *)
(* accounts for every other line.                                          *)
(***************************************************************************)
EXTENDS Uploads

VARIABLES upload, answer, stored

NothingStored == [tracks |-> <<>>, issues |-> <<>>, status |-> "none"]

Init ==
    /\ upload \in Uploads
    /\ answer = "none"
    /\ stored = NothingStored

\* The lines that count against the limit.
Counted(u) == {i \in DOMAIN u.lines : NotBlank(u.lines[i])}

\* An error of the server may hit any upload that passes the first checks.
Accepted == upload.importer # "other" /\ upload.typed /\ ~upload.large /\ upload.readable

Reason(code) ==
    \/ code = "format_unsupported" /\ ~upload.typed /\ upload.importer # "other"
    \/ code = "file_too_large" /\ upload.large
    \/ code = "importer_unknown" /\ upload.importer = "other"
    \/ code = "file_invalid" /\ (~upload.readable \/ FirstLines(upload) = {})
    \/ code = "too_many_rows" /\ Cardinality(Counted(upload)) > MaxTracks
    \/ code = "server_error" /\ Accepted

Refuse(code) ==
    /\ answer = "none"
    /\ Reason(code)
    /\ answer' = code
    /\ UNCHANGED <<upload, stored>>

\* The limit is kept, the playlist is partial exactly if a line was rejected, and
\* it holds at least a track.
Create ==
    /\ answer = "none"
    /\ answer' = "created"
    /\ Cardinality(Counted(upload)) <= MaxTracks
    /\ FirstLines(upload) # {}
    /\ TracksUpTo(upload, Len(upload.lines), stored'.tracks)
    /\ IssuesUpTo(upload, Len(upload.lines), stored'.issues)
    /\ stored'.status = IF OtherLines(upload) = {} THEN "ready" ELSE "partial"
    /\ UNCHANGED upload

Codes == {"format_unsupported", "file_too_large", "importer_unknown", "file_invalid",
          "too_many_rows", "server_error"}

Next == (\E code \in Codes : Refuse(code)) \/ Create

Spec == Init /\ [][Next]_<<upload, answer, stored>>

=============================================================================
