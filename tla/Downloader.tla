----------------------------- MODULE Downloader -----------------------------
(***************************************************************************)
(* app/services/media_downloader.py: inspect, which offers resolutions and *)
(* segments of a medium, and fetch, which downloads what was asked for.    *)
(* The two select formats independently: inspect in Python, fetch by the   *)
(* filter expression it hands to yt-dlp.  Both see the formats from the    *)
(* worst to the best.  The requests modelled are those for an mp4.         *)
(***************************************************************************)
EXTENDS Integers, Sequences

CONSTANTS
    Resolutions,      \* SUPPORTED_VIDEO_HEIGHTS
    Formats,          \* what yt-dlp may report of a format
    SizeLimit,        \* max_output_size_bytes
    DurationLimit,    \* max_media_duration_seconds
    MaxFormats,       \* bound: formats of a medium
    MaxDuration       \* bound: seconds of a medium

\* A codec is named, said to be "none", or not given.  A height, a filesize and a
\* filesize_approx are 0 where they are not given.
Codecs == {"named", "none", "missing"}

ASSUME DownloaderAssumption ==
    /\ Resolutions \subseteq Nat \ {0}
    /\ Formats \subseteq [ext : {"mp4", "m4a", "other"}, vcodec : Codecs, acodec : Codecs,
                         height : Nat, exact : Nat, approx : Nat]
    /\ SizeLimit \in Nat \ {0} /\ DurationLimit \in Nat \ {0}
    /\ MaxFormats \in Nat \ {0} /\ MaxDuration \in Nat

VARIABLES
    medium,   \* what yt-dlp reports of the medium
    offer,    \* the answer of inspect
    request,  \* the job that is fetched
    stage,    \* where fetch is
    picked,   \* the format yt-dlp downloads the video from
    outcome   \* "file", or the error

downloaderVars == <<medium, offer, request, stage, picked, outcome>>

\* yt-dlp raises for a medium without formats.
FormatLists == UNION {[1..n -> Formats] : n \in 1..MaxFormats}
Unknown == -1

Media == [formats : FormatLists, listed : BOOLEAN,
          duration : {Unknown} \cup 0..MaxDuration]

NoFormat == [ext |-> "none"]
Whole == <<>>
NoOffer == [made |-> FALSE, variants |-> {}, segments |-> {}]
NoRequest == [resolution |-> 0, segment |-> Whole]

Members(list) == {list[i] : i \in DOMAIN list}

\* The last member of a list that is in chosen.
LastOf(list, chosen) ==
    LET places == {i \in DOMAIN list : list[i] \in chosen}
    IN  IF places = {} THEN NoFormat
        ELSE list[CHOOSE i \in places : \A k \in places : k <= i]

-----------------------------------------------------------------------------
(* inspect *)

KnownSize(f) == IF f.exact # 0 THEN f.exact ELSE f.approx
\* Mutant of FitsSizeLimit: an unknown size does not fit.
FitsSizeLimitIfKnown(f) == KnownSize(f) # 0 /\ KnownSize(f) <= SizeLimit

FitsSizeLimit(f) == KnownSize(f) <= SizeLimit

IsMp4WithVideo(f) == f.ext = "mp4" /\ f.vcodec = "named"
IsVideoOnly(f) == f.acodec = "none"

\* The formats that _best_video_format does not skip.
Fitting(formats, limit) ==
    {f \in Members(formats) :
        IsMp4WithVideo(f) /\ f.height <= limit /\ FitsSizeLimit(f)}

\* Mutant of BestVideoFormat: the best of any kind.
BestOfAnyKind(formats, limit) == LastOf(formats, Fitting(formats, limit))

\* _best_video_format: the best with video only, else the best with both.
BestVideoFormat(formats, limit) ==
    LET fitting == Fitting(formats, limit)
        video == LastOf(formats, {f \in fitting : IsVideoOnly(f)})
    IN  IF video # NoFormat THEN video ELSE LastOf(formats, fitting)

VideoVariants(formats) ==
    {[resolution |-> r, format |-> BestVideoFormat(formats, r)] :
        r \in {q \in Resolutions : BestVideoFormat(formats, q) # NoFormat}}

\* Mutant of SegmentSuggestions: the last piece is not cut.
UncutSuggestions(duration) ==
    IF duration = Unknown \/ duration <= DurationLimit THEN {}
    ELSE {<<start, start + DurationLimit>> :
              start \in {s \in 0..(duration - 1) : s % DurationLimit = 0}}

\* The pieces range(0, duration, limit) cuts a medium into, when it is too long.
SegmentSuggestions(duration) ==
    IF duration = Unknown \/ duration <= DurationLimit THEN {}
    ELSE {<<start, IF start + DurationLimit < duration
                   THEN start + DurationLimit ELSE duration>> :
              start \in {s \in 0..(duration - 1) : s % DurationLimit = 0}}

\* inspect reads info["formats"] only.
Listed == IF medium.listed THEN medium.formats ELSE <<>>

\* An inspection that fails changes nothing.
Inspect ==
    /\ stage = "page" /\ ~offer.made
    /\ offer' = [made |-> TRUE,
                 variants |-> VideoVariants(Listed),
                 segments |-> SegmentSuggestions(medium.duration)]
    /\ UNCHANGED <<medium, request, stage, picked, outcome>>

-----------------------------------------------------------------------------
(* fetch *)

\* validate_segment: both ends, the start before the end.
Segments == {Whole} \cup {s \in (0..MaxDuration) \X (1..(MaxDuration + 1)) : s[1] < s[2]}

Fail(error) ==
    /\ stage' = "end" /\ outcome' = error
    /\ UNCHANGED <<medium, offer, picked>>

Length(segment) == segment[2] - segment[1]

\* A request for an mp4, of any resolution and segment, offered or not.
\* submit refuses a segment that is too long before there is a job.
Submit(resolution, segment) ==
    /\ stage = "page"
    /\ request' = [resolution |-> resolution, segment |-> segment]
    /\ IF segment # Whole /\ Length(segment) > DurationLimit
       THEN Fail("MediaTooLong")
       ELSE /\ stage' = "duration"
            /\ UNCHANGED <<medium, offer, picked, outcome>>

\* _enforce_duration
OutOfBounds == /\ request.segment # Whole
               /\ medium.duration # Unknown /\ request.segment[2] > medium.duration
RequestedSeconds == IF request.segment = Whole THEN medium.duration
                    ELSE Length(request.segment)

\* yt-dlp is asked for the metadata first, and may raise.
EnforceDuration ==
    /\ stage = "duration"
    /\ \/ Fail("source error")
       \/ OutOfBounds /\ Fail("SegmentOutOfBounds")
       \/ ~OutOfBounds /\ RequestedSeconds > DurationLimit /\ Fail("MediaTooLong")
       \/ /\ ~OutOfBounds /\ RequestedSeconds <= DurationLimit
          /\ stage' = "download"
          /\ UNCHANGED <<medium, offer, picked, outcome>>
    /\ UNCHANGED request

\* The filters of _download_options as yt-dlp reads them: "<?" is strict, and what
\* is not given passes.
Passes(f) ==
    /\ f.exact < SizeLimit /\ f.approx < SizeLimit
    /\ request.resolution # 0 => f.height <= request.resolution

\* What yt-dlp takes for a video without sound, for a sound, for both.  A codec
\* that is not given is not "none".
SilentVideo(f) == f.vcodec # "none" /\ f.acodec = "none"
SoundOnly(f) == f.vcodec = "none" /\ f.acodec # "none"
Complete(f) == f.vcodec # "none" /\ f.acodec # "none"

\* The mp4 formats that pass the filters.
Filtered == {f \in Members(medium.formats) : f.ext = "mp4" /\ Passes(f)}

HasM4a == \E f \in Members(medium.formats) : f.ext = "m4a" /\ SoundOnly(f)

\* "best" takes what there is when all formats lack the sound, or all the video.
Incomplete ==
    \/ \A f \in Members(medium.formats) : SilentVideo(f)
    \/ \A f \in Members(medium.formats) : SoundOnly(f)

\* bestvideo[ext=mp4]...+bestaudio[ext=m4a]/best[ext=mp4]...
Selected ==
    LET video == LastOf(medium.formats, {f \in Filtered : SilentVideo(f)})
        best == LastOf(medium.formats, {f \in Filtered : Complete(f)})
    IN  IF video # NoFormat /\ HasM4a THEN video
        ELSE IF best = NoFormat /\ Incomplete THEN LastOf(medium.formats, Filtered)
        ELSE best

Download ==
    /\ stage = "download"
    /\ \/ Fail("source error")
       \/ Selected = NoFormat /\ Fail("OutputFormatUnavailable")
       \/ /\ Selected # NoFormat
          /\ picked' = Selected /\ stage' = "file"
          /\ UNCHANGED <<medium, offer, outcome>>
    /\ UNCHANGED request

\* _final_file_from_info: yt-dlp left the file, or a part of it, or neither.
FinalFile ==
    /\ stage = "file"
    /\ \E result \in {"file", "DownloadFailed", "ConversionFailed"} :
           /\ stage' = "end" /\ outcome' = result
    /\ UNCHANGED <<medium, offer, request, picked>>

-----------------------------------------------------------------------------

\* A single format may come without a list of formats, as the info itself.
DownloaderInit ==
    /\ medium \in Media
    /\ ~medium.listed => Len(medium.formats) = 1
    /\ offer = NoOffer /\ request = NoRequest
    /\ stage = "page" /\ picked = NoFormat /\ outcome = "none"

DownloaderNext ==
    \/ Inspect
    \/ \E r \in Resolutions \cup {0}, s \in Segments : Submit(r, s)
    \/ EnforceDuration
    \/ Download
    \/ FinalFile

DownloaderSpec == DownloaderInit /\ [][DownloaderNext]_downloaderVars

-----------------------------------------------------------------------------
(* Properties *)

OfferedFor(r) == {v.format : v \in {w \in offer.variants : w.resolution = r}}

\* An mp4 that inspection takes for one without video and yt-dlp does not.
Unlabelled(f) == f.vcodec = "missing" /\ f \in Filtered

\* What is listed after f, and so thought better.
Better(f) ==
    {medium.formats[i] : i \in {k \in DOMAIN medium.formats :
        \A j \in DOMAIN medium.formats : medium.formats[j] = f => j < k}}

\* The causes for which yt-dlp does not take a format that inspection found: a size
\* that is exactly the limit, or an estimate that is not below it although the size
\* is; a video without sound in a medium without m4a sound, if the others have any;
\* an unlabelled format that is preferred.
Disputed(f) ==
    \/ f.exact >= SizeLimit \/ f.approx >= SizeLimit
    \/ IsVideoOnly(f) /\ ~HasM4a /\ ~Incomplete
    \/ \E g \in Better(f) : Unlabelled(g) /\ (IsVideoOnly(g) <=> IsVideoOnly(f))
    \/ /\ ~IsVideoOnly(f) /\ HasM4a
       /\ \E g \in Filtered : Unlabelled(g) /\ IsVideoOnly(g)

\* What is downloaded for an offered resolution is the format it was offered for,
\* in the height the page showed, exactly when the choice is not disputed; and only
\* when it is may the download find nothing.
OfferIsKept ==
    \A f \in OfferedFor(request.resolution) :
        /\ picked # NoFormat => (picked = f <=> ~Disputed(f))
        /\ outcome = "OutputFormatUnavailable" => Disputed(f)

\* And the other way round: a resolution that was not offered is only downloaded
\* from a format whose video codec is not named, or that is in no list.
NothingHidden ==
    /\ offer.made /\ picked # NoFormat /\ request.resolution # 0
    /\ OfferedFor(request.resolution) = {}
    => ~IsMp4WithVideo(picked) \/ ~medium.listed

\* A suggested segment is accepted when it is requested, and the suggestions cover
\* a medium that is too long, every second of it once.
SuggestionsServe ==
    /\ request.segment \in offer.segments =>
           outcome \notin {"SegmentOutOfBounds", "MediaTooLong"}
    /\ offer.segments # {} =>
           \A second \in 0..(medium.duration - 1) :
               \E piece \in offer.segments :
                   \A other \in offer.segments :
                       (other[1] <= second /\ second < other[2]) <=> other = piece

=============================================================================
