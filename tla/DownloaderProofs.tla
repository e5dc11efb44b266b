-------------------------- MODULE DownloaderProofs --------------------------
(***************************************************************************)
(* Where what inspect offers and what fetch does agree and where they do   *)
(* not, for media with any number of formats, any sizes and any duration.  *)
(***************************************************************************)
EXTENDS Downloader, FiniteSetTheorems, TLAPS

-----------------------------------------------------------------------------
(* LastOf: the last member of a list that is wanted *)

\* A finite set of numbers that is not empty has a greatest.
LEMMA Greatest ==
  ASSUME NEW S \in SUBSET Int, IsFiniteSet(S), S # {}
  PROVE  \E i \in S : \A k \in S : k <= i
<1> DEFINE Above(i) == {k \in S : k > i}
           Tails == {Above(i) : i \in S}
           R == StrictSubsetOrdering(S)
<1>1. IsWellFoundedOn(R, SUBSET S)
  BY FS_StrictSubsetOrderingWellFounded, FS_FiniteSubsetsOfFinite
<1>2. Tails \subseteq SUBSET S /\ Tails # {}
  OBVIOUS
<1>3. \A x, y \in Tails : x \subseteq y /\ x # y => <<x, y>> \in R
  BY DEF StrictSubsetOrdering
<1> HIDE DEF R
<1>4. PICK x \in Tails : \A y \in Tails : ~(<<y, x>> \in R)
  BY <1>1, <1>2, WFMin
<1>5. PICK i \in S : x = Above(i)
  BY <1>4
<1>6. ASSUME NEW k \in S, k > i PROVE FALSE
  <2>1. \A m \in S : m > k => m > i
    BY <1>6
  <2>2. ~(k > k)
    OBVIOUS
  <2>3. Above(k) \subseteq Above(i) /\ k \in Above(i) /\ k \notin Above(k)
    BY <1>6, <2>1, <2>2
  <2>4. Above(k) \in Tails
    OBVIOUS
  <2>5. Above(k) # Above(i)
    BY <2>3
  <2> HIDE DEF Tails, Above
  <2> QED BY <1>3, <1>4, <1>5, <2>3, <2>4, <2>5
<1>7. \A k \in S : k \in Int /\ i \in Int /\ ~(k > i)
  BY <1>6
<1> QED BY <1>7

\* The lists the two selections look at, the empty one of inspect included.
Lists == UNION {[1..n -> Formats] : n \in Nat}

\* Place i holds the last wanted member.
LastPlace(list, chosen, i) ==
    /\ i \in DOMAIN list /\ list[i] \in chosen
    /\ \A k \in DOMAIN list : list[k] \in chosen => k <= i

\* LastOf is the member of that place, or NoFormat when nothing is wanted.
LEMMA LastOfIs ==
  ASSUME NEW list \in Lists, NEW chosen
  PROVE  \/ /\ \A k \in DOMAIN list : list[k] \notin chosen
            /\ LastOf(list, chosen) = NoFormat
         \/ \E i \in DOMAIN list : LastPlace(list, chosen, i) /\ LastOf(list, chosen) = list[i]
<1> DEFINE places == {i \in DOMAIN list : list[i] \in chosen}
<1>1. PICK n \in Nat : list \in [1..n -> Formats]
  BY DEF Lists
<1>2. DOMAIN list = 1..n /\ n \in Int
  BY <1>1
<1>3. CASE places = {}
  <2>1. LastOf(list, chosen) = NoFormat
    BY <1>3 DEF LastOf
  <2> QED BY <1>3, <2>1
<1>4. CASE places # {}
  <2>1. places \in SUBSET (1..n) /\ places \in SUBSET Int
    BY <1>2
  <2>2. IsFiniteSet(1..n)
    BY <1>2, FS_Interval
  <2>3. IsFiniteSet(places)
    BY <2>1, <2>2, FS_Subset
  <2>4. \E i \in places : \A k \in places : k <= i
    BY <1>4, <2>1, <2>3, Greatest
  <2> DEFINE last == CHOOSE i \in places : \A k \in places : k <= i
  <2>5. last \in places /\ \A k \in places : k <= last
    BY <2>4
  <2>6. LastOf(list, chosen) = list[last]
    BY <1>4 DEF LastOf
  <2> HIDE DEF last
  <2> QED BY <2>5, <2>6 DEF LastPlace
<1> QED BY <1>3, <1>4

\* There is one last place.
LEMMA OneLastPlace ==
  ASSUME NEW list \in Lists, NEW chosen, NEW i, NEW k,
         LastPlace(list, chosen, i), LastPlace(list, chosen, k)
  PROVE  i = k
<1>1. PICK n \in Nat : list \in [1..n -> Formats]
  BY DEF Lists
<1>2. i \in Int /\ k \in Int /\ i <= k /\ k <= i
  BY <1>1 DEF LastPlace
<1> QED BY <1>2

\* What is in a list is a format, which NoFormat is not.
LEMMA ListedFormat ==
  ASSUME NEW list \in Lists, NEW i \in DOMAIN list
  PROVE  list[i] \in Formats /\ list[i] # NoFormat
<1>1. list[i] \in Formats
  BY DEF Lists
<1>2. \A f \in Formats : f.ext # "none"
  BY DownloaderAssumption
<1>3. NoFormat.ext = "none"
  BY DEF NoFormat
<1> QED BY <1>1, <1>2, <1>3

\* Nothing is found in no place only.
LEMMA LastOfFinds ==
  ASSUME NEW list \in Lists, NEW chosen
  PROVE  LastOf(list, chosen) # NoFormat <=> \E k \in DOMAIN list : list[k] \in chosen
<1>1. ASSUME NEW i \in DOMAIN list, LastPlace(list, chosen, i), LastOf(list, chosen) = list[i]
      PROVE  LastOf(list, chosen) # NoFormat /\ list[i] \in chosen
  BY <1>1, ListedFormat DEF LastPlace
<1> QED BY <1>1, LastOfIs

\* What is found among the wanted is in the list and wanted.
LEMMA LastOfMember ==
  ASSUME NEW list \in Lists, NEW chosen, LastOf(list, chosen) # NoFormat
  PROVE  /\ LastOf(list, chosen) \in chosen
         /\ \E i \in DOMAIN list : list[i] = LastOf(list, chosen)
BY LastOfIs DEF LastPlace

\* A wanted member that is in no later place is the last one.
LEMMA LastOfIsLast ==
  ASSUME NEW list \in Lists, NEW chosen, NEW i \in DOMAIN list, LastPlace(list, chosen, i)
  PROVE  LastOf(list, chosen) = list[i]
<1>1. PICK k \in DOMAIN list : LastPlace(list, chosen, k) /\ LastOf(list, chosen) = list[k]
  BY LastOfIs DEF LastPlace
<1>2. i = k
  BY <1>1, OneLastPlace
<1> QED BY <1>1, <1>2

-----------------------------------------------------------------------------
(* The invariant *)

\* An offer is what inspect makes of the medium.
OfferHonest ==
    offer \in {NoOffer, [made |-> TRUE,
                         variants |-> VideoVariants(Listed),
                         segments |-> SegmentSuggestions(medium.duration)]}

\* Nothing is picked before the download, nothing but what yt-dlp selects is picked,
\* and an error says what it names.
FetchFollows ==
    /\ stage # "end" => outcome = "none"
    /\ stage \notin {"file", "end"} => picked = NoFormat
    /\ picked \in {NoFormat, Selected}
    /\ outcome = "OutputFormatUnavailable" => Selected = NoFormat
    /\ outcome = "SegmentOutOfBounds" => OutOfBounds
    /\ outcome = "MediaTooLong" => RequestedSeconds > DurationLimit

DownloadInv ==
    /\ medium \in Media
    /\ medium.formats \in Lists /\ Listed \in Lists
    /\ request \in [resolution : Resolutions \cup {0}, segment : Segments]
    /\ OfferHonest
    /\ FetchFollows

LEMMA InitDownload == DownloaderInit => DownloadInv
<1> SUFFICES ASSUME DownloaderInit PROVE DownloadInv
  OBVIOUS
<1>1. request \in [resolution : Resolutions \cup {0}, segment : Segments]
  BY DEF DownloaderInit, NoRequest, Segments
<1>2. medium \in Media /\ medium.formats \in FormatLists
  BY DEF DownloaderInit, Media
<1>3. PICK n \in 1..MaxFormats : medium.formats \in [1..n -> Formats]
  BY <1>2 DEF FormatLists
<1>4. medium.formats \in Lists /\ <<>> \in Lists
  <2>1. n \in Nat /\ 0 \in Nat
    BY <1>3, DownloaderAssumption
  <2>2. <<>> \in [1..0 -> Formats]
    OBVIOUS
  <2> QED BY <1>3, <2>1, <2>2 DEF Lists
<1>5. medium.formats \in Lists /\ Listed \in Lists
  BY <1>4 DEF Listed
<1> QED BY <1>1, <1>2, <1>5 DEF DownloaderInit, DownloadInv, OfferHonest, FetchFollows

\* What is selected, and what is out of bounds, follows from the medium and the request.
LEMMA SameRequest ==
  ASSUME UNCHANGED <<medium, request>>
  PROVE  /\ Selected' = Selected /\ OutOfBounds' = OutOfBounds
         /\ RequestedSeconds' = RequestedSeconds /\ Listed' = Listed
BY DEF Selected, Filtered, Passes, HasM4a, Incomplete, OutOfBounds, RequestedSeconds, Listed

LEMMA StepKeepsDownload ==
  ASSUME DownloadInv, DownloaderNext
  PROVE  DownloadInv'
<1> USE DEF DownloadInv
<1>1. CASE Inspect
  <2>1. UNCHANGED <<medium, request, stage, picked, outcome>>
    BY <1>1 DEF Inspect
  <2>2. OfferHonest' /\ Listed' = Listed
    BY <1>1, <2>1, SameRequest DEF Inspect, OfferHonest
  <2>3. FetchFollows'
    BY <2>1, SameRequest DEF FetchFollows
  <2> QED BY <2>1, <2>2, <2>3
<1>2. ASSUME NEW r \in Resolutions \cup {0}, NEW s \in Segments, Submit(r, s)
      PROVE  DownloadInv'
  <2>1. /\ stage = "page" /\ request' = [resolution |-> r, segment |-> s]
        /\ UNCHANGED <<medium, offer, picked>>
    BY <1>2 DEF Submit, Fail
  <2>2. OfferHonest' /\ Listed' = Listed
    BY <2>1 DEF OfferHonest, Listed
  <2>3. picked' = NoFormat
    BY <2>1 DEF FetchFollows
  <2>4. CASE s # Whole /\ Length(s) > DurationLimit
    <3>1. stage' = "end" /\ outcome' = "MediaTooLong"
      BY <1>2, <2>4 DEF Submit, Fail
    <3>2. (RequestedSeconds > DurationLimit)'
      BY <2>1, <2>4 DEF RequestedSeconds
    <3> QED BY <2>1, <2>2, <2>3, <3>1, <3>2 DEF FetchFollows
  <2>5. CASE ~(s # Whole /\ Length(s) > DurationLimit)
    <3>1. stage' = "duration" /\ outcome' = "none"
      BY <1>2, <2>1, <2>5 DEF Submit, FetchFollows
    <3> QED BY <2>1, <2>2, <2>3, <3>1 DEF FetchFollows
  <2> QED BY <2>4, <2>5
<1>3. CASE EnforceDuration \/ Download \/ FinalFile
  <2>1. UNCHANGED <<medium, offer, request>>
    BY <1>3 DEF EnforceDuration, Download, FinalFile, Fail
  <2>2. OfferHonest' /\ Listed' = Listed
    BY <2>1 DEF OfferHonest, Listed
  <2>3. CASE EnforceDuration
    BY <2>1, <2>2, <2>3, SameRequest DEF EnforceDuration, Fail, FetchFollows
  <2>4. CASE Download
    BY <2>1, <2>2, <2>4, SameRequest DEF Download, Fail, FetchFollows
  <2>5. CASE FinalFile
    BY <2>1, <2>2, <2>5, SameRequest DEF FinalFile, FetchFollows
  <2> QED BY <1>3, <2>3, <2>4, <2>5
<1> QED BY <1>1, <1>2, <1>3 DEF DownloaderNext

LEMMA DownloadUnchanged == DownloadInv /\ UNCHANGED downloaderVars => DownloadInv'
<1> SUFFICES ASSUME DownloadInv, UNCHANGED downloaderVars PROVE DownloadInv'
  OBVIOUS
<1>1. UNCHANGED <<medium, offer, request, stage, picked, outcome>>
  BY DEF downloaderVars
<1> QED BY <1>1, SameRequest DEF DownloadInv, OfferHonest, FetchFollows, Listed

LEMMA AlwaysDownload == DownloaderSpec => []DownloadInv
<1>1. DownloadInv /\ [DownloaderNext]_downloaderVars => DownloadInv'
  BY StepKeepsDownload, DownloadUnchanged
<1> QED BY InitDownload, <1>1, PTL DEF DownloaderSpec

-----------------------------------------------------------------------------
(* The two selections of a format *)

\* What the offered format is chosen from, for the resolution that is requested.
Found == Fitting(medium.formats, request.resolution)
FoundSilent == {g \in Found : IsVideoOnly(g)}

\* What yt-dlp looks through, in this order.
Silent == {g \in Filtered : SilentVideo(g)}
Both == {g \in Filtered : Complete(g)}

LEMMA BestIs ==
  BestVideoFormat(medium.formats, request.resolution)
    = IF LastOf(medium.formats, FoundSilent) # NoFormat
      THEN LastOf(medium.formats, FoundSilent) ELSE LastOf(medium.formats, Found)
BY DEF BestVideoFormat, Found, FoundSilent

LEMMA SelectedIs ==
  Selected = IF LastOf(medium.formats, Silent) # NoFormat /\ HasM4a
             THEN LastOf(medium.formats, Silent)
             ELSE IF LastOf(medium.formats, Both) = NoFormat /\ Incomplete
             THEN LastOf(medium.formats, Filtered) ELSE LastOf(medium.formats, Both)
BY DEF Selected, Silent, Both

LEMMA Listing ==
  ASSUME DownloadInv
  PROVE  /\ \A i \in DOMAIN medium.formats : medium.formats[i] \in Members(medium.formats)
         /\ \A g \in Members(medium.formats) :
                /\ g # NoFormat /\ \E i \in DOMAIN medium.formats : g = medium.formats[i]
                /\ g.exact \in Nat /\ g.approx \in Nat /\ g.vcodec \in Codecs
<1>1. medium.formats \in Lists
  BY DEF DownloadInv
<1>2. \A g \in Formats : g.exact \in Nat /\ g.approx \in Nat /\ g.vcodec \in Codecs
  BY DownloaderAssumption
<1> QED BY <1>1, <1>2, ListedFormat DEF Members

\* The filters of yt-dlp are stricter than the test of inspect: what passes them and
\* names its video codec fits.
LEMMA FilterIsStricter ==
  ASSUME DownloadInv, request.resolution # 0, NEW g \in Filtered, g.vcodec = "named"
  PROVE  g \in Found
<1>1. g \in Members(medium.formats) /\ g.ext = "mp4" /\ Passes(g)
  BY DEF Filtered
<1>2. g.exact \in Nat /\ g.approx \in Nat /\ SizeLimit \in Nat
  BY <1>1, Listing, DownloaderAssumption
<1>3. FitsSizeLimit(g)
  BY <1>1, <1>2 DEF Passes, FitsSizeLimit, KnownSize
<1> QED BY <1>1, <1>3 DEF Found, Fitting, IsMp4WithVideo, Passes

\* And they let through what fits, but for the sizes they judge differently.
LEMMA UndisputedPasses ==
  ASSUME DownloadInv, NEW g \in Found, ~(g.exact >= SizeLimit), ~(g.approx >= SizeLimit)
  PROVE  g \in Filtered
<1>1. g \in Members(medium.formats) /\ g.ext = "mp4" /\ g.height <= request.resolution
  BY DEF Found, Fitting, IsMp4WithVideo
<1>2. g.exact \in Nat /\ g.approx \in Nat /\ SizeLimit \in Nat
  BY <1>1, Listing, DownloaderAssumption
<1> QED BY <1>1, <1>2 DEF Filtered, Passes

LEMMA FilteredPasses ==
  ASSUME DownloadInv, NEW g \in Filtered
  PROVE  /\ g \in Members(medium.formats) /\ g.vcodec \in Codecs
         /\ ~(g.exact >= SizeLimit) /\ ~(g.approx >= SizeLimit)
<1>1. g \in Members(medium.formats) /\ Passes(g)
  BY DEF Filtered
<1>2. g.exact \in Nat /\ g.approx \in Nat /\ g.vcodec \in Codecs /\ SizeLimit \in Nat
  BY <1>1, Listing, DownloaderAssumption
<1> QED BY <1>1, <1>2 DEF Passes

\* Only a resolution can be offered, with a format that inspect found in the list.
LEMMA OfferedIs ==
  ASSUME DownloadInv, NEW f \in OfferedFor(request.resolution)
  PROVE  /\ request.resolution \in Resolutions /\ request.resolution # 0
         /\ f = BestVideoFormat(medium.formats, request.resolution) /\ f # NoFormat
<1>1. PICK v \in offer.variants : v.resolution = request.resolution /\ v.format = f
  BY DEF OfferedFor
<1>2. v \in VideoVariants(Listed)
  BY <1>1 DEF DownloadInv, OfferHonest, NoOffer
<1>3. /\ request.resolution \in Resolutions
      /\ f = BestVideoFormat(Listed, request.resolution) /\ f # NoFormat
  BY <1>1, <1>2 DEF VideoVariants
<1>4. BestVideoFormat(<<>>, request.resolution) = NoFormat
  BY DEF BestVideoFormat, LastOf
<1>5. Listed = medium.formats
  BY <1>3, <1>4 DEF Listed
<1> QED BY <1>3, <1>5, DownloaderAssumption

\* The last of the formats inspect found is the last of those yt-dlp looks through,
\* but for a size it does not let pass or an unlabelled format that is better.
LEMMA LastUnlessDisputed ==
  ASSUME DownloadInv, request.resolution # 0, NEW found \in SUBSET Found, NEW seen \in SUBSET Filtered,
         NEW f, f = LastOf(medium.formats, found), f # NoFormat,
         \A g \in seen : g.vcodec = "named" => g \in found,
         \A g \in seen : g.vcodec # "none",
         f \in Filtered => f \in seen
  PROVE  LastOf(medium.formats, seen) = f <=>
             /\ ~(f.exact >= SizeLimit) /\ ~(f.approx >= SizeLimit)
             /\ ~\E g \in Better(f) : Unlabelled(g) /\ g \in seen
<1> DEFINE list == medium.formats
<1>1. list \in Lists
  BY DEF DownloadInv
<1>2. PICK i \in DOMAIN list : LastPlace(list, found, i) /\ f = list[i]
  BY <1>1, LastOfIs
<1>3. f \in found /\ f \in Found /\ \A k \in DOMAIN list : list[k] = f => k <= i
  BY <1>2 DEF LastPlace
<1>n. DOMAIN list \subseteq Int
  <2>1. PICK n \in Nat : list \in [1..n -> Formats]
    BY <1>1 DEF Lists
  <2> QED BY <2>1
<1>4. ASSUME LastOf(list, seen) = f
      PROVE  /\ ~(f.exact >= SizeLimit) /\ ~(f.approx >= SizeLimit)
             /\ ~\E g \in Better(f) : Unlabelled(g) /\ g \in seen
  <2>1. PICK k \in DOMAIN list : LastPlace(list, seen, k) /\ list[k] = f
    BY <1>1, <1>4, LastOfIs
  <2>2. f \in Filtered
    BY <2>1 DEF LastPlace
  <2>3. ASSUME NEW g \in Better(f), g \in seen PROVE FALSE
    <3>1. PICK m \in DOMAIN list : list[m] = g /\ k < m
      BY <2>1, <2>3 DEF Better
    <3>2. m <= k
      BY <2>1, <2>3, <3>1 DEF LastPlace
    <3> QED BY <1>n, <3>1, <3>2
  <2> QED BY <2>2, <2>3, FilteredPasses
<1>5. ASSUME ~(f.exact >= SizeLimit), ~(f.approx >= SizeLimit),
             ~\E g \in Better(f) : Unlabelled(g) /\ g \in seen
      PROVE  LastOf(list, seen) = f
  <2>1. f \in seen
    BY <1>3, <1>5, UndisputedPasses
  <2>2. ASSUME NEW k \in DOMAIN list, list[k] \in seen, ~(k <= i) PROVE FALSE
    <3>1. list[k] \in Better(f)
      <4>1. \A j \in DOMAIN list : list[j] = f => j < k
        BY <1>3, <1>n, <2>2
      <4> QED BY <4>1 DEF Better
    <3>2. list[k].vcodec \in Codecs /\ list[k] \in Filtered
      BY <2>2, FilteredPasses
    <3>3. list[k].vcodec = "named"
      BY <1>5, <2>2, <3>1, <3>2 DEF Unlabelled, Codecs
    <3>4. list[k] \in found
      BY <2>2, <3>3
    <3> QED BY <1>2, <2>2, <3>4 DEF LastPlace
  <2>3. LastPlace(list, seen, i)
    BY <1>2, <2>1, <2>2 DEF LastPlace
  <2> QED BY <1>1, <1>2, <2>3, LastOfIsLast
<1> QED BY <1>4, <1>5

\* What is found last in a part of the filtered formats is in that part.
LEMMA LastIsIn ==
  ASSUME DownloadInv, NEW part, LastOf(medium.formats, part) # NoFormat
  PROVE  LastOf(medium.formats, part) \in part
BY LastOfMember DEF DownloadInv

\* A resolution offered for a video without sound: it is selected before everything
\* else when there is an m4a sound, and by "best" when nothing has a sound.
LEMMA VideoOfferSelected ==
  ASSUME DownloadInv, request.resolution # 0, NEW f,
         f = LastOf(medium.formats, FoundSilent), f # NoFormat
  PROVE  Selected = f <=> ~Disputed(f)
<1> DEFINE silent == LastOf(medium.formats, Silent)
           both == LastOf(medium.formats, Both)
           Fine == /\ ~(f.exact >= SizeLimit) /\ ~(f.approx >= SizeLimit)
                   /\ ~\E g \in Better(f) : Unlabelled(g) /\ g \in Silent
<1>1. /\ f \in Found /\ f \in Members(medium.formats)
      /\ f.ext = "mp4" /\ f.vcodec = "named" /\ f.acodec = "none"
  BY LastIsIn DEF FoundSilent, Found, Fitting, IsMp4WithVideo, IsVideoOnly
<1>2. silent = f <=> Fine
  <2>1. \A g \in Silent : g.vcodec = "named" => g \in FoundSilent
    BY FilterIsStricter DEF Silent, FoundSilent, SilentVideo, IsVideoOnly
  <2>2. /\ FoundSilent \in SUBSET Found /\ Silent \in SUBSET Filtered
        /\ \A g \in Silent : g.vcodec # "none" /\ (f \in Filtered => f \in Silent)
    BY <1>1 DEF Silent, FoundSilent, SilentVideo
  <2>3. f \in Filtered => f \in Silent
    BY <1>1 DEF Silent, SilentVideo
  <2> QED BY <2>1, <2>2, <2>3, LastUnlessDisputed
<1>3. ~Disputed(f) <=> Fine /\ (HasM4a \/ Incomplete)
  <2>1. \A g : Unlabelled(g) => (g \in Silent <=> IsVideoOnly(g))
    BY DEF Unlabelled, Silent, SilentVideo, IsVideoOnly
  <2>2. IsVideoOnly(f)
    BY <1>1 DEF IsVideoOnly
  <2>3. (\E g \in Better(f) : Unlabelled(g) /\ g \in Silent)
          <=> \E g \in Better(f) : Unlabelled(g) /\ (IsVideoOnly(g) <=> IsVideoOnly(f))
    BY <2>1, <2>2
  <2> QED BY <2>2, <2>3 DEF Disputed
<1>4. both # f
  <2>1. f \notin Both
    BY <1>1 DEF Both, Complete
  <2> QED BY <2>1, LastIsIn
<1>5. Incomplete => \A g \in Members(medium.formats) : SilentVideo(g)
  BY <1>1 DEF Incomplete, SoundOnly
<1>6. CASE HasM4a
  <2>1. ~Incomplete
    BY <1>5, <1>6 DEF HasM4a, SoundOnly, SilentVideo
  <2> QED BY <1>2, <1>3, <1>4, <1>6, <2>1, SelectedIs
<1>7. CASE ~HasM4a /\ Incomplete
  <2>1. /\ \A g \in Filtered : g \in Members(medium.formats)
        /\ Filtered = Silent /\ Both = {}
    BY <1>5, <1>7 DEF Filtered, Silent, Both, SilentVideo, Complete
  <2>2. both = NoFormat
    BY <2>1, LastIsIn
  <2>3. Selected = silent
    BY <1>7, <2>1, <2>2, SelectedIs
  <2> QED BY <1>2, <1>3, <1>7, <2>3
<1>8. CASE ~HasM4a /\ ~Incomplete
  <2>1. Selected = both
    BY <1>8, SelectedIs
  <2> QED BY <1>3, <1>4, <1>8, <2>1
<1> QED BY <1>6, <1>7, <1>8

\* A resolution offered for a format with both: a video without sound that goes first
\* is one that inspection did not find, and so has no named codec.
LEMMA CombinedOfferSelected ==
  ASSUME DownloadInv, request.resolution # 0, NEW f,
         LastOf(medium.formats, FoundSilent) = NoFormat,
         f = LastOf(medium.formats, Found), f # NoFormat
  PROVE  Selected = f <=> ~Disputed(f)
<1> DEFINE list == medium.formats
           silent == LastOf(list, Silent)
           Fine == /\ ~(f.exact >= SizeLimit) /\ ~(f.approx >= SizeLimit)
                   /\ ~\E g \in Better(f) : Unlabelled(g) /\ g \in Both
           Preferred == \E g \in Filtered : Unlabelled(g) /\ IsVideoOnly(g)
<1>l. list \in Lists
  BY DEF DownloadInv
<1>0. \A g \in Members(list) : g \notin FoundSilent
  <2> SUFFICES ASSUME NEW g \in Members(list), g \in FoundSilent PROVE FALSE
    OBVIOUS
  <2>1. PICK i \in DOMAIN list : g = list[i]
    BY DEF Members
  <2> QED BY <1>l, <2>1, LastOfFinds
<1>1. /\ f \in Found /\ f \in Members(list)
      /\ f.ext = "mp4" /\ f.vcodec = "named" /\ f.acodec # "none" /\ ~IsVideoOnly(f)
  <2>1. f \in Found /\ f \in Members(list) /\ f.ext = "mp4" /\ f.vcodec = "named"
    BY LastIsIn DEF Found, Fitting, IsMp4WithVideo
  <2>2. f \notin FoundSilent
    BY <1>0, <2>1
  <2> QED BY <2>1, <2>2 DEF FoundSilent, IsVideoOnly
<1>2. LastOf(list, Both) = f <=> Fine
  <2>1. \A g \in Both : g.vcodec = "named" => g \in Found
    BY FilterIsStricter DEF Both
  <2>2. /\ Found \in SUBSET Found /\ Both \in SUBSET Filtered
        /\ \A g \in Both : g.vcodec # "none"
    BY DEF Both, Complete
  <2>3. f \in Filtered => f \in Both
    BY <1>1 DEF Both, Complete
  <2> QED BY <2>1, <2>2, <2>3, LastUnlessDisputed
<1>3. ~Disputed(f) <=> Fine /\ ~(HasM4a /\ Preferred)
  <2>1. \A g : Unlabelled(g) => (g \in Both <=> ~IsVideoOnly(g))
    BY DEF Unlabelled, Both, Complete, IsVideoOnly
  <2>2. (\E g \in Better(f) : Unlabelled(g) /\ g \in Both)
          <=> \E g \in Better(f) : Unlabelled(g) /\ (IsVideoOnly(g) <=> IsVideoOnly(f))
    BY <1>1, <2>1
  <2> QED BY <1>1, <2>2 DEF Disputed
<1>4. silent # NoFormat <=> Preferred
  <2>1. \A g \in Filtered : g \in Members(list) /\ g.vcodec \in Codecs
    BY FilteredPasses
  <2>2. \A g \in Silent : g.vcodec # "named"
    BY <1>0, <2>1, FilterIsStricter DEF Silent, SilentVideo, FoundSilent, IsVideoOnly
  <2>3. \A g \in Silent : g \in Filtered /\ Unlabelled(g) /\ IsVideoOnly(g)
    BY <2>1, <2>2 DEF Silent, SilentVideo, Unlabelled, IsVideoOnly, Codecs
  <2>4. ASSUME NEW g \in Filtered, Unlabelled(g), IsVideoOnly(g) PROVE silent # NoFormat
    <3>1. g \in Silent
      BY <2>4 DEF Silent, SilentVideo, Unlabelled, IsVideoOnly
    <3>2. PICK i \in DOMAIN list : g = list[i]
      BY <2>1 DEF Members
    <3> QED BY <1>l, <3>1, <3>2, LastOfFinds
  <2>5. silent # NoFormat => Preferred
    BY <2>3, LastIsIn
  <2> QED BY <2>4, <2>5
<1>5. ~Incomplete
  BY <1>1 DEF Incomplete, SilentVideo, SoundOnly
<1>6. silent # f
  <2>1. f \notin Silent
    BY <1>1 DEF Silent, SilentVideo
  <2> QED BY <2>1, LastIsIn
<1>7. Selected = IF silent # NoFormat /\ HasM4a THEN silent ELSE LastOf(list, Both)
  BY <1>5, SelectedIs
<1> HIDE DEF silent, Fine, Preferred
<1> QED BY <1>2, <1>3, <1>4, <1>6, <1>7

\* The format a resolution was offered for is the one yt-dlp selects exactly when the
\* two do not dispute it.
LEMMA OfferedIsSelected ==
  ASSUME DownloadInv, NEW f \in OfferedFor(request.resolution)
  PROVE  Selected = f <=> ~Disputed(f)
<1>1. request.resolution # 0 /\ f # NoFormat
      /\ f = BestVideoFormat(medium.formats, request.resolution)
  BY OfferedIs
<1> QED BY <1>1, BestIs, VideoOfferSelected, CombinedOfferSelected

\* What is downloaded for an offered resolution is the format it was offered for, in the
\* height the page showed, exactly when _best_video_format and the filters handed to
\* yt-dlp do not judge a size, the sound or an unnamed codec differently; and only when
\* they do may a download of what was offered find nothing.
THEOREM OffersAreKept == DownloaderSpec => []OfferIsKept
<1>1. DownloadInv => OfferIsKept
  <2> SUFFICES ASSUME DownloadInv, NEW f \in OfferedFor(request.resolution)
               PROVE  /\ picked # NoFormat => (picked = f <=> ~Disputed(f))
                      /\ outcome = "OutputFormatUnavailable" => Disputed(f)
    BY DEF OfferIsKept
  <2>1. (Selected = f <=> ~Disputed(f)) /\ f # NoFormat
    BY OfferedIsSelected, OfferedIs
  <2>2. /\ picked \in {NoFormat, Selected}
        /\ outcome = "OutputFormatUnavailable" => Selected = NoFormat
    BY DEF DownloadInv, FetchFollows
  <2> QED BY <2>1, <2>2
<1> QED BY <1>1, AlwaysDownload, PTL

\* A resolution that inspection did not offer is only downloaded from a format whose
\* video codec yt-dlp does not name, or that it reports in no list: everything else that
\* the filters select, inspect finds too.
THEOREM OffersAreComplete == DownloaderSpec => []NothingHidden
<1>1. DownloadInv => NothingHidden
  <2> SUFFICES ASSUME DownloadInv, offer.made, picked # NoFormat, request.resolution # 0,
                      IsMp4WithVideo(picked), medium.listed
               PROVE  OfferedFor(request.resolution) # {}
    BY DEF NothingHidden
  <2> DEFINE limit == request.resolution
             list == medium.formats
  <2>1. list \in Lists /\ limit \in Resolutions /\ picked = Selected /\ Listed = list
    BY DEF DownloadInv, FetchFollows, Listed
  <2>2. picked \in Filtered
    BY <2>1, LastIsIn, SelectedIs DEF Silent, Both
  <2>3. picked \in Found /\ picked \in Members(list)
    BY <2>2, FilterIsStricter, FilteredPasses DEF IsMp4WithVideo
  <2>4. PICK i \in DOMAIN list : picked = list[i]
    BY <2>3 DEF Members
  <2>5. LastOf(list, Found) # NoFormat
    BY <2>1, <2>3, <2>4, LastOfFinds
  <2>6. BestVideoFormat(list, limit) # NoFormat
    BY <2>5, BestIs
  <2>7. [resolution |-> limit, format |-> BestVideoFormat(list, limit)] \in offer.variants
    BY <2>1, <2>6 DEF DownloadInv, OfferHonest, NoOffer, VideoVariants
  <2> QED BY <2>7 DEF OfferedFor
<1> QED BY <1>1, AlwaysDownload, PTL

-----------------------------------------------------------------------------
(* The suggested segments *)

\* A segment that begins at one multiple of the limit ends where the next begins.
LEMMA Multiples ==
  ASSUME NEW D \in Nat \ {0}, NEW a \in Nat, NEW b \in Nat,
         a % D = 0, b % D = 0, a < b
  PROVE  a + D <= b
<1>1. /\ a \div D \in Nat /\ a = D * (a \div D) + (a % D)
      /\ b \div D \in Nat /\ b = D * (b \div D) + (b % D)
  BY SMT
<1> DEFINE p == a \div D
           q == b \div D
<1>2. p \in Nat /\ q \in Nat /\ a = D * p /\ b = D * q
  BY <1>1
<1> HIDE DEF p, q
<1>3. q = p + 1 + (q - p - 1) /\ q - p - 1 \in Int
  BY <1>2
<1> DEFINE more == q - p - 1
<1>4. D * q = D * p + D + D * more /\ more \in Int
  BY <1>2, <1>3
<1> HIDE DEF more
<1>5. ASSUME more < 0 PROVE FALSE
  <2>1. D * more <= 0 - D
    BY <1>4, <1>5
  <2> QED BY ONLY <2>1, <1>2, <1>4, D \in Nat, a < b
<1>6. D * more >= 0
  BY <1>4, <1>5
<1> QED BY ONLY <1>2, <1>4, <1>6, D \in Nat

\* Where the suggestion that begins at a second ends.
EndOf(start, duration) ==
    IF start + DurationLimit < duration THEN start + DurationLimit ELSE duration

LEMMA SuggestedAre ==
  ASSUME NEW duration \in {Unknown} \cup 0..MaxDuration,
         NEW piece \in SegmentSuggestions(duration)
  PROVE  /\ duration \in Nat /\ duration > DurationLimit
         /\ piece[1] \in 0..(duration - 1) /\ piece[1] % DurationLimit = 0
         /\ piece[2] = EndOf(piece[1], duration)
         /\ piece = <<piece[1], piece[2]>>
<1>1. duration \in Nat /\ duration > DurationLimit
  BY DownloaderAssumption DEF SegmentSuggestions, Unknown
<1>2. PICK start \in 0..(duration - 1) : /\ start % DurationLimit = 0
                                         /\ piece = <<start, EndOf(start, duration)>>
  BY DEF SegmentSuggestions, EndOf
<1> QED BY <1>1, <1>2

LEMMA AreSuggested ==
  ASSUME NEW duration \in Nat, duration > DurationLimit,
         NEW start \in 0..(duration - 1), start % DurationLimit = 0
  PROVE  <<start, EndOf(start, duration)>> \in SegmentSuggestions(duration)
<1>1. duration # Unknown /\ ~(duration <= DurationLimit)
  BY DownloaderAssumption DEF Unknown
<1> QED BY <1>1 DEF SegmentSuggestions, EndOf

\* The suggestion that holds a second begins at the last multiple of the limit before it.
LEMMA HoldsOnce ==
  ASSUME NEW duration \in {Unknown} \cup 0..MaxDuration, SegmentSuggestions(duration) # {},
         NEW second \in 0..(duration - 1)
  PROVE  \E piece \in SegmentSuggestions(duration) :
             \A other \in SegmentSuggestions(duration) :
                 (other[1] <= second /\ second < other[2]) <=> other = piece
<1> DEFINE start == DurationLimit * (second \div DurationLimit)
           piece == <<start, EndOf(start, duration)>>
<1>1. duration \in Nat /\ duration > DurationLimit /\ DurationLimit \in Nat \ {0}
  BY SuggestedAre, DownloaderAssumption
<1>2. second \in Nat /\ second < duration
  BY <1>1
<1>3. /\ second \div DurationLimit \in Nat /\ second % DurationLimit \in 0..(DurationLimit - 1)
      /\ second = DurationLimit * (second \div DurationLimit) + (second % DurationLimit)
  BY <1>1, <1>2, SMT
<1>4. start \in Nat /\ start % DurationLimit = 0
  <2>1. \A q \in Nat : DurationLimit * q \in Nat /\ (DurationLimit * q) % DurationLimit = 0
    BY <1>1, SMT
  <2> QED BY <1>3, <2>1
<1>5. start <= second /\ second < start + DurationLimit
  BY <1>1, <1>2, <1>3
<1> HIDE DEF start
<1>6. piece \in SegmentSuggestions(duration)
  BY <1>1, <1>2, <1>4, <1>5, AreSuggested
<1>7. ASSUME NEW other \in SegmentSuggestions(duration)
      PROVE  (other[1] <= second /\ second < other[2]) <=> other = piece
  <2>1. /\ other[1] \in Nat /\ other[1] % DurationLimit = 0
        /\ other[2] = EndOf(other[1], duration) /\ other = <<other[1], other[2]>>
    BY SuggestedAre
  <2>2. ASSUME other[1] <= second, second < other[2] PROVE other[1] = start
    <3>1. second < other[1] + DurationLimit
      BY <1>1, <1>2, <2>1, <2>2 DEF EndOf
    <3>2. ~(other[1] < start) /\ ~(start < other[1])
      BY <1>1, <1>2, <1>4, <1>5, <2>1, <2>2, <3>1, Multiples
    <3> QED BY <1>4, <2>1, <3>2
  <2>3. start <= second /\ second < EndOf(start, duration)
    BY <1>1, <1>2, <1>4, <1>5 DEF EndOf
  <2> QED BY <2>1, <2>2, <2>3
<1> QED BY <1>6, <1>7

\* A segment the page suggests is accepted when it is requested: it ends within the
\* medium and is not too long.  And the suggestions cover a medium that is too long,
\* every second of it once, however long it is and whatever the limit.
THEOREM SuggestionsAreServed == DownloaderSpec => []SuggestionsServe
<1>1. DownloadInv => SuggestionsServe
  <2> SUFFICES ASSUME DownloadInv PROVE SuggestionsServe
    OBVIOUS
  <2>1. /\ medium.duration \in {Unknown} \cup 0..MaxDuration
        /\ offer.segments \in {{}, SegmentSuggestions(medium.duration)}
    BY DEF DownloadInv, Media, OfferHonest, NoOffer
  <2>2. ASSUME request.segment \in offer.segments
        PROVE  outcome \notin {"SegmentOutOfBounds", "MediaTooLong"}
    <3> DEFINE piece == request.segment
    <3>1. /\ medium.duration \in Nat /\ piece[1] \in 0..(medium.duration - 1)
          /\ piece[2] = EndOf(piece[1], medium.duration) /\ piece = <<piece[1], piece[2]>>
      BY <2>1, <2>2, SuggestedAre
    <3>2. piece # Whole /\ piece[2] <= medium.duration /\ Length(piece) <= DurationLimit
      BY <3>1, DownloaderAssumption DEF Whole, EndOf, Length
    <3>3. ~OutOfBounds /\ ~(RequestedSeconds > DurationLimit)
      BY <3>1, <3>2, DownloaderAssumption DEF OutOfBounds, RequestedSeconds, Length, EndOf
    <3> QED BY <3>3 DEF DownloadInv, FetchFollows
  <2>3. ASSUME offer.segments # {}, NEW second \in 0..(medium.duration - 1)
        PROVE  \E piece \in offer.segments :
                   \A other \in offer.segments :
                       (other[1] <= second /\ second < other[2]) <=> other = piece
    BY <2>1, <2>3, HoldsOnce
  <2> QED BY <2>2, <2>3 DEF SuggestionsServe
<1> QED BY <1>1, AlwaysDownload, PTL

=============================================================================
