CONSTANTS
    Threads = {t1, t2}
    Keys = {k1, k2}
    Limit = 2
    Window = 2
    TicksPerSecond = 2
    MaxSkew = 1
    MaxTime = 5
    Songs = {s1, s2}
    MaxTracks = 3
    MaxLines = 4
    Resolutions = {360, 720}
    Formats <- Choice
    SizeLimit = 2
    DurationLimit = 3
    MaxFormats = 3
    MaxDuration = 7
    PageJobs = {m1, m2}
    MaxPolls = 2
    MaxAsked = 1
    Playlists = {p1, p2}
    MaxLoads = 2
    Items = {i1}
SPECIFICATION Spec
SYMMETRY Symmetry
INVARIANTS PageTypeOK PanelWatched ReviewAgrees LimiterTypeOK WindowBound ImportTypeOK LinesAccounted OfferIsKept NothingHidden SuggestionsServe BackupTypeOK ArchiveServes LibraryKept RestoreIsWhole
PROPERTIES RefusalsAreDue RetryIsHonest KeepsPromise
CHECK_DEADLOCK FALSE
