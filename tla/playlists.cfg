CONSTANTS
    Tracks = {t1}
    Media = {m1, m2}
    Users = {u1, u2}
    MaxResults = 2
    MaxCandidates = 4
    MaxBatch = 2
    MaxLost = 1
    Actions = {"resolve", "edit", "queue", "crash", "raise"}
SPECIFICATION Spec
SYMMETRY Symmetry
INVARIANTS PlaylistsTypeOK ItemsHaveJobs SubmittedIsRecorded DuplicatesBounded
