CONSTANTS
    Tracks = {t1}
    Media = {m1, m2}
    Users = {u1}
    MaxResults = 2
    MaxCandidates = 4
    MaxBatch = 1
    MaxLost = 0
    Actions = {"resolve", "queue"}
SPECIFICATION Spec
INVARIANTS SearchingHasSearcher
