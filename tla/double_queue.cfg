CONSTANTS
    Tracks = {t1}
    Media = {m1, m2}
    Users = {u1, u2}
    MaxResults = 1
    MaxCandidates = 1
    MaxBatch = 1
    MaxLost = 0
    Actions = {"resolve", "queue"}
SPECIFICATION Spec
INVARIANTS OneJobPerKey
