CONSTANTS
    MaxJobs = 2
    MaxQueueSize = 1
    Faults = {"mkdir", "crash"}
    Workers = {w1}
    Monitored = {}
    Clients = {c1}
    Requests = {"submit", "pause", "clear"}
SPECIFICATION RetentionSpec
SYMMETRY Symmetry
INVARIANTS RetentionTypeOK FileUnlessRemoved
PROPERTIES ActiveTempKept KeepsLibrary
