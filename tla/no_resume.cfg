CONSTANTS
    MaxJobs = 2
    MaxQueueSize = 1
    Faults = {"crash"}
    Workers = {w1, w2}
    Monitored = {w1}
    Clients = {c1}
    Requests = {"submit", "pause", "delete"}
SPECIFICATION Spec
INVARIANTS QueuedHasTicket SoleRunner WorkersSurvive DeletedLeavesNothing
