CONSTANTS
    MaxJobs = 1
    MaxQueueSize = 1
    Faults = {"crash", "mkdir"}
    Workers = {w1}
    Monitored = {w1}
    Clients = {c1, c2}
    Requests = {"submit", "resume", "pause", "delete"}
SPECIFICATION Spec
SYMMETRY Symmetry
INVARIANTS TypeOK QueuedHasTicket ExtractingHasWorker InterruptedIsQuiet
PROPERTIES InterruptedTempKept
