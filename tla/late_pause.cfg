CONSTANTS
    MaxJobs = 1
    MaxQueueSize = 1
    Faults = {}
    Workers = {w1}
    Monitored = {}
    Clients = {c1}
    Requests = {"submit", "pause"}
SPECIFICATION Spec
PROPERTIES PauseSticks
