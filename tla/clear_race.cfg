CONSTANTS
    MaxJobs = 1
    MaxQueueSize = 1
    Faults = {}
    Workers = {w1}
    Monitored = {}
    Clients = {c1, c2}
    Requests = {"submit", "resume", "clear"}
SPECIFICATION Spec
PROPERTIES ClearSkipsActive
