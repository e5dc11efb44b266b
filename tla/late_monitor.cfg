CONSTANTS
    MaxJobs = 1
    MaxQueueSize = 1
    Faults = {}
    Workers = {w1}
    Monitored = {w1}
    Clients = {c1}
    Requests = {"submit"}
SPECIFICATION Spec
PROPERTIES CompletedStays
