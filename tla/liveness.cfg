CONSTANTS
    MaxJobs = 1
    MaxQueueSize = 1
    Faults = {"mkdir"}
    Workers = {w1}
    Monitored = {}
    Clients = {c1}
    Requests = {"submit", "resume", "pause", "delete"}
    PageJobs = {m1}
    MaxPolls = 2
    MaxAsked = 2
    Playlists = {p1}
    MaxLoads = 1
SPECIFICATION LiveSpec
PROPERTIES QueuedIsServed RunsEnd PanelSettles
CHECK_DEADLOCK FALSE
