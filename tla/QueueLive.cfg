SPECIFICATION QueueSpec
CONSTANTS
    t1 = t1
    g1 = g1
    g2 = g2
    c1 = c1
    None = None
    Tasks = {t1}
    Goroutines = {g1, g2}
    Clients = {c1}
    Concurrency = 1
    Operations = {"execute", "pause", "cancel"}
    MaxRequests = 2
    MaxRequeues = 1
    MaxEarlyResets = 0
    MaxCrashes = 1
PROPERTIES QueuedIsClaimed DeadRunRecovered
