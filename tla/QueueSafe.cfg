SPECIFICATION QueueSpec
CONSTANTS
    t1 = t1
    t2 = t2
    g1 = g1
    g2 = g2
    g3 = g3
    c1 = c1
    None = None
    Tasks = {t1, t2}
    Goroutines = {g1, g2, g3}
    Clients = {c1}
    Concurrency = 2
    Operations = {"execute", "retry", "pause", "cancel", "approve"}
    MaxRequests = 2
    MaxRequeues = 1
    MaxEarlyResets = 1
    MaxCrashes = 0
SYMMETRY Interchangeable
INVARIANTS QueueTypeOK SlotsBounded CancelHitsOwnJob
