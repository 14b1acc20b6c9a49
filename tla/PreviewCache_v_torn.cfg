\* The making of a clip breaks off; nothing is pruned.
SPECIFICATION Spec
CONSTANTS
    t1 = t1  t2 = t2  p1 = p1  p2 = p2  u1 = u1  u2 = u2  s1 = s1  s2 = s2  None = None
    Threads = {t1, t2}
    Processes = {p1}
    ProcessOf <- OneProcess
    Users = {u1, u2}
    Sentences = {s1, s2}
    Clips <- ShortAndLong
    Asked <- Asking
    PruneLimit = 2
    MaxRequests = 3
    MaxFaults = 1
    MaxAges = 0
INVARIANTS PublishedIsWhole
CHECK_DEADLOCK FALSE
