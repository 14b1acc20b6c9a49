\* Three processes one after the other; one job, previews are asked for again.
SPECIFICATION Spec
CONSTANTS
    i1 = i1  i2 = i2  i3 = i3  w1 = w1  w2 = w2  c1 = c1  c2 = c2
    j1 = j1  j2 = j2  r1 = r1  r2 = r2  None = None
    Instances = {i1, i2, i3}
    Workers = {w1}
    Clients = {c1}
    Jobs = {j1, j2}
    Runs = {r1}
    RunOf <- SameRun
    Kind <- ReviewAndPreview
    Limit <- DefaultLimits
    MaxRetries = 1
    MaxReports = 1
    MaxAlive = 1
    MaxCrashes = 2
    MaxFaults = 0
    LeaseCoversRun = TRUE
    CancelFinished = FALSE
    RepeatPreviews = TRUE
    CrashWhileRestoring = FALSE
CONSTRAINT OneSubmitted
SYMMETRY AnyOrder
INVARIANTS ExecutionsBounded LeaseIsServed
CHECK_DEADLOCK FALSE
