\* A restart between the completion and its artifact id.
SPECIFICATION Spec
CONSTANTS
    i1 = i1  i2 = i2  i3 = i3  w1 = w1  w2 = w2  c1 = c1  c2 = c2
    j1 = j1  j2 = j2  r1 = r1  r2 = r2  None = None
    Instances = {i1, i2}
    Workers = {w1}
    Clients = {c1}
    Jobs = {j1}
    Runs = {r1}
    RunOf <- SameRun
    Kind <- RunAndPreview
    Limit <- DefaultLimits
    MaxRetries = 1
    MaxReports = 0
    MaxAlive = 1
    MaxCrashes = 1
    MaxFaults = 0
    LeaseCoversRun = TRUE
    CancelFinished = FALSE
    RepeatPreviews = FALSE
    CrashWhileRestoring = FALSE
INVARIANTS CompletedIncludesResult
CHECK_DEADLOCK FALSE
