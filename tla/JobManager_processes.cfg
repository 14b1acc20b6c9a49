\* Two processes at the same time; operations fail, a process dies, even while it restores.
SPECIFICATION Spec
CONSTANTS
    i1 = i1  i2 = i2  i3 = i3  w1 = w1  w2 = w2  c1 = c1  c2 = c2
    j1 = j1  j2 = j2  r1 = r1  r2 = r2  None = None
    Instances = {i1, i2}
    Workers = {w1}
    Clients = {c1}
    Jobs = {j1}
    Runs = {r1}
    RunOf <- SameRun
    Kind <- RunAndPreview
    Limit <- DefaultLimits
    MaxRetries = 1
    MaxReports = 1
    MaxAlive = 2
    MaxCrashes = 1
    MaxFaults = 1
    LeaseCoversRun = TRUE
    CancelFinished = TRUE
    RepeatPreviews = FALSE
    CrashWhileRestoring = TRUE
SYMMETRY AnyOrder
INVARIANTS TypeOK CompletedIsPublished OneExecutionUnlessCancelled
CHECK_DEADLOCK FALSE
