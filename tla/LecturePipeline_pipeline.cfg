\* One worker, two jobs: every kind of job, a death, answers in and out of order.
SPECIFICATION Spec
CONSTANTS
    j1 = j1
    j2 = j2
    Jobs = {j1, j2}
    NoJob = NoJob
    LastPage = 2
    Workers = 1
    MaterialWorkers = 2
    Narrations <- MCNarrations
    Outlines <- MCOutlines
    Draft <- MCDraft
    MaxRetries = 1
    MaxCrashes = 1
SYMMETRY Symmetry
INVARIANTS CompletedIsWhole VideoIsOwn VideoFollowsTimeline RenderShowsAssigned
CHECK_DEADLOCK FALSE
