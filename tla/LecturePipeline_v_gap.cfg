\* The gap after the second slide that was made shows the second of all.
SPECIFICATION Spec
CONSTANTS
    j1 = j1
    j2 = j2
    Jobs = {j1}
    NoJob = NoJob
    LastPage = 3
    Workers = 1
    MaterialWorkers = 2
    Narrations <- MCNarrations
    Outlines <- MCOutlines
    Draft <- MCDraft3
    MaxRetries = 1
    MaxCrashes = 0
INVARIANT GapShowsItsPage
CHECK_DEADLOCK FALSE
