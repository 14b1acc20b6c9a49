\* Two workers use the same globals of lecture_concat.
SPECIFICATION Spec
CONSTANTS
    j1 = j1
    j2 = j2
    Jobs = {j1, j2}
    NoJob = NoJob
    LastPage = 2
    Workers = 2
    MaterialWorkers = 2
    Narrations <- MCNarrations
    Outlines <- MCOutlines
    Draft <- MCDraft
    MaxRetries = 1
    MaxCrashes = 0
INVARIANT VideoIsOwn
CHECK_DEADLOCK FALSE
