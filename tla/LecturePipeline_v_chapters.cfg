\* A script is paired with its chapters by its paragraphs, which are lost.
SPECIFICATION Spec
CONSTANTS
    j1 = j1
    j2 = j2
    Jobs = {j1}
    NoJob = NoJob
    LastPage = 2
    Workers = 1
    MaterialWorkers = 2
    Narrations <- MCNarrations
    Outlines <- MCOutlines
    Draft <- MCDraft
    MaxRetries = 1
    MaxCrashes = 0
INVARIANT SentenceOnItsChapter
CHECK_DEADLOCK FALSE
