\* The review of one run: edits, confirmations and videos, also two at the same time, while an
\* assignment job works.
SPECIFICATION Spec
CONSTANTS
    c1 = c1  c2 = c2  c3 = c3  r1 = r1  r2 = r2  None = None
    Callers = {c1, c2}
    Runs = {r1}
    Mode <- AllHighlighted
    Reviewed = {r1}
    Explored = {"autosave", "run", "confirm", "generate", "assign", "video"}
    MaxOpen = 2
    Apart <- OthersApart
    MaxEdits = 3
    MaxRevisions = 5
    MaxSources = 1
    OneReviewer = TRUE
    Retry = FALSE
SYMMETRY CallerSymmetry
INVARIANTS TypeOK StageOrder ConfirmedIsCurrent RevisionsDistinct
PROPERTIES AssignmentKeepsReview
CHECK_DEADLOCK FALSE
