\* A save while a stage is confirmed.
SPECIFICATION Spec
CONSTANTS
    c1 = c1  c2 = c2  c3 = c3  r1 = r1  r2 = r2  None = None
    Callers = {c1, c2}
    Runs = {r1}
    Mode <- AllHighlighted
    Reviewed = {r1}
    Explored = {"autosave", "run", "generate", "confirm"}
    MaxOpen = 2
    Apart = {}
    MaxEdits = 3
    MaxRevisions = 5
    MaxSources = 1
    OneReviewer = TRUE
    Retry = FALSE
SYMMETRY CallerSymmetry
INVARIANTS ConfirmedIsCurrent
CHECK_DEADLOCK FALSE
