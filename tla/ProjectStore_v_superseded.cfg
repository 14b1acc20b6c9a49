\* A new run is created while a result is applied.
SPECIFICATION Spec
CONSTANTS
    c1 = c1  c2 = c2  c3 = c3  r1 = r1  r2 = r2  None = None
    Callers = {c1, c2}
    Runs = {r1, r2}
    Mode <- AllHighlighted
    Reviewed = {r1, r2}
    Explored = {"run", "generate"}
    MaxOpen = 2
    Apart = {}
    MaxEdits = 3
    MaxRevisions = 5
    MaxSources = 1
    OneReviewer = TRUE
    Retry = FALSE
SYMMETRY CallerSymmetry
PROPERTIES SupersededStaysInactive
CHECK_DEADLOCK FALSE
