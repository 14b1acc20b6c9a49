\* A restored job applies its result a second time.
SPECIFICATION Spec
CONSTANTS
    c1 = c1  c2 = c2  c3 = c3  r1 = r1  r2 = r2  None = None
    Callers = {c1, c2}
    Runs = {r1}
    Mode <- AllHighlighted
    Reviewed = {r1}
    Explored = {"autosave", "run", "generate", "preview"}
    MaxOpen = 1
    Apart = {}
    MaxEdits = 3
    MaxRevisions = 5
    MaxSources = 1
    OneReviewer = TRUE
    Retry = TRUE
SYMMETRY CallerSymmetry
INVARIANTS AudioIsCurrent
CHECK_DEADLOCK FALSE
