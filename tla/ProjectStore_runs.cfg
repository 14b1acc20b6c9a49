\* Runs and PDFs that replace each other, videos and audio, while the draft is edited.
SPECIFICATION Spec
CONSTANTS
    c1 = c1  c2 = c2  c3 = c3  r1 = r1  r2 = r2  None = None
    Callers = {c1, c2}
    Runs = {r1, r2}
    Mode <- HighlightThenVideo
    Reviewed = {}
    Explored = {"autosave", "save", "rename", "pdf", "run", "generate", "video", "video_highlight", "preview"}
    MaxOpen = 1
    Apart = {}
    MaxEdits = 2
    MaxRevisions = 5
    MaxSources = 2
    OneReviewer = TRUE
    Retry = FALSE
SYMMETRY CallerSymmetry
INVARIANTS LiveRunIsActive RenderIsCurrent AudioIsCurrent
PROPERTIES SavesAreBased SupersededStaysInactive
CHECK_DEADLOCK FALSE
