\* Both databases, both origins and both modes: two backends, two projects.
SPECIFICATION Spec
CONSTANTS
    b1 = b1  b2 = b2  p1 = p1  p2 = p2
    Dialects = {"postgres", "sqlite"}
    Origins = {"empty", "legacy"}
    Modes = {"production", "development"}
    Backends = {b1, b2}
    Projects = {p1, p2}
    MaxVersion = 2
    MaxSaves = 1
    MaxDowngrades = 1
    MaxDeaths = 1
INVARIANT StampMeansDone
PROPERTIES DraftsKept UpgradeFinishes DevelopmentServes
CHECK_DEADLOCK FALSE
