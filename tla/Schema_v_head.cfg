\* A legacy production database, upgraded to the last revision as the backend's
\* own message asks.
SPECIFICATION Spec
CONSTANTS
    b1 = b1  b2 = b2  p1 = p1  p2 = p2
    Dialects = {"postgres"}
    Origins = {"legacy"}
    Modes = {"production"}
    Backends = {b1}
    Projects = {p1}
    MaxVersion = 1
    MaxSaves = 0
    MaxDowngrades = 0
    MaxDeaths = 0
PROPERTIES HeadIsAccepted
CHECK_DEADLOCK FALSE
