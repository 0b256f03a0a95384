\* A start may be killed; then a clear.
CONSTANTS
    c1 = c1
    c2 = c2
    c3 = c3
    p1 = p1
    p2 = p2
    None = None
    Commands = {c1, c2}
    Projects = {p1, p2}
    Menu <- StartThenClear
    Project <- SameProject
    Campaigns = {c2}
    Verdicts = {"completed"}
    MaxPolls = 1
    MaxOwnerPolls = 1
    MaxCrashes = 1
    PidReuse = FALSE
SPECIFICATION Spec
CHECK_DEADLOCK FALSE
INVARIANTS
    ClearRecovers
