\* A job, a stop or a restart of it; pids may be reused.
CONSTANTS
    c1 = c1
    c2 = c2
    c3 = c3
    p1 = p1
    p2 = p2
    None = None
    Commands = {c1, c2}
    Projects = {p1, p2}
    Menu <- OneJob
    Project <- SameProject
    Campaigns = {c2}
    Verdicts = {"completed", "partial"}
    MaxPolls = 3
    MaxOwnerPolls = 2
    MaxCrashes = 1
    PidReuse = TRUE
SPECIFICATION FairSpec
CHECK_DEADLOCK FALSE
PROPERTIES
    StopIsHonoured
    CommandsReturn
