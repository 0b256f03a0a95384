\* The owner file that names the worker is not written.
CONSTANTS
    c1 = c1
    c2 = c2
    c3 = c3
    p1 = p1
    p2 = p2
    None = None
    Commands = {c1, c2, c3}
    Projects = {p1, p2}
    Menu <- ThreeJobs
    Project <- SameProject
    Campaigns = {c2}
    Verdicts = {"completed"}
    MaxPolls = 1
    MaxOwnerPolls = 1
    MaxCrashes = 0
    PidReuse = FALSE
SPECIFICATION FaultSpec
CHECK_DEADLOCK FALSE
INVARIANTS
    OneActiveJob
