\* Any three commands, one kill, no pid reuse.
CONSTANTS
    c1 = c1
    c2 = c2
    c3 = c3
    p1 = p1
    p2 = p2
    None = None
    Commands = {c1, c2, c3}
    Projects = {p1, p2}
    Menu <- TwoJobs
    Project <- TwoProjects
    Campaigns = {c3}
    Verdicts = {"completed"}
    MaxPolls = 2
    MaxOwnerPolls = 0
    MaxCrashes = 1
    PidReuse = FALSE
SPECIFICATION Spec
CHECK_DEADLOCK FALSE
INVARIANTS
    OneActiveJob
    StateIsTheActiveJobs
    ResultIsTheJobs
    ConversationIsCurrent
    OneProject
PROPERTIES
    OnlyTheOwnerWritesState
    KeepsItsPromise
