\* Three jobs, so that one can be submitted after a cancelled and before a
\* failed one; two model turns.
SPECIFICATION FairSpec
CONSTANTS
  MaxJobs = 3
  MaxTurns = 2
INVARIANTS
  OneJobAtATime
  NothingLeftBehind
PROPERTIES
  StoppedJobsStayQuiet
  ExitIsHonoured
CHECK_DEADLOCK FALSE
