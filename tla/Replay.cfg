\* Three cases and a scale of two: ties, gaps and both ends of a range.
SPECIFICATION FairSpec
CONSTANTS
  Cases = {1, 2, 3}
  Batch <- MCBatch
  Baseline = {3}
  Scale = 2
  Retries = 1
  Responses <- MCResponses
  Requests <- MCRequests
  None = None
INVARIANTS
  SelectionIsExact
  OnlyRealScores
  CompletedReplayIsWhole
  NoTestOutlivesTheStop
  FeedbackIsDeserved
PROPERTIES
  ReplayEnds
CHECK_DEADLOCK FALSE
