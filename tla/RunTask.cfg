SPECIFICATION FairSpec
CONSTANTS
  Cases = {c1, c2}
  Bytes = {b1, b2}
  MaxCalls = 2
  MaxTurns = 4
  MaxAttempts = 2
INVARIANTS
  CompletedIsEarned
  ConfirmedByEvidence
  OnlyBrokenTestsAreRepeated
  CleanBill
  ScoredOnce
PROPERTIES
  ReportIsFinal
  RunEnds
CHECK_DEADLOCK FALSE
