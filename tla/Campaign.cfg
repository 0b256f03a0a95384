SPECIFICATION Spec
CONSTANTS
  Tests = {t1}
  Rounds = 3
  MaxTurns = 2
  RunTurns = 2
  Stagnation = 2
INVARIANTS
  TypeOK
  CompletedIsWhole
  CleanIsClean
  EvidenceIsSaved
  StagnationIsReal
PROPERTIES
  NothingIsForgotten
CHECK_DEADLOCK FALSE
