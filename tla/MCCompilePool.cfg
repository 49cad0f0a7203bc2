SPECIFICATION FairSpec
CONSTANTS
  N = 3
  Tmp <- MCTmp
  Workers = {w1, w2}
  Dump = TRUE
INVARIANTS
  TypeOK
  ReturnsOnlyComplete
  ErrorHasCause
  AttemptsAllUnlessStopped
  BatchAccounted
PROPERTIES
  Terminates
  ImplementsBatch
