CONSTANTS
  Students = {ana}
  Labs = {lab1}
  Workers = {w1, w2}
  Tasks = {t1}
  Results <- TwoResults
  ClientVerdicts <- PostedVerdicts
  Limit = 2
  MayFail = TRUE
  NoResult = NoResult
  NoRow = NoRow
  NoRequest = NoRequest
SPECIFICATION Spec
CHECK_DEADLOCK FALSE
SYMMETRY WorkerSymmetry
INVARIANTS TypeOK AttemptsBounded AttemptsAccounted SavedTogether DeletedForGood
PROPERTIES RefusedOnlyAtLimit LogSpec
