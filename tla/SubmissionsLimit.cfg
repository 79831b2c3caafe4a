CONSTANTS
  Students = {ana}
  Labs = {lab1}
  Workers = {w1, w2}
  Tasks = {}
  Results <- TwoResults
  ClientVerdicts = {}
  Limit = 2
  MayFail = FALSE
  NoResult = NoResult
  NoRow = NoRow
  NoRequest = NoRequest
SPECIFICATION Spec
CHECK_DEADLOCK FALSE
INVARIANTS AttemptsWithinLimit
