CONSTANTS
  Students = {ana}
  Labs = {lab1, lab2}
  Workers = {w1}
  Tasks = {}
  Results <- TwoResults
  ClientVerdicts <- Told
  Limit = 2
  MayFail = FALSE
  NoResult = NoResult
  NoRow = NoRow
  NoRequest = NoRequest
  Readers = {r1}
  NoView = NoView
SPECIFICATION ViewsSpec
CHECK_DEADLOCK FALSE
SYMMETRY LabSymmetry
INVARIANTS DashboardFresh DashboardAddsUp OverviewFounded
