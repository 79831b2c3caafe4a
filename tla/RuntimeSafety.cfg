CONSTANTS
  Students = {ana}
  Labs = {lab1}
  Codes = {c1, c2}
  Workers = {w1, w2}
  Kinds = {"open", "terminal"}
  MayFail = TRUE
  NoKey = NoKey
SPECIFICATION Spec
CHECK_DEADLOCK FALSE
SYMMETRY WorkerSymmetry
INVARIANTS RuntimeTypeOK
PROPERTIES ErrorsAreDisturbed PurgedBeforeDeleted
