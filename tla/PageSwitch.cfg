CONSTANTS
  Students = {ana, bia}
  Labs = {lab1}
  Limit = 1
  Excess = 1
  Slots = {k1, k2}
  None = None
SPECIFICATION Spec
CHECK_DEADLOCK FALSE
INVARIANTS ProgressIsOwn
