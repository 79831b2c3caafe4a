CONSTANTS
  ana = ana
  k1 = k1
  Emails = {ana, bia}
  Codes = {k1}
  Enrolled <- OneSeat
  Calls = {c1, c2}
  None = None
SPECIFICATION Spec
SYMMETRY GateSymmetry
CHECK_DEADLOCK FALSE
INVARIANTS GateTypeOK PickerIsOfForm HintIsRegistered PageIsCookie
PROPERTIES LeavesNothing ButtonReturns
