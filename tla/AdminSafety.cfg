CONSTANTS
  ana = ana
  bia = bia
  k1 = k1
  k2 = k2
  Enrolments <- TwoStudents
  Calls = {c1, c2}
  All = All
  None = None
SPECIFICATION Spec
CHECK_DEADLOCK FALSE
SYMMETRY CallSymmetry
INVARIANTS AdminTypeOK GradesAreEntered DialogWaits RemovalsConfirmed FilterRestricts
