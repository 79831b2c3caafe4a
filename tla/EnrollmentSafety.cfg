CONSTANTS
  StudentIds = {s1, s2}
  CohortIds = {k1, k2}
  Emails = {ana, bia}
  Usernames = {u1, u2, u3}
  Codes = {x1, x2}
  Tokens = {t1}
  Workers = {w1, w2}
  None = None
  Gone = Gone
SPECIFICATION Spec
CHECK_DEADLOCK FALSE
SYMMETRY Alike
INVARIANTS EnrollmentTypeOK AdminsBounded EnrolledOnce SessionsFounded EndedStaysOut
