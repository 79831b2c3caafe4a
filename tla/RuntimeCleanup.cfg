CONSTANTS
  Students = {ana}
  Labs = {lab1}
  Codes = {c1}
  Workers = {w1}
  Kinds = {"open", "terminal"}
  MayFail = TRUE
  NoKey = NoKey
SPECIFICATION FairSpec
CHECK_DEADLOCK FALSE
PROPERTIES EnvironmentsEnd DeletedLeaveNothing
