CONSTANTS
  Labs = {lab1, lab2, home}
  LocalLabs = {home}
  Conns = {c1, c2}
  MaxInput = 1
  Interrupt = Interrupt
  None = None
SPECIFICATION FairSpec
CHECK_DEADLOCK FALSE
VIEW Used
SYMMETRY PanelSymmetry
INVARIANTS PanelTypeOK OneTerminal ConnectedIsOpen LogoutEndsTerminal
PROPERTIES CreditOnlyWhereRun OpenReturns
