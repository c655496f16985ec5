SPECIFICATION Spec
CONSTANTS
  w1 = w1
  w2 = w2
  v1 = v1
  Sessions = {w1, w2, v1}
  TurnMode <- MCTurnMode
  Verifiers = {v1}
  Effects = {e1}
  Payloads = {p1, p2}
  Reportable <- MCReportable
  MayCrash = {w1, w2, v1}
  StaleReports = FALSE
  MaxAttempts = 2
  MaxRevision = 6
  None = None
SYMMETRY Workers
PROPERTIES
  ImplementsLedger
INVARIANTS
  AtMostOnce
  SettledMeansDone
  KeyNamesOneEffect
  ClosureStaysJustified
  Recoverable
CHECK_DEADLOCK FALSE
