SPECIFICATION Spec
CONSTANTS
  w1 = w1
  w2 = w2
  v1 = v1
  Sessions = {w1, v1}
  TurnMode <- MCTurnMode
  Verifiers = {v1}
  Effects = {e1, e2}
  Payloads = {p1}
  Reportable <- MCReportable
  MayCrash = {}
  StaleReports = FALSE
  MaxAttempts = 1
  MaxRevision = 3
  None = None
INVARIANTS
  ClosedMeansSettled
CHECK_DEADLOCK FALSE
