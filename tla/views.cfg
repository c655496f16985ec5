SPECIFICATION Spec
CONSTANTS
  s1 = s1
  s2 = s2
  x1 = x1
  e1 = e1
  e2 = e2
  p1 = p1
  c1 = c1
  c2 = c2
  None = None
  Target <- OneTarget
  DeclaredId <- OneIdentifier
  Uses <- ClientUses
  Sessions = {s1, s2}
  Slices = {x1}
  Known = {}
  Effects = {e1}
  Plans = {p1}
  Contracts = {c1, c2}
  MayAbort = {s2}
  MaxCalls <- ClientCalls
CHECK_DEADLOCK FALSE
INVARIANTS
  LoneCallProjects
  LoneCallRefreshes
PROPERTIES
  ListsGrow
