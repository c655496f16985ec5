SPECIFICATION Spec
CONSTANTS
  worker1 = worker1
  worker2 = worker2
  reviewer = reviewer
  reviewer2 = reviewer2
  p1 = p1
  p2 = p2
  g1 = g1
  e1 = e1
  None = None
  Sessions = {worker1, worker2, reviewer}
  Actors = {worker1, worker2, reviewer}
  ActorOf <- SessionActor
  Turns <- ActorTurns
  Verifiers = {reviewer}
  Approvers = {reviewer}
  Validators = {reviewer}
  Submitters = {}
  ImportedBy = {None}
  Plans = {p1, p2}
  AuditPlans = {p2}
  Gates = {}
  Evidence = {e1}
  Progress = {"PAUSED"}
  MayAbort = {worker1, reviewer}
  MayDrift = FALSE
INVARIANTS
  AssuranceRestsOnValidation
  AcceptedIsClosed
  BoundPlanIsOpen
PROPERTIES
  OnlyTheBoundWorker
