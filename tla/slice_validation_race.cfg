SPECIFICATION Spec
CONSTANTS
  worker1 = worker1
  worker2 = worker2
  reviewer = reviewer
  reviewer2 = reviewer2
  p1 = p1
  p2 = p2
  g1 = g1
  e1 = e1
  None = None
  Sessions = {worker1, reviewer, reviewer2}
  Actors = {worker1, reviewer, reviewer2}
  ActorOf <- SessionActor
  Turns <- ActorTurns
  Verifiers = {reviewer}
  Approvers = {}
  Validators = {reviewer, reviewer2}
  Submitters = {}
  ImportedBy = {None}
  Plans = {p1}
  AuditPlans = {}
  Gates = {}
  Evidence = {e1}
  Progress = {}
  MayAbort = {}
  MayDrift = FALSE
INVARIANTS
  AssuranceRestsOnValidation
