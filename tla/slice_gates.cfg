SPECIFICATION Spec
CONSTANTS
  worker1 = worker1
  worker2 = worker2
  reviewer = reviewer
  reviewer2 = reviewer2
  p1 = p1
  p2 = p2
  g1 = g1
  e1 = e1
  None = None
  Sessions = {worker1, reviewer}
  Actors = {worker1, reviewer}
  ActorOf <- SessionActor
  Turns <- ActorTurns
  Verifiers = {reviewer}
  Approvers = {reviewer}
  Validators = {reviewer}
  Submitters = {worker1}
  ImportedBy = {None, worker1}
  Plans = {p1}
  AuditPlans = {}
  Gates = {g1}
  Evidence = {e1}
  Progress = {}
  MayAbort = {reviewer}
  MayDrift = TRUE
PROPERTIES
  ImplementsLadder
  VerifiedOnProof
