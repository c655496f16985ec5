SPECIFICATION Spec
CONSTANTS
  s1 = s1
  s2 = s2
  t1 = t1
  t2 = t2
  None = None
  ActorOf <- OneActor
  Sessions = {s1, s2}
  Turns = {t1, t2}
  Contents = {"A", "B"}
  MayDie = {s1}
  MayExpire = {t1}
  MaxGenerations = 3
CHECK_DEADLOCK FALSE
INVARIANTS
  LinearHistory
  BuiltOnItsGrant
  MarksAreTrue
  SettledAtRest
PROPERTIES
  HistoryIsImmutable
  ImplementsChain
