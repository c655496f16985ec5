SPECIFICATION Spec
CONSTANTS
    Sessions = {s1, s2}
    Intents = {i1}
    MaxEnters = 4
    Works = {1, 2, 3, 4, 5}
    Project <- MCProject
    Hops = 2
    MaxLinks = 3
    Contracts = {c1, c2}
    First = {c1}
    MaxChanges = 4
    Tasks = {t1, t2}
    Limits = {1, 2}
    MaxAsked = 3
    MaxRows = 3
    MaxPublished = 2
SYMMETRY Symmetry
INVARIANTS
    AdmissionIsComplete
    CandidateIsCanonical
    QuietlyCurrent
    OverrunIsBounded
PROPERTIES
    OneActiveTarget
    VersionsAdvance
CHECK_DEADLOCK FALSE
