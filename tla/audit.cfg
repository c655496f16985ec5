SPECIFICATION Spec
CONSTANTS
    contract = contract
    slice = slice
    plan = plan
    ref = ref
    foreign = foreign
    Sessions = {s1, s2}
    Objects = {contract, slice, plan, ref, foreign}
    Family = {contract, slice, plan, ref}
    Refs = {ref}
    Links <- MCLinks
    Confirmable <- MCConfirmable
    Seeds <- MCSeeds
    Reports <- MCReports
    MaxDepth = 1
    MaxObjects = 2
    MaxRepeats = 1
    MaxCrashes = 1
INVARIANTS
    ScopeKeepsBudget
    FixpointIsComplete
PROPERTY AuditCloses
CHECK_DEADLOCK FALSE
