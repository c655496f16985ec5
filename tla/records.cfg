SPECIFICATION Spec
CONSTANTS
    Sessions = {s1, s2}
    MaxRows = 3
    MaxCalls = 3
    Horizon = 1
    Inputs <- MCInputs
    Histories <- MCHistories
    repo = repo
    src = src
    main = main
    notes = notes
    Scanners = {c1, c2}
    Paths = {main, notes}
    Roots = {repo, src}
    Under <- MCUnder
    Disks <- MCDisks
    Deep = {}
    Limits = {2, 3}
    Contents = {1, 2}
    MaxChanges = 1
    MaxScans = 3
    Writers = {w1, w2}
    Migrators = {m1}
    MaxWrites = 4
SYMMETRY Symmetry
INVARIANTS
    RetractionReaches
    SupportRestsOnEvidence
    IndexAnswersForDisk
    UpgradeIsInvisible
PROPERTIES
    HistoryMovesForward
    MissingWasMissing
CHECK_DEADLOCK FALSE
