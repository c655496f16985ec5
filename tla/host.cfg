SPECIFICATION Spec
CONSTANTS
    Hosts = {h1, h2}
    Roots = {h1, h2}
    MaxStarts = 3
    MaxSeconds = 1
    Repairs = {1, 2}
    Own <- MCOwn
    Versions = {"v1", "v2"}
    Pids = {p1, p2}
    MaxBirths = 2
    Setups = {s1, s2}
    MaxSetups = 2
    Clients = {c1}
    Paths <- MCPaths
    Imported <- MCImported
    MaxFamilies = 2
SYMMETRY Symmetry
INVARIANTS
    MigrationIsRecoverable
    RepairIsAimed
    SetupIsRecoverable
    NothingIsGuessed
CHECK_DEADLOCK FALSE
