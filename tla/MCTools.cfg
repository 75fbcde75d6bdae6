SPECIFICATION Spec
CONSTANTS
    Faults = {f1, f2}
    Threads = {t1, t2}
    CooldownSeconds = 1
    OpenTtlSeconds = 2
    DailySpawnCap = 1
    DailySpendCapUsd = 5
    EstimatedSessionCostUsd = 5
    DayLength = 2
    MaxTime = 2
    Procs = {p1, p2}
    ManifestFields = {"x", "y"}
    MaxEdits = 1
    MaxDeaths = 1
    EnvKeys = {"a", "b"}
    MaxSecond = 2
    MaxOps = 4
    MaxBumps = 3
    GateRuns = {r1, r2, r3}
    Patterns = {p, q}
    MaxGhFaults = 2
    TeardownNodes = {n1, n2, n3, n4}
    Operators = {o1, o2}
    MinSurviving = 2
    Cooldown = 2
    MaxMinutes = 2
    MaxDiskFaults = 1
    Declarers = {1, 2}
    Strangers = {3}
    Labels = {"a", "b"}
    MaxDispatches = 2
    MaxInfra = 2
    Domains = {"app", "myapp", "web"}
    Callers = {c1, c2}
    MaxCalls = 3
INVARIANTS ProvisioningConverges CopiesSurvive
PROPERTIES    DispatchesAreCounted HostsKeepTheirOwner 
CHECK_DEADLOCK FALSE
