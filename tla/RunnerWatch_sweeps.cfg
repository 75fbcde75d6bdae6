SPECIFICATION Spec
CONSTANTS
    Repos = {r1, r2}
    Runs = {x1}
    RepoOf <- MCRepoOf
    r1 = r1
    r2 = r2
    slugs <- MCSlugs
    Kinds <- Mixed
    Ephemeral = {TRUE, FALSE}
    Threshold = 2
    Turning = {r1}
    MaxFaults = 1
INVARIANTS RecoveredOnce
PROPERTIES WriteEarned WorkInFlightKept 
