SPECIFICATION Spec
CONSTANTS
    Apps = {1}
    Nodes = {1}
    Workloads = {1}
    Claims = {1}
    Fleets = {{"dark-node"}}
    Classes = {"voter"}
    RunningTicks = 1
    UnknownTicks = 1
    PodTicks = 1
    CooldownTicks = 2
    EscalateTicks = 4
    MaxAttempts = 2
    MinOther = 2
    MaxPerRun = 1
    MaxOpen = 2
    MaxOps = 1
    MaxPods = 1
    MaxFaults = 0
INVARIANT RecoveredClosed
