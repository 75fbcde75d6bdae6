SPECIFICATION Spec
CONSTANTS
    Apps = {1}
    Nodes = {1}
    Workloads = {1}
    Claims = {1, 2}
    \* Volumes, workloads or a node compete with an application for the open issues.
    Fleets = {{"stuck-argo-op", "pvc-nearing-full"},
              {"stuck-argo-op", "stuck-containercreating"},
              {"stuck-argo-op", "dark-node"}}
    Classes = {"voter", "control-plane", "elastic"}
    RunningTicks = 1
    UnknownTicks = 1
    PodTicks = 1
    CooldownTicks = 2
    EscalateTicks = 4
    MaxAttempts = 2
    MinOther = 2
    MaxPerRun = 1
    MaxOpen = 2
    MaxOps = 2
    MaxPods = 2
    MaxFaults = 1
INVARIANTS TerminatedOnce ResolvedClosed
PROPERTIES RebootsRationed ReinstallEarned StuckOpActedOn 
