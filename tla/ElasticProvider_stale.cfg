SPECIFICATION Spec
CONSTANTS
    Names = {n1, n2}
    NoName = none
    Rpcs = {r1, r2}
    MaxSize = 1
    MaxDelta = 1
    Deadlines = {"short"}
    CancelForms = {"parsed"}
    Env = {}
INVARIANT CapHolds
