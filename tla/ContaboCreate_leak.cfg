SPECIFICATION Spec
CONSTANTS
    Names = {n1}
    Attempts = 2
    Private = FALSE
    MaxFaults = 0
    MaxExpired = 1
INVARIANT TaggedOrGone
