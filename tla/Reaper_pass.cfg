SPECIFICATION Spec
CONSTANTS
    w1 = w1
    b1 = b1
    d1 = d1
    Names = {n1, n2}
    Pods = {w1, b1}
    Kind <- MCKind
    CancelForms = {"parsed"}
    MaxFaults = 1
SYMMETRY Symmetry
INVARIANTS OnlyRacersDisturbed ZombiesAreGone
