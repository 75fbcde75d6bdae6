SPECIFICATION FairSpec
CONSTANTS
    w1 = w1
    b1 = b1
    d1 = d1
    Names = {n1}
    Pods = {w1, b1, d1}
    Kind <- MCKind
    CancelForms = {"parsed", "raw"}
    MaxFaults = 3
PROPERTIES IdleReleased PassesEnd
