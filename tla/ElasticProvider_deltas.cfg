SPECIFICATION FairSpec
CONSTANTS
    Names = {n1, n2, n3}
    NoName = none
    Rpcs = {r1}
    MaxSize = 2
    MaxDelta = 2
    Deadlines = {"short", "far"}
    CancelForms = {"parsed"}
    Env = {"lossy"}
INVARIANT ReservationsBalance
PROPERTIES ReservationsReleased RequestsAnswered
