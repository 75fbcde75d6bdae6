SPECIFICATION Spec
CONSTANTS
    Names = {n1, n2}
    Attempts = 2
    Private = TRUE
    MaxFaults = 2
    MaxExpired = 1
    Foreign = other
    Dels = {d}
    CancelForms = {"parsed", "raw"}
    Sessions = {sa, sb}
    Frames = {1, 2}
    MaxConns = 4
    MaxDrops = 2
    Asks = {q1}
    Notes = {m1}
    MaxBreaks = 1
    sa = sa
    sb = sb
    c1 = c1
    c2 = c2
    RenewalDays = {1, 15, 28, 29, 30, 31}
    Windows = {1, 2, 60}
    TicksPerDay = 2
    Years = 2
INVARIANTS DeletesAreGuarded MessagesAreRouted 
PROPERTIES RenewalsAreSeen CreatesKeepTheirContract CallsComeBack RelaySettles
CHECK_DEADLOCK FALSE
