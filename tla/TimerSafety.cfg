SPECIFICATION SoftSpec
CONSTANTS
    p = p
    q = q
    r = r
    low = low
    high = high
    Timers <- MCTimers
    Users <- MCUsers
    Periodic = {p}
    UsedBy <- MCOwn
    InitTick <- MCInitTick
    TickMod = 10
    MaxLate = 1
    Kinds = {TRUE, FALSE}
    SoftUsers = {low}
    Above = {}
INVARIANTS
    TimersOK
    HardNeverLate
    StopStops
    AwakeInTime
PROPERTIES
    NeverEarly
