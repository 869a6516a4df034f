SPECIFICATION Spec
CONSTANTS
    high = high
    mid = mid
    low = low
    mid2 = mid2
    m1 = m1
    m2 = m2
    Thread <- MCThree
    InitPrio <- MCThreePrio
    Mutexes <- MCTwo
    Flag <- MCMixed
    MaxHold = 1
INVARIANTS
    Restored
CHECK_DEADLOCK FALSE
