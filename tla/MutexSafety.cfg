SPECIFICATION Spec
CONSTANTS
    high = high
    mid = mid
    low = low
    mid2 = mid2
    m1 = m1
    m2 = m2
    Thread <- MCFour
    InitPrio <- MCFourPrio
    Mutexes <- MCOne
    Flag <- MCOneByPrio
    MaxHold = 2
INVARIANTS
    MutexOK
    TakeIsTrue
    Exclusive
    NoInversion
    Restored
PROPERTIES
    HandedInTurn
