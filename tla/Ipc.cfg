SPECIFICATION Spec
CONSTANTS
    high = high
    mid = mid
    mid2 = mid2
    Thread <- MCThread
    InitPrio <- MCPrio
    Flag <- MCFlag
    Timed = {TRUE}
    SemMod = 3
    SemInitValue = 1
    m1 = m1
    m2 = m2
    b1 = b1
    b2 = b2
    Mail <- MCMail
    Size = 2
    Bits <- MCBits
    Options <- MCOptions
    Uses <- MCUses
INVARIANTS
    IpcOK
    TokensKept
    NobodyWaitsInVain
    EventsAreTaken
PROPERTIES
    ImplementsQueue
    ServedInTurn
SYMMETRY Symmetry
