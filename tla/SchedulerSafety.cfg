SPECIFICATION FairSpec
CONSTANTS
    a = a
    b = b
    idle = idle
    Thread <- MCThread
    Idle = idle
    InitPrio <- MCInitPrio
    MaxPrio = 2
    InitTick = 2
    MaxNest = 1
    Sleepers = FALSE
    Boot <- MCBoot
    Priorities = {0, 1}
INVARIANTS
    SchedulerOK
    SwitchIsConsistent
    HighestRuns
    NoUseAfterFree
PROPERTIES
    LockKeepsCpu
    RoundRobin
