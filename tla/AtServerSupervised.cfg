SPECIFICATION Spec
CONSTANTS
    FirstCmd = 0
    LastCmd = 1
    RtyNum = 1
    TimeoutCnt = 2
    BusyTicks = 1
    MaxNoise = 1
    MaxLoss = 1
    Prompt = FALSE
INVARIANTS
    Supervised
CHECK_DEADLOCK FALSE
