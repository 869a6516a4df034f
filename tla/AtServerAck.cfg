SPECIFICATION Spec
CONSTANTS
    FirstCmd = 0
    LastCmd = 1
    RtyNum = 1
    TimeoutCnt = 2
    BusyTicks = 1
    MaxNoise = 0
    MaxLoss = 3
    Prompt = FALSE
INVARIANTS
    AckIsForCommand
CHECK_DEADLOCK FALSE
