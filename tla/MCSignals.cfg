SPECIFICATION MCFairSpec
CONSTANTS
    MaxTells = 3
    MaxSeconds = 3
    N = 5
    MaxTyped = 5
    Ttys = {0, 1}
    MaxModes = 3
INVARIANTS
    ModesRestored
    WaitNeedsTell
    OwnAlarmStaysInside
    ReaperNeverBlocks
    UnreadWasMerged
PROPERTIES
    FirstWaitReturns
    SleepReturns
CHECK_DEADLOCK FALSE
