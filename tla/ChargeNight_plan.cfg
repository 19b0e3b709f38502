CONSTANTS
    TriggerAt = 1
    StartAt = 2
    CheapEnd = 5
    Last = 8
    Midnight = 3
    RetryOffsets = {1, 2}
    StopBefore = 2
    ReplanMax = 1
    LateAfter = 2
    LateBefore = 2
    RemainMin = 1
    MinChange = 1
    SettleMax = 2
    Gap = 1
    Full = 4
    FloorTarget = 0
    Plans <- AllPlans
    Edits = {8}
    Faults <- NightFaults
    Toggles = {"frozen"}
    Stops = {"orderly"}
    LongOutages = FALSE
    HealBy = 2
    MaxEdits = 1
    MaxRestarts = 0
    None = None
SPECIFICATION FairSpec
INVARIANTS NightIsOnInverter
PROPERTIES NightWritten SettledBack Repaired
CHECK_DEADLOCK FALSE
