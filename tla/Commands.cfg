CONSTANTS
    TriggerAt = 1
    StartAt = 2
    CheapEnd = 5
    Last = 8
    Midnight = 3
    RetryOffsets = {1, 2}
    StopBefore = 2
    ReplanMax = 1
    LateAfter = 2
    LateBefore = 2
    RemainMin = 1
    MinChange = 1
    SettleMax = 2
    Gap = 1
    Full = 4
    FloorTarget = 1
    Plans <- ShortOrLong
    Edits = {}
    Faults <- AnyFailure
    Toggles = {"frozen", "override", "dry"}
    Stops = {"orderly", "crash"}
    LongOutages = TRUE
    HealBy = 3
    MaxEdits = 0
    MaxRestarts = 1
    None = None
    ExportDay = 8
    ExportWindows <- SomeWindows
    Offered = {0, 1, 2, 3, 4, 7}
    DischargeTargets = {4}
    Presets <- SomePresets
    NumberLimits = {0, 5}
    Asked = {1, 3, 5}
    Nothing = Nothing
    TargetRange = {2, 4}
    MinRange = {1, 3}
    DefaultTarget = 4
    DefaultMin = 3
    ChargeLevels = {1, 2}
    DefaultLevel = 1
    Unset = Unset
    MaxAsks = 2
    MaxHalts = 2
    MonthLen = 3
    MonthsKept = 2
    Prices = {1, 2}
    Earlier = {2}
    Courses <- SomeCourses
    NoTariffYet = NoTariffYet
    SetupData <- SomeSetups
    MaxSubmits = 3
    MaxMoves = 1
    NotSet = NotSet
SPECIFICATION CommandSpec
INVARIANTS NightIsOrderly AuditIsSound
PROPERTIES ExportIsSafe OwnersSettingsKept
CHECK_DEADLOCK FALSE
