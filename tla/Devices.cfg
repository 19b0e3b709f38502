CONSTANTS
    Cooldown = 2
    OutageTicks = 1
    HasSensor = TRUE
    MaxChanges = 3
    MaxCalls = 2
    Changes <- HeaterWorld
    Chargers <- EvChargers
    EvCooldown = 1
    SearchEvery = 2
    EvWorld <- AroundCharger
    MaxEvChanges = 2
    MaxRecent = 2
    OfflineLimit = 2
    AlertDelay = 1
    Cars = 3
    MaxEnergy = 1
    MaxCarChanges = 3
    MissingLimit = 2
    OffLimit = 2
    SilentLimit = 2
    BlockedLimit = 2
    CheckEvery = 2
    Watches <- FeedEntryAndOne
    MaxWorld = 3
    MaxSaves = 2
    MaxTurns = 1
    HoldDay = 4
    HoldTicks = 2
    RenewTicks = 1
    ReleaseTicks = 1
    NoValue = NoValue
    UserPauses <- OnlyNight
    Faults = {}
    Toggles = {"enabled", "charging", "draining", "reachable"}
    DayHours = 4
    HourParts = 1
    GridRates <- RatesOfHours
    AltCosts = {2}
    RecordDays = 2
    MinRecord = 2
    RepeatOneIn = 2
    MinHourHeat = 1
    MinSaving = 1
    MaxWindows = 2
    RecordEnd = 3
    MaxHeats = 3
    MaxGaps = 1
    NoCost = NoCost
    HottestWater = 3
    Scale = 60
    MinRunLong = 2
    MinRise = 1
    LongestGap = 2
    RateDaysKept = 2
    MinutesOfDay = 4
    LastMinute = 11
    MaxSwitches = 3
    MaxOutages = 2
    NoRun = NoRun
SPECIFICATION DevSpec
INVARIANTS
    HotWaterStops
PROPERTIES
    TurningsHaveTheirTime HeaterEndsOff
    ChargerSettles DeviceRecordsAreSound
    FeedIsAnswered
    EntryIsOrderly
    HoldEnds
CHECK_DEADLOCK FALSE
