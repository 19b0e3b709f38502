CONSTANTS
  Slots = 3
  Capacity = 4
  Nets <- SlotNets
  Full = 20
  ShoulderMin = 14
  SummerMin = 5
  WinterSkip = 19
  Headroom = 1
  CarBonus = 2
  Buffer = 2
  Leasts = {1, 4, 20}
  Evenings = {3, 15, 19}
  Thresholds = {15}
  Reductions = {0, 3}
  Overrides = {8, 20}
  Socs = {0, 2}
  Targets = {2, 4}
  SkipTargets = {1}
  Caps = {3, 4}
  Step = 2
  Large = 3
  Passes = {1}
  Dwell = 2
  Day = 6
  Opens = {1}
  Ends = {0, 2, 3}
  WindowStep = 2
  WindowLarge = 3
  Levels = {0, 1, 2, 5, 9}
  Rates = {0, 1, 2}
  Gaps <- ReadingGaps
  StaleAfter = 3
  Minutes = 5
  Tariffs <- SmallTariffs
  Charges = {0, 1, 2, 3, 4}
  Margin = 1
  Rounding = 2
  Befores = {0, 1}
  Afters = {0, 2}
  HoldDay = 4
  HoldTicks = 2
  RenewTicks = 1
  ReleaseTicks = 1
  NoValue = NoValue
  UserPauses <- NightOrBoth
  Faults <- KeptFaults
  Toggles = {"enabled", "charging", "draining", "dry_run"}
  HeatDay = 10
  Homes <- HeatHomes
  HeatTarget = 4
  HeatMin = 1
  RestartGap = 2
  Part = 3
  Extra = 1
  SwitchRest = 3
  Cover = 3
  TriggerMargin = 1
  LowRelease = 2
  NightDay = 8
  NightSunrise = 3
  SolarEnd = 6
  CheapStart = 0
  CheapHours = 2
  FullLevel = 7
  MinLevel = 1
  WarnMargin = 2
  Nights <- SomeNights
  NoNight = NoNight
  EntryOrder <- TwoEntries
  Paths = {one}
  NoPath = NoPath
  MaxChanges = 2
  MaxUpdates = 1
SPECIFICATION Spec
INVARIANTS
  DayIsSound TargetIsSound ShownFollowsPlan
  WindowIsSound CarWindowAgrees
  HotWaterIsSound
  UsersPauseIsSafe SearchShrinks
PROPERTIES
  DoneChargeStaysShown EstimateFollows
  OnLoan
  NightForeseen
  DashboardIsKept
CHECK_DEADLOCK FALSE
