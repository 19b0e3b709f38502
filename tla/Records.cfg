CONSTANTS
  DayLen = 2
  LastDay = 2
  BillPeriods <- WeekAndMonth
  Starts <- MCStarts
  MaxGap = 2
  SaveEvery = 2
  DayMax = 7
  Rate = 1
  Floor = 0
  UnitMin = 1
  UnitRatio = 6
  Spikes = {7}
  SpikesAtRestart = FALSE
  StopAtMidnight = FALSE
  StaleStart = FALSE
  WaitsOverMidnight = FALSE
  MaxRestarts = 1
  None = None
  WizardDays = 3
  MaxPages = 3
  MaxConfigures = 2
  SlotLen = 2
  Grain = 2
  MaxInterval = 2
  KeptDays = 2
  SlotMidnights = {0, 2, 6, 8}
  ClockBack = 5
  Back = 2
  Never = Never
  MaxTroubles = 2
  Cent = 10
  Hours = 3
  WeekDays = {0, 1, 2}
  Weekend = {2}
  Holiday = 1
  TariffOptions <- SomeOptions
  TariffDocuments <- SomeDocuments
  Usages <- SomeUsages
  NoTariff = NoTariff
  MaxDepth = 5
  Variants <- SomeVariants
  MaxRewrites = 3
  IndexDays = {0, 1, 2}
  Numbers = {1, 2, 3}
  Open = Open
  NoIndex = NoIndex
  ShadowNames <- SomeNames
  MaxShadows = 3
  PriceEvery = 3
  PriceDay = 2
  LastPricing = 4
  LastRates = 1
  MaxEdits = 4
  NoShadow = NoShadow
  EnergyHours = 4
  CheapUntil = 2
  CheapRate = 1
  PeakRate = 3
  ExportRate = 1
  MoneyPart = 12
  Flows <- SomeFlows
  Readable <- SomeReadings
  EmptyAt = 1
  FullAt = 4
  MaxStep = 2
  Unknown = Unknown
  Layouts <- SomeLayouts
  NoDevice = NoDevice
  Ticks <- SomeTicks
  PageWarnings <- SomeWarnings
  MaxRows = 1
  MaxSetups = 2
  MaxLayoutChanges = 1
  LearnDays = 2
  Forecasts <- SomeForecasts
  Clips = {FALSE}
  HasD2 = TRUE
  RatioDays = 2
  MinKwh = 1
  MinDays = 1
  LowFactor = 4
  HighFactor = 12
  Conservatism = 4
  SeasonKwh = 3
  WeekLength = 2
  MinCovered = 2
  ProfileDays = 2
  SameDays = 2
  MaxStops = 1
  MaxMissed = 1
  NoFigure = NoFigure
SPECIFICATION Spec
INVARIANTS
  
  SlotsAreSound
  TariffsAreSound
  EnergyIsSound
PROPERTIES
  SavedTariffHolds
  SetupIsSound
  LearningIsSound
CHECK_DEADLOCK FALSE
