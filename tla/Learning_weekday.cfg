\* Five days with a cycle in each tick, in weeks of two days.
CONSTANTS
  LearnDays = 5
  Forecasts = {}
  Clips = {FALSE}
  HasD2 = FALSE
  RatioDays = 2
  MinKwh = 1
  MinDays = 1
  LowFactor = 4
  HighFactor = 12
  Conservatism = 4
  SeasonKwh = 3
  WeekLength = 2
  MinCovered = 2
  ProfileDays = 2
  SameDays = 2
  MaxStops = 0
  MaxMissed = 0
  NoFigure = NoFigure
SPECIFICATION LearnSpec
INVARIANT LoadOfThePlansWeekday
CHECK_DEADLOCK FALSE
