---------------------------- MODULE SolarLearning ----------------------------
(***************************************************************************)
(* What the charge plan learns: the solar forecast of the day it serves,   *)
(* how right the forecasts have been, and the house load by time of day    *)
(* (accumulation.py, forecast_seeding.py, lib/solar/seeding.py, the        *)
(* forecasts of core/engine.py and core/rules.py).                         *)
(*                                                                         *)
(* A day has three ticks: the small hours until sunrise, the day, in which *)
(* the sun gives all it gives, and the evening.  A figure carries the day  *)
(* it is the forecast of, which the program does not see.  The forecast    *)
(* sensors move on a day at midnight.  The half second between midnight    *)
(* and its callback is left out.                                           *)
(***************************************************************************)
EXTENDS Integers, Sequences, FiniteSets, TLC

CONSTANTS
    LearnDays,      \* the last day
    Forecasts,      \* what a provider may say of a day: [kwh, p10, shaped]
    Clips,          \* whether the inverter may clip, in this instance
    HasD2,          \* a day-after sensor is set
    RatioDays,       \* _FORECAST_RATIO_HISTORY_DAYS
    MinKwh,         \* CHARGE_FORECAST_CORRECTION_MIN_KWH
    MinDays,        \* CHARGE_FORECAST_CORRECTION_MIN_DAYS
    LowFactor, HighFactor,  \* ..._MIN and ..._MAX, in tenths
    Conservatism,   \* in tenths
    SeasonKwh,      \* the estimate from latitude
    WeekLength,       \* days in a week
    MinCovered,     \* ticks of a day that count as complete
    ProfileDays,    \* CHARGE_LOAD_PROFILE_MIN_DAYS
    SameDays,       \* CHARGE_LOAD_PROFILE_SAME_WEEKDAY_MIN_DAYS
    MaxStops,       \* bound on stops of Home Assistant
    MaxMissed,      \* bound on ticks without a cycle while it runs
    NoFigure        \* nothing remembered, shown or under way

ASSUME LearningAssumption ==
    /\ {LearnDays, RatioDays, MinKwh, MinDays, ProfileDays, SameDays} \subseteq Nat \ {0}
    /\ Forecasts \subseteq [kwh: Nat, p10: Nat \cup {NoFigure}, shaped: BOOLEAN]
    /\ NoFigure \notin Nat /\ NoFigure \notin [day: Nat, kwh: Nat]
    /\ LowFactor <= HighFactor /\ Conservatism \in 0..10

VARIABLES
    hour,           \* ticks since the start
    sunGiven,            \* history: what the sun has given on each day
    shown,          \* what the provider says of tomorrow, as its sensors show it
    haRuns,        \* Home Assistant runs
    learned,        \* the fields of AccumulationState
    kept,           \* the same in the store
    since,          \* _last_update
    seeding,        \* the day _seed_forecast_accuracy began on, while it waits for the recorder
    recorder,       \* what the recorder holds of each day: the last positive forecast, the counter
    stops, missed

learnVars == <<hour, sunGiven, shown, haRuns, learned, kept, since, seeding, recorder, stops, missed>>

LearnDate(h) == h \div 3
LearnToday == LearnDate(hour)
SmallHours(h) == h % 3 = 0

Unsaid == [p50 |-> NoFigure, p10 |-> NoFigure, shape |-> NoFigure]
NoLoad == [date |-> NoFigure, covered |-> {}, of |-> {}]

\* What the sun gives on a day, different on each so that the days can be told apart.
SunOf(d) == d + 2

\* The provider's words for day d as the sensors give them: the total, the low estimate and the
\* half-hourly shape, which is remembered by the total it came with.
Said(f, d) ==
    [p50 |-> [day |-> d, kwh |-> f.kwh],
     p10 |-> IF f.p10 = NoFigure THEN NoFigure ELSE [day |-> d, kwh |-> f.p10],
     shape |-> IF f.shaped THEN [day |-> d, kwh |-> f.kwh] ELSE NoFigure]

NothingLearned ==
    [pending |-> Unsaid, today |-> Unsaid, solar |-> 0, whole |-> FALSE, clipped |-> FALSE,
     ratios |-> <<>>, load |-> NoLoad, loads |-> <<>>, reset |-> 0]

\* The first day, with a forecast remembered from the evening before or none.
LearnInit ==
    /\ hour = 0 /\ sunGiven = [d \in 0..LearnDays |-> 0]
    /\ shown = Unsaid /\ haRuns = TRUE
    /\ \E remembered \in {Unsaid} \cup {Said(f, 0) : f \in {g \in Forecasts : g.shaped}} :
         learned = [NothingLearned EXCEPT !.today = remembered]
    /\ kept = learned /\ since = NoFigure /\ seeding = NoFigure
    /\ recorder = [d \in 0..LearnDays |-> [forecast |-> NoFigure, solar |-> NoFigure]]
    /\ stops = 0 /\ missed = 0

-----------------------------------------------------------------------------
(* The plan's forecast                                                     *)

\* _usable_ratio and forecast_accuracy: the median of actual over forecast, in tenths.
UsableRatios(ratios) ==
    SelectSeq(ratios, LAMBDA r : ~r.clipped /\ r.forecast.kwh >= MinKwh /\ r.actual >= MinKwh)
Tenths(r) == (10 * r.actual) \div r.forecast.kwh
Median(sorted) ==
    LET n == Len(sorted)
    IN IF n % 2 = 1 THEN sorted[(n + 1) \div 2] ELSE (sorted[n \div 2] + sorted[n \div 2 + 1]) \div 2
CorrectionOf(ratios) ==
    LET usable == UsableRatios(ratios)
        sorted == SortSeq([i \in DOMAIN usable |-> Tenths(usable[i])], LAMBDA a, b : a < b)
        limited(x) == IF x < LowFactor THEN LowFactor ELSE IF x > HighFactor THEN HighFactor ELSE x
    IN IF Len(usable) < MinDays THEN NoFigure ELSE limited(Median(sorted))

\* _plan_day
PlanDayAt(h) == IF SmallHours(h) THEN LearnDate(h) ELSE LearnDate(h) + 1

\* _solar_forecast: until sunrise what was remembered before midnight, and tomorrow's figure as
\* that of the day after, but only with a day-after sensor; later what the sensors show.
SolarForecast(h, read, a) ==
    IF SmallHours(h)
    THEN [said |-> a.today,
          d2 |-> IF HasD2 /\ read.p50 # NoFigure THEN read.p50.day ELSE NoFigure]
    ELSE [said |-> read,
          d2 |-> IF HasD2 /\ read.p50 # NoFigure THEN read.p50.day + 1 ELSE NoFigure]

\* _resolve_forecast: the estimate, or the forecast corrected, and then drawn to the low estimate.
ResolvedKwh(forecast, a) ==
    LET factor == CorrectionOf(a.ratios)
        said == forecast.said
        base == IF said.p50 = NoFigure THEN SeasonKwh
                ELSE IF factor = NoFigure THEN said.p50.kwh ELSE (said.p50.kwh * factor) \div 10
    IN IF said.p10 = NoFigure THEN base
       ELSE ((10 - Conservatism) * base + Conservatism * said.p10.kwh) \div 10

\* build_load_profile, by the days it averages: those of the weekday when there are enough of them.
ProfileOf(loads, weekday) ==
    LET complete == {i \in DOMAIN loads : Cardinality(loads[i].covered) >= MinCovered}
        same == {i \in complete : loads[i].date % WeekLength = weekday}
    IN IF Cardinality(complete) < ProfileDays THEN {}
       ELSE {loads[i].date : i \in IF Cardinality(same) >= SameDays THEN same ELSE complete}

\* The profile of the cycle's ForecastContext: that of tomorrow's weekday.
LoadProfile(h, a) == ProfileOf(a.loads, (LearnDate(h) + 1) % WeekLength)

-----------------------------------------------------------------------------
(* accumulation.py                                                         *)

\* on_raw_forecast: a total comes with its shape or with none; zero is no forecast.
Remember(a, read) ==
    LET positive(f) == f # NoFigure /\ f.kwh > 0
    IN [a EXCEPT !.pending =
          [p50 |-> IF positive(read.p50) THEN read.p50 ELSE @.p50,
           shape |-> IF positive(read.p50) THEN read.shape ELSE @.shape,
           p10 |-> IF positive(read.p10) THEN read.p10 ELSE @.p10]]

\* _archive_slot_day
ArchiveLoad(a) ==
    [a EXCEPT !.load = NoLoad,
              !.loads = IF a.load.date = NoFigure \/ a.load.covered = {} THEN @
                        ELSE Append(@, [date |-> a.load.date, covered |-> a.load.covered, of |-> a.load.of])]

\* record_slot_load for the interval since the last cycle, unless it is longer than a slot.
RecordLoad(a, d, third) ==
    LET begun == IF a.load.date = d THEN a ELSE [ArchiveLoad(a) EXCEPT !.load.date = d]
    IN IF since = NoFigure \/ hour - since > 1 THEN a
       ELSE [begun EXCEPT !.load.covered = @ \cup {third},
                          !.load.of = @ \cup {LearnDate(since)}]

\* _record_forecast_ratio for the day that ended.
RecordRatio(a, d) ==
    IF a.today.p50 = NoFigure THEN a.ratios
    ELSE LET all == Append(a.ratios, [day |-> d, forecast |-> a.today.p50, actual |-> a.solar,
                                      clipped |-> a.clipped, whole |-> a.whole, seeded |-> FALSE])
         IN IF Len(all) > RatioDays THEN Tail(all) ELSE all

\* _reset_today: what is pending becomes today's.  Mutant: and stays pending, so that a day on
\* which no sensor showed anything begins with the forecast of the day before.
StaysPending(a, d) ==
    [a EXCEPT !.today = a.pending, !.solar = 0, !.whole = FALSE, !.clipped = FALSE, !.reset = d]
ResetDay(a, d) ==
    [a EXCEPT !.today = a.pending, !.pending = Unsaid, !.solar = 0, !.whole = FALSE, !.clipped = FALSE,
              !.reset = d]

\* on_midnight as day d starts.
LearnMidnight(a, d) ==
    LET archived == IF a.load.date # NoFigure /\ a.load.date < d THEN ArchiveLoad(a) ELSE a
    IN ResetDay([archived EXCEPT !.ratios = RecordRatio(a, d - 1)], d)

\* roll_forward: every midnight missed since the last reset.
CatchUp(a, d) ==
    LET rolled[k \in a.reset..d] == IF k = a.reset THEN a ELSE LearnMidnight(rolled[k - 1], k)
    IN rolled[d]

-----------------------------------------------------------------------------
(* forecast_seeding.py                                                     *)

\* _forecast_for: the last positive forecast recorded before the day began, whichever day it is of.
ForecastBefore(d) ==
    LET before == {y \in 0..(d - 1) : recorder[y].forecast # NoFigure}
    IN IF before = {} THEN NoFigure
       ELSE recorder[CHOOSE y \in before : \A z \in before : z <= y].forecast

\* seed_forecast_records for the days before today: those with a forecast before them and a total.
IsRecorded(y) == y >= 1 /\ ForecastBefore(y) # NoFigure /\ recorder[y].solar # NoFigure
SeedOf(y) == [day |-> y, forecast |-> ForecastBefore(y), actual |-> recorder[y].solar,
              clipped |-> FALSE, whole |-> FALSE, seeded |-> TRUE]
SeedRecords(d) ==
    LET records[k \in 0..RatioDays] ==
          IF k = 0 THEN <<>>
          ELSE IF IsRecorded(d - RatioDays - 1 + k) THEN Append(records[k - 1], SeedOf(d - RatioDays - 1 + k))
          ELSE records[k - 1]
    IN records[RatioDays]

\* _start_forecast_seeding
SeedingFrom(a, d) == IF a.ratios = <<>> THEN d ELSE NoFigure

\* The recorder has answered: _store, unless a night was recorded while it waited, and the save.
Seed ==
    /\ haRuns /\ seeding # NoFigure /\ seeding' = NoFigure
    /\ learned' = IF learned.ratios = <<>> THEN [learned EXCEPT !.ratios = SeedRecords(seeding)] ELSE learned
    /\ kept' = IF learned'.ratios = learned.ratios THEN kept ELSE learned'
    /\ UNCHANGED <<hour, sunGiven, shown, haRuns, since, recorder, stops, missed>>

-----------------------------------------------------------------------------
(* The coordinator and its world                                           *)

\* A cycle reads the sensors and the counter, plans, and remembers.
LearnCycle ==
    LET counted == [learned EXCEPT !.solar = sunGiven[LearnToday], !.whole = hour % 3 = 2]
        remembered == Remember(RecordLoad(counted, LearnToday, hour % 3), shown)
    IN
    /\ haRuns /\ since # hour
    /\ \E clips \in Clips : learned' = [remembered EXCEPT !.clipped = @ \/ (clips /\ hour % 3 = 1)]
    /\ since' = hour
    /\ UNCHANGED <<hour, sunGiven, shown, haRuns, kept, seeding, recorder, stops, missed>>

\* The recorder sees what the sensors show while Home Assistant runs, as cycles do or not.
RecorderSees(read) ==
    [recorder EXCEPT ![LearnToday].forecast = IF read.p50 # NoFigure /\ read.p50.kwh > 0 THEN read.p50 ELSE @,
                     ![LearnToday].solar = sunGiven[LearnToday]]

\* Time passes.  The provider says something of the next day, or nothing, by midnight and by the
\* evening.  At midnight the
\* day's callback runs and its save is queued.
LearnTick ==
    /\ hour < 3 * LearnDays + 2
    /\ hour' = hour + 1
    /\ missed' = IF haRuns /\ since # hour THEN missed + 1 ELSE missed
    /\ missed' <= MaxMissed
    /\ \/ hour' % 3 # 0 /\ shown' = shown
       \/ hour' % 3 # 1 /\ shown' = Unsaid
       \/ hour' % 3 # 1 /\ \E f \in Forecasts : shown' = Said(f, LearnDate(hour') + 1)
    /\ sunGiven' = IF hour' % 3 = 1 THEN [sunGiven EXCEPT ![LearnToday] = SunOf(LearnToday)] ELSE sunGiven
    /\ IF haRuns THEN recorder' = RecorderSees(shown) ELSE UNCHANGED recorder
    /\ IF haRuns /\ LearnDate(hour') # LearnToday
       THEN /\ learned' = LearnMidnight(learned, LearnDate(hour'))
            /\ kept' \in {kept, learned'} /\ since' = NoFigure
       ELSE UNCHANGED <<learned, kept, since>>
    /\ UNCHANGED <<haRuns, seeding, stops>>

\* A stop saves what there is, a crash leaves the last save.
StopLearning ==
    /\ haRuns /\ stops < MaxStops /\ stops' = stops + 1
    /\ haRuns' = FALSE /\ since' = NoFigure /\ seeding' = NoFigure
    /\ kept' \in {kept, learned} /\ learned' = kept'
    /\ UNCHANGED <<hour, sunGiven, shown, recorder, missed>>

\* async_restore_state
StartLearning ==
    /\ ~haRuns /\ haRuns' = TRUE
    /\ learned' = CatchUp(kept, LearnToday) /\ kept' = learned'
    /\ seeding' = SeedingFrom(learned', LearnToday)
    /\ UNCHANGED <<hour, sunGiven, shown, since, recorder, stops, missed>>

LearnNext == LearnCycle \/ LearnTick \/ Seed \/ StopLearning \/ StartLearning

LearnSpec == LearnInit /\ [][LearnNext]_learnVars

-----------------------------------------------------------------------------
(* Properties                                                              *)

\* What is remembered for a day is a forecast of that day, its low estimate and its shape too, and
\* the shape came with the total.
FiguresOfTheirDay ==
    haRuns =>
      \A x \in {<<learned.pending, LearnToday + 1>>, <<learned.today, LearnToday>>} :
        /\ \A f \in {x[1].p50, x[1].p10, x[1].shape} : f # NoFigure => f.day = x[2]
        /\ x[1].shape # NoFigure => x[1].shape = x[1].p50

\* Each night is measured once, against the forecast made for it.  A seeded night may have that of
\* an earlier day, when the sensor showed none on the day before; and a day on which Home Assistant
\* did not see the sun set has only part of its sun.
PairsAreOfOneDay ==
    /\ \A i, j \in DOMAIN learned.ratios : i < j => learned.ratios[i].day < learned.ratios[j].day
    /\ \A i \in DOMAIN learned.ratios :
         LET r == learned.ratios[i]
         IN /\ r.forecast.day = r.day \/ (r.seeded /\ recorder[r.day - 1].forecast = NoFigure)
            /\ r.day < LearnToday
            /\ IF r.whole THEN r.actual = sunGiven[r.day] ELSE r.actual <= sunGiven[r.day]

\* A day of the load history holds that day's load only, and no day is there twice.
LoadsOfTheirDay ==
    /\ \A i \in DOMAIN learned.loads : learned.loads[i].of = {learned.loads[i].date}
    /\ \A i, j \in DOMAIN learned.loads : i < j => learned.loads[i].date < learned.loads[j].date

\* The plan reads a forecast of the day it serves, and of the day after that one.
PlanOfItsDay ==
    LET forecast == SolarForecast(hour, shown, learned)
    IN haRuns /\ since = hour =>
         /\ forecast.said.p50 # NoFigure => forecast.said.p50.day = PlanDayAt(hour)
         /\ forecast.d2 # NoFigure => forecast.d2 = PlanDayAt(hour) + 1

\* "so the target does not step at midnight" (core/engine.py:1577): the plan goes on with the
\* forecast of the last cycle, when that read one, and a low estimate unless none was read all day.
MidnightKeepsForecast ==
    [][ (haRuns /\ since = hour /\ LearnDate(hour') # LearnToday
         /\ shown.p50 # NoFigure /\ shown.p50.kwh > 0 /\ learned.pending.p10 = shown.p10)
        => LET before == SolarForecast(hour, shown, learned)
               after == SolarForecast(hour', shown', learned')
           IN /\ after.said = before.said
              /\ CorrectionOf(learned'.ratios) = CorrectionOf(learned.ratios)
                   => ResolvedKwh(after, learned') = ResolvedKwh(before, learned)]_learnVars

\* What is learned of the sun and the house belongs to the day it is used for.
LearningIsSound ==
    /\ [](FiguresOfTheirDay /\ PairsAreOfOneDay /\ LoadsOfTheirDay /\ PlanOfItsDay)
    /\ MidnightKeepsForecast

\* "Load follows your own per-slot history ... (the same weekday when three or more are
\* available)" (docs/concepts.md:113): the plan averages the days of the weekday it serves.
LoadOfThePlansWeekday ==
    haRuns => LoadProfile(hour, learned) = ProfileOf(learned.loads, PlanDayAt(hour) % WeekLength)
=============================================================================
