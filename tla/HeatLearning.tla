---------------------------- MODULE HeatLearning ----------------------------
(***************************************************************************)
(* What is learned from the immersion's own heating: the record of what it *)
(* took from the grid and the schedule for the alternative heating that is *)
(* suggested from it (core/alt_heat_schedule.py), and how fast it warms    *)
(* the water, measured from its runs (lib/heating/rate.py).                *)
(*                                                                         *)
(* An hour has HourParts parts; the heater takes one unit of energy in a   *)
(* part, and a run of the alternative is a whole number of parts.  The     *)
(* rate of an hour is the same on every day, so that its cost is known     *)
(* from its heat.                                                          *)
(***************************************************************************)
EXTENDS Integers, Sequences, SequencesExt

CONSTANTS
    DayHours, HourParts,
    GridRates,      \* the rate of each hour
    AltCosts,       \* what a unit of heat from the alternative may cost
    RecordDays,     \* ALT_HEAT_SCHEDULE_RECORD_DAYS
    MinRecord,      \* ALT_HEAT_SCHEDULE_MIN_DAYS
    RepeatOneIn,    \* ALT_HEAT_SCHEDULE_REPEAT_ONE_IN
    MinHourHeat,    \* ALT_HEAT_SCHEDULE_MIN_HOUR_KWH
    MinSaving,      \* ALT_HEAT_SCHEDULE_MIN_SAVING_PER_WEEK, for a day
    MaxWindows,     \* ALT_HEAT_SCHEDULE_MAX_WINDOWS
    RecordEnd, MaxHeats, MaxGaps,   \* bounds: days, hours with heat, days off and crashes
    NoCost          \* the alternative is off, or has no cost

ASSUME RecordAssumption ==
    /\ {DayHours, HourParts, RepeatOneIn, MinRecord, MaxWindows, MinHourHeat, RecordDays} \subseteq Nat \ {0}
    /\ GridRates \in [0..(DayHours - 1) -> Nat] /\ AltCosts \subseteq Nat /\ NoCost \notin Nat
    /\ {MinSaving, RecordEnd, MaxHeats, MaxGaps} \subseteq Nat

VARIABLES
    today, hourNow,
    altCost,        \* alt_heat_cost_per_kwh
    heatDays,       \* ImmersionHeatLog.days: the heat of each hour of the days noted
    heats, gaps,    \* history
    heated,         \* history: what the heater took from the grid while there was a cost
    crashed         \* history: the days that lost something

recordVars == <<today, hourNow, altCost, heatDays, heats, gaps, heated, crashed>>

HoursOfDay == 0..(DayHours - 1)
EmptyDay == [h \in HoursOfDay |-> 0]

-----------------------------------------------------------------------------
(* The record                                                              *)

\* _forget_old_days: counted from the newest day.
Kept(days) == [d \in {e \in DOMAIN days : e >= Max(DOMAIN days) - RecordDays} |-> days[d]]

\* add: no heat still notes the day.
Added(days, d, h, heat) ==
    LET day == IF d \in DOMAIN days THEN days[d] ELSE EmptyDay
        noted == [e \in DOMAIN days \cup {d} |-> IF e = d THEN [day EXCEPT ![h] = @ + heat] ELSE days[e]]
    IN Kept(noted)

\* completed
Completed(days, day) == {d \in DOMAIN days : day - RecordDays <= d /\ d < day}

-----------------------------------------------------------------------------
(* The suggestion                                                          *)

IsDear(day, h, alt) == day[h] >= MinHourHeat /\ GridRates[h] > alt

\* _summarise_hour
SummaryOf(days, h, alt) ==
    LET dear == {d \in DOMAIN days : IsDear(days[d], h, alt)}
        heat == MapThenSumSet(LAMBDA d : days[d][h], dear)
    IN [on |-> dear, heat |-> heat, saving |-> heat * (GridRates[h] - alt)]

\* An hour on at least one day in so many is a habit, and _runs are the stretches of them.
Habits(summary, count) == {h \in HoursOfDay : Cardinality(summary[h].on) * RepeatOneIn >= count}
Blocks(habits) ==
    {[from |-> h, to |-> Min({g \in (h + 1)..DayHours : g \notin habits})] :
       h \in {g \in habits : g - 1 \notin habits}}
HoursIn(block) == block.from..(block.to - 1)

\* _window and _after_earlier_heating: as long as the heater takes on a day it runs, up to where the
\* block begins, and no earlier than the end of the block before.
WindowFor(block, blocks, summary) ==
    LET heat == MapThenSumSet(LAMBDA h : summary[h].heat, HoursIn(block))
        days == Cardinality(UNION {summary[h].on : h \in HoursIn(block)})
        run == Max({1, (heat + days - 1) \div days})
        end == block.from * HourParts
        earlier == {b.to * HourParts : b \in {c \in blocks : c.to <= block.from}}
        start == Max({end - run} \cup earlier)
        day == DayHours * HourParts
    IN [start |-> start % day, end |-> end % day, heat |-> heat, days |-> days, block |-> block,
        saving |-> MapThenSumSet(LAMBDA h : summary[h].saving, HoursIn(block))]

\* _best_windows: those worth it, the most that they save; of equal ones the earlier.
Better(v, w) == v.saving > w.saving \/ (v.saving = w.saving /\ v.block.from < w.block.from)
BestWindows(windows, count) ==
    LET worth == {w \in windows : w.saving >= MinSaving * count}
    IN {w \in worth : Cardinality({v \in worth : Better(v, w)}) < MaxWindows}

\* suggest_alt_heat_schedule; _set_alt_heat_schedule asks only when there is a cost.
ScheduleOver(complete) ==
    LET days == [d \in complete |-> heatDays[d]]
        summary == [h \in HoursOfDay |-> SummaryOf(days, h, altCost)]
        blocks == Blocks(Habits(summary, Cardinality(complete)))
    IN BestWindows({WindowFor(b, blocks, summary) : b \in blocks}, Cardinality(complete))
Suggestion ==
    LET complete == Completed(heatDays, today)
    IN IF altCost = NoCost \/ Cardinality(complete) < MinRecord THEN {} ELSE ScheduleOver(complete)

-----------------------------------------------------------------------------
(* Steps                                                                   *)

RecordInit ==
    /\ today = 0 /\ hourNow = 0 /\ altCost \in AltCosts /\ heatDays = <<>>
    /\ heats = 0 /\ gaps = 0 /\ heated = <<>> /\ crashed = {}

NextHour ==
    IF hourNow + 1 < DayHours THEN hourNow' = hourNow + 1 /\ UNCHANGED today
    ELSE hourNow' = 0 /\ today' = today + 1

\* The cycles of an hour, with what of the heat solar surplus did not cover.
RecordHour ==
    /\ today < RecordEnd
    /\ \E heat \in 0..HourParts :
         /\ heat > 0 => heats < MaxHeats
         /\ heats' = heats + (IF heat > 0 THEN 1 ELSE 0)
         /\ IF altCost = NoCost THEN UNCHANGED <<heatDays, heated>>
            ELSE /\ heatDays' = Added(heatDays, today, hourNow, heat)
                 /\ heated' = IF heat = 0 THEN heated
                              ELSE [k \in DOMAIN heated \cup {<<today, hourNow>>} |->
                                      IF k \in DOMAIN heated THEN heated[k] ELSE heat]
    /\ NextHour
    /\ UNCHANGED <<altCost, gaps, crashed>>

\* The cost sensor and the pages of Configure.
SetAltCost ==
    /\ gaps < MaxGaps /\ gaps' = gaps + 1
    /\ altCost' \in (AltCosts \cup {NoCost}) \ {altCost}
    /\ UNCHANGED <<today, hourNow, heatDays, heats, heated, crashed>>

\* A day goes by with Home Assistant down.
DayOff ==
    /\ hourNow = 0 /\ today < RecordEnd /\ gaps < MaxGaps /\ gaps' = gaps + 1
    /\ today' = today + 1
    /\ UNCHANGED <<hourNow, altCost, heatDays, heats, heated, crashed>>

\* from_storage after a crash: the days are saved at midnight, and today's hours up to some time.
RecordCrash ==
    /\ gaps < MaxGaps /\ gaps' = gaps + 1 /\ today \in DOMAIN heatDays
    /\ crashed' = crashed \cup {today}
    /\ \/ heatDays' = [d \in DOMAIN heatDays \ {today} |-> heatDays[d]]
       \/ \E saved \in 0..(hourNow - 1) :
            heatDays' = [heatDays EXCEPT ![today] = [h \in HoursOfDay |-> IF h < saved THEN @[h] ELSE 0]]
    /\ UNCHANGED <<today, hourNow, altCost, heats, heated>>

RecordNext == RecordHour \/ SetAltCost \/ DayOff \/ RecordCrash
RecordSpec == RecordInit /\ [][RecordNext]_recordVars

-----------------------------------------------------------------------------
(* Properties of the suggestion                                            *)

Heat(d, h) == IF <<d, h>> \in DOMAIN heated THEN heated[<<d, h>>] ELSE 0

\* The record holds what was used on each of the last days, and no more than that on a day that
\* lost something; and no day before them.
RecordIsTrue ==
    /\ Cardinality(DOMAIN heatDays) <= RecordDays + 1
    /\ \A d \in DOMAIN heatDays, h \in HoursOfDay :
         /\ heatDays[d][h] <= Heat(d, h)
         /\ d \notin crashed => heatDays[d][h] = Heat(d, h)

\* "an old habit drops out within a fortnight of it ending" (tuning.py:47), however long the record
\* was not written to, and a week's saving is of heat that was used.
PartsOf(w) == {p % (DayHours * HourParts) : p \in w.start..((IF w.end > w.start THEN w.end ELSE w.end + DayHours * HourParts) - 1)}
SuggestionIsRecent ==
    \A w \in Suggestion :
      /\ \E d \in (today - RecordDays)..(today - 1), h \in HoursIn(w.block) : Heat(d, h) >= MinHourHeat
      /\ w.saving <= MapThenSumSet(LAMBDA k : Heat(k[1], k[2]) * (GridRates[k[2]] - altCost),
                                   {k \in DOMAIN heated : k[1] \in (today - RecordDays)..(today - 1)
                                                          /\ k[2] \in HoursIn(w.block)})

\* The alternative is asked to run before the hours in which the immersion heats at more than it
\* costs, never in them, and never twice at a time; for as long as the immersion takes, unless other
\* heating goes before.  The hours before midnight are not looked at for a window that begins there.
SuggestionFits ==
    LET windows == Suggestion
        blocks == {w.block : w \in windows}
        PartsBefore(b) == {p % (DayHours * HourParts) : p \in (b.from * HourParts)..(b.to * HourParts - 1)}
    IN \A w \in windows :
         /\ \A h \in HoursIn(w.block) : GridRates[h] > altCost
         /\ w.start < w.end =>
              /\ \A b \in blocks : PartsOf(w) \cap PartsBefore(b) = {}
              /\ \A v \in windows \ {w} : v.start < v.end => PartsOf(w) \cap PartsOf(v) = {}
         /\ LET long == Cardinality(PartsOf(w))
            IN /\ (long - 1) * w.days < w.heat
               /\ long * w.days < w.heat => \E v \in HoursOfDay : (v + 1) * HourParts = w.start

ScheduleIsSound == RecordIsTrue /\ SuggestionIsRecent /\ SuggestionFits

-----------------------------------------------------------------------------
(* How fast the heater warms the water                                     *)

CONSTANTS
    HottestWater,
    Scale,          \* a rate is in degrees per Scale minutes
    MinRunLong,     \* IMMERSION_RATE_RUN_MIN_MINUTES
    MinRise,        \* IMMERSION_RATE_RUN_MIN_RISE_C
    LongestGap,     \* SENSOR_OUTAGE_HOLD_LIMIT_S
    RateDaysKept,   \* IMMERSION_RATE_DAYS_KEPT
    MinutesOfDay, LastMinute, MaxSwitches, MaxOutages,  \* bounds
    NoRun

ASSUME RateAssumption ==
    /\ {Scale, MinRunLong, MinRise, RateDaysKept, MinutesOfDay} \subseteq Nat \ {0}
    /\ {HottestWater, LongestGap, LastMinute, MaxSwitches, MaxOutages} \subseteq Nat

VARIABLES
    minute,
    tank,           \* the water's temperature
    elementOn,      \* the heater is on
    tracker,        \* RunTracker: where the run began and was last seen, or NoRun
    rateDays,       \* immersion_rate_days, oldest first
    switches, outages,  \* history
    measured        \* history: the runs that were kept: [day, from, at, rise]

rateVars == <<minute, tank, elementOn, tracker, rateDays, switches, outages, measured>>

RunFrom(at) == [from |-> at, fromTank |-> tank, at |-> at, tank |-> tank]

\* _end: a run that is long enough and rose enough is measured.
Measures(run) == run.at - run.from >= MinRunLong /\ run.tank - run.fromTank >= MinRise
RateOf(run) == ((run.tank - run.fromTank) * Scale) \div (run.at - run.from)

\* _gap_too_long
GapTooLong(run) == minute - run.at > LongestGap

\* keep_day_rate
KeepDayRate(days, day, rate) ==
    LET same == {i \in DOMAIN days : days[i].day = day}
        before == IF same = {} THEN [total |-> 0, runs |-> 0] ELSE days[Max(same)]
        others == SelectSeq(days, LAMBDA d : d.day # day)
        all == Append(others, [day |-> day, total |-> before.total + rate, runs |-> before.runs + 1])
    IN SubSeq(all, Max({1, Len(all) - RateDaysKept + 1}), Len(all))

\* resolve_rate, from the days: their average, or none was learned.
DayRate(d) == d.total \div d.runs
ResolvedRate ==
    IF rateDays = <<>> THEN NoRun
    ELSE FoldSeq(LAMBDA d, sum : DayRate(d) + sum, 0, rateDays) \div Len(rateDays)

RateInit ==
    /\ minute = 0 /\ tank = 0 /\ elementOn = FALSE /\ tracker = NoRun /\ rateDays = <<>>
    /\ switches = 0 /\ outages = 0 /\ measured = {}

\* record_immersion_rate of the run that ended, if any.
Ended(run) ==
    IF run # NoRun /\ Measures(run)
    THEN /\ rateDays' = KeepDayRate(rateDays, minute \div MinutesOfDay, RateOf(run))
         /\ measured' = measured \cup {[day |-> minute \div MinutesOfDay, from |-> run.from,
                                       at |-> run.at, rise |-> run.tank - run.fromTank]}
    ELSE UNCHANGED <<rateDays, measured>>

\* observe, with the temperature while the heater is on and it can be read, or none.
Observe(readable) ==
    IF elementOn /\ readable
    THEN IF tracker = NoRun THEN tracker' = RunFrom(minute) /\ Ended(NoRun)
         ELSE IF GapTooLong(tracker) THEN tracker' = RunFrom(minute) /\ Ended(tracker)
         ELSE tracker' = [tracker EXCEPT !.at = minute, !.tank = tank] /\ Ended(NoRun)
    ELSE tracker' = NoRun /\ Ended(tracker)

\* A cycle and the minute after it: the element warms the water by a degree, and a draw cools it.
Passes ==
    /\ minute' = minute + 1
    /\ \/ tank' = IF elementOn /\ tank < HottestWater THEN tank + 1 ELSE tank
       \/ ~elementOn /\ tank > 0 /\ tank' = tank - 1

RateCycle ==
    /\ minute < LastMinute /\ Passes
    /\ \E readable \in BOOLEAN :
         /\ ~readable => outages < MaxOutages
         /\ outages' = outages + (IF readable THEN 0 ELSE 1)
         /\ Observe(readable)
    /\ UNCHANGED <<elementOn, switches>>

\* A minute whose cycle fails.
RateGap ==
    /\ minute < LastMinute /\ Passes /\ outages < MaxOutages /\ outages' = outages + 1
    /\ UNCHANGED <<elementOn, switches, tracker, rateDays, measured>>

SwitchElement ==
    /\ switches < MaxSwitches /\ switches' = switches + 1 /\ elementOn' = ~elementOn
    /\ UNCHANGED <<minute, tank, tracker, rateDays, outages, measured>>

\* The tracker is in memory only.
RateRestart ==
    /\ outages < MaxOutages /\ outages' = outages + 1 /\ tracker' = NoRun
    /\ UNCHANGED <<minute, tank, elementOn, rateDays, switches, measured>>

RateNext == RateCycle \/ RateGap \/ SwitchElement \/ RateRestart
RateSpec == RateInit /\ [][RateNext]_rateVars

\* A learned rate is never faster than the element warms, whatever was missed of its runs, so that no
\* plan starts late for it; and it is never slower than the slowest of the runs of the days kept.
SlowestKept(days) ==
    Min({(r.rise * Scale) \div (r.at - r.from) : r \in {q \in measured : q.day \in days}})
RateIsPlausible ==
    ResolvedRate # NoRun =>
      ResolvedRate \in SlowestKept({rateDays[i].day : i \in DOMAIN rateDays})..Scale

\* The days kept are the last on which a run ended, each once and with all of its runs, and no
\* minute is measured twice.
RunsCountOnce ==
    LET kept == {rateDays[i].day : i \in DOMAIN rateDays}
        days == {r.day : r \in measured}
    IN /\ \A i \in DOMAIN rateDays :
            /\ rateDays[i].runs = Cardinality({r \in measured : r.day = rateDays[i].day})
            /\ i > 1 => rateDays[i - 1].day < rateDays[i].day
       /\ \A d \in days \ kept : Len(rateDays) = RateDaysKept /\ \A e \in kept : d < e
       /\ \A q, r \in measured : q = r \/ q.at < r.from \/ r.at < q.from
=============================================================================
