----------------------------- MODULE HeatingPlan -----------------------------
(***************************************************************************)
(* The scheduled heating of the hot water: the plan for the next ready     *)
(* time (lib/heating/ready.py, solar.py), the cheapest window (window.py), *)
(* the longest run (core/scheduled_run.py), the decision over them         *)
(* (core/rules.py), the switch with its cooldown, and the sentence that    *)
(* says what is planned (planned.py).                                      *)
(*                                                                         *)
(* One step is a cycle of the coordinator and the time until the next.     *)
(* A full cycle of heating lifts the water by one; the plan asks for a     *)
(* margin more, so it counts in parts of a cycle.                          *)
(***************************************************************************)
EXTENDS Integers, Sequences, FiniteSets
LOCAL INSTANCE FiniteSetsExt

CONSTANTS
    HeatDay,        \* cycles in a day
    Homes,          \* settings: [base, periods, times, longest, sun, auto], see HeatAssumption
    HeatTarget,     \* the water at its target
    HeatMin,        \* immersion_min_temp
    RestartGap,     \* immersion_hysteresis_c
    Part,           \* parts of a cycle, and of a heater's full output in it
    Extra,          \* parts of CHARGE_WINDOW_MARGIN
    SwitchRest,     \* IMMERSION_SWITCH_COOLDOWN_MINUTES
    Cover           \* IMMERSION_SOLAR_COVER_FACTOR

Moments == 0..(HeatDay - 1)

\* A day of tariff [start, end, rate], the ready times, the longest run (0 for none), the
\* forecast (what the heater would draw in `kwh` cycles, between two moments), and Auto Divert.
ASSUME HeatAssumption ==
    /\ HeatDay \in Nat \ {0} /\ HeatTarget \in Nat /\ HeatMin \in 0..HeatTarget
    /\ RestartGap \in 0..HeatTarget /\ Part \in Nat \ {0} /\ Extra \in Nat
    /\ SwitchRest \in Nat \ {0} /\ Cover \in Nat
    /\ \A h \in Homes :
        /\ h.base \in Nat /\ h.times \subseteq Moments /\ h.longest \in Nat /\ h.auto \in BOOLEAN
        /\ \A i \in DOMAIN h.periods :
              h.periods[i] \in [start: Moments, end: Moments, rate: Nat]
        /\ h.sun \in [kwh: Nat, rise: Moments, set: Moments]

VARIABLES
    home,       \* the settings and the forecast
    hour,       \* the time of day
    water,      \* the temperature
    heater,     \* the switch is on
    rest,       \* cycles left of the actuator's cooldown
    limit,        \* HeldScheduledRun: [count, capped, seen]
    carried,     \* immersion_window_heating of the last cycle
    promise     \* history: the ready time the plan last expected to meet, NoReady without

heatVars == <<home, hour, water, heater, rest, limit, carried, promise>>

NoReady == -1
FreshRun == [count |-> 0, capped |-> FALSE, seen |-> FALSE]

HeatInit ==
    /\ home \in Homes /\ hour = 0 /\ water \in 0..HeatTarget
    /\ heater = FALSE /\ rest = 0 /\ limit = FreshRun /\ carried = FALSE /\ promise = NoReady

Least(a, b) == IF a < b THEN a ELSE b
Most(a, b) == IF a < b THEN b ELSE a

-----------------------------------------------------------------------------
(* The tariff and the plan                                                 *)

\* RatePeriod.is_active.
OpenAt(p, t) == IF p.start <= p.end THEN p.start <= t /\ t < p.end ELSE t >= p.start \/ t < p.end

\* get_current_rate: the cheapest period open, else the base rate.
RateAt(t) ==
    LET open == {i \in DOMAIN home.periods : OpenAt(home.periods[i], t % HeatDay)}
    IN IF open = {} THEN home.base ELSE Min({home.periods[i].rate : i \in open})

\* cheapest_period and open_cheapest_window: the first of the cheapest, if cheaper than the base.
CheapestPeriod ==
    CHOOSE i \in DOMAIN home.periods :
        \A j \in DOMAIN home.periods :
            \/ home.periods[i].rate < home.periods[j].rate
            \/ home.periods[i].rate = home.periods[j].rate /\ i <= j
HasWindow == home.periods # <<>> /\ home.periods[CheapestPeriod].rate < home.base
WindowOpen == HasWindow /\ OpenAt(home.periods[CheapestPeriod], hour)

\* next_ready_at: the soonest ready time after now, as a moment of today or tomorrow.
NextReady(times) == Min({IF at > hour THEN at ELSE at + HeatDay : at \in times})

\* hours_to_heat, in parts, for the water as it is.
FullHeat == Most(0, HeatTarget - water) * (Part + Extra)

\* solar_window: today's hours of sun before the ready time, while what is still to come covers
\* the heating.  Empty from 0 to 0.
SunWindow(due, needed) ==
    LET sun == home.sun
        begin == Most(hour, sun.rise)
        finish == Least(due, sun.set)
    IN IF /\ sun.kwh > 0 /\ begin < finish
          /\ sun.kwh * (sun.set - begin) * Part >= needed * Cover * (sun.set - sun.rise)
       THEN [from |-> begin, to |-> finish] ELSE [from |-> 0, to |-> 0]

\* _boundaries: every start and end of a period.  Mutant: the starts alone.
StartsOnly(p) == {p.start}
Boundaries(p) == {p.start, p.end}

\* rate_segments: from now to the ready time, cut at the boundaries and at the sun's.
Segments(due, sun) ==
    LET cuts == UNION {Boundaries(home.periods[i]) : i \in DOMAIN home.periods}
        inside == {t \in (hour + 1)..(due - 1) : t % HeatDay \in cuts \/ t \in {sun.from, sun.to}}
        edges == {hour, due} \cup inside
    IN {[from |-> a, to |-> Min({b \in edges : b > a})] : a \in edges \ {due}}

SegmentRate(s, sun) ==
    LET middle == (s.from + s.to) \div 2
    IN IF sun.from <= middle /\ middle < sun.to THEN 0 ELSE RateAt(middle)

Length(s) == (s.to - s.from) * Part

\* _fill_cheapest_first: what is given to a segment, after the cheaper ones and, at the same
\* rate, the later ones.
Given(s, segments, sun, needed) ==
    LET cost == SegmentRate(s, sun)
        earlier == {t \in segments : \/ SegmentRate(t, sun) < cost
                                     \/ SegmentRate(t, sun) = cost /\ t.from > s.from}
        taken == MapThenSumSet(Length, earlier)
    IN Most(0, Least(Length(s), needed - taken))

\* plan_ready.  _USED_UP_SECONDS is the time of one cycle.
NoHeat == [due |-> NoReady, now |-> FALSE, expected |-> FALSE, sunny |-> FALSE, needed |-> 0,
           given |-> 0]
PlanReady ==
    IF home.times = {} THEN NoHeat
    ELSE IF water >= HeatTarget THEN [NoHeat EXCEPT !.due = NextReady(home.times), !.expected = TRUE]
    ELSE LET due == NextReady(home.times)
             needed == IF home.longest = 0 THEN FullHeat ELSE Least(FullHeat, home.longest * Part)
             sun == SunWindow(due, needed)
             segments == Segments(due, sun)
             first == CHOOSE s \in segments : s.from = hour
             given == Given(first, segments, sun, needed)
             slack == Length(first) - given
         IN [due |-> due,
             now |-> slack <= Part \/ (heater /\ slack <= SwitchRest * Part),
             expected |-> (due - hour) * Part >= needed /\ needed >= FullHeat,
             sunny |-> sun.from < sun.to, needed |-> needed, given |-> given]

-----------------------------------------------------------------------------
(* The decision and the cycle                                              *)

\* _cheap_window_decision and _ready_decision, leaving out a limit that has been reached.
WindowWants ==
    WindowOpen /\ water < (IF heater \/ carried THEN HeatTarget ELSE HeatTarget - RestartGap)
ReadyWants == water < HeatTarget /\ PlanReady.now
ScheduleWants == WindowWants \/ ReadyWants

\* advance: the limit counts the cycles the heater was on while it was wanted.
CountedRun ==
    IF home.longest = 0 \/ ~ScheduleWants THEN [FreshRun EXCEPT !.seen = TRUE]
    ELSE LET cycles == IF limit.seen /\ heater /\ ~limit.capped THEN limit.count + 1 ELSE limit.count
         IN [count |-> cycles, capped |-> limit.capped \/ cycles >= home.longest, seen |-> TRUE]

\* should_divert_to_immersion, with or without a surplus that is worth diverting.
Divert(capped, surplus) ==
    \/ water < HeatMin
    \/ water < HeatTarget /\ \/ ~capped /\ ScheduleWants
                             \/ surplus /\ (heater \/ water < HeatTarget - RestartGap)

\* What the cycle's plan promises: to be ready, from the grid, without a limit, and with a switch
\* that is free to heat.
Promise ==
    LET heating == PlanReady
    IN IF heating.expected /\ ~heating.sunny /\ home.longest = 0 /\ home.auto /\ (heater \/ rest = 0)
       THEN heating.due % HeatDay
       ELSE IF promise = hour THEN NoReady ELSE promise

\* A cycle: _stop_a_long_run and the decision (or Auto Divert's override, which skips both), the
\* switch (held back by its cooldown unless the water is hot), and 30 seconds of heating, some of
\* it from elsewhere.
HeatStep(surplus, lift) ==
    LET counted == IF home.auto THEN CountedRun ELSE limit
        wanted == home.auto /\ Divert(counted.capped, surplus)
        resting == rest > 0 /\ water < HeatTarget
    IN
    /\ limit' = counted
    /\ carried' = (wanted /\ WindowOpen)
    /\ heater' = IF resting THEN heater ELSE wanted
    /\ rest' = IF heater' # heater THEN SwitchRest - 1 ELSE Most(0, rest - 1)
    /\ water' = Least(HeatTarget, water + lift + (IF heater' THEN 1 ELSE 0))
    /\ promise' = Promise
    /\ hour' = (hour + 1) % HeatDay
    /\ UNCHANGED home

HeatCycle == \E surplus \in BOOLEAN : HeatStep(surplus, 0)

\* Hot water is drawn, or the water cools.
Draw ==
    /\ water > 0 /\ water' \in 0..(water - 1) /\ promise' = NoReady
    /\ UNCHANGED <<home, hour, heater, rest, limit, carried>>

\* The heater's own timer ends its run.
TimerCutsShort ==
    /\ heater /\ heater' = FALSE /\ promise' = NoReady
    /\ UNCHANGED <<home, hour, water, rest, limit, carried>>

\* The counts, the cooldown and the last cycle are in memory only.
RestartHeating ==
    /\ limit' = FreshRun /\ carried' = FALSE /\ rest' = 0
    /\ UNCHANGED <<home, hour, water, heater, promise>>

HeatNext == HeatCycle \/ Draw \/ TimerCutsShort \/ RestartHeating
HeatSpec == HeatInit /\ [][HeatNext]_heatVars

-----------------------------------------------------------------------------
(* The sentence                                                            *)

\* WaterReading.needs_heating: as good as ready above the restart threshold.
NeedsHeating == water < HeatTarget - RestartGap

\* describe_planned_heating, as what the sentence says.
Sentence ==
    IF WindowOpen /\ water < (IF heater THEN HeatTarget ELSE HeatTarget - RestartGap) THEN "window now"
    ELSE IF home.times = {} THEN IF HasWindow THEN "window" ELSE "nothing"
    ELSE IF ~NeedsHeating THEN "ready"
    ELSE IF PlanReady.now THEN "now" ELSE "later"

-----------------------------------------------------------------------------
\* The plan takes the cheapest cycles left: a heater that is off is not asked for while later,
\* cheaper cycles would do, but in the last cycle of a band, and it is not put off unless later
\* cycles that are no dearer do.
CheapestHours ==
    LET heating == PlanReady
        sun == SunWindow(heating.due, heating.needed)
        CostOf(t) == IF sun.from <= t /\ t < sun.to THEN 0 ELSE RateAt(t)
        later == (hour + 1)..(heating.due - 1)
        ends == CostOf(hour + 1) # CostOf(hour) \/ heating.due = hour + 1
    IN heating.needed > 0 =>
        IF heating.now
        THEN \/ heater \/ ends
             \/ Cardinality({t \in later : CostOf(t) < CostOf(hour)}) * Part < heating.needed
        ELSE Cardinality({t \in later : CostOf(t) <= CostOf(hour)}) * Part >= heating.needed

\* Water that is expected to be ready from the grid is, unless it is drawn or its heater stopped,
\* through the cooldown of the switch, surplus heating and restarts.
ReadyOnTime == hour = promise => water >= HeatTarget

\* The sentence and the decision agree: heating "now" is wanted, and heating that is wanted is
\* said, but for a run that carries on in its window and a last top-up.
SentenceAgrees ==
    /\ Sentence \in {"window now", "now"} => ScheduleWants
    /\ ScheduleWants /\ Sentence \notin {"window now", "now"} => carried \/ ~NeedsHeating

HeatingIsSound == CheapestHours /\ ReadyOnTime /\ SentenceAgrees
=============================================================================
