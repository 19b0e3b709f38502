----------------------------- MODULE AltHeating -----------------------------
(***************************************************************************)
(* The alternative heating of the same water (oil, gas, a heat pump): what *)
(* the advice says of it (core/alt_heat_advice.py, alt_heat_start.py), the *)
(* two triggers an automation listens to (core/alt_heat_trigger.py), and   *)
(* an owner whose automation follows them, beside the scheduled heating.   *)
(* Rates and costs are per kWh of heat.  The boiler heats as fast as the   *)
(* immersion, which is what the advice takes it to do.                     *)
(***************************************************************************)
EXTENDS HeatingPlan
LOCAL INSTANCE FiniteSetsExt

CONSTANTS
    TriggerMargin,  \* ALT_HEAT_TRIGGER_MARGIN_C
    LowRelease      \* ALT_HEAT_LOW_WATER_RELEASE_C

\* A home has the alternative's cost and the export rate too.
ASSUME AltAssumption ==
    /\ TriggerMargin \in Nat /\ LowRelease \in Nat
    /\ \A h \in Homes : h.alt \in Nat /\ h.export \in Nat

VARIABLES
    byReady,    \* held.ready_by: cycles left to the ready time it fired for, Idle without
    lowWater,        \* held.low_water: start_now
    boiler      \* history: how the owner's run for a ready time began: "off", "in time", "late"

altVars == <<heatVars, byReady, lowWater, boiler>>

Idle == -1
AltInit == HeatInit /\ byReady = Idle /\ lowWater = FALSE /\ boiler = "off"

-----------------------------------------------------------------------------
(* The start for a ready time                                              *)

Due == NextReady(home.times)
NoSunNow == [from |-> 0, to |-> 0]

\* place_hours with no limit: what the plan pays for its parts, and how many it places.
Placed ==
    LET segments == Segments(Due, NoSunNow)
        Parts(s) == Given(s, segments, NoSunNow, FullHeat)
        Price(s) == Parts(s) * SegmentRate(s, NoSunNow)
    IN [parts |-> MapThenSumSet(Parts, segments), price |-> MapThenSumSet(Price, segments)]

\* The alternative's kWh is cheaper than the plan's, and than the surplus while there is some.
Saves(surplus) ==
    /\ Placed.price > home.alt * Placed.parts
    /\ surplus => home.export > home.alt

\* The run in whole cycles, rounded up.
RunCycles == (FullHeat + Part - 1) \div Part
Latest == Due - RunCycles
Late == Latest < hour

\* _start_needed, as the trigger asks: any water below the target while it holds.
StartNeeded(holding) ==
    IF holding THEN water < HeatTarget ELSE water <= HeatTarget - TriggerMargin /\ water < HeatTarget

\* suggest_alt_heat_start: the water needs a run and the alternative is the cheaper heat.
Suggested(needed, surplus) == home.times # {} /\ needed /\ Saves(surplus)

\* _holds_for: it fired for this ready time and the water is not at the target.  Mutant: a trigger
\* does not remember.
NeverHolds(previous) == FALSE
HoldsFor(previous) ==
    home.times # {} /\ previous = Due - hour /\ water < HeatTarget

\* ready_by_trigger.
ReadyTrigger(surplus) ==
    LET holding == HoldsFor(byReady)
    IN IF Suggested(StartNeeded(holding), surplus) /\ (holding \/ Late \/ hour >= Latest)
       THEN Due - hour ELSE Idle

-----------------------------------------------------------------------------
(* Low water and the advice                                                *)

\* keep_warm_below: where the immersion would top the water up.
KeepWarmBelow == Least(HeatMin + RestartGap, HeatTarget - RestartGap)
GridDearer == home.alt < RateAt(hour)
NearLow(margin) == water <= KeepWarmBelow + margin /\ GridDearer /\ water < HeatTarget

\* low_water_trigger.
LowTrigger(surplus) ==
    /\ ~surplus /\ GridDearer
    /\ NearLow(TriggerMargin) \/ (lowWater /\ water < HeatTarget /\ water <= KeepWarmBelow + LowRelease)

\* _cheapest: a tie goes to solar, then to the grid.
CheapestHeat(grid, surplus) ==
    IF surplus /\ home.export <= grid /\ home.export <= home.alt THEN "solar"
    ELSE IF grid <= home.alt THEN "electricity" ELSE "alternative"
Source(surplus) == CheapestHeat(RateAt(hour), surplus)

-----------------------------------------------------------------------------
(* The hours the advice names                                              *)

\* _spans: the next day, cut where a rate begins or ends.  _clip: up to a moment.
DayEnd == hour + HeatDay
Spans == Segments(DayEnd, NoSunNow)
SpanCost(s) == SegmentRate(s, NoSunNow)
Clip(end) == {[from |-> s.from, to |-> Least(s.to, end), cost |-> SpanCost(s)] :
                 s \in {u \in Spans : u.from < end}}

\* Stretches that meet are one.
JoinedSpans(spans) ==
    {[from |-> a.from, to |-> Min({b.to : b \in {s \in spans : /\ s.to > a.from
                                                           /\ \A t \in spans : t.from # s.to}})] :
        a \in {s \in spans : \A t \in spans : t.to # s.from}}

\* _horizon_end: the next ready time within the day, else the day.
HorizonEnd == IF home.times = {} THEN DayEnd ELSE Due

\* _alt_ranges, and what each saves at most.
AltRanges == JoinedSpans({s \in Spans : SpanCost(s) > home.alt})
MostSaved(range) ==
    Max({SpanCost(s) - home.alt : s \in {u \in Spans : range.from <= u.from /\ u.to <= range.to}})
FirstOf(ranges) == CHOOSE r \in ranges : \A q \in ranges : r.from <= q.from

\* _cheapest_stretch: the first at the lowest cost within the horizon.
CheapestStretch ==
    LET spans == Clip(HorizonEnd)
        lowest == Min({s.cost : s \in spans})
        stretch == FirstOf(JoinedSpans({s \in spans : s.cost = lowest}))
    IN [from |-> stretch.from, to |-> stretch.to, cost |-> lowest]

\* _picture and advise_water_heating.
Advice(surplus, stretch) ==
    LET electric == IF surplus THEN Least(RateAt(hour), home.export) ELSE RateAt(hour)
    IN [source |-> Source(surplus), saving |-> electric - home.alt,
        ahead |-> CheapestHeat(stretch.cost, surplus)]

\* _alt_sentence: until when the alternative is cheaper, and from when to when electricity is the
\* cheapest if the water can wait.  _electricity_sentence: when the alternative will be cheaper,
\* and by how much at most.
NoHours == [from |-> DayEnd, to |-> DayEnd]
AltSentence(ranges, stretch) ==
    [until |-> FirstOf(ranges).to,
     wait |-> IF stretch.cost < home.alt /\ water < HeatTarget THEN stretch ELSE NoHours]
ElectricitySentence(ranges) ==
    IF ranges = {} THEN [hours |-> NoHours, saves |-> 0]
    ELSE [hours |-> FirstOf(ranges), saves |-> MostSaved(FirstOf(ranges))]

\* _suggestion, as what the sentence asks for.
Suggestion(surplus) ==
    IF Suggested(NeedsHeating, surplus) THEN IF Late THEN "start late" ELSE "start"
    ELSE IF ~surplus /\ NearLow(0) THEN "keep warm"
    ELSE IF home.times # {} /\ ~NeedsHeating /\ water < HeatTarget THEN "ready"
    ELSE IF home.times # {} /\ NeedsHeating THEN "electric"
    ELSE Source(surplus)

-----------------------------------------------------------------------------
\* A cycle of both: the triggers are worked out from the water as it is, and the owner's boiler
\* runs through the cycle while either asks for it.
AltCycle ==
    \E surplus \in BOOLEAN :
    LET fired == ReadyTrigger(surplus)
        asked == fired # Idle \/ LowTrigger(surplus)
    IN
    /\ lowWater' = LowTrigger(surplus)
    /\ byReady' = IF fired = Idle THEN Idle ELSE fired - 1
    /\ boiler' = IF fired = Idle THEN "off"
                 ELSE IF boiler # "off" /\ HoldsFor(byReady) THEN boiler
                 ELSE IF Late THEN "late" ELSE "in time"
    /\ HeatStep(surplus, IF asked THEN 1 ELSE 0)

AltDraw == Draw /\ boiler' = "off" /\ UNCHANGED <<byReady, lowWater>>
AltTimer == TimerCutsShort /\ UNCHANGED <<byReady, lowWater, boiler>>

\* The held triggers are in memory only.
AltRestart == RestartHeating /\ byReady' = Idle /\ lowWater' = FALSE /\ boiler' = "off"

AltNext == AltCycle \/ AltDraw \/ AltTimer \/ AltRestart
AltSpec == AltInit /\ [][AltNext]_altVars

-----------------------------------------------------------------------------
\* A run of the boiler that begins when the trigger says so, in time, has the water at its target
\* by the ready time, without any help from the immersion.
BoilerInTime == boiler = "in time" /\ byReady = 0 => water >= HeatTarget

\* What the advice says to start now, the trigger has fired for by then.
AdviceIsTriggered ==
    \A surplus \in BOOLEAN :
        /\ Suggestion(surplus) = "start late" => ReadyTrigger(surplus) # Idle
        /\ Suggestion(surplus) = "start" /\ hour >= Latest => ReadyTrigger(surplus) # Idle
        /\ Suggestion(surplus) = "keep warm" => LowTrigger(surplus)

\* A trigger that has fired holds until the water is warm, its time is past, or the alternative
\* is no longer the cheaper heat, whatever the tariff does in between.
TriggersHold ==
    /\ byReady > 0 /\ water < HeatTarget
        => \A surplus \in BOOLEAN : Saves(surplus) => ReadyTrigger(surplus) = byReady
    /\ lowWater /\ water <= KeepWarmBelow + LowRelease /\ water < HeatTarget /\ GridDearer
        => LowTrigger(FALSE)

\* The hours the advice names are the hours of the next day when the alternative is cheaper than
\* the grid, each in one stretch; the source it names now is one that none is cheaper than; it
\* stays the cheaper until when it says; what it says to wait for lies ahead, before the horizon,
\* and is as cheap as anything up to then; and no hour of a stretch saves more than it says.
AdviceIsTrue ==
    LET ranges == AltRanges
        stretch == CheapestStretch
        dearer == {t \in hour..(DayEnd - 1) : RateAt(t) > home.alt}
        before == hour..(HorizonEnd - 1)
        During(range) == range.from..(range.to - 1)
    IN
    /\ UNION {During(r) : r \in ranges} = dearer
    /\ \A q, r \in ranges : q = r \/ q.to < r.from \/ r.to < q.from
    /\ \A surplus \in BOOLEAN :
         LET advice == Advice(surplus, stretch)
             best == Min({RateAt(hour), home.alt} \cup IF surplus THEN {home.export} ELSE {})
         IN /\ advice.source = "solar" => best = home.export
            /\ advice.source = "alternative" => best = home.alt /\ advice.saving > 0
            /\ advice.source = "electricity" => /\ best = RateAt(hour)
                                                /\ ElectricitySentence(ranges).hours.from > hour
            /\ advice.ahead = "alternative" => before \subseteq dearer
    /\ Source(FALSE) = "alternative" =>
         LET told == AltSentence(ranges, stretch)
         IN /\ hour..(told.until - 1) \subseteq dearer /\ told.until \notin dearer
            /\ told.wait # NoHours =>
                 /\ hour < told.wait.from /\ told.wait.to <= HorizonEnd
                 /\ \A u \in During(told.wait) : \A t \in before : RateAt(u) <= RateAt(t)
    /\ LET told == ElectricitySentence(ranges)
       IN \A t \in During(told.hours) : RateAt(t) - home.alt <= told.saves

TriggersAreSound == BoilerInTime /\ AdviceIsTriggered /\ TriggersHold /\ AdviceIsTrue

\* The immersion in the cheapest hours and by the ready time, the alternative when it is due.
WaterIsSound == HeatingIsSound /\ TriggersAreSound
=============================================================================
