------------------------------- MODULE MCParts -------------------------------
(***************************************************************************)
(* The parts that share no state, side by side: the computations of the    *)
(* charge plan, the heating of the water, the hold, and the dashboard that *)
(* is kept current.  A behaviour takes the steps of one of them while the  *)
(* others stay as they began.                                              *)
(***************************************************************************)
EXTENDS SimulatedDay, ChargeTarget, HeldPlan, SunriseHold, ChargeWindow,
        AltHeating, BatteryHold, NightOutlook, StoredDashboard

VARIABLE part

vars == <<part, dayVars, targetVars, holdVars, sunriseVars, windowVars, altVars,
          batteryVars, nightVars, boardVars>>

SlotNets == -3..2
ReadingGaps == -1..4

\* Two periods that lie in any way at all to each other, cheap, dear or as cheap
\* as each other, and three cheap ones around the second.
Lying(rates) == [start : 0..(Minutes - 1), end : 0..(Minutes - 1), rate : rates]
TwoPeriods == {<<p, q>> : p \in Lying({1, 3}), q \in Lying({1, 2})}
ThreePeriods == {<<p, q, r>> : p \in Lying({1}),
                               q \in [start : {2}, end : 0..(Minutes - 1), rate : {1}],
                               r \in [start : {0}, end : 0..(Minutes - 1), rate : {2}]}
SmallTariffs == [periods : TwoPeriods \cup ThreePeriods, base : {3}]

\* A flat load and two that are heavy before or after the middle of the night, paused or
\* not, and every plan.
SomeNights ==
  [load : {[h \in 0..7 |-> 1], [h \in 0..7 |-> IF h < 4 THEN 2 ELSE 0],
           [h \in 0..7 |-> IF h < 4 THEN 0 ELSE 2]},
   pause : {[start |-> 0, end |-> 0], [start |-> 1, end |-> 3], [start |-> 6, end |-> 1]},
   charge : [target : {3, 6}, rate : {0, 2, 4}, skipped : BOOLEAN]]

\* A day of ten cycles with tariffs that have a cheap start of the day, one around midnight, a dear
\* evening, and two periods that overlap; one ready time or two; with sun, with a longest run, and
\* with Auto Divert off.
Timed(opens, closes, price) == [start |-> opens, end |-> closes, rate |-> price]
Overnight == <<Timed(9, 2, 1)>>
DearEvening == <<Timed(2, 5, 2), Timed(7, 9, 4)>>
HeatTariffs == {<<>>, <<Timed(0, 3, 1)>>, Overnight, DearEvening, <<Timed(2, 6, 2), Timed(4, 8, 1)>>}

NoForecast == [kwh |-> 0, rise |-> 0, set |-> 0]
Sunny == [kwh |-> 20, rise |-> 3, set |-> 8]

Heated(tariffs, ready, longest, suns, auto) ==
    [base: {3}, periods: tariffs, times: ready, longest: longest, sun: suns, auto: auto,
     alt: {2}, export: {1}]
HeatHomes ==
    Heated(HeatTariffs, {{7}}, {0}, {NoForecast, Sunny}, {TRUE})
    \cup Heated(HeatTariffs, {{0, 5}}, {0}, {NoForecast}, {TRUE})
    \cup Heated({Overnight}, {{}, {7}}, {2}, {NoForecast}, {TRUE})
    \cup Heated({Overnight, DearEvening}, {{7}}, {0}, {NoForecast}, {FALSE})

\* A pause at night or one that stops charging, and writes that raise or are refused half-way in the
\* steps that keep the record.
Night == [mode |-> "DISCHARGE", start |-> 3, end |-> 1]
NightOrBoth == {Night, [mode |-> "BOTH", start |-> 1, end |-> 2]}
KeptFaults == {"RENEW", "RELEASE"} \X {"raised", "gone"}

AnyOf(S) == CHOOSE x \in S : TRUE

DayParked == /\ slot = 0
             /\ floor = 1
             /\ lesser = Starting(0)
             /\ greater = Starting(0)
             /\ flow = [soc |-> 0, import |-> 0, export |-> 0]
             /\ day = [start |-> 0, net |-> 0, paused |-> 0]

TwoEntries == <<"first", "second">>
BoardParked == board = [p \in Paths |-> OfStrategy] /\ keptPath = [e \in BoardEntries |-> NoPath]

OneTariff == AnyOf(Tariffs)
Unheated == CHOOSE h \in Homes : h.times = {}

\* A part begins as it can, and the others somewhere.
Init ==
  /\ part \in {"day", "target", "shown", "sunrise", "window", "heating",
               "hold", "night", "board"}
  /\ IF part = "day" THEN DayInit ELSE DayParked
  /\ TargetInit
  /\ IF part = "shown" THEN TRUE ELSE soc = AnyOf(Socs) /\ cap = AnyOf(Caps)
  /\ HoldInit
  /\ IF part = "sunrise" THEN TRUE ELSE calculated = AnyOf(Levels)
  /\ SunriseInit
  /\ IF part = "window" THEN TRUE ELSE tariff = OneTariff
  /\ WindowInit
  /\ IF part = "heating" THEN TRUE ELSE home = Unheated /\ water = HeatTarget
  /\ AltInit
  /\ IF part = "hold" THEN TRUE ELSE users = Night /\ time = 0
  /\ BatteryInit
  /\ IF part = "night" THEN TRUE ELSE night = AnyOf(Nights) /\ stored = MinLevel /\ sunny = FALSE
  /\ NightInit
  /\ IF part = "board" THEN TRUE ELSE BoardParked
  /\ BoardInit

\* What the other parts keep.
Alone(p) ==
  /\ part = p /\ part' = p
  /\ IF p = "day" THEN TRUE ELSE UNCHANGED dayVars
  /\ IF p = "target" THEN TRUE ELSE UNCHANGED targetVars
  /\ IF p = "shown" THEN TRUE ELSE UNCHANGED holdVars
  /\ IF p = "sunrise" THEN TRUE ELSE UNCHANGED sunriseVars
  /\ IF p = "window" THEN TRUE ELSE UNCHANGED windowVars
  /\ IF p = "heating" THEN TRUE ELSE UNCHANGED altVars
  /\ IF p = "hold" THEN TRUE ELSE UNCHANGED batteryVars
  /\ IF p = "night" THEN TRUE ELSE UNCHANGED nightVars
  /\ IF p = "board" THEN TRUE ELSE UNCHANGED boardVars

Next ==
  \/ Alone("day") /\ DayNext
  \/ Alone("target") /\ TargetNext
  \/ Alone("shown") /\ HoldNext
  \/ Alone("sunrise") /\ SunriseNext
  \/ Alone("window") /\ WindowNext
  \/ Alone("heating") /\ AltNext
  \/ Alone("hold") /\ BatteryNext
  \/ Alone("night") /\ NightNext
  \/ Alone("board") /\ BoardNext

Spec == Init /\ [][Next]_vars

\* The heating of the water: by the ready time in the cheapest hours, with the other heating when
\* the advice says so, and the advice tells true hours.
HotWaterIsSound == part = "heating" => WaterIsSound
=============================================================================
