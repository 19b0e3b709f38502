---------------------------- MODULE NightOutlook ----------------------------
(***************************************************************************)
(* What the sensors say of the night ahead (core/battery.py,               *)
(* core/sunrise_charge.py): whether the battery lasts until the sun, the   *)
(* level it has then without and with tonight's charge, and the words for  *)
(* it.  The clock goes by hours, a level is in hours of the flat load, and *)
(* what is published is what was calculated (SunriseHold has the pace).    *)
(***************************************************************************)
EXTENDS Integers, FiniteSets, FiniteSetsExt

CONSTANTS NightDay,    \* hours in a day
          NightSunrise, \* SOLAR_SUNRISE_HOUR
          SolarEnd,    \* when solar is expected to stop today
          CheapStart,  \* where the cheap hours begin
          CheapHours,
          FullLevel,
          MinLevel,    \* the battery's minimum
          WarnMargin,  \* NIGHT_SURVIVAL_WARNING_MARGIN_PCT
          Nights,      \* loads, pause and plan of a night
          NoNight      \* nothing looked at

VARIABLES night,      \* [load, pause, charge]: the profile, the pause and the plan
          oclock,     \* the hour
          stored,      \* the battery's level
          sunny,      \* solar power is above the noise floor
          tonight,     \* published_charge_window
          report      \* what the sensors say

nightVars == <<night, oclock, stored, sunny, tonight, report>>

Hours == 0..(NightDay - 1)
HoursTo(h, k) == (k - h) % NightDay
OrDay(n) == IF n = 0 THEN NightDay ELSE n
Largest(a, b) == IF a > b THEN a ELSE b
Smallest(a, b) == IF a < b THEN a ELSE b

\* PauseWindow: a start equal to the end pauses nothing.
IsPausedAt(h) == HoursTo(night.pause.start, h) < HoursTo(night.pause.start, night.pause.end)
Unpaused(h, n) == {(h + i) % NightDay : i \in {j \in 0..(n - 1) : ~IsPausedAt((h + j) % NightDay)}}

\* flat_load and slot_load, both without_paused_load, over less than a day.
FlatLoad(h, n) == Cardinality(Unpaused(h, n))
SlotLoad(h, n) == MapThenSumSet(LAMBDA i : night.load[i], Unpaused(h, n))

\* night_window: from now or from dusk to the next sunrise.
NightStart == IF oclock >= NightSunrise /\ sunny THEN Largest(oclock, SolarEnd) ELSE oclock
NightHours == OrDay(HoursTo(NightStart, NightSunrise))

\* night_estimate of the hours the battery is not paused.
Estimate ==
  LET remaining == stored - MinLevel - FlatLoad(NightStart, NightHours)
  IN  [lasts |-> remaining >= 0, level |-> MinLevel + Largest(0, remaining)]

\* The window the plan writes for a battery at that level, a whole cheap run without a rate.
SizedFor(l) ==
  LET rate == night.charge.rate
      need == IF rate = 0 THEN CheapHours ELSE (night.charge.target - l + rate - 1) \div rate
      hours == Largest(1, Smallest(need, CheapHours))
  IN  [start |-> CheapStart, end |-> (CheapStart + hours) % NightDay]
Runs(h, w) == HoursTo(w.start, h) < OrDay(HoursTo(w.start, w.end))

\* _timeline: hours from now to the start and end of the charge, and to sunrise.
Timeline(w) ==
  LET whole == OrDay(HoursTo(w.start, w.end))
      elapsed == HoursTo(w.start, oclock)
      start == IF elapsed < whole THEN 0 ELSE HoursTo(oclock, w.start)
  IN  [start |-> start,
       end |-> IF elapsed < whole THEN whole - elapsed ELSE start + whole,
       sunrise |-> OrDay(HoursTo(oclock, NightSunrise))]

\* _soc_at_start, _soc_after_window and _soc_at_sunrise.
AtStart(t) ==
  IF t.start = 0 THEN stored ELSE Largest(MinLevel, stored - SlotLoad(oclock, t.start))
AfterWindow(l, hours) ==
  LET ceiling == Smallest(night.charge.target, FullLevel)
  IN  IF l >= ceiling THEN l
      ELSE IF night.charge.rate = 0 THEN ceiling
      ELSE Smallest(ceiling, l + night.charge.rate * hours)
AtSunrise(t, w, l) ==
  IF t.sunrise <= t.end THEN l
  ELSE Largest(MinLevel, l - SlotLoad(w.end, t.sunrise - t.end))

\* project_sunrise_with_charge.
Lands == ~night.charge.skipped /\ Timeline(tonight).start < Timeline(tonight).sunrise

\* Mutant of WithCharge: the published window is used as it is.
WithPublished ==
  LET t == Timeline(tonight)
      start == AtStart(t)
      after == AfterWindow(start, Smallest(t.end, t.sunrise) - t.start)
  IN  IF ~Lands THEN [level |-> Estimate.level, added |-> 0]
      ELSE [level |-> AtSunrise(t, tonight, after), added |-> after - start]

WithCharge ==
  LET start == AtStart(Timeline(tonight))
      w == IF Timeline(tonight).start > 0 THEN SizedFor(start) ELSE tonight
      t == Timeline(w)
      after == AfterWindow(start, Smallest(t.end, t.sunrise) - t.start)
  IN  IF ~Lands THEN [level |-> Estimate.level, added |-> 0]
      ELSE [level |-> AtSunrise(t, w, after), added |-> after - start]

\* survival_attributes: judged without the charge, which only adds to the words.
Outlook(e) == IF ~e.lasts THEN "critical"
              ELSE IF e.level < MinLevel + WarnMargin THEN "warning" ELSE "safe"
Words(e, c) == IF c.added = 0 \/ c.level <= e.level THEN "no charge"
               ELSE IF Outlook(e) = "safe" THEN "more"
               ELSE IF c.level >= MinLevel + WarnMargin THEN "covers" ELSE "not enough"
Report ==
  LET e == Estimate
      c == WithCharge
  IN  [outlook |-> Outlook(e), without |-> e.level, with |-> c.level, lands |-> Lands,
       says |-> Words(e, c), sunny |-> sunny]

NightInit ==
  /\ night \in Nights
  /\ oclock = NightSunrise
  /\ stored \in MinLevel..FullLevel
  /\ sunny \in BOOLEAN
  /\ tonight = SizedFor(stored)
  /\ report = NoNight

\* What the battery does in an hour: the grid charges it in the window up to the
\* target, the sun as it likes, and else the house draws on it unless it is paused.
Charging == ~night.charge.skipped /\ Runs(oclock, tonight)
LevelsNext ==
  IF Charging THEN
    IF stored >= night.charge.target THEN {stored}
    ELSE IF night.charge.rate = 0 THEN stored..night.charge.target
    ELSE {Smallest(night.charge.target, stored + night.charge.rate)}
  ELSE IF sunny THEN MinLevel..FullLevel
  ELSE IF IsPausedAt(oclock) THEN {stored}
  ELSE {Largest(MinLevel, stored - night.load[oclock])}

\* A cycle, and the hour after it.  In the cheap hours the plan published stays the
\* one they began with; before them it is sized for the battery as it is.
NightHour ==
  /\ report' = Report
  /\ oclock' = (oclock + 1) % NightDay
  /\ stored' \in LevelsNext
  /\ sunny' \in {FALSE} \cup {oclock' >= NightSunrise /\ oclock' < SolarEnd}
  /\ UNCHANGED night
  /\ tonight' = IF HoursTo(CheapStart, oclock') \in 1..(CheapHours - 1) THEN tonight
                ELSE SizedFor(stored')

NightNext == NightHour

\* In the dark a report comes true: the figure without a charge is what a night with
\* none leaves, the one with it what the charge leaves, and neither moves on the way;
\* a battery said to last never runs flat, and words that say the charge covers the
\* night are kept at sunrise.  Only what follows what was assumed counts: the flat load
\* for the figure without a charge, a known rate for the one with it.
Foreseen ==
  LET flat == night.load = [h \in Hours |-> 1]
      foretold == night.charge.rate > 0 /\ (flat \/ report'.lands)
      again == report # NoNight /\ oclock # NightSunrise /\ ~report.sunny
  IN  ~sunny =>
        /\ oclock' = NightSunrise =>
             /\ flat /\ night.charge.skipped => stored' = report'.without
             /\ foretold => stored' = report'.with
             /\ foretold /\ report'.says = "covers" => stored' >= MinLevel + WarnMargin
        /\ again /\ flat /\ night.charge.skipped =>
             /\ report'.without = report.without
             /\ report'.outlook # report.outlook => report.outlook = "critical"
        /\ again /\ foretold /\ (flat \/ report.lands) => report'.with = report.with

\* The forecast of the night (core/battery.py, core/sunrise_charge.py).
NightForeseen == [][Foreseen]_nightVars

NightTypeOK == /\ oclock \in Hours
               /\ stored \in MinLevel..FullLevel
               /\ sunny \in BOOLEAN
=============================================================================
