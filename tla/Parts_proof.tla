----------------------------- MODULE Parts_proof -----------------------------
(***************************************************************************)
(* The search for tonight's target finds the least that carries the day,   *)
(* and what is done to it afterwards does not take the day away again, for *)
(* every minimum, bonus, headroom and day.  The properties are inductive   *)
(* with the types and with the fact that the search stays above the        *)
(* minimum it started at.                                                  *)
(*                                                                         *)
(* Then what the plan takes for granted about the day it simulates, for    *)
(* every number of slots, size of battery and weather.  The four           *)
(* properties are inductive together with the types and with the fact that *)
(* the lowest level a run has seen is not above the level it is at.        *)
(*                                                                         *)
(* What the sensors show of tonight's plan is never far from what would be *)
(* written, for every size of the steps, length of the hold and clock.     *)
(* That it is not a small step away for longer than the hold needs the     *)
(* strengthening: while it is a small step away, what is shown is at least *)
(* as old as the state of the world it lags behind.                        *)
(*                                                                         *)
(* The published estimate at sunrise moves towards the calculated one at   *)
(* no more than the battery's pace, and catches up, for every figure, rate *)
(* and gap between readings.  The types are the whole invariant; the rest  *)
(* is the arithmetic of one reading.                                       *)
(*                                                                         *)
(* Last, the dashboard that is kept current, for every order of entries,   *)
(* path and layout, and any looks and updates that wait.  The invariant    *)
(* adds what a waiting look holds: one that nothing has outdated saw the   *)
(* dashboard of the entry that looks now, as it is stored.                 *)
(***************************************************************************)
EXTENDS ChargeTarget, SimulatedDay, HeldPlan, SunriseHold, StoredDashboard,
        NaturalsInduction, WellFoundedInduction, TLAPS

(* The search never goes below the minimum of the night it is for. *)
SearchAboveMinimum ==
  phase = "search" => /\ lo >= SeasonalMin(ask)
                      /\ ask.known
                      /\ ask.season # "fixed"

TargetInv == /\ TargetTypeOK
             /\ SearchAboveMinimum
             /\ SearchFindsLeast
             /\ ChargeCarriesTheDay
             /\ SkipIsSurvivable

USE TargetAssumption

-----------------------------------------------------------------------------
(* The fields of what is asked, for the steps that need their ranges. *)
LEMMA AskTyped ==
  ASSUME NEW a \in Ask
  PROVE  /\ a.known \in BOOLEAN /\ a.car \in BOOLEAN
         /\ a.least \in 0..Full /\ a.enough \in 0..(Full + 1)
         /\ a.overmorrow \in Nat
         /\ SeasonalMin(a) \in 0..Full
<1>1. a.least \in 0..Full /\ a.overmorrow \in Nat /\ a.enough \in 0..(Full + 1)
  BY DEF Ask
<1>2. SeasonalMin(a) \in 0..Full
  BY <1>1 DEF SeasonalMin, Higher
<1>3. a.known \in BOOLEAN /\ a.car \in BOOLEAN
  BY DEF Ask
<1> QED BY <1>1, <1>2, <1>3

(* What follows the search keeps a target at or above what the day needs,
   unless solar two days ahead reduces it, and always at the headroom. *)
LEMMA AdjustedTarget ==
  ASSUME ask \in Ask, NEW target \in 0..Full
  PROVE  LET final == Raised(WithCar(Reduced(target)))
         IN  /\ final \in 0..Full
             /\ ask.overmorrow = 0 => final >= target
             /\ final >= Lower(Full, SeasonalMin(ask) + Headroom)
<1> DEFINE least == SeasonalMin(ask)
           reduced == Reduced(target)
           bonus == WithCar(reduced)
<1>1. /\ least \in 0..Full /\ ask.overmorrow \in Nat /\ Headroom \in Nat
      /\ CarBonus \in Nat /\ SummerMin \in 0..Full
  BY AskTyped
<1>2. reduced \in 0..Full /\ (ask.overmorrow = 0 => reduced = target)
  BY <1>1 DEF Reduced, Higher
<1> HIDE DEF reduced
<1>3. bonus \in 0..Full /\ bonus >= reduced
  BY <1>1, <1>2 DEF WithCar, Lower
<1> HIDE DEF bonus
<1>4. /\ Raised(bonus) \in 0..Full /\ Raised(bonus) >= bonus
      /\ Raised(bonus) >= Lower(Full, least + Headroom)
  BY <1>1, <1>3 DEF Raised, Higher, Lower
<1>5. Raised(bonus) = Raised(WithCar(Reduced(target)))
  BY DEF bonus, reduced
<1> QED BY <1>1, <1>2, <1>3, <1>4, <1>5

(* Before anything is asked there is nothing to go wrong. *)
LEMMA TargetStarts == TargetInit => TargetInv
<1> SUFFICES ASSUME TargetInit PROVE TargetInv
  OBVIOUS
<1>1. TargetTypeOK
  BY DEF TargetInit, TargetTypeOK, Undecided, Decision
<1>2. phase = "idle"
  BY DEF TargetInit
<1> QED BY <1>1, <1>2 DEF TargetInv, SearchAboveMinimum, SearchFindsLeast,
                         ChargeCarriesTheDay, SkipIsSurvivable

(* A night decided without the search is decided soundly. *)
LEMMA Decided ==
  ASSUME TargetInv, NEW a \in Ask, NEW decision \in Decision, Decide(a, decision),
         a.season # "fixed" => decision.skip,
         decision.skip /\ a.known /\ a.season # "fixed" => a.lasts /\ a.holds /\ ~a.car
  PROVE  TargetInv'
<1>1. /\ phase' = "decided" /\ ask' = a /\ plan' = decision
      /\ lo' = lo /\ hi' = hi /\ written' = written
  BY DEF Decide
<1>2. TargetTypeOK'
  <2>1. lo \in 0..Full /\ hi \in 0..Full /\ written \in Decision
    BY DEF TargetInv, TargetTypeOK
  <2> QED BY <1>1, <2>1 DEF TargetTypeOK
<1>3. SearchAboveMinimum' /\ SearchFindsLeast'
  BY <1>1 DEF SearchAboveMinimum, SearchFindsLeast
<1>4. ChargeCarriesTheDay' /\ SkipIsSurvivable'
  BY <1>1 DEF ChargeCarriesTheDay, SkipIsSurvivable
<1> QED BY <1>2, <1>3, <1>4 DEF TargetInv

(* Every step keeps the invariant. *)
LEMMA TargetKeeps == TargetInv /\ [TargetNext]_targetVars => TargetInv'
<1> SUFFICES ASSUME TargetInv, [TargetNext]_targetVars PROVE TargetInv'
  OBVIOUS
<1>t. /\ phase \in {"idle", "search", "decided", "done"}
      /\ phase # "idle" => ask \in Ask
      /\ lo \in 0..Full /\ hi \in 0..Full
      /\ plan \in Decision /\ written \in Decision
  BY DEF TargetInv, TargetTypeOK
<1>1. CASE UNCHANGED targetVars
  <2>1. /\ phase' = phase /\ ask' = ask /\ lo' = lo /\ hi' = hi
        /\ plan' = plan /\ written' = written
    BY <1>1 DEF targetVars
  <2>2. TargetTypeOK'
    BY <1>t, <2>1 DEF TargetTypeOK
  <2>3. SearchAboveMinimum' /\ SearchFindsLeast'
    BY <2>1 DEF TargetInv, SearchAboveMinimum, SearchFindsLeast, Carries
  <2>4. ChargeCarriesTheDay' /\ SkipIsSurvivable'
    BY <2>1 DEF TargetInv, ChargeCarriesTheDay, SkipIsSurvivable
  <2> QED BY <2>2, <2>3, <2>4 DEF TargetInv
<1>2. ASSUME NEW a \in Ask, AskNoCapacity(a) PROVE TargetInv'
  <2>1. a.least \in Nat /\ ~a.known
    BY <1>2, AskTyped DEF AskNoCapacity
  <2> QED BY <1>2, <2>1, Decided DEF AskNoCapacity, Decision
<1>3. ASSUME NEW a \in Ask, AskWinter(a) PROVE TargetInv'
  <2>1. [skip |-> a.soc >= WinterSkip, target |-> Full] \in Decision
    BY DEF Decision
  <2> QED BY <1>3, <2>1, Decided DEF AskWinter
<1>4. ASSUME NEW a \in Ask, AskSkip(a) PROVE TargetInv'
  <2>1. SeasonalMin(a) + Buffer \in Nat
    BY AskTyped
  <2>2. [skip |-> TRUE, target |-> SeasonalMin(a) + Buffer] \in Decision
    BY <2>1 DEF Decision
  <2> QED BY <1>4, <2>2, Decided DEF AskSkip, Skips
<1>5. ASSUME NEW a \in Ask, AskSearch(a) PROVE TargetInv'
  <2>1. /\ phase' = "search" /\ ask' = a /\ lo' = SeasonalMin(a) /\ hi' = Full
        /\ plan' = plan /\ written' = written /\ a.known /\ a.season # "fixed"
    BY <1>5 DEF AskSearch
  <2>2. SeasonalMin(a) \in 0..Full
    BY AskTyped
  <2>3. TargetTypeOK'
    BY <1>t, <2>1, <2>2 DEF TargetTypeOK
  <2>4. SearchAboveMinimum' /\ SearchFindsLeast'
    BY <2>1, <2>2 DEF SearchAboveMinimum, SearchFindsLeast
  <2>5. ChargeCarriesTheDay' /\ SkipIsSurvivable'
    BY <2>1 DEF ChargeCarriesTheDay, SkipIsSurvivable
  <2> QED BY <2>3, <2>4, <2>5 DEF TargetInv
<1>6. ASSUME Halve PROVE TargetInv'
  <2> DEFINE mid == (lo + hi) \div 2
  <2>1. /\ phase = "search" /\ lo < hi
        /\ IF Carries(mid) THEN hi' = mid /\ lo' = lo ELSE lo' = mid + 1 /\ hi' = hi
        /\ phase' = phase /\ ask' = ask /\ plan' = plan /\ written' = written
    BY <1>6 DEF Halve
  <2>2. lo <= mid /\ mid < hi /\ mid \in 0..Full
    BY <2>1, <1>t
  <2> HIDE DEF mid
  <2>3. lo' \in 0..Full /\ hi' \in 0..Full /\ lo' <= hi' /\ lo' >= lo
    BY <2>1, <2>2, <1>t
  <2>4. TargetTypeOK'
    BY <2>1, <2>3, <1>t DEF TargetTypeOK
  <2>5. ask \in Ask /\ SeasonalMin(ask) \in 0..Full /\ ask.enough \in 0..(Full + 1)
    BY <2>1, <1>t, AskTyped
  <2>6. SearchAboveMinimum'
    BY <2>1, <2>3, <2>5, <1>t DEF TargetInv, SearchAboveMinimum
  <2>7. SearchFindsLeast'
    <3>1. ASSUME NEW target \in SeasonalMin(ask)..Full, target < lo'
          PROVE  ~(target >= ask.enough)
      <4>1. CASE Carries(mid)
        BY <4>1, <3>1, <2>1 DEF TargetInv, SearchFindsLeast, Carries
      <4>2. CASE ~Carries(mid)
        BY <4>2, <3>1, <2>1, <2>2, <2>5 DEF Carries
      <4> QED BY <4>1, <4>2
    <3>2. ASSUME NEW target \in SeasonalMin(ask)..Full, target >= hi', target < Full
          PROVE  target >= ask.enough
      <4>1. CASE Carries(mid)
        BY <4>1, <3>2, <2>1, <2>2, <2>5 DEF Carries
      <4>2. CASE ~Carries(mid)
        BY <4>2, <3>2, <2>1 DEF TargetInv, SearchFindsLeast, Carries
      <4> QED BY <4>1, <4>2
    <3> QED BY <3>1, <3>2, <2>1, <2>3 DEF SearchFindsLeast, Carries
  <2>8. ChargeCarriesTheDay' /\ SkipIsSurvivable'
    BY <2>1 DEF ChargeCarriesTheDay, SkipIsSurvivable
  <2> QED BY <2>4, <2>6, <2>7, <2>8 DEF TargetInv
<1>7. ASSUME Adjust PROVE TargetInv'
  <2> DEFINE final == Raised(WithCar(Reduced(lo)))
  <2>1. /\ phase = "search" /\ lo = hi /\ phase' = "decided"
        /\ plan' = [skip |-> FALSE, target |-> final]
        /\ ask' = ask /\ lo' = lo /\ hi' = hi /\ written' = written
    BY <1>7 DEF Adjust
  <2>2. ask \in Ask /\ ask.enough \in 0..(Full + 1) /\ SeasonalMin(ask) \in 0..Full
    BY <2>1, <1>t, AskTyped
  <2>3. /\ final \in 0..Full
        /\ ask.overmorrow = 0 => final >= lo
        /\ final >= Lower(Full, SeasonalMin(ask) + Headroom)
    BY <2>2, <1>t, AdjustedTarget
  <2> HIDE DEF final
  <2>4. lo >= Lower(Full, ask.enough)
    BY <2>1, <2>2, <1>t DEF TargetInv, SearchAboveMinimum, SearchFindsLeast, Carries, Lower
  <2>5. plan' \in Decision
    BY <2>1, <2>3 DEF Decision
  <2>6. TargetTypeOK'
    BY <2>1, <2>2, <2>5, <1>t DEF TargetTypeOK
  <2>7. SearchAboveMinimum' /\ SearchFindsLeast' /\ SkipIsSurvivable'
    BY <2>1 DEF SearchAboveMinimum, SearchFindsLeast, SkipIsSurvivable
  <2>8. Lower(Full, ask.enough) \in Int
    BY <2>2 DEF Lower
  <2>9. /\ ask.overmorrow = 0 => final >= Lower(Full, ask.enough)
        /\ final <= Full
    BY <2>3, <2>4, <2>8, <1>t
  <2>10. ChargeCarriesTheDay'
    BY <2>1, <2>3, <2>9 DEF ChargeCarriesTheDay
  <2> QED BY <2>6, <2>7, <2>10 DEF TargetInv
<1>8. ASSUME phase' = "done", ask' = ask, lo' = lo, hi' = hi, plan' = plan,
             written' \in Decision, phase = "decided"
      PROVE  TargetInv'
  <2>1. TargetTypeOK'
    BY <1>8, <1>t DEF TargetTypeOK
  <2> QED BY <1>8, <2>1 DEF TargetInv, SearchAboveMinimum, SearchFindsLeast,
                           ChargeCarriesTheDay, SkipIsSurvivable
<1>9. ASSUME WriteSkip PROVE TargetInv'
  <2>1. [plan EXCEPT !.skip = TRUE] \in Decision
    BY <1>t DEF Decision
  <2> QED BY <1>8, <1>9, <2>1 DEF WriteSkip
<1>10. ASSUME NEW target \in Overrides, WriteTarget(target) PROVE TargetInv'
  <2>1. [skip |-> FALSE, target |-> target] \in Decision
    BY DEF Decision
  <2> QED BY <1>8, <1>10, <2>1 DEF WriteTarget
<1>11. ASSUME NEW limit \in Overrides, WriteCapped(limit) PROVE TargetInv'
  <2>1. limit \in Nat /\ plan.target \in Nat
    BY <1>t DEF Decision
  <2>2. Lower(limit, plan.target) \in Nat
    BY <2>1 DEF Lower
  <2>3. [plan EXCEPT !.target = Lower(limit, @)] \in Decision
    BY <1>t, <2>2 DEF Decision
  <2> QED BY <1>8, <1>11, <2>3, <1>t DEF WriteCapped
<1> QED BY <1>1, <1>2, <1>3, <1>4, <1>5, <1>6, <1>7, <1>9, <1>10, <1>11 DEF TargetNext

THEOREM TargetInvariance == TargetSpec => []TargetInv
<1> QED BY TargetStarts, TargetKeeps, PTL DEF TargetSpec

-----------------------------------------------------------------------------
(* The search and the decisions stay within the battery. *)
THEOREM TargetTypeCorrect == TargetSpec => []TargetTypeOK
<1>1. TargetInv => TargetTypeOK
  BY DEF TargetInv
<1> QED BY <1>1, TargetInvariance, PTL

(* _find_minimum_charge_target returns the least target that carries the
   simulated day. *)
THEOREM FindsLeast == TargetSpec => []SearchFindsLeast
<1>1. TargetInv => SearchFindsLeast
  BY DEF TargetInv
<1> QED BY <1>1, TargetInvariance, PTL

(* A planned charge carries the day, whatever is done to the target after the
   search, and a planned night without one is a night the battery survives. *)
THEOREM Sound == TargetSpec => []PlanIsSound
<1>1. TargetInv => PlanIsSound
  BY DEF TargetInv, PlanIsSound
<1> QED BY <1>1, TargetInvariance, PTL

(* Both at once, as the run checks them. *)
THEOREM TargetSound == TargetSpec => []TargetIsSound
BY FindsLeast, Sound, PTL DEF TargetIsSound

-----------------------------------------------------------------------------
(* The simulated day.                                                      *)
(* No run of _simulate_min_soc is below the lowest level it reports. *)
LowestIsLowest == greater.lowest <= greater.soc

DayInv == /\ DayTypeOK
        /\ LowestIsLowest
        /\ MoreChargeIsSafer
        /\ EnergyAddsUp
        /\ OutlookIsThePlan
        /\ FloorHolds

HIDE TargetAssumption
USE DayAssumption

-----------------------------------------------------------------------------
(* Every day starts with the invariant: the batteries start in order, and
   the flow's where the higher one is. *)
LEMMA DayStarts == DayInit => DayInv
<1>1. SUFFICES ASSUME NEW low \in 0..Capacity, NEW high \in 0..Capacity, NEW least \in 1..Capacity,
                      low <= high, slot = 0, floor = least,
                      lesser = Starting(low), greater = Starting(high),
                      flow = [soc |-> high, import |-> 0, export |-> 0],
                      day = [start |-> high, net |-> 0, paused |-> 0]
               PROVE  DayInv
  BY DEF DayInit
<1>2. DayTypeOK
  BY <1>1 DEF DayTypeOK, Starting, Simulation
<1>3. LowestIsLowest /\ MoreChargeIsSafer /\ EnergyAddsUp
  BY <1>1 DEF LowestIsLowest, MoreChargeIsSafer, EnergyAddsUp, Starting
<1>4. OutlookIsThePlan /\ FloorHolds
  BY <1>1 DEF OutlookIsThePlan, FloorHolds, Starting, Lower
<1> QED BY <1>2, <1>3, <1>4 DEF DayInv

(* One turn of the loop keeps a run's level within the battery, and what a
   battery with more in it is left with is not less. *)
LEMMA SimulatedTyped ==
  ASSUME NEW run \in Simulation, NEW change \in Int
  PROVE  /\ Simulated(run, change) \in Simulation
         /\ run.lowest <= run.soc
              => Simulated(run, change).lowest <= Simulated(run, change).soc
<1>1. run.soc \in 0..Capacity /\ run.lowest \in 0..Capacity
  BY DEF Simulation
<1>2. Higher(0, Lower(Capacity, run.soc + change)) \in 0..Capacity
  BY <1>1 DEF Higher, Lower
<1> QED BY <1>1, <1>2 DEF Simulated, Simulation, Lower

LEMMA SimulatedMonotone ==
  ASSUME NEW less \in Simulation, NEW more \in Simulation, NEW change \in Int,
         less.soc <= more.soc, less.lowest <= more.lowest
  PROVE  /\ Simulated(less, change).soc <= Simulated(more, change).soc
         /\ Simulated(less, change).lowest <= Simulated(more, change).lowest
<1>1. /\ less.soc \in 0..Capacity /\ less.lowest \in 0..Capacity
      /\ more.soc \in 0..Capacity /\ more.lowest \in 0..Capacity
  BY DEF Simulation
<1> QED BY <1>1 DEF Simulated, Higher, Lower

(* Every slot of the day keeps the invariant. *)
LEMMA DayKeeps == DayInv /\ [DayNext]_dayVars => DayInv'
<1> SUFFICES ASSUME DayInv, [DayNext]_dayVars PROVE DayInv'
  OBVIOUS
<1>1. CASE UNCHANGED dayVars
  BY <1>1 DEF dayVars, DayInv, DayTypeOK, LowestIsLowest, MoreChargeIsSafer, EnergyAddsUp,
              OutlookIsThePlan, FloorHolds
<1>2. ASSUME NEW net \in Nets, NEW part \in 0..Higher(0, -net), Slot(net, part)
      PROVE  DayInv'
  <2> DEFINE change == BatteryNet(net, part)
             wanted == flow.soc + change
             lowest == Lower(flow.soc, floor)
  <2>1. net \in Int /\ part \in Nat /\ change \in Int /\ change - net \in Nat
    <3>1. net \in Int
      OBVIOUS
    <3>2. Higher(0, -net) \in Nat
      BY <3>1 DEF Higher
    <3>3. part \in Nat
      BY <3>2
    <3> QED BY <3>1, <3>3 DEF BatteryNet
  <2>2. /\ slot < Slots /\ slot' = slot + 1
        /\ lesser' = Simulated(lesser, change)
        /\ greater' = Simulated(greater, change)
        /\ flow' = Flowed(net, change)
        /\ day' = [day EXCEPT !.net = @ + net, !.paused = @ + change - net]
        /\ floor' = floor
    BY <1>2 DEF Slot
  <2>3. /\ lesser \in Simulation /\ greater \in Simulation
        /\ floor \in 1..Capacity /\ slot \in 0..Slots
        /\ flow \in [soc : 0..Capacity, import : Nat, export : Nat]
        /\ day \in [start : 0..Capacity, net : Int, paused : Nat]
    BY DEF DayInv, DayTypeOK
  <2>4. /\ flow.soc \in 0..Capacity /\ flow.import \in Nat /\ flow.export \in Nat
        /\ day.start \in 0..Capacity /\ day.net \in Int /\ day.paused \in Nat
        /\ greater.soc \in 0..Capacity /\ greater.lowest \in 0..Capacity
    BY <2>3 DEF Simulation
  <2>5. /\ day'.start = day.start
        /\ day'.net = day.net + net
        /\ day'.paused = day.paused + change - net
    BY <2>2, <2>3
  <2>6. /\ flow'.soc = Higher(lowest, Lower(Capacity, wanted))
        /\ flow'.import = flow.import + change - net + Higher(0, lowest - wanted)
        /\ flow'.export = flow.export + Higher(0, wanted - Capacity)
    BY <2>2 DEF Flowed
  <2>7. /\ greater'.soc = Higher(0, Lower(Capacity, greater.soc + change))
        /\ greater'.lowest = Lower(greater.lowest, greater'.soc)
    BY <2>2 DEF Simulated
  <2> HIDE DEF change
  <2>8. DayTypeOK'
    <3>1. lesser' \in Simulation /\ greater' \in Simulation
      BY <2>1, <2>2, <2>3, SimulatedTyped
    <3>2. slot' \in 0..Slots /\ floor' \in 1..Capacity
      BY <2>2, <2>3
    <3>3. flow' \in [soc : 0..Capacity, import : Nat, export : Nat]
      <4>1. flow'.soc \in 0..Capacity
        BY <2>1, <2>3, <2>4, <2>6 DEF Higher, Lower
      <4>2. flow'.import \in Nat /\ flow'.export \in Nat
        BY <2>1, <2>3, <2>4, <2>6 DEF Higher, Lower
      <4>3. flow' = [soc |-> flow'.soc, import |-> flow'.import, export |-> flow'.export]
        BY <2>2 DEF Flowed
      <4> HIDE DEF wanted, lowest
      <4> QED BY <4>1, <4>2, <4>3
    <3>4. day' \in [start : 0..Capacity, net : Int, paused : Nat]
      <4>1. day.net + net \in Int /\ day.paused + change - net \in Nat
        BY <2>1, <2>4
      <4> QED BY <4>1, <2>2, <2>3
    <3> QED BY <3>1, <3>2, <3>3, <3>4, ZenonT(60) DEF DayTypeOK
  <2>9. LowestIsLowest'
    BY <2>1, <2>2, <2>3, SimulatedTyped DEF DayInv, LowestIsLowest
  <2>10. MoreChargeIsSafer'
    BY <2>1, <2>2, <2>3, SimulatedMonotone DEF DayInv, MoreChargeIsSafer
  <2>11. EnergyAddsUp'
    <3>1. flow.soc = day.start + day.net + flow.import - flow.export
      BY DEF DayInv, EnergyAddsUp
    <3>2. wanted \in Int /\ lowest \in 0..Capacity
      BY <2>1, <2>3, <2>4 DEF Lower
    <3> HIDE DEF wanted, lowest
    <3>3. /\ Higher(lowest, Lower(Capacity, wanted))
               = wanted + Higher(0, lowest - wanted) - Higher(0, wanted - Capacity)
          /\ Higher(0, lowest - wanted) \in Int /\ Higher(0, wanted - Capacity) \in Int
      BY <3>2 DEF Higher, Lower
    <3>4. wanted = flow.soc + change
      BY DEF wanted
    <3>5. flow'.soc = day'.start + day'.net + flow'.import - flow'.export
      <4> DEFINE short == Higher(0, lowest - wanted)
                 spilt == Higher(0, wanted - Capacity)
      <4>1. flow'.soc = flow.soc + change + short - spilt
        BY <2>6, <3>3, <3>4
      <4>2. /\ flow'.import = flow.import + change - net + short
            /\ flow'.export = flow.export + spilt
            /\ short \in Int /\ spilt \in Int
        BY <2>6, <3>3
      <4> HIDE DEF short, spilt
      <4> QED BY <4>1, <4>2, <3>1, <2>1, <2>4, <2>5
    <3> QED BY <3>5 DEF EnergyAddsUp
  <2>12. OutlookIsThePlan'
    <3>1. SUFFICES ASSUME greater'.lowest >= floor
                   PROVE  flow'.soc = greater'.soc /\ flow'.import = day'.paused
      BY <2>2 DEF OutlookIsThePlan
    <3>2. greater.lowest >= floor /\ greater'.soc >= floor
      BY <2>3, <2>4, <2>7, <2>1, <3>1 DEF Lower, Higher
    <3>3. /\ flow.soc = greater.soc /\ flow.import = day.paused
          /\ greater.lowest <= greater.soc
      BY <3>2 DEF DayInv, OutlookIsThePlan, LowestIsLowest
    <3>4. lowest = floor
      BY <3>2, <3>3, <2>3, <2>4 DEF Lower
    <3>5. wanted >= floor
      BY <3>2, <3>3, <2>1, <2>3, <2>4, <2>7 DEF Higher, Lower
    <3> QED BY <3>3, <3>4, <3>5, <2>1, <2>3, <2>4, <2>5, <2>6, <2>7 DEF Higher, Lower
  <2>13. FloorHolds'
    <3>1. flow.soc >= Lower(floor, day.start) /\ flow.soc >= greater.soc
      BY DEF DayInv, FloorHolds
    <3>2. flow'.soc >= Lower(floor, day.start)
      BY <3>1, <2>1, <2>3, <2>4, <2>6 DEF Higher, Lower
    <3>3. flow'.soc >= greater'.soc
      BY <3>1, <2>1, <2>3, <2>4, <2>6, <2>7 DEF Higher, Lower
    <3> QED BY <3>2, <3>3, <2>2, <2>5 DEF FloorHolds
  <2> QED BY <2>8, <2>9, <2>10, <2>11, <2>12, <2>13 DEF DayInv
<1> QED BY <1>1, <1>2 DEF DayNext

THEOREM DayInvariance == DaySpec => []DayInv
<1> QED BY DayStarts, DayKeeps, PTL DEF DaySpec

-----------------------------------------------------------------------------
(* The levels stay within the battery and the sums stay sums. *)
THEOREM DayTypeCorrect == DaySpec => []DayTypeOK
<1>1. DayInv => DayTypeOK
  BY DEF DayInv
<1> QED BY <1>1, DayInvariance, PTL

(* The search of _find_minimum_charge_target may halve: of two levels, the
   higher one never leads to a lower minimum. *)
THEOREM Monotone == DaySpec => []MoreChargeIsSafer
<1>1. DayInv => MoreChargeIsSafer
  BY DEF DayInv
<1> QED BY <1>1, DayInvariance, PTL

(* _simulate_flows loses and invents nothing, keeps its floor, and agrees with
   the search's simulation wherever the plan relies on it. *)
THEOREM Outlook == DaySpec => []OutlookHolds
<1>1. DayInv => OutlookHolds
  BY DEF DayInv, OutlookHolds
<1> QED BY <1>1, DayInvariance, PTL

(* Both at once, as the run checks them. *)
THEOREM DaySound == DaySpec => []DayIsSound
BY Monotone, Outlook, PTL DEF DayIsSound

-----------------------------------------------------------------------------

(* What is shown lags only as long as it is held. *)
LagsPlan == held.decision # NoPlan /\ PlanChange(held.decision, fresh, soc) >= Step
              => same = 0 \/ (same <= held.age /\ same < Dwell)

LagsWindow == held.window # NoWindow /\ EndDistance(held.window, planned) >= WindowStep
                => same = 0 \/ (same <= held.windowAge /\ same < Dwell)

(* A plan or a window is shown only once there is one to show. *)
SomethingFresh == /\ held.decision # NoPlan => fresh # NoPlan
                  /\ held.window # NoWindow => planned # NoWindow

HoldInv == /\ HoldTypeOK
        /\ SomethingFresh
        /\ ShownIsClose
        /\ LagsPlan
        /\ LagsWindow

HIDE DayAssumption
USE HoldAssumption

-----------------------------------------------------------------------------
LEMMA DecisionTyped ==
  ASSUME NEW d \in Decisions
  PROVE  d # NoPlan /\ d.skip \in BOOLEAN /\ d.target \in Nat
<1>1. d.target \in Targets \cup SkipTargets /\ d.skip \in {TRUE, FALSE}
  BY DEF Decisions
<1>2. d.target \in Nat
  BY <1>1
<1>3. NoPlan.target = -1
  BY DEF NoPlan
<1>4. d # NoPlan
  BY <1>2, <1>3
<1> QED BY <1>1, <1>2, <1>4

LEMMA WindowTyped ==
  ASSUME NEW w \in Windows
  PROVE  w # NoWindow /\ w.start \in Nat /\ w.end \in 0..(Day - 1)
BY DEF Windows, NoWindow

(* The measures are natural numbers, and nothing is away from itself. *)
LEMMA PlanChangeTyped ==
  ASSUME NEW d \in Decisions, NEW f \in Decisions, NEW level \in Socs, cap \in Caps
  PROVE  /\ PlanChange(d, f, level) \in Nat
         /\ PlanChange(d, d, level) = 0
<1>1. d.target \in Nat /\ f.target \in Nat /\ cap \in Nat /\ level \in Nat
  BY DecisionTyped
<1>2. Shown(d) \in Nat /\ Shown(f) \in Nat
  BY <1>1 DEF Shown, Lower
<1>3. Apart(Shown(f), Shown(d)) \in Nat /\ Apart(Shown(d), Shown(d)) = 0
  BY <1>2 DEF Apart, Higher
<1>4. Higher(0, Shown(d) - level) \in Nat /\ Higher(0, Shown(f) - level) \in Nat
  BY <1>1, <1>2 DEF Higher
<1> QED BY <1>3, <1>4 DEF PlanChange

LEMMA EndDistanceTyped ==
  ASSUME NEW w \in Windows, NEW v \in Windows
  PROVE  /\ EndDistance(w, v) \in Nat
         /\ EndDistance(w, w) = 0
<1>1. w.end \in 0..(Day - 1) /\ v.end \in 0..(Day - 1)
  BY WindowTyped
<1> QED BY <1>1 DEF EndDistance, Apart, Higher, Lower

(* Nothing is shown at the start, and nothing lags. *)
LEMMA HoldStarts == HoldInit => HoldInv
<1> SUFFICES ASSUME HoldInit PROVE HoldInv
  OBVIOUS
<1>1. held = Released /\ held.decision = NoPlan /\ held.window = NoWindow
  BY DEF HoldInit, Released
<1>2. Released \in Held
  BY DEF Released, Held, Ages
<1>3. /\ soc \in Socs /\ running = FALSE /\ cap \in Caps /\ fresh = NoPlan
      /\ planned = NoWindow /\ same = 0
  BY DEF HoldInit
<1>4. same \in 0..Dwell
  BY <1>3
<1>8. running \in BOOLEAN
  BY <1>3
<1>5. held \in Held
  BY <1>1, <1>2
<1>6. fresh \in Decisions \cup {NoPlan} /\ planned \in Windows \cup {NoWindow}
  BY <1>3
<1>7. HoldTypeOK
  BY <1>3, <1>4, <1>5, <1>6, <1>8, ZenonT(60) DEF HoldTypeOK
<1> QED BY <1>1, <1>7 DEF HoldInv, SomethingFresh, ShownIsClose, LagsPlan, LagsWindow

(* The parts of a held record, for the steps that need their ranges. *)
LEMMA HeldTyped ==
  ASSUME NEW h \in Held
  PROVE  /\ h.decision \in Decisions \cup {NoPlan}
         /\ h.age \in Ages /\ h.windowAge \in Ages
         /\ h.charged \in BOOLEAN
         /\ h.window \in Windows \cup {NoWindow}
BY DEF Held

(* A cycle's record, part by part. *)
LEMMA Settled ==
  ASSUME held \in Held, NEW f \in Decisions, NEW w \in Windows \cup {NoWindow},
         NEW level \in Socs, NEW on \in BOOLEAN, NEW ticks \in Nat,
         Cycle(f, w, level, on, ticks)
  PROVE  LET g == Aged(held, ticks)
         IN  /\ held' \in Held
             /\ g.age = Lower(Dwell, held.age + ticks)
             /\ g.windowAge = Lower(Dwell, held.windowAge + ticks)
             /\ g.decision = held.decision /\ g.window = held.window
             /\ g.charged = held.charged
             /\ Publishes(g, f, level, on) => held'.decision = f /\ held'.age = 0
             /\ ~Publishes(g, f, level, on) =>
                  held'.decision = held.decision /\ held'.age = g.age
             /\ PublishesWindow(g, w, on) => held'.window = w /\ held'.windowAge = 0
             /\ ~PublishesWindow(g, w, on) =>
                  held'.window = held.window /\ held'.windowAge = g.windowAge
<1> DEFINE g == Aged(held, ticks)
           new == Publishes(g, f, level, on)
           s == Settle(g, f, level, on)
<1>1. held.age \in Ages /\ held.windowAge \in Ages
  BY HeldTyped
<1>2. Lower(Dwell, held.age + ticks) \in Ages /\ Lower(Dwell, held.windowAge + ticks) \in Ages
  BY <1>1 DEF Ages, Lower
<1>3. /\ g.age = Lower(Dwell, held.age + ticks)
      /\ g.windowAge = Lower(Dwell, held.windowAge + ticks)
      /\ g.decision = held.decision /\ g.window = held.window /\ g.charged = held.charged
      /\ g \in Held
  BY <1>2 DEF Aged, Held
<1>4. held' = SettleWindow(s, w, on)
  BY DEF Cycle
<1> HIDE DEF g
<1>5. /\ s.decision = (IF new THEN f ELSE g.decision)
      /\ s.age = (IF new THEN 0 ELSE g.age)
      /\ s.window = g.window /\ s.windowAge = g.windowAge
      /\ s = [g EXCEPT !.decision = s.decision, !.age = s.age, !.charged = s.charged]
  BY <1>3 DEF Settle, Held
<1>6. s.charged \in BOOLEAN
  BY <1>3 DEF Settle, Held
<1>7. s.decision \in Decisions \cup {NoPlan} /\ s.age \in Ages
  BY <1>3, <1>5, HeldTyped DEF Ages
<1> HIDE DEF new
<1>8. s \in Held
  BY <1>3, <1>5, <1>6, <1>7 DEF Held
<1> HIDE DEF s
<1>9. PublishesWindow(s, w, on) = PublishesWindow(g, w, on)
  BY <1>5 DEF PublishesWindow
<1>10. CASE PublishesWindow(g, w, on)
  <2>1. held' = [s EXCEPT !.window = w, !.windowAge = 0]
    BY <1>10, <1>4, <1>9 DEF SettleWindow
  <2>2. 0 \in Ages
    BY DEF Ages
  <2>3. /\ held' \in Held /\ held'.window = w /\ held'.windowAge = 0
        /\ held'.decision = s.decision /\ held'.age = s.age
    BY <2>1, <2>2, <1>8 DEF Held
  <2> QED BY <1>10, <2>3, <1>3, <1>5 DEF g, new
<1>11. CASE ~PublishesWindow(g, w, on)
  <2>1. held' = s
    BY <1>11, <1>4, <1>9 DEF SettleWindow
  <2> QED BY <1>11, <2>1, <1>3, <1>5, <1>8 DEF g, new
<1> QED BY <1>10, <1>11

-----------------------------------------------------------------------------
(* A cycle keeps the invariant. *)
LEMMA CycleKeeps ==
  ASSUME HoldInv, NEW f \in Decisions, NEW w \in Windows \cup {NoWindow},
         NEW level \in Socs, NEW on \in BOOLEAN, NEW ticks \in Nat,
         Cycle(f, w, level, on, ticks)
  PROVE  HoldInv'
<1> DEFINE g == Aged(held, ticks)
           new == Publishes(g, f, level, on)
           newWindow == PublishesWindow(g, w, on)
           steady == /\ f = fresh /\ w = planned /\ level = soc /\ ~on
                     /\ held.age >= 0 /\ held.windowAge >= 0
<1>1. /\ soc \in Socs /\ cap \in Caps /\ held \in Held /\ same \in 0..Dwell
      /\ fresh \in Decisions \cup {NoPlan} /\ planned \in Windows \cup {NoWindow}
  BY DEF HoldInv, HoldTypeOK
<1>2. /\ soc' = level /\ running' = on /\ fresh' = f /\ planned' = w /\ cap' = cap
      /\ held' = SettleWindow(Settle(g, f, level, on), w, on)
      /\ same' = IF steady THEN Lower(Dwell, same + ticks) ELSE 0
  BY DEF Cycle
<1>3. /\ held' \in Held
      /\ g.age = Lower(Dwell, held.age + ticks)
      /\ g.windowAge = Lower(Dwell, held.windowAge + ticks)
      /\ g.decision = held.decision /\ g.window = held.window
      /\ new => held'.decision = f /\ held'.age = 0
      /\ ~new => held'.decision = held.decision /\ held'.age = g.age
      /\ newWindow => held'.window = w /\ held'.windowAge = 0
      /\ ~newWindow => held'.window = held.window /\ held'.windowAge = g.windowAge
  BY <1>1, <1>2, Settled
<1>4. held.age \in Ages /\ held.windowAge \in Ages
  BY <1>1, HeldTyped
<1> HIDE DEF g
<1>5. same' \in 0..Dwell /\ (~steady => same' = 0)
  BY <1>1, <1>2 DEF Lower
<1>6. HoldTypeOK'
  BY <1>1, <1>2, <1>3, <1>5 DEF HoldTypeOK
<1>7. SomethingFresh'
  <2>1. f # NoPlan
    BY DecisionTyped
  <2>2. ASSUME w = NoWindow PROVE newWindow
    BY <2>2 DEF PublishesWindow
  <2> QED BY <2>1, <2>2, <1>2, <1>3 DEF SomethingFresh
<1>8. \A d \in Decisions : /\ PlanChange(d, f, level) \in Nat
                           /\ PlanChange(f, f, level) = 0
  BY <1>1, PlanChangeTyped
<1>9. /\ new => held'.decision = f
      /\ ~new => /\ held'.decision = held.decision /\ held.decision \in Decisions
                 /\ held'.age = g.age
  BY <1>1, <1>3, HeldTyped DEF Publishes
<1>11. ASSUME ~new, PlanChange(held.decision, f, level) >= Step
       PROVE  \/ SkipDuringCharge(held.decision, f, on)
              \/ /\ ~StoodLongEnough(g.age)
                 /\ PlanChange(held.decision, f, level) < Large
  <2>1. PlanChange(held.decision, f, level) \in Nat
    BY <1>11, <1>8, <1>9
  <2> QED BY <1>11, <1>3, <2>1 DEF Publishes
<1>12. PlanChange(held'.decision, f, level) < Large
         \/ SkipDuringCharge(held'.decision, f, on)
  <2>1. CASE new
    BY <2>1, <1>2, <1>8, <1>9
  <2>2. CASE ~new
    <3>1. PlanChange(held.decision, f, level) \in Nat
      BY <2>2, <1>8, <1>9
    <3> QED BY <2>2, <1>2, <1>9, <1>11, <3>1
  <2> QED BY <2>1, <2>2
<1>13. /\ newWindow => held'.window = w
       /\ ~newWindow => /\ held'.window = held.window /\ held.window \in Windows
                        /\ w \in Windows /\ held'.windowAge = g.windowAge
  BY <1>1, <1>3, HeldTyped DEF PublishesWindow
<1>14. ASSUME ~newWindow, ~on, EndDistance(held.window, w) >= WindowStep
       PROVE  /\ ~StoodLongEnough(g.windowAge)
              /\ EndDistance(held.window, w) < WindowLarge
  <2>1. EndDistance(held.window, w) \in Nat
    BY <1>14, <1>13, EndDistanceTyped
  <2> QED BY <1>14, <1>3, <2>1 DEF PublishesWindow
<1>15. held'.window # NoWindow =>
         EndDistance(held'.window, planned') < WindowLarge \/ on
  <2>1. CASE newWindow
    BY <2>1, <1>2, <1>13, EndDistanceTyped
  <2>2. CASE ~newWindow
    <3>1. EndDistance(held.window, w) \in Nat
      BY <2>2, <1>13, EndDistanceTyped
    <3> QED BY <2>2, <1>2, <1>13, <1>14, <3>1
  <2> QED BY <2>1, <2>2
<1>16. ShownIsClose'
  <2>1. \/ (PlanChange(held.decision, fresh, soc) < Large)'
        \/ SkipDuringCharge(held.decision, fresh, running)'
    BY <1>12, <1>2 DEF SkipDuringCharge, PlanChange, Shown
  <2>2. held'.window # NoWindow => (EndDistance(held.window, planned) < WindowLarge)' \/ running'
    BY <1>15, <1>2 DEF EndDistance
  <2> QED BY <2>1, <2>2 DEF ShownIsClose
<1>17. LagsPlan'
  <2>1. SUFFICES ASSUME PlanChange(held'.decision, f, level) >= Step, steady
                 PROVE  same' <= held'.age /\ same' < Dwell
    BY <1>2, <1>5 DEF LagsPlan, PlanChange, Shown
  <2>2. ~new
    BY <2>1, <1>8, <1>9
  <2>3. ~StoodLongEnough(g.age)
    BY <2>1, <2>2, <1>9, <1>11 DEF SkipDuringCharge
  <2>4. same = 0 \/ (same <= held.age /\ same < Dwell)
    BY <2>1, <2>2, <1>9, DecisionTyped DEF HoldInv, LagsPlan
  <2> QED BY <2>1, <2>2, <2>3, <2>4, <1>1, <1>2, <1>3, <1>4, <1>9
          DEF StoodLongEnough, Lower, Ages
<1>18. LagsWindow'
  <2>1. SUFFICES ASSUME held'.window # NoWindow, EndDistance(held'.window, w) >= WindowStep,
                        steady
                 PROVE  same' <= held'.windowAge /\ same' < Dwell
    BY <1>2, <1>5 DEF LagsWindow, EndDistance
  <2>2. ~newWindow
    BY <2>1, <1>1, <1>13, EndDistanceTyped
  <2>3. ~StoodLongEnough(g.windowAge)
    BY <2>1, <2>2, <1>13, <1>14
  <2>4. same = 0 \/ (same <= held.windowAge /\ same < Dwell)
    BY <2>1, <2>2, <1>13, WindowTyped DEF HoldInv, LagsWindow
  <2> QED BY <2>1, <2>2, <2>3, <2>4, <1>1, <1>2, <1>3, <1>4, <1>13
          DEF StoodLongEnough, Lower, Ages
<1> QED BY <1>6, <1>7, <1>16, <1>17, <1>18 DEF HoldInv

(* Every step keeps the invariant. *)
LEMMA HoldKeeps == HoldInv /\ [HoldNext]_holdVars => HoldInv'
<1> SUFFICES ASSUME HoldInv, [HoldNext]_holdVars PROVE HoldInv'
  OBVIOUS
<1>1. ASSUME NEW f \in Decisions, NEW w \in Windows \cup {NoWindow}, NEW level \in Socs,
             NEW on \in BOOLEAN, NEW ticks \in Passes, Cycle(f, w, level, on, ticks)
      PROVE  HoldInv'
  BY <1>1, CycleKeeps
<1>2. ASSUME NEW age \in Ages, NEW windowAge \in Ages, SetClockBack(age, windowAge)
      PROVE  HoldInv'
  <2>1. /\ held' = [held EXCEPT !.age = age, !.windowAge = windowAge] /\ same' = 0
        /\ soc' = soc /\ running' = running /\ cap' = cap /\ fresh' = fresh
        /\ planned' = planned
    BY <1>2 DEF SetClockBack
  <2>2. held \in Held
    BY DEF HoldInv, HoldTypeOK
  <2>3. /\ held' \in Held /\ held'.decision = held.decision /\ held'.window = held.window
    BY <2>1, <2>2 DEF Held
  <2>4. HoldTypeOK'
    BY <2>1, <2>3 DEF HoldInv, HoldTypeOK
  <2>5. LagsPlan' /\ LagsWindow'
    BY <2>1 DEF LagsPlan, LagsWindow
  <2>6. SomethingFresh'
    BY <2>1, <2>3 DEF HoldInv, SomethingFresh
  <2>7. ShownIsClose'
    BY <2>1, <2>3 DEF HoldInv, ShownIsClose, PlanChange, Shown, EndDistance, SkipDuringCharge
  <2> QED BY <2>4, <2>5, <2>6, <2>7 DEF HoldInv
<1>3. ASSUME held' = Released, cap' \in Caps, same' \in 0..Dwell,
             UNCHANGED <<soc, running, fresh, planned>>
      PROVE  HoldInv'
  <2>1. held'.decision = NoPlan /\ held'.window = NoWindow
    BY <1>3 DEF Released
  <2>2. Released \in Held
    BY DEF Released, Held, Ages
  <2>3. HoldTypeOK'
    BY <1>3, <2>2 DEF HoldInv, HoldTypeOK
  <2> QED BY <2>1, <2>3 DEF HoldInv, SomethingFresh, ShownIsClose, LagsPlan, LagsWindow
<1>4. CASE Release
  BY <1>3, <1>4 DEF Release, HoldInv, HoldTypeOK
<1>5. ASSUME NEW c \in Caps, ChangeOptions(c) PROVE HoldInv'
  BY <1>3, <1>5 DEF ChangeOptions
<1>6. CASE UNCHANGED holdVars
  BY <1>6 DEF holdVars, HoldInv, HoldTypeOK, SomethingFresh, ShownIsClose, LagsPlan, LagsWindow,
              PlanChange, Shown, EndDistance, SkipDuringCharge
<1> QED BY <1>1, <1>2, <1>4, <1>5, <1>6 DEF HoldNext

THEOREM HoldInvariance == HoldSpec => []HoldInv
<1> QED BY HoldStarts, HoldKeeps, PTL DEF HoldSpec

-----------------------------------------------------------------------------
(* What is held is a plan and a window the code can publish. *)
THEOREM HoldTypeCorrect == HoldSpec => []HoldTypeOK
<1>1. HoldInv => HoldTypeOK
  BY DEF HoldInv
<1> QED BY <1>1, HoldInvariance, PTL

(* The sensors are never a large step away from the plan. *)
THEOREM Close == HoldSpec => []ShownIsClose
<1>1. HoldInv => ShownIsClose
  BY DEF HoldInv
<1> QED BY <1>1, HoldInvariance, PTL

(* The sensors are never a small step away for longer than the hold. *)
THEOREM CatchesUp == HoldSpec => []ShownCatchesUp
<1>1. HoldInv => ShownCatchesUp
  <2> SUFFICES ASSUME HoldInv, same = Dwell, Dwell > 0 PROVE
                 /\ held.decision # NoPlan => PlanChange(held.decision, fresh, soc) < Step
                 /\ held.window # NoWindow => EndDistance(held.window, planned) < WindowStep
    BY DEF ShownCatchesUp
  <2>1. /\ soc \in Socs /\ cap \in Caps /\ held.decision \in Decisions \cup {NoPlan}
        /\ fresh \in Decisions \cup {NoPlan} /\ planned \in Windows \cup {NoWindow}
        /\ held.window \in Windows \cup {NoWindow}
    BY HeldTyped DEF HoldInv, HoldTypeOK
  <2>2. ASSUME held.decision # NoPlan PROVE PlanChange(held.decision, fresh, soc) < Step
    <3>1. PlanChange(held.decision, fresh, soc) \in Nat
      BY <2>1, <2>2, PlanChangeTyped DEF HoldInv, SomethingFresh
    <3> QED BY <2>2, <3>1 DEF HoldInv, LagsPlan
  <2>3. ASSUME held.window # NoWindow PROVE EndDistance(held.window, planned) < WindowStep
    <3>1. EndDistance(held.window, planned) \in Nat
      BY <2>1, <2>3, EndDistanceTyped DEF HoldInv, SomethingFresh
    <3> QED BY <2>3, <3>1 DEF HoldInv, LagsWindow
  <2> QED BY <2>2, <2>3
<1> QED BY <1>1, HoldInvariance, PTL

(* What a cycle shows is what it held or the fresh plan. *)
LEMMA Shows ==
  ASSUME held \in Held, NEW f \in Decisions, NEW w \in Windows \cup {NoWindow},
         NEW level \in Socs, NEW on \in BOOLEAN, NEW ticks \in Nat,
         Cycle(f, w, level, on, ticks)
  PROVE  /\ Aged(held, ticks).decision = held.decision
         /\ \/ held'.decision = held.decision
            \/ Publishes(Aged(held, ticks), f, level, on) /\ held'.decision = f
BY Settled

(* No cycle replaces a charge that has done its work by a skip. *)
LEMMA DoneCycle ==
  ASSUME held \in Held, cap \in Caps, held.decision \in Decisions,
         NEW f \in Decisions, NEW w \in Windows \cup {NoWindow},
         NEW level \in Socs, NEW on \in BOOLEAN, NEW ticks \in Nat,
         Cycle(f, w, level, on, ticks),
         ~held.decision.skip, held.charged, level >= Shown(held.decision)
  PROVE  ~held'.decision.skip
<1> DEFINE g == Aged(held, ticks)
           new == Publishes(g, f, level, on)
<1>1. /\ g.decision = held.decision
      /\ held'.decision = held.decision \/ (new /\ held'.decision = f)
  BY Shows
<1>0. g.charged = held.charged
  BY DEF Aged, Held
<1> HIDE DEF g
<1>2. ASSUME new, f.skip PROVE FALSE
  <2>1. level \in Nat /\ Shown(held.decision) \in Nat
    BY DecisionTyped DEF Shown, Lower
  <2>2. PlanChange(held.decision, f, level) = Higher(0, Shown(held.decision) - level)
    BY <1>2, DecisionTyped DEF PlanChange
  <2>3. PlanChange(held.decision, f, level) = 0
    BY <2>1, <2>2 DEF Higher
  <2> QED BY <1>0, <1>1, <1>2, <2>1, <2>3, DecisionTyped DEF Publishes
<1> QED BY <1>1, <1>2, DecisionTyped

(* A charge that has done its work is not shown as a skip. *)
THEOREM DoneStays == HoldSpec => DoneChargeStaysShown
<1> DEFINE Stays == held.decision # NoPlan /\ ~held.decision.skip /\ held.charged
                      /\ soc' >= Shown(held.decision)
                      => held' = Released \/ ~held'.decision.skip
<1>1. HoldInv /\ [HoldNext]_holdVars => [Stays]_holdVars
  <2> SUFFICES ASSUME HoldInv, HoldNext, held.decision # NoPlan, ~held.decision.skip,
                      held.charged, soc' >= Shown(held.decision), held' # Released
               PROVE  ~held'.decision.skip
    OBVIOUS
  <2>1. held \in Held /\ cap \in Caps /\ held.decision \in Decisions
    BY HeldTyped DEF HoldInv, HoldTypeOK
  <2>2. ASSUME NEW f \in Decisions, NEW w \in Windows \cup {NoWindow}, NEW level \in Socs,
               NEW on \in BOOLEAN, NEW ticks \in Passes, Cycle(f, w, level, on, ticks)
        PROVE  ~held'.decision.skip
    <3>1. ticks \in Nat /\ soc' = level
      BY <2>2 DEF Cycle
    <3> QED BY <2>1, <2>2, <3>1, DoneCycle
  <2>3. ASSUME NEW age \in Ages, NEW windowAge \in Ages, SetClockBack(age, windowAge)
        PROVE  ~held'.decision.skip
    BY <2>1, <2>3 DEF SetClockBack, Held
  <2> QED BY <2>2, <2>3 DEF HoldNext, Release, ChangeOptions
<1> QED BY <1>1, HoldInvariance, PTL DEF HoldSpec, DoneChargeStaysShown

(* Both at once, as the run checks them. *)
THEOREM FollowsPlan == HoldSpec => []ShownFollowsPlan
BY Close, CatchesUp, PTL DEF ShownFollowsPlan

-----------------------------------------------------------------------------
(* The published estimate at sunrise. *)

HIDE HoldAssumption
USE SunriseAssumption

(* What is published when the battery's pace bounds the step. *)
LEMMA Followed ==
  ASSUME NEW shown \in Int, NEW wanted \in Int, NEW most \in Nat \ {0}
  PROVE  LET now == shown + Clipped(wanted - shown, most)
         IN  /\ now \in Int
             /\ \/ now = wanted
                \/ Apart(now, wanted) = Apart(shown, wanted) - most
BY DEF Clipped, Apart, Higher

LEMMA RateTimesGap ==
  ASSUME NEW rate \in Rates, NEW gap \in Gaps, rate > 0, gap > 0
  PROVE  rate * gap \in Nat \ {0}
<1>1. rate \in Nat \ {0} /\ gap \in Nat \ {0}
  OBVIOUS
<1> QED BY <1>1

LEMMA ReadingTyped ==
  ASSUME SunriseTypeOK, NEW level \in Levels, NEW gap \in Gaps, NEW rate \in Rates,
         Reading(level, gap, rate)
  PROVE  /\ SunriseTypeOK'
         /\ calculated' = level
         /\ pace' # -1 => /\ pace' = rate * gap
                          /\ pace' \in Nat \ {0}
                          /\ published' = published + Clipped(level - published, pace')
<1> DEFINE paced == known /\ rate > 0 /\ gap > 0 /\ gap <= StaleAfter
<1>1. /\ known' = TRUE
      /\ calculated' = level
      /\ pace' = IF paced THEN rate * gap ELSE -1
      /\ published' = IF paced THEN published + Clipped(level - published, rate * gap)
                      ELSE level
  BY DEF Reading
<1>2. level \in Int /\ published \in Int
  BY DEF SunriseTypeOK
<1>3. CASE paced
  <2>1. rate * gap \in Nat \ {0}
    BY <1>3, RateTimesGap
  <2>2. pace' = rate * gap /\ published' = published + Clipped(level - published, rate * gap)
    BY <1>1, <1>3
  <2>3. published' \in Int
    BY <2>1, <2>2, <1>2, Followed
  <2> QED BY <2>1, <2>2, <2>3, <1>1, <1>2 DEF SunriseTypeOK
<1>4. CASE ~paced
  BY <1>1, <1>2, <1>4 DEF SunriseTypeOK
<1> QED BY <1>3, <1>4

LEMMA ReadingKeeps == SunriseTypeOK /\ [SunriseNext]_sunriseVars => SunriseTypeOK'
<1> SUFFICES ASSUME SunriseTypeOK, [SunriseNext]_sunriseVars PROVE SunriseTypeOK'
  OBVIOUS
<1>1. CASE \E level \in Levels, gap \in Gaps, rate \in Rates : Reading(level, gap, rate)
  BY <1>1, ReadingTyped
<1>2. CASE Restart
  <2>1. known' \in BOOLEAN
    BY <1>2 DEF Restart
  <2>2. calculated' = calculated /\ published' = published /\ pace' \in Int
    BY <1>2 DEF Restart
  <2> QED BY <2>1, <2>2 DEF SunriseTypeOK
<1>3. CASE UNCHANGED sunriseVars
  BY <1>3 DEF sunriseVars, SunriseTypeOK
<1> QED BY <1>1, <1>2, <1>3 DEF SunriseNext

(* Every figure is a number of points. *)
THEOREM SunriseTypeCorrect == SunriseSpec => []SunriseTypeOK
<1>1. SunriseInit => SunriseTypeOK
  <2> SUFFICES ASSUME SunriseInit PROVE SunriseTypeOK
    OBVIOUS
  <2>1. known \in BOOLEAN
    BY DEF SunriseInit
  <2>2. calculated \in Int /\ published \in Int /\ pace \in Int
    BY DEF SunriseInit
  <2> QED BY <2>1, <2>2 DEF SunriseTypeOK
<1> QED BY <1>1, ReadingKeeps, PTL DEF SunriseSpec

(* The properties of one step, from the types alone. *)
LEMMA PacedStep ==
  ASSUME SunriseTypeOK, SunriseNext, pace' # -1
  PROVE  /\ \/ published' = calculated'
            \/ Apart(published', calculated') = Apart(published, calculated') - pace'
         /\ published' \in Int /\ published \in Int
         /\ calculated' \in Int /\ calculated \in Int
         /\ pace' \in Nat
<1>1. ~Restart
  BY DEF Restart
<1>2. PICK level \in Levels, gap \in Gaps, rate \in Rates : Reading(level, gap, rate)
  BY <1>1 DEF SunriseNext
<1>3. /\ calculated' = level /\ pace' \in Nat \ {0}
      /\ published' = published + Clipped(level - published, pace')
  BY <1>2, ReadingTyped
<1>4. published \in Int /\ calculated \in Int /\ level \in Int
  BY DEF SunriseTypeOK
<1> QED BY <1>3, <1>4, Followed

(* The estimate follows the calculated one at the battery's pace, and is not
   left behind by one that keeps to it. *)
THEOREM Follows == SunriseSpec => EstimateFollows
<1>1. ASSUME SunriseTypeOK, SunriseNext, pace' # -1,
             Apart(calculated', calculated) <= pace'
      PROVE  Apart(published', calculated') <= Apart(published, calculated)
  BY <1>1, PacedStep DEF Apart, Higher
<1>2. SunriseTypeOK /\ [SunriseNext]_sunriseVars
        => [ pace' # -1 =>
               /\ \/ published' = calculated'
                  \/ Apart(published', calculated') = Apart(published, calculated') - pace'
               /\ Apart(calculated', calculated) <= pace' =>
                    Apart(published', calculated') <= Apart(published, calculated)
           ]_sunriseVars
  BY <1>1, PacedStep DEF sunriseVars
<1> QED BY <1>2, SunriseTypeCorrect, PTL DEF SunriseSpec, EstimateFollows

-----------------------------------------------------------------------------
(* The dashboard that is kept current.                                      *)
USE DashboardAssumption

Lives == {"none", "off", "setup", "loaded"}
LifeOf == [BoardEntries -> Lives]
Content == {NoPath} \cup ((BoardEntries \cup {"blank", "yaml", "strategy", "user"}) \X Nat)
Look == [entry : BoardEntries, path : Paths, config : Content, fresh : BOOLEAN]
Update == [entry : BoardEntries, path : Paths, config : Content, made : Content]

BoardTypeOK ==
  /\ life \in LifeOf
  /\ keptPath \in [BoardEntries -> Paths \cup {NoPath}]
  /\ layouts \in [BoardEntries -> Nat]
  /\ board \in [Paths -> Content]
  /\ looks \in SUBSET Look /\ updating \in SUBSET Update
  /\ settled \in BOOLEAN /\ late \in BOOLEAN /\ changesMade \in Nat

(* A look that is fresh saw the dashboard that the primary entry keeps, as it is.              *)
FreshLooks ==
  \A l \in looks : l.fresh =>
    /\ l.entry = Primary /\ l.path = keptPath[l.entry]
    /\ l.config = board[l.path] /\ Storage(l.config)

SettledLooks == settled => \A l \in looks : l.fresh

(* A repair that outlives the last loaded entry was raised by a look that waited over its end. *)
NoOneToRepair == Primary = NoPath => outOfDate = NoPath \/ late

BoardInv ==
  /\ BoardTypeOK
  /\ FreshLooks
  /\ SettledLooks
  /\ NoOneToRepair
  /\ RepairIsRight
  /\ ActionsFollowEntries

-----------------------------------------------------------------------------
(* The primary entry is the first that is loaded.                           *)
LoadedIn(l) == {i \in DOMAIN EntryOrder : l[EntryOrder[i]] = "loaded"}
FirstOf(places) ==
    IF places = {} THEN NoPath ELSE EntryOrder[CHOOSE i \in places : \A j \in places : i <= j]
PrimaryOf(l) == FirstOf(LoadedIn(l))

LEMMA FirstIsThere ==
  ASSUME NEW places \in SUBSET Nat, places # {}
  PROVE  \E i \in places : \A j \in places : i <= j
<1> DEFINE R == {pair \in Nat \X Nat : pair[1] < pair[2]}
<1>1. OpToRel(<, Nat) = R
  BY Zenon DEF OpToRel
<1>2. IsWellFoundedOn(R, Nat)
  BY <1>1, NatLessThanWellFounded
<1>3. PICK i \in places : \A j \in places : ~(<<j, i>> \in R)
  BY <1>2, WFMin
<1>4. ASSUME NEW j \in places PROVE i <= j
  <2>1. i \in Nat /\ j \in Nat
    OBVIOUS
  <2>2. ~(j < i)
    BY <1>3, <2>1
  <2> QED BY <2>1, <2>2
<1> QED BY <1>4

LEMMA PrimaryFor ==
  ASSUME NEW l
  PROVE  /\ PrimaryOf(l) = NoPath <=> \A e \in BoardEntries : l[e] # "loaded"
         /\ PrimaryOf(l) # NoPath => PrimaryOf(l) \in BoardEntries /\ l[PrimaryOf(l)] = "loaded"
<1> DEFINE loaded == LoadedIn(l)
           first == CHOOSE i \in loaded : \A j \in loaded : i <= j
<1>1. loaded \in SUBSET Nat
  BY DEF DashboardAssumption, LoadedIn
<1>2. loaded # {} => first \in loaded
  <2> SUFFICES ASSUME loaded # {} PROVE first \in loaded
    OBVIOUS
  <2>1. \E i \in loaded : \A j \in loaded : i <= j
    BY <1>1, FirstIsThere
  <2> QED BY <2>1
<1>3. PrimaryOf(l) = IF loaded = {} THEN NoPath ELSE EntryOrder[first]
  BY DEF PrimaryOf, FirstOf
<1>4. loaded = {} <=> \A e \in BoardEntries : l[e] # "loaded"
  BY DEF BoardEntries, LoadedIn
<1> HIDE DEF first
<1>5. loaded # {} => EntryOrder[first] # NoPath /\ EntryOrder[first] \in BoardEntries /\ l[EntryOrder[first]] = "loaded"
  BY <1>2 DEF BoardEntries, DashboardAssumption, LoadedIn
<1> QED BY <1>3, <1>4, <1>5

LEMMA SameLoaded ==
  ASSUME NEW l, NEW m, \A e \in BoardEntries : (l[e] = "loaded") <=> (m[e] = "loaded")
  PROVE  PrimaryOf(l) = PrimaryOf(m)
<1>1. LoadedIn(l) = LoadedIn(m)
  BY DEF BoardEntries, LoadedIn
<1> QED BY <1>1 DEF PrimaryOf

LEMMA PrimaryIs == Primary = PrimaryOf(life) /\ Primary' = PrimaryOf(life')
  BY DEF Primary, LoadedEntries, PrimaryOf, FirstOf, LoadedIn

LEMMA SamePrimary ==
  ASSUME \A e \in BoardEntries : (life[e] = "loaded") <=> (life'[e] = "loaded")
  PROVE  Primary' = Primary
  BY PrimaryIs, SameLoaded

-----------------------------------------------------------------------------
(* What a look begins with.                                                 *)
Seen(e, paths, content) == [entry |-> e, path |-> paths[e], config |-> content[paths[e]], fresh |-> TRUE]
Here(e, paths, content) == paths[e] # NoPath /\ Storage(content[paths[e]])

LEMMA LookBegins ==
  ASSUME NEW e \in BoardEntries, NEW paths \in [BoardEntries -> Paths \cup {NoPath}],
         NEW content \in [Paths -> Content]
  PROVE  LET now == LookNow(e, paths, content)
             waiting == Seen(e, paths, content)
             here == Here(e, paths, content)
         IN  /\ \A l : l \in now.waits => Looks(e) /\ here /\ l = waiting
             /\ ~Looks(e) \/ here => now.ends = FALSE /\ now.paths = paths
             /\ Looks(e) /\ ~here => now.ends = TRUE /\ now.paths = [paths EXCEPT ![e] = NoPath]
             /\ now.paths \in [BoardEntries -> Paths \cup {NoPath}]
             /\ now.waits \in SUBSET Look
             /\ now.ends \in BOOLEAN
<1> DEFINE now == LookNow(e, paths, content)
           waiting == Seen(e, paths, content)
           here == Here(e, paths, content)
<1>1. now = IF ~Looks(e) THEN [ends |-> FALSE, waits |-> {}, paths |-> paths]
            ELSE IF here THEN [ends |-> FALSE, waits |-> {waiting}, paths |-> paths]
            ELSE [ends |-> TRUE, waits |-> {}, paths |-> [paths EXCEPT ![e] = NoPath]]
  BY DEF LookNow, Seen, Here
<1>2. here => waiting \in Look
  BY DEF Look, Seen, Here
<1>3. [paths EXCEPT ![e] = NoPath] \in [BoardEntries -> Paths \cup {NoPath}]
  OBVIOUS
<1> HIDE DEF now, waiting, here
<1>4. CASE ~Looks(e)
  <2>1. now = [ends |-> FALSE, waits |-> {}, paths |-> paths]
    BY <1>1, <1>4
  <2>2. now.ends = FALSE /\ now.waits = {} /\ now.paths = paths
    BY <2>1
  <2> QED BY <1>4, <2>2 DEF now, waiting, here
<1>5. CASE Looks(e) /\ here
  <2>1. now = [ends |-> FALSE, waits |-> {waiting}, paths |-> paths]
    BY <1>1, <1>5
  <2>2. now.ends = FALSE /\ now.waits = {waiting} /\ now.paths = paths
    BY <2>1
  <2> QED BY <1>2, <1>5, <2>2 DEF now, waiting, here
<1>6. CASE Looks(e) /\ ~here
  <2>1. now = [ends |-> TRUE, waits |-> {}, paths |-> [paths EXCEPT ![e] = NoPath]]
    BY <1>1, <1>6
  <2>2. now.ends = TRUE /\ now.waits = {} /\ now.paths = [paths EXCEPT ![e] = NoPath]
    BY <2>1
  <2> QED BY <1>3, <1>6, <2>2 DEF now, waiting, here
<1> QED BY <1>4, <1>5, <1>6

LEMMA LookSees ==
  ASSUME NEW e \in BoardEntries, NEW paths \in [BoardEntries -> Paths \cup {NoPath}],
         NEW content \in [Paths -> Content], NEW l \in LookNow(e, paths, content).waits
  PROVE  Looks(e) /\ Here(e, paths, content) /\ l = Seen(e, paths, content)
  BY DEF LookNow, Here, Seen

(* Looks that have become stale.                                            *)
LEMMA StaleLooks ==
  ASSUME looks \in SUBSET Look
  PROVE  Stale \in SUBSET Look /\ \A l \in Stale : ~l.fresh
  BY DEF Stale, Look

-----------------------------------------------------------------------------
(* What the steps keep.                                                     *)
Forgets ==
  \A e \in BoardEntries :
    keptPath[e] # NoPath /\ keptPath'[e] = NoPath => ~Storage(board[keptPath[e]]) \/ life'[e] = "none"

LEMMA LookKeeps ==
  ASSUME BoardInv, NEW e \in BoardEntries, life[e] = "loaded",
         looks' = looks \cup LookNow(e, keptPath, board).waits,
         keptPath' = LookNow(e, keptPath, board).paths,
         outOfDate' = IF LookNow(e, keptPath, board).ends THEN NoPath ELSE outOfDate,
         settled' = IF LookNow(e, keptPath, board).ends THEN \A l \in looks : l.fresh ELSE settled,
         UNCHANGED <<life, layouts, board, updating, late, changesMade, actions, notice, script>>
  PROVE  BoardInv' /\ Forgets
<1> DEFINE now == LookNow(e, keptPath, board)
           here == Here(e, keptPath, board)
           waiting == Seen(e, keptPath, board)
<1>1. keptPath \in [BoardEntries -> Paths \cup {NoPath}] /\ board \in [Paths -> Content] /\ looks \in SUBSET Look
  BY DEF BoardInv, BoardTypeOK
<1>2. Primary' = Primary
  BY SamePrimary
<1>3. Looks(e) => Primary = e
  BY PrimaryIs, PrimaryFor DEF Looks, IsPrimary
<1>4. /\ \A l : l \in now.waits => Looks(e) /\ here /\ l = waiting
      /\ ~Looks(e) \/ here => now.ends = FALSE /\ now.paths = keptPath
      /\ Looks(e) /\ ~here => now.ends = TRUE /\ now.paths = [keptPath EXCEPT ![e] = NoPath]
      /\ now.paths \in [BoardEntries -> Paths \cup {NoPath}]
      /\ now.waits \in SUBSET Look
      /\ now.ends \in BOOLEAN
  BY <1>1, LookBegins
<1>5. /\ looks' = looks \cup now.waits /\ keptPath' = now.paths
      /\ outOfDate' = IF now.ends THEN NoPath ELSE outOfDate
      /\ settled' = IF now.ends THEN \A l \in looks : l.fresh ELSE settled
  OBVIOUS
<1> HIDE DEF now
<1>6. settled' \in BOOLEAN
  <2>1. settled \in BOOLEAN /\ (\A l \in looks : l.fresh) \in BOOLEAN
    BY DEF BoardInv, BoardTypeOK
  <2> QED BY <1>4, <1>5, <2>1
<1>7. BoardTypeOK'
  BY <1>1, <1>4, <1>5, <1>6 DEF BoardInv, BoardTypeOK
<1>8. CASE ~Looks(e)
  <2>1. UNCHANGED <<looks, keptPath, outOfDate, settled>>
    BY <1>4, <1>5, <1>8
  <2>2. FreshLooks' /\ SettledLooks'
    BY <1>2, <2>1 DEF BoardInv, FreshLooks, SettledLooks, Storage
  <2>3. NoOneToRepair' /\ ActionsFollowEntries'
    BY <1>2, <2>1 DEF BoardInv, NoOneToRepair, ActionsFollowEntries
  <2>4. RepairIsRight'
    BY <1>2, <2>1 DEF BoardInv, RepairIsRight, Storage, Generated
  <2>5. Forgets
    BY <2>1 DEF Forgets
  <2> QED BY <1>7, <2>2, <2>3, <2>4, <2>5 DEF BoardInv
<1>9. CASE Looks(e) /\ here
  <2>1. (\A l \in looks' : l \in looks \/ l = waiting) /\ UNCHANGED <<keptPath, outOfDate, settled>>
    BY <1>4, <1>5, <1>9
  <2>2. /\ waiting.fresh /\ waiting.entry = e /\ waiting.path = keptPath[e] /\ waiting.config = board[keptPath[e]]
        /\ Storage(waiting.config)
    BY <1>9 DEF Seen, Here
  <2> HIDE DEF waiting
  <2>3. FreshLooks'
    <3>1. ASSUME NEW l \in looks', l.fresh
          PROVE  l.entry = Primary /\ l.path = keptPath[l.entry] /\ l.config = board[l.path] /\ Storage(l.config)
      BY <1>3, <1>9, <2>1, <2>2, <3>1 DEF BoardInv, FreshLooks
    <3> QED BY <1>2, <2>1, <3>1 DEF FreshLooks, Storage
  <2>4. SettledLooks'
    BY <2>1, <2>2 DEF BoardInv, SettledLooks
  <2>5. NoOneToRepair' /\ ActionsFollowEntries'
    BY <1>2, <2>1 DEF BoardInv, NoOneToRepair, ActionsFollowEntries
  <2>6. RepairIsRight'
    BY <1>2, <2>1 DEF BoardInv, RepairIsRight, Storage, Generated
  <2>7. Forgets
    BY <2>1 DEF Forgets
  <2> QED BY <1>7, <2>3, <2>4, <2>5, <2>6, <2>7 DEF BoardInv
<1>10. CASE Looks(e) /\ ~here
  <2>1. /\ looks' = looks /\ keptPath' = [keptPath EXCEPT ![e] = NoPath] /\ outOfDate' = NoPath
        /\ settled' = (\A l \in looks : l.fresh)
    BY <1>4, <1>5, <1>10
  <2>2. Primary = e
    BY <1>3, <1>10
  <2>3. \A l \in looks : ~l.fresh
    <3>1. ASSUME NEW l \in looks, l.fresh PROVE FALSE
      <4>1. l.path \in Paths /\ l.entry = e /\ l.path = keptPath[e] /\ Storage(board[keptPath[e]])
        BY <1>1, <2>2, <3>1 DEF BoardInv, FreshLooks, Look
      <4> QED BY <1>10, <4>1 DEF DashboardAssumption, Here
    <3> QED BY <3>1
  <2>4. FreshLooks'
    BY <2>1, <2>3 DEF FreshLooks
  <2>5. SettledLooks'
    BY <2>1 DEF SettledLooks
  <2>6. RepairIsRight'
    BY <1>1, <1>2, <2>1, <2>2 DEF RepairIsRight
  <2>7. NoOneToRepair' /\ ActionsFollowEntries'
    BY <1>2, <2>1 DEF BoardInv, NoOneToRepair, ActionsFollowEntries
  <2>8. Forgets
    BY <1>1, <1>10, <2>1 DEF Forgets, Here
  <2> QED BY <1>7, <2>4, <2>5, <2>6, <2>7, <2>8 DEF BoardInv
<1> QED BY <1>8, <1>9, <1>10

(* When every look has become stale and nothing is settled, only what goes with the entries is left. *)
LEMMA StaleKeeps ==
  ASSUME BoardTypeOK', \A l \in looks' : ~l.fresh, settled' = FALSE, NoOneToRepair', ActionsFollowEntries'
  PROVE  BoardInv'
  BY DEF BoardInv, FreshLooks, SettledLooks, RepairIsRight

LEMMA LookEndsKeeps == BoardInv /\ LookEnds => BoardInv' /\ Forgets
<1> SUFFICES ASSUME BoardInv, LookEnds PROVE BoardInv' /\ Forgets
  OBVIOUS
<1>1. PICK l \in looks :
        /\ looks' = looks \ {l}
        /\ \/ /\ outOfDate' = IF l.config = Generated(l.entry) THEN NoPath ELSE l.path
              /\ settled' = (l.fresh /\ \A other \in looks' : other.fresh)
              /\ late' = (late \/ life[l.entry] # "loaded")
           \/ UNCHANGED <<outOfDate, settled, late>>
        /\ UNCHANGED <<life, keptPath, announced, layouts, board, host, updating, quiet, backup, notice, script,
                       actions, changesMade, updatesMade>>
  BY DEF LookEnds
<1>2. Primary' = Primary
  BY <1>1, SamePrimary
<1>3. l \in Look /\ l.path \in Paths /\ l.entry \in BoardEntries /\ l.fresh \in BOOLEAN
  BY <1>1 DEF BoardInv, BoardTypeOK, Look
<1>4. FreshLooks'
  BY <1>1, <1>2 DEF BoardInv, FreshLooks, Storage
<1>5. Forgets
  BY <1>1 DEF Forgets
<1>6. CASE UNCHANGED <<outOfDate, settled, late>>
  BY <1>1, <1>2, <1>4, <1>5, <1>6 DEF BoardInv, BoardTypeOK, SettledLooks, NoOneToRepair, RepairIsRight,
                                      ActionsFollowEntries, Storage, Generated
<1>7. CASE /\ outOfDate' = IF l.config = Generated(l.entry) THEN NoPath ELSE l.path
           /\ settled' = (l.fresh /\ \A other \in looks' : other.fresh)
           /\ late' = (late \/ life[l.entry] # "loaded")
  <2>1. BoardTypeOK'
    <3>1. (l.fresh /\ \A other \in looks' : other.fresh) \in BOOLEAN /\ (late \/ life[l.entry] # "loaded") \in BOOLEAN
      OBVIOUS
    <3> QED BY <1>1, <1>7, <3>1 DEF BoardInv, BoardTypeOK
  <2>2. SettledLooks'
    BY <1>1, <1>7 DEF SettledLooks
  <2>3. Primary = NoPath => late'
    <3> SUFFICES ASSUME Primary = NoPath PROVE late'
      OBVIOUS
    <3>1. life[l.entry] # "loaded"
      BY <1>3, PrimaryIs, PrimaryFor
    <3> QED BY <1>7, <3>1
  <2>4. NoOneToRepair'
    BY <1>2, <2>3 DEF NoOneToRepair
  <2>5. ActionsFollowEntries'
    <3>1. (\A e \in BoardEntries : life[e] = "none") => Primary = NoPath
      BY PrimaryIs, PrimaryFor
    <3> QED BY <1>1, <1>2, <2>3, <3>1 DEF BoardInv, ActionsFollowEntries
  <2>6. RepairIsRight'
    <3> SUFFICES ASSUME settled', Primary # NoPath PROVE RepairIsRight'
      BY <1>2 DEF RepairIsRight
    <3>1. l.fresh
      BY <1>7
    <3>2. l.entry = Primary /\ l.path = keptPath[Primary] /\ l.config = board[l.path] /\ Storage(l.config)
      BY <1>1, <3>1 DEF BoardInv, FreshLooks
    <3>3. keptPath[Primary] # NoPath
      BY <1>3, <3>2 DEF DashboardAssumption
    <3> QED BY <1>1, <1>2, <1>7, <3>2, <3>3 DEF RepairIsRight, Storage, Generated
  <2> QED BY <1>4, <1>5, <2>1, <2>2, <2>4, <2>5, <2>6 DEF BoardInv
<1> QED BY <1>1, <1>6, <1>7

(* Steps of an update, or of the host, that nobody sees.                    *)
LEMMA UnseenKeeps ==
  ASSUME BoardInv, updating' \in SUBSET Update,
         UNCHANGED <<life, keptPath, layouts, board, looks, outOfDate, notice, script, actions, settled, late,
                     changesMade>>
  PROVE  BoardInv' /\ Forgets
<1>1. Primary' = Primary
  BY SamePrimary
<1>2. BoardTypeOK'
  BY DEF BoardInv, BoardTypeOK
<1>3. FreshLooks' /\ SettledLooks'
  BY <1>1 DEF BoardInv, FreshLooks, SettledLooks, Storage
<1>4. NoOneToRepair' /\ ActionsFollowEntries'
  BY <1>1 DEF BoardInv, NoOneToRepair, ActionsFollowEntries
<1>5. RepairIsRight'
  BY <1>1 DEF BoardInv, RepairIsRight, Storage, Generated
<1>6. Forgets
  BY DEF Forgets
<1> QED BY <1>2, <1>3, <1>4, <1>5, <1>6 DEF BoardInv

LEMMA GeneratedIsContent ==
  ASSUME BoardTypeOK, NEW e \in BoardEntries PROVE Generated(e) \in Content
  BY DEF BoardTypeOK, Generated, Content

LEMMA UpdateBeginsKeeps == BoardInv /\ UpdateBegins => BoardInv' /\ Forgets
<1> SUFFICES ASSUME BoardInv, UpdateBegins PROVE BoardInv' /\ Forgets
  OBVIOUS
<1>1. PICK given \in Paths \cup {NoPath} :
        LET e == Primary
            target == IF given = NoPath /\ e # NoPath THEN keptPath[e] ELSE given
        IN /\ e # NoPath /\ target # NoPath
           /\ updating' = updating \cup {[entry |-> e, path |-> target, config |-> board[target], made |-> NoPath]}
           /\ UNCHANGED <<life, keptPath, layouts, board, looks, outOfDate, notice, script, actions, settled, late,
                          changesMade>>
  BY DEF UpdateBegins
<1> DEFINE target == IF given = NoPath /\ Primary # NoPath THEN keptPath[Primary] ELSE given
<1>2. Primary \in BoardEntries
  BY <1>1, PrimaryIs, PrimaryFor
<1>3. target \in Paths
  BY <1>1, <1>2 DEF BoardInv, BoardTypeOK
<1>4. board[target] \in Content /\ NoPath \in Content
  BY <1>3 DEF BoardInv, BoardTypeOK, Content
<1>5. [entry |-> Primary, path |-> target, config |-> board[target], made |-> NoPath] \in Update
  BY <1>2, <1>3, <1>4 DEF Update
<1>6. updating' \in SUBSET Update
  BY <1>1, <1>5 DEF BoardInv, BoardTypeOK
<1> QED BY <1>1, <1>6, UnseenKeeps

LEMMA UpdateBacksUpKeeps == BoardInv /\ UpdateBacksUp => BoardInv' /\ Forgets
<1> SUFFICES ASSUME BoardInv, UpdateBacksUp PROVE BoardInv' /\ Forgets
  OBVIOUS
<1>1. PICK u \in updating :
        /\ \/ updating' = (updating \ {u}) \cup {[u EXCEPT !.made = Generated(u.entry)]}
           \/ updating' = updating \ {u}
        /\ UNCHANGED <<life, keptPath, layouts, board, looks, outOfDate, notice, script, actions, settled, late,
                       changesMade>>
  BY DEF UpdateBacksUp
<1>2. u \in Update /\ updating \in SUBSET Update
  BY <1>1 DEF BoardInv, BoardTypeOK
<1>3. Generated(u.entry) \in Content
  BY <1>2, GeneratedIsContent DEF BoardInv, Update
<1>4. [u EXCEPT !.made = Generated(u.entry)] \in Update
  BY <1>2, <1>3 DEF Update
<1> QED BY <1>1, <1>2, <1>4, UnseenKeeps

LEMMA UpdateSavesKeeps == BoardInv /\ UpdateSaves => BoardInv' /\ Forgets
<1> SUFFICES ASSUME BoardInv, UpdateSaves PROVE BoardInv' /\ Forgets
  OBVIOUS
<1>1. PICK u \in updating :
        /\ u.made # NoPath /\ updating' = updating \ {u}
        /\ IF ~Storage(board[u.path])
           THEN UNCHANGED <<board, keptPath, looks, outOfDate, settled>>
           ELSE LET content == [board EXCEPT ![u.path] = u.made]
                    paths == [keptPath EXCEPT ![u.entry] = u.path]
                    now == LookNow(u.entry, paths, content)
                    heard == keptPath[u.entry] # u.path /\ life[u.entry] = "loaded"
                IN /\ board' = content /\ settled' = FALSE
                   /\ looks' = Stale \cup (IF heard THEN now.waits ELSE {})
                   /\ IF life[u.entry] = "none" THEN UNCHANGED <<keptPath, outOfDate>>
                      ELSE keptPath' = paths /\ outOfDate' = NoPath
        /\ UNCHANGED <<life, layouts, notice, script, actions, late, changesMade>>
  BY DEF UpdateSaves
<1> DEFINE content == [board EXCEPT ![u.path] = u.made]
           paths == [keptPath EXCEPT ![u.entry] = u.path]
           heard == keptPath[u.entry] # u.path /\ life[u.entry] = "loaded"
           now == LookNow(u.entry, paths, content)
<1>2. /\ u \in Update /\ updating \in SUBSET Update /\ looks \in SUBSET Look
      /\ keptPath \in [BoardEntries -> Paths \cup {NoPath}] /\ board \in [Paths -> Content]
      /\ u.entry \in BoardEntries /\ u.path \in Paths /\ u.made \in Content /\ u.path # NoPath
  BY <1>1 DEF BoardInv, BoardTypeOK, Update, DashboardAssumption
<1>3. Primary' = Primary
  BY <1>1, SamePrimary
<1>4. CASE ~Storage(board[u.path])
  <2>1. updating' \in SUBSET Update
    BY <1>1, <1>2
  <2> QED BY <1>1, <1>4, <2>1, UnseenKeeps
<1>5. CASE Storage(board[u.path])
  <2>1. /\ board' = content /\ settled' = FALSE
        /\ looks' = Stale \cup (IF heard THEN now.waits ELSE {})
        /\ IF life[u.entry] = "none" THEN UNCHANGED <<keptPath, outOfDate>>
           ELSE keptPath' = paths /\ outOfDate' = NoPath
    BY <1>1, <1>5
  <2>2. content \in [Paths -> Content] /\ paths \in [BoardEntries -> Paths \cup {NoPath}]
        /\ paths[u.entry] = u.path
    BY <1>2
  <2>3. keptPath' \in [BoardEntries -> Paths \cup {NoPath}]
    BY <1>2, <2>1, <2>2
  <2> DEFINE waiting == Seen(u.entry, paths, content)
             here == Here(u.entry, paths, content)
  <2>4. /\ now.waits \in SUBSET Look
        /\ \A l : l \in now.waits => Looks(u.entry) /\ here /\ l = waiting
    <3> HIDE DEF content, paths
    <3>1. u.entry \in BoardEntries
      BY <1>2
    <3>2. paths \in [BoardEntries -> Paths \cup {NoPath}] /\ content \in [Paths -> Content]
      BY <2>2
    <3>3. now.waits \in SUBSET Look
      BY <3>1, <3>2, LookBegins
    <3>4. ASSUME NEW l \in now.waits PROVE Looks(u.entry) /\ here /\ l = waiting
      BY <3>1, <3>2, <3>4, LookSees
    <3> QED BY <3>3, <3>4
  <2>5. /\ waiting.fresh /\ waiting.entry = u.entry /\ waiting.path = paths[u.entry]
        /\ waiting.config = content[paths[u.entry]]
    BY DEF Seen
  <2>6. Stale \in SUBSET Look /\ \A l \in Stale : ~l.fresh
    BY <1>2, StaleLooks
  <2> HIDE DEF content, paths, now, waiting
  <2>7. looks' \in SUBSET Look
    BY <2>1, <2>4, <2>6
  <2>8. BoardTypeOK'
    BY <1>1, <1>2, <2>1, <2>2, <2>3, <2>7 DEF BoardInv, BoardTypeOK
  <2>9. FreshLooks'
    <3>1. ASSUME NEW l \in looks', l.fresh
          PROVE  l.entry = Primary /\ l.path = keptPath'[l.entry] /\ l.config = board'[l.path] /\ Storage(l.config)
      <4>1. l = waiting /\ heard /\ Looks(u.entry) /\ here
        BY <2>1, <2>4, <2>6, <3>1
      <4>2. Primary = u.entry
        BY <1>2, <4>1, PrimaryIs, PrimaryFor DEF Looks, IsPrimary
      <4>3. keptPath' = paths
        BY <2>1, <4>1
      <4> QED BY <2>1, <2>5, <4>1, <4>2, <4>3 DEF Here
    <3> QED BY <1>3, <3>1 DEF FreshLooks, Storage
  <2>10. SettledLooks' /\ RepairIsRight'
    BY <2>1 DEF SettledLooks, RepairIsRight
  <2>11. NoOneToRepair' /\ ActionsFollowEntries'
    BY <1>1, <1>3, <2>1 DEF BoardInv, NoOneToRepair, ActionsFollowEntries
  <2>12. Forgets
    BY <1>2, <2>1 DEF Forgets, paths
  <2> QED BY <2>8, <2>9, <2>10, <2>11, <2>12 DEF BoardInv
<1> QED BY <1>4, <1>5

LEMMA SetupBeginsKeeps == BoardInv /\ SetupBegins => BoardInv' /\ Forgets
<1> SUFFICES ASSUME BoardInv, SetupBegins PROVE BoardInv' /\ Forgets
  OBVIOUS
<1>1. PICK e \in BoardEntries :
        /\ life[e] = "off" /\ life' = [life EXCEPT ![e] = "setup"]
        /\ UNCHANGED <<keptPath, layouts, board, host, looks, updating, quiet, outOfDate, backup, script,
                       actions, settled, late, changesMade, updatesMade>>
  BY DEF SetupBegins
<1>2. life \in LifeOf
  BY DEF BoardInv, BoardTypeOK
<1>3. \A x \in BoardEntries : (life[x] = "loaded") <=> (life'[x] = "loaded")
  BY <1>1, <1>2 DEF LifeOf
<1>4. Primary' = Primary
  BY <1>3, SamePrimary
<1>5. life' \in LifeOf /\ life'[e] = "setup"
  BY <1>1, <1>2 DEF LifeOf, Lives
<1>6. BoardTypeOK'
  BY <1>1, <1>5 DEF BoardInv, BoardTypeOK
<1>7. FreshLooks' /\ SettledLooks'
  BY <1>1, <1>4 DEF BoardInv, FreshLooks, SettledLooks, Storage
<1>8. NoOneToRepair' /\ ActionsFollowEntries'
  BY <1>1, <1>4, <1>5 DEF BoardInv, NoOneToRepair, ActionsFollowEntries
<1>9. RepairIsRight'
  BY <1>1, <1>4 DEF BoardInv, RepairIsRight, Storage, Generated
<1>10. Forgets
  BY <1>1 DEF Forgets
<1> QED BY <1>6, <1>7, <1>8, <1>9, <1>10 DEF BoardInv

LEMMA SetupEndsKeeps == BoardInv /\ SetupEnds => BoardInv' /\ Forgets
<1> SUFFICES ASSUME BoardInv, SetupEnds PROVE BoardInv' /\ Forgets
  OBVIOUS
<1> DEFINE now(e) == IF host = "started" THEN LookNow(e, keptPath, board)
                     ELSE [ends |-> FALSE, waits |-> {}, paths |-> keptPath]
<1>1. PICK e \in BoardEntries :
        /\ life[e] = "setup"
        /\ \/ /\ life' = [life EXCEPT ![e] = "loaded"] /\ actions' = TRUE
              /\ looks' = Stale \cup now(e).waits /\ keptPath' = now(e).paths
              /\ outOfDate' = IF now(e).ends THEN NoPath ELSE outOfDate
              /\ settled' = FALSE
           \/ life' = [life EXCEPT ![e] = "off"] /\ UNCHANGED <<actions, looks, keptPath, outOfDate, settled>>
        /\ UNCHANGED <<layouts, board, updating, notice, script, late, changesMade>>
  BY DEF SetupEnds
<1>2. /\ life \in LifeOf /\ keptPath \in [BoardEntries -> Paths \cup {NoPath}] /\ board \in [Paths -> Content]
      /\ looks \in SUBSET Look
  BY DEF BoardInv, BoardTypeOK
<1>3. CASE life' = [life EXCEPT ![e] = "off"] /\ UNCHANGED <<actions, looks, keptPath, outOfDate, settled>>
  <2>1. \A x \in BoardEntries : (life[x] = "loaded") <=> (life'[x] = "loaded")
    BY <1>1, <1>2, <1>3 DEF LifeOf
  <2>2. Primary' = Primary
    BY <2>1, SamePrimary
  <2>3. life' \in LifeOf /\ life'[e] = "off"
    BY <1>1, <1>2, <1>3 DEF LifeOf, Lives
  <2>4. BoardTypeOK'
    BY <1>1, <1>3, <2>3 DEF BoardInv, BoardTypeOK
  <2>5. FreshLooks' /\ SettledLooks'
    BY <1>1, <1>3, <2>2 DEF BoardInv, FreshLooks, SettledLooks, Storage
  <2>6. NoOneToRepair' /\ ActionsFollowEntries'
    BY <1>1, <1>3, <2>2, <2>3 DEF BoardInv, NoOneToRepair, ActionsFollowEntries
  <2>7. RepairIsRight'
    BY <1>1, <1>3, <2>2 DEF BoardInv, RepairIsRight, Storage, Generated
  <2>8. Forgets
    BY <1>3 DEF Forgets
  <2> QED BY <2>4, <2>5, <2>6, <2>7, <2>8 DEF BoardInv
<1>4. CASE /\ life' = [life EXCEPT ![e] = "loaded"] /\ actions' = TRUE
           /\ looks' = Stale \cup now(e).waits /\ keptPath' = now(e).paths
           /\ outOfDate' = IF now(e).ends THEN NoPath ELSE outOfDate
           /\ settled' = FALSE
  <2> DEFINE here == Here(e, keptPath, board)
  <2>1. /\ now(e).waits \in SUBSET Look
        /\ now(e).paths \in [BoardEntries -> Paths \cup {NoPath}]
        /\ now(e).paths # keptPath => ~here /\ now(e).paths = [keptPath EXCEPT ![e] = NoPath]
    <3>1. CASE host = "started"
      <4>1. now(e) = LookNow(e, keptPath, board)
        BY <3>1
      <4>2. /\ LookNow(e, keptPath, board).waits \in SUBSET Look
            /\ LookNow(e, keptPath, board).paths \in [BoardEntries -> Paths \cup {NoPath}]
            /\ LookNow(e, keptPath, board).paths # keptPath =>
                 ~here /\ LookNow(e, keptPath, board).paths = [keptPath EXCEPT ![e] = NoPath]
        <5>1. keptPath \in [BoardEntries -> Paths \cup {NoPath}] /\ board \in [Paths -> Content]
          BY DEF BoardInv, BoardTypeOK
        <5> HIDE DEF now
        <5> DEFINE seen == LookNow(e, keptPath, board)
        <5> DEFINE waiting == Seen(e, keptPath, board)
        <5>2. /\ \A l : l \in seen.waits => Looks(e) /\ here /\ l = waiting
              /\ ~Looks(e) \/ here => seen.ends = FALSE /\ seen.paths = keptPath
              /\ Looks(e) /\ ~here => seen.ends = TRUE /\ seen.paths = [keptPath EXCEPT ![e] = NoPath]
              /\ seen.paths \in [BoardEntries -> Paths \cup {NoPath}]
              /\ seen.waits \in SUBSET Look
              /\ seen.ends \in BOOLEAN
          BY <5>1, LookBegins
        <5> HIDE DEF seen, here
        <5>3. seen.paths # keptPath => ~here /\ seen.paths = [keptPath EXCEPT ![e] = NoPath]
          BY <5>2, Zenon
        <5> QED BY <5>2, <5>3, Zenon DEF seen
      <4> HIDE DEF now, here
      <4> QED BY <4>1, <4>2, Zenon
    <3>2. CASE host # "started"
      <4>1. now(e).waits = {} /\ now(e).paths = keptPath
        BY <3>2
      <4> HIDE DEF now, here
      <4>2. now(e).waits \in SUBSET Look
        BY <4>1
      <4>3. now(e).paths \in [BoardEntries -> Paths \cup {NoPath}]
        BY <1>2, <4>1
      <4> QED BY <4>1, <4>2, <4>3
    <3> QED BY <3>1, <3>2
  <2>2. \A l \in now(e).waits : Looks(e) /\ here /\ l = Seen(e, keptPath, board)
    <3>1. ASSUME NEW l \in now(e).waits PROVE Looks(e) /\ here /\ l = Seen(e, keptPath, board)
      <4>1. l \in LookNow(e, keptPath, board).waits
        BY <3>1
      <4> QED BY <1>2, <4>1, LookSees
    <3> QED BY <3>1
  <2> HIDE DEF now
  <2>3. Stale \in SUBSET Look /\ \A l \in Stale : ~l.fresh
    BY <1>2, StaleLooks
  <2>4. life' \in LifeOf /\ life'[e] = "loaded" /\ \A x \in BoardEntries \ {e} : life'[x] = life[x]
    BY <1>2, <1>4 DEF LifeOf, Lives
  <2>5. BoardTypeOK'
    <3>1. looks' \in SUBSET Look
      BY <1>4, <2>1, <2>3
    <3> QED BY <1>1, <1>4, <2>1, <2>4, <3>1 DEF BoardInv, BoardTypeOK
  <2>6. Looks(e) => Primary' = e
    <3> SUFFICES ASSUME Looks(e) PROVE Primary' = e
      OBVIOUS
    <3>1. Primary \in {NoPath, e}
      BY DEF Looks, IsPrimary
    <3>2. Primary # e
      BY <1>1, PrimaryIs, PrimaryFor DEF DashboardAssumption, BoardEntries
    <3>3. \A x \in BoardEntries : life[x] # "loaded"
      BY <3>1, <3>2, PrimaryIs, PrimaryFor
    <3>4. Primary' # NoPath
      BY <2>4, PrimaryIs, PrimaryFor
    <3>5. Primary' \in BoardEntries /\ life'[Primary'] = "loaded"
      BY <3>4, PrimaryIs, PrimaryFor
    <3> QED BY <2>4, <3>3, <3>5
  <2>7. FreshLooks'
    <3>1. ASSUME NEW l \in looks', l.fresh
          PROVE  l.entry = Primary' /\ l.path = keptPath'[l.entry] /\ l.config = board'[l.path] /\ Storage(l.config)
      <4>1. l = Seen(e, keptPath, board) /\ Looks(e) /\ here
        BY <1>4, <2>2, <2>3, <3>1
      <4>2. keptPath' = keptPath
        BY <1>4, <2>1, <4>1
      <4> QED BY <1>1, <2>6, <4>1, <4>2 DEF Seen, Here
    <3> QED BY <3>1 DEF FreshLooks, Storage
  <2>8. SettledLooks' /\ RepairIsRight'
    BY <1>4 DEF SettledLooks, RepairIsRight
  <2>9. Primary' # NoPath
    BY <2>4, PrimaryIs, PrimaryFor
  <2>10. NoOneToRepair' /\ ActionsFollowEntries'
    BY <1>4, <2>4, <2>9 DEF NoOneToRepair, ActionsFollowEntries
  <2>11. Forgets
    BY <1>2, <1>4, <2>1 DEF Forgets, Here
  <2> QED BY <2>5, <2>7, <2>8, <2>10, <2>11 DEF BoardInv
<1> QED BY <1>1, <1>3, <1>4

(* An entry is unloaded, and is off or gone.                                *)
LEMMA UnloadKeeps ==
  ASSUME BoardInv, NEW e \in BoardEntries, Unload(e), NEW after \in {"off", "none"},
         life' = [life EXCEPT ![e] = after],
         keptPath' = keptPath \/ (after = "none" /\ keptPath' = [keptPath EXCEPT ![e] = NoPath]),
         (\A x \in BoardEntries : life'[x] = "none") => ~notice' /\ ~script',
         UNCHANGED <<layouts, board, updating, late>>
  PROVE  BoardInv' /\ Forgets
<1>1. life \in LifeOf /\ looks \in SUBSET Look /\ keptPath \in [BoardEntries -> Paths \cup {NoPath}] /\ changesMade \in Nat
  BY DEF BoardInv, BoardTypeOK
<1>2. Stale \in SUBSET Look /\ \A l \in Stale : ~l.fresh
  BY <1>1, StaleLooks
<1>3. life' \in LifeOf /\ life'[e] = after /\ \A x \in BoardEntries \ {e} : life'[x] = life[x]
  BY <1>1 DEF LifeOf, Lives
<1>4. looks' = Stale /\ settled' = FALSE /\ outOfDate' = NoPath /\ changesMade' = changesMade + 1
      /\ actions' = \E other \in BoardEntries \ {e} : life[other] = "loaded"
  BY DEF Unload
<1>5. keptPath' \in [BoardEntries -> Paths \cup {NoPath}]
  BY <1>1
<1>6. BoardTypeOK'
  <2>1. settled' \in BOOLEAN
    BY <1>4, Zenon
  <2>4. changesMade' \in Nat
    BY <1>1, <1>4
  <2>3. looks' \in SUBSET Look
    BY <1>2, <1>4
  <2>2. /\ board' \in [Paths -> Content] /\ layouts' \in [BoardEntries -> Nat] /\ updating' \in SUBSET Update
        /\ late' \in BOOLEAN
    BY DEF BoardInv, BoardTypeOK
  <2> QED BY <1>3, <1>5, <2>1, <2>2, <2>3, <2>4 DEF BoardTypeOK
<1>7. NoOneToRepair'
  BY <1>4 DEF NoOneToRepair
<1>8. ActionsFollowEntries'
  <2>1. ASSUME Primary' # NoPath PROVE actions'
    <3>1. Primary' \in BoardEntries /\ life'[Primary'] = "loaded"
      BY <2>1, PrimaryIs, PrimaryFor
    <3>2. Primary' # e
      BY <1>3, <3>1
    <3> QED BY <1>3, <1>4, <3>1, <3>2
  <2> QED BY <1>4, <2>1 DEF ActionsFollowEntries
<1>9. Forgets
  BY <1>1, <1>3 DEF Forgets
<1> QED BY <1>2, <1>4, <1>6, <1>7, <1>8, <1>9, StaleKeeps

LEMMA UnloadEntryKeeps == BoardInv /\ UnloadEntry => BoardInv' /\ Forgets
<1> SUFFICES ASSUME BoardInv, UnloadEntry PROVE BoardInv' /\ Forgets
  OBVIOUS
<1>1. PICK e \in BoardEntries :
        /\ Unload(e) /\ life' = [life EXCEPT ![e] = "off"]
        /\ UNCHANGED <<keptPath, layouts, board, updating, notice, script, late>>
  BY DEF UnloadEntry
<1>2. life'[e] = "off"
  BY <1>1 DEF BoardInv, BoardTypeOK, LifeOf
<1> QED BY <1>1, <1>2, UnloadKeeps

LEMMA RemoveEntryKeeps == BoardInv /\ RemoveEntry => BoardInv' /\ Forgets
<1> SUFFICES ASSUME BoardInv, RemoveEntry PROVE BoardInv' /\ Forgets
  OBVIOUS
<1>1. PICK e \in BoardEntries :
        /\ \/ Unload(e)
           \/ life[e] = "off" /\ UNCHANGED <<quiet, outOfDate, actions, looks, settled, changesMade>>
        /\ life' = [life EXCEPT ![e] = "none"]
        /\ keptPath' = [keptPath EXCEPT ![e] = NoPath]
        /\ notice' = (notice /\ ~(\A other \in BoardEntries \ {e} : life[other] = "none"))
        /\ script' = (script /\ ~(\A other \in BoardEntries \ {e} : life[other] = "none"))
        /\ UNCHANGED <<layouts, board, updating, late>>
  BY DEF RemoveEntry
<1>2. /\ life \in LifeOf /\ keptPath \in [BoardEntries -> Paths \cup {NoPath}] /\ board \in [Paths -> Content]
      /\ looks \in SUBSET Look
  BY DEF BoardInv, BoardTypeOK
<1>3. life' \in LifeOf /\ life'[e] = "none" /\ \A x \in BoardEntries \ {e} : life'[x] = life[x]
  BY <1>1, <1>2 DEF LifeOf, Lives
<1>4. (\A x \in BoardEntries : life'[x] = "none") => ~notice' /\ ~script'
  BY <1>1, <1>3
<1>5. CASE Unload(e)
  <2>1. keptPath' = keptPath \/ ("none" = "none" /\ keptPath' = [keptPath EXCEPT ![e] = NoPath])
    BY <1>1
  <2> QED BY <1>1, <1>4, <1>5, <2>1, UnloadKeeps
<1>6. CASE life[e] = "off" /\ UNCHANGED <<quiet, outOfDate, actions, looks, settled, changesMade>>
  <2>1. \A x \in BoardEntries : (life[x] = "loaded") <=> (life'[x] = "loaded")
    BY <1>3, <1>6
  <2>2. Primary' = Primary
    BY <2>1, SamePrimary
  <2>3. keptPath' \in [BoardEntries -> Paths \cup {NoPath}] /\ \A x \in BoardEntries \ {e} : keptPath'[x] = keptPath[x]
    BY <1>1, <1>2
  <2>4. Primary # NoPath => Primary \in BoardEntries \ {e}
    BY <1>6, PrimaryIs, PrimaryFor
  <2>5. BoardTypeOK'
    BY <1>1, <1>3, <1>6, <2>3 DEF BoardInv, BoardTypeOK
  <2>6. FreshLooks'
    <3>1. ASSUME NEW l \in looks, l.fresh
          PROVE  l.entry = Primary /\ l.path = keptPath'[l.entry] /\ l.config = board[l.path] /\ Storage(l.config)
      <4>1. l.entry = Primary /\ l.path = keptPath[l.entry] /\ l.config = board[l.path] /\ Storage(l.config)
        BY <3>1 DEF BoardInv, FreshLooks
      <4>2. l.entry \in BoardEntries /\ l.entry # NoPath
        BY <1>2, <3>1 DEF Look, BoardEntries, DashboardAssumption
      <4> QED BY <2>3, <2>4, <4>1, <4>2
    <3> QED BY <1>1, <1>6, <2>2, <3>1 DEF FreshLooks, Storage
  <2>7. SettledLooks'
    BY <1>6 DEF BoardInv, SettledLooks
  <2>8. RepairIsRight'
    BY <1>1, <1>6, <2>2, <2>3, <2>4 DEF BoardInv, RepairIsRight, Storage, Generated
  <2>9. NoOneToRepair'
    BY <1>1, <1>6, <2>2 DEF BoardInv, NoOneToRepair
  <2>10. ActionsFollowEntries'
    <3>1. (\A x \in BoardEntries : life'[x] = "none") => Primary' = NoPath
      BY PrimaryIs, PrimaryFor
    <3> QED BY <1>1, <1>4, <1>6, <2>2, <2>9, <3>1 DEF BoardInv, ActionsFollowEntries, NoOneToRepair
  <2>11. Forgets
    BY <1>3, <2>3 DEF Forgets
  <2> QED BY <2>5, <2>6, <2>7, <2>8, <2>9, <2>10, <2>11 DEF BoardInv
<1> QED BY <1>1, <1>5, <1>6

LEMMA HostStartsKeeps == BoardInv /\ HostStarts => BoardInv' /\ Forgets
<1> SUFFICES ASSUME BoardInv, HostStarts PROVE BoardInv' /\ Forgets
  OBVIOUS
<1>1. UNCHANGED <<life, layouts, board, updating, late, changesMade, actions, notice, script>>
  BY DEF HostStarts
<1>2. updating' \in SUBSET Update
  BY <1>1 DEF BoardInv, BoardTypeOK
<1>3. CASE UNCHANGED <<looks, keptPath, outOfDate, settled>>
  BY <1>1, <1>2, <1>3, UnseenKeeps
<1>4. CASE ~UNCHANGED <<looks, keptPath, outOfDate, settled>>
  <2>1. /\ Primary # NoPath
        /\ looks' = looks \cup LookNow(Primary, keptPath, board).waits
        /\ keptPath' = LookNow(Primary, keptPath, board).paths
        /\ outOfDate' = IF LookNow(Primary, keptPath, board).ends THEN NoPath ELSE outOfDate
        /\ settled' = IF LookNow(Primary, keptPath, board).ends THEN \A l \in looks : l.fresh ELSE settled
    BY <1>4 DEF HostStarts
  <2>2. Primary \in BoardEntries /\ life[Primary] = "loaded"
    BY <2>1, PrimaryIs, PrimaryFor
  <2>3. PICK e \in BoardEntries : e = Primary
    BY <2>2
  <2> QED BY <1>1, <2>1, <2>2, <2>3, LookKeeps
<1> QED BY <1>3, <1>4

LEMMA WorldChangesKeeps == BoardInv /\ WorldChanges => BoardInv' /\ Forgets
<1> SUFFICES ASSUME BoardInv, WorldChanges PROVE BoardInv' /\ Forgets
  OBVIOUS
<1>1. /\ changesMade' = changesMade + 1 /\ looks' = Stale /\ settled' = FALSE
      /\ UNCHANGED <<keptPath, updating, outOfDate, notice, script, actions, late>>
  BY DEF WorldChanges
<1>2. /\ life \in LifeOf /\ board \in [Paths -> Content] /\ looks \in SUBSET Look /\ changesMade \in Nat
      /\ layouts \in [BoardEntries -> Nat]
  BY DEF BoardInv, BoardTypeOK
<1>3. Stale \in SUBSET Look /\ \A l \in Stale : ~l.fresh
  BY <1>2, StaleLooks
<1>4. /\ board' \in [Paths -> Content] /\ layouts' \in [BoardEntries -> Nat] /\ life' \in LifeOf
      /\ \A x \in BoardEntries : life'[x] = life[x] \/ (life'[x] = "off" /\ life[x] = "none")
  <2>1. CASE /\ \E p \in Paths, content \in {NoPath, <<"user", changesMade>>} : board' = [board EXCEPT ![p] = content]
             /\ UNCHANGED <<life, layouts, quiet>>
    <3>1. NoPath \in Content /\ <<"user", changesMade>> \in Content
      BY <1>2 DEF Content
    <3>2. PICK p \in Paths, content \in {NoPath, <<"user", changesMade>>} : board' = [board EXCEPT ![p] = content]
      BY <2>1
    <3>3. content \in Content
      BY <3>1, <3>2
    <3>4. board' \in [Paths -> Content]
      BY <1>2, <3>2, <3>3
    <3> QED BY <1>2, <2>1, <3>4
  <2>2. CASE /\ \E p \in Paths : board' = [board EXCEPT ![p] = Blank]
             /\ UNCHANGED <<life, layouts, quiet>>
    <3>1. Blank \in Content
      BY DEF Content, Blank
    <3>2. board' \in [Paths -> Content]
      BY <1>2, <2>2, <3>1
    <3> QED BY <1>2, <2>2, <3>2
  <2>3. CASE /\ \E e \in BoardEntries : layouts' = [layouts EXCEPT ![e] = @ + 1]
             /\ UNCHANGED <<life, board>>
    <3>1. layouts' \in [BoardEntries -> Nat]
      BY <1>2, <2>3
    <3> QED BY <1>2, <2>3, <3>1
  <2>4. CASE /\ \E e \in BoardEntries : life[e] = "none" /\ life' = [life EXCEPT ![e] = "off"]
             /\ UNCHANGED <<board, layouts, quiet>>
    <3>1. PICK e \in BoardEntries : life[e] = "none" /\ life' = [life EXCEPT ![e] = "off"]
      BY <2>4
    <3>2. life' \in LifeOf
      BY <1>2, <3>1 DEF LifeOf, Lives
    <3>3. \A x \in BoardEntries : life'[x] = life[x] \/ (life'[x] = "off" /\ life[x] = "none")
      BY <1>2, <3>1 DEF LifeOf
    <3> QED BY <1>2, <2>4, <3>2, <3>3
  <2> QED BY <2>1, <2>2, <2>3, <2>4 DEF WorldChanges
<1>5. BoardTypeOK'
  <2>1. settled' \in BOOLEAN
    BY <1>1, Zenon
  <2>4. changesMade' \in Nat
    BY <1>1, <1>2
  <2>2. looks' \in SUBSET Look
    BY <1>1, <1>3
  <2>3. /\ keptPath' \in [BoardEntries -> Paths \cup {NoPath}] /\ updating' \in SUBSET Update
        /\ late' \in BOOLEAN
    BY <1>1 DEF BoardInv, BoardTypeOK
  <2> QED BY <1>4, <2>1, <2>2, <2>3, <2>4 DEF BoardTypeOK
<1>6. \A x \in BoardEntries : (life[x] = "loaded") <=> (life'[x] = "loaded")
  BY <1>4
<1>7. Primary' = Primary
  BY <1>6, SamePrimary
<1>8. NoOneToRepair'
  BY <1>1, <1>7 DEF BoardInv, NoOneToRepair
<1>9. ActionsFollowEntries'
  <2>1. (\A x \in BoardEntries : life'[x] = "none") => \A x \in BoardEntries : life[x] = "none"
    BY <1>4
  <2> QED BY <1>1, <1>7, <2>1 DEF BoardInv, ActionsFollowEntries
<1>10. Forgets
  BY <1>1 DEF Forgets
<1> QED BY <1>1, <1>3, <1>5, <1>8, <1>9, <1>10, StaleKeeps

LEMMA BoardBegins == BoardInit => BoardInv
<1> SUFFICES ASSUME BoardInit PROVE BoardInv
  OBVIOUS
<1>1. /\ life = [e \in BoardEntries |-> "off"] /\ layouts = [e \in BoardEntries |-> 0]
      /\ looks = {} /\ updating = {} /\ outOfDate = NoPath /\ settled = FALSE /\ late = FALSE /\ changesMade = 0
  BY DEF BoardInit
<1>2. EntryOrder[1] \in BoardEntries
  BY DEF BoardEntries, DashboardAssumption
<1>3. keptPath \in [BoardEntries -> Paths \cup {NoPath}]
  BY DEF BoardInit
<1>4. board \in [Paths -> Content]
  <2>1. Generated(EntryOrder[1]) \in Content /\ Yaml \in Content /\ OfStrategy \in Content /\ Blank \in Content
    BY <1>1, <1>2 DEF Content, Generated, Yaml, OfStrategy, Blank
  <2>2. PICK p \in Paths : \E kept \in {NoPath, p} :
          \E first \in {Generated(EntryOrder[1]), IF kept = p THEN Yaml ELSE OfStrategy} :
            board = [other \in Paths |-> IF other = p THEN first ELSE Blank]
    BY DEF BoardInit
  <2>3. PICK kept \in {NoPath, p} :
          \E first \in {Generated(EntryOrder[1]), IF kept = p THEN Yaml ELSE OfStrategy} :
            board = [other \in Paths |-> IF other = p THEN first ELSE Blank]
    BY <2>2
  <2>4. PICK first \in {Generated(EntryOrder[1]), IF kept = p THEN Yaml ELSE OfStrategy} :
          board = [other \in Paths |-> IF other = p THEN first ELSE Blank]
    BY <2>3
  <2>5. first \in Content
    BY <2>1, <2>4
  <2> QED BY <2>1, <2>4, <2>5
<1>5. BoardTypeOK
  BY <1>1, <1>3, <1>4 DEF BoardTypeOK, LifeOf, Lives
<1>6. \A e \in BoardEntries : life[e] = "off"
  BY <1>1
<1>7. Primary = NoPath
  BY <1>6, PrimaryIs, PrimaryFor
<1> QED BY <1>1, <1>2, <1>5, <1>6, <1>7 DEF BoardInv, FreshLooks, SettledLooks, NoOneToRepair, RepairIsRight,
                                        ActionsFollowEntries

LEMMA BoardStep == BoardInv /\ [BoardNext]_boardVars => BoardInv' /\ Forgets
<1> SUFFICES ASSUME BoardInv, [BoardNext]_boardVars PROVE BoardInv' /\ Forgets
  OBVIOUS
<1>1. ASSUME NEW e \in BoardEntries, LookOf(e) PROVE BoardInv' /\ Forgets
  <2>1. /\ life[e] = "loaded"
        /\ looks' = looks \cup LookNow(e, keptPath, board).waits
        /\ keptPath' = LookNow(e, keptPath, board).paths
        /\ outOfDate' = IF LookNow(e, keptPath, board).ends THEN NoPath ELSE outOfDate
        /\ settled' = IF LookNow(e, keptPath, board).ends THEN \A l \in looks : l.fresh ELSE settled
        /\ UNCHANGED <<life, layouts, board, updating, late, changesMade, actions, notice, script>>
    BY <1>1 DEF LookOf
  <2> QED BY <2>1, LookKeeps
<1>2. CASE Hourly
  BY <1>1, <1>2 DEF Hourly
<1>3. CASE QuietMinute
  BY <1>1, <1>3 DEF QuietMinute
<1>4. CASE UNCHANGED boardVars
  <2>1. updating' \in SUBSET Update
    BY <1>4 DEF boardVars, BoardInv, BoardTypeOK
  <2> QED BY <1>4, <2>1, UnseenKeeps DEF boardVars
<1> QED
  BY <1>2, <1>3, <1>4, LookEndsKeeps, UpdateBeginsKeeps, UpdateBacksUpKeeps, UpdateSavesKeeps,
     SetupBeginsKeeps, SetupEndsKeeps, UnloadEntryKeeps, RemoveEntryKeeps, HostStartsKeeps, WorldChangesKeeps
     DEF BoardNext

(* The dashboard the user picked stays kept while it and its entry are there, its repair is raised *)
(* exactly while it is not current once a look has seen all as it is, and what was set up goes     *)
(* with the last entry: for any entries, paths, layouts and waiting looks and updates.             *)
THEOREM DashboardKept == BoardSpec => DashboardIsKept
<1>1. BoardInit => BoardInv
  BY BoardBegins
<1>2. BoardInv /\ [BoardNext]_boardVars => BoardInv'
  BY BoardStep
<1>3. BoardInv => RepairIsRight /\ ActionsFollowEntries
  BY DEF BoardInv
<1>4. BoardInv /\ [BoardNext]_boardVars => [Forgets]_boardVars
  BY BoardStep
<1> QED BY <1>1, <1>2, <1>3, <1>4, PTL DEF BoardSpec, DashboardIsKept, ForgottenOnlyWhenGone, Forgets
=============================================================================
