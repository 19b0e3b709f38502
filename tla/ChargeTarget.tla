---------------------------- MODULE ChargeTarget ----------------------------
(***************************************************************************)
(* Tonight's charge target (core/rules.py calculate_overnight_charge_target *)
(* and engine.py _with_charge_overrides): the nights decided without a      *)
(* simulation, the check for a night with no charge, the binary search for  *)
(* the least target that carries the day, what is taken off and put on      *)
(* after it, and the owner's override and cap.                              *)
(*                                                                          *)
(* The day is abstracted to `enough', the least level from which it stays   *)
(* at or above the minimum (Full + 1 when there is none).  The search asks  *)
(* nothing else of the day, and MoreChargeIsSafer of SimulatedDay is why    *)
(* one level says it all.                                                   *)
(***************************************************************************)
EXTENDS Points

CONSTANTS Full,         \* 100
          ShoulderMin,  \* CHARGE_SHOULDER_MIN_SOC
          SummerMin,    \* CHARGE_SUMMER_MIN_TARGET_SOC
          WinterSkip,   \* CHARGE_WINTER_SKIP_SOC_PCT
          Headroom,     \* CHARGE_MIN_TARGET_HEADROOM_PCT
          CarBonus,     \* CHARGE_EV_SOC_BONUS
          Buffer,       \* CHARGE_STRONG_BUFFER
          Leasts,       \* the minimum SoC the owner may configure
          Evenings,     \* the battery's level when the plan is made
          Thresholds,   \* the level from which the owner allows a night without a charge
          Reductions,   \* what solar the day after tomorrow may take off the target
          Overrides     \* the owner's overrides and caps of the target

ASSUME TargetAssumption ==
  /\ Full \in Nat
  /\ {ShoulderMin, SummerMin, WinterSkip} \subseteq 0..Full
  /\ {Headroom, CarBonus, Buffer} \subseteq Nat
  /\ Leasts \cup Evenings \cup Thresholds \cup Overrides \subseteq 0..Full
  /\ Reductions \subseteq Nat

VARIABLES phase,    \* "idle", "search", "decided" or "done"
          ask,      \* what the plan is made from
          lo, hi,   \* the search
          plan,     \* the ChargeDecision
          written   \* the decision with the owner's override and cap

targetVars == <<phase, ask, lo, hi, plan, written>>

(* ChargeInputs, SolarForecast and the month, as far as the plan tells them
   apart.  season "fixed" is a winter month that does not plan from the
   forecast.  bright: the forecast is well above what the battery can absorb.
   lasts: the battery lasts until solar starts (night_estimate).  holds: the
   simulated day, run from the level at sunrise, stays at or above the
   configured minimum.  overmorrow: half of what solar on the day after
   tomorrow overfills the battery by. *)
Ask == [known : BOOLEAN, season : {"fixed", "shoulder", "summer"}, least : Leasts,
        soc : Evenings, threshold : Thresholds, car : BOOLEAN, bright : BOOLEAN,
        lasts : BOOLEAN, holds : BOOLEAN, enough : 0..(Full + 1),
        overmorrow : Reductions]

Decision == [skip : BOOLEAN, target : Nat]
Undecided == [skip |-> TRUE, target |-> 0]

TargetTypeOK == /\ phase \in {"idle", "search", "decided", "done"}
                /\ phase # "idle" => ask \in Ask
                /\ lo \in 0..Full
                /\ hi \in 0..Full
                /\ plan \in Decision
                /\ written \in Decision

TargetInit == /\ phase = "idle"
              /\ ask = <<>>
              /\ lo = 0
              /\ hi = Full
              /\ plan = Undecided
              /\ written = Undecided

\* The minimum the day is planned to, raised where the forecast says least.
SeasonalMin(a) == IF a.season = "shoulder" THEN Higher(a.least, ShoulderMin)
                                           ELSE a.least

\* A night with no charge: allowed, and the battery carries night and day.
Skips(a) == /\ a.soc >= a.threshold
            /\ ~a.car
            /\ a.bright
            /\ a.lasts
            /\ a.holds

Decide(a, decision) == /\ phase' = "decided"
                       /\ ask' = a
                       /\ plan' = decision
                       /\ UNCHANGED <<lo, hi, written>>

\* A battery whose capacity is not known has nothing to plan.
AskNoCapacity(a) == /\ ~a.known
                    /\ Decide(a, [skip |-> TRUE, target |-> a.least])

\* A winter night fills the battery, unless it is all but full.
AskWinter(a) == /\ a.known
                /\ a.season = "fixed"
                /\ Decide(a, [skip |-> a.soc >= WinterSkip, target |-> Full])

AskSkip(a) == /\ a.known
              /\ a.season # "fixed"
              /\ Skips(a)
              /\ Decide(a, [skip |-> TRUE, target |-> SeasonalMin(a) + Buffer])

AskSearch(a) == /\ a.known
                /\ a.season # "fixed"
                /\ ~Skips(a)
                /\ phase' = "search"
                /\ ask' = a
                /\ lo' = SeasonalMin(a)
                /\ hi' = Full
                /\ UNCHANGED <<plan, written>>

\* _simulate_min_soc(target) >= min_soc.
Carries(target) == target >= ask.enough

\* Mutant of Halve: one too few ruled out.
HalveKeepsMiddle == /\ phase = "search"
                    /\ lo < hi
                    /\ LET mid == (lo + hi) \div 2
                       IN  IF Carries(mid) THEN hi' = mid /\ lo' = lo
                                           ELSE lo' = mid /\ hi' = hi
                    /\ UNCHANGED <<phase, ask, plan, written>>

\* One turn of _find_minimum_charge_target.
Halve == /\ phase = "search"
         /\ lo < hi
         /\ LET mid == (lo + hi) \div 2
            IN  IF Carries(mid) THEN hi' = mid /\ lo' = lo
                                ELSE lo' = mid + 1 /\ hi' = hi
         /\ UNCHANGED <<phase, ask, plan, written>>

Reduced(target) ==
  IF ask.car \/ ask.overmorrow = 0 THEN target
  ELSE Higher(SeasonalMin(ask), target - ask.overmorrow)

\* Mutant of WithCar: the car's bonus goes on the minimum instead of on the target.
CarOnMinimum(target) ==
  IF ask.car THEN Lower(Full, SeasonalMin(ask) + CarBonus) ELSE target

WithCar(target) == IF ask.car THEN Lower(Full, target + CarBonus) ELSE target

Raised(target) ==
  Higher(SummerMin, Lower(Full, Higher(target, SeasonalMin(ask) + Headroom)))

\* The rest of _simulated_plan, once the search has met.
Adjust == /\ phase = "search"
          /\ lo = hi
          /\ phase' = "decided"
          /\ plan' = [skip |-> FALSE, target |-> Raised(WithCar(Reduced(lo)))]
          /\ UNCHANGED <<ask, lo, hi, written>>

WriteSkip == /\ phase = "decided"
             /\ phase' = "done"
             /\ written' = [plan EXCEPT !.skip = TRUE]
             /\ UNCHANGED <<ask, lo, hi, plan>>

WriteTarget(target) == /\ phase = "decided"
                       /\ phase' = "done"
                       /\ written' = [skip |-> FALSE, target |-> target]
                       /\ UNCHANGED <<ask, lo, hi, plan>>

\* With no override the cap holds, and a skip is left as it is.
WriteCapped(cap) == /\ phase = "decided"
                    /\ phase' = "done"
                    /\ written' = IF plan.skip THEN plan
                                  ELSE [plan EXCEPT !.target = Lower(cap, @)]
                    /\ UNCHANGED <<ask, lo, hi, plan>>

TargetNext == \/ /\ phase = "idle"
                 /\ \E a \in Ask :
                       AskNoCapacity(a) \/ AskWinter(a) \/ AskSkip(a) \/ AskSearch(a)
              \/ Halve
              \/ Adjust
              \/ WriteSkip
              \/ \E target \in Overrides : WriteTarget(target) \/ WriteCapped(target)

TargetSpec == TargetInit /\ [][TargetNext]_targetVars

-----------------------------------------------------------------------------

(* What the search has ruled out stays ruled out, and where it meets is the
   least target that carries the day, or a full battery when none does. *)
SearchFindsLeast ==
  phase = "search" =>
    /\ \A target \in SeasonalMin(ask)..Full : target < lo => ~Carries(target)
    /\ \A target \in SeasonalMin(ask)..Full : target >= hi /\ target < Full => Carries(target)
    /\ lo <= hi

(* A planned charge carries the day it was planned for, as far as a full
   battery can, and leaves the headroom above the minimum, whatever is taken
   off or put on after the search; only solar the day after tomorrow that
   would overfill the battery makes it less. *)
ChargeCarriesTheDay ==
  (phase = "decided" /\ ~plan.skip /\ ask.season # "fixed") =>
    /\ ask.overmorrow = 0 => plan.target >= Lower(Full, ask.enough)
    /\ plan.target >= Lower(Full, SeasonalMin(ask) + Headroom)
    /\ plan.target <= Full

(* "The plan never skips a charge the survival sensor calls Critical": a
   night the plan leaves without a charge is one the battery lasts, and the
   day after it, with the car away.  The months with a fixed plan and a
   battery of unknown size are not judged. *)
SkipIsSurvivable ==
  (phase = "decided" /\ plan.skip /\ ask.known /\ ask.season # "fixed") =>
    ask.lasts /\ ask.holds /\ ~ask.car

(* A plan that follows the forecast is sound whether it charges or not. *)
PlanIsSound == ChargeCarriesTheDay /\ SkipIsSurvivable

(* The target that is planned: the least that carries the day, and a plan
   that is sound after all that is done to it. *)
TargetIsSound == SearchFindsLeast /\ PlanIsSound

(* As long as the search goes on, its next turn rules a target out: the loop ends. *)
SearchShrinks ==
  phase = "search" /\ lo < hi => ENABLED (Halve /\ hi' - lo' < hi - lo)
=============================================================================
