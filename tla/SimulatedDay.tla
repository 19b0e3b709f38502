---------------------------- MODULE SimulatedDay ----------------------------
(***************************************************************************)
(* The day the charge plan simulates, half-hour slot by half-hour slot     *)
(* (core/rules.py).  The code runs two simulations of the same day:        *)
(* _simulate_min_soc, which the search for the target and the skip check   *)
(* read, and _simulate_flows, which the outlook reads and which stops the  *)
(* battery at a floor.  The search assumes that more charge never makes    *)
(* the day worse, and the outlook that it shows the day the target was     *)
(* chosen for.  Nothing in the code checks either.                         *)
(*                                                                         *)
(* Here three batteries live through one day: `lesser' and `greater', two  *)
(* runs of _simulate_min_soc from two levels, and `flow', one run of       *)
(* _simulate_flows that starts level with `greater'.  Energy is counted in *)
(* the points of the battery's capacity, so that dividing by the capacity  *)
(* disappears; what a slot brings is any whole number of points.           *)
(***************************************************************************)
EXTENDS Points

CONSTANTS Slots,  \* slots in the simulated day, 48 in the code
          Capacity,   \* the points of a full battery, 100 in the code
          Nets    \* what a slot may bring: its solar less its load, in points

ASSUME DayAssumption ==
  /\ Slots \in Nat
  /\ Capacity \in Nat \ {0}
  /\ Nets \subseteq Int

VARIABLES slot,     \* slots simulated so far
          floor,    \* the floor of _simulate_flows
          lesser,   \* _simulate_min_soc from the lower level: [soc, lowest]
          greater,  \* _simulate_min_soc from the higher level
          flow,     \* _simulate_flows from the higher level: [soc, import, export]
          day       \* what the day brought: [start, net, paused]

dayVars == <<slot, floor, lesser, greater, flow, day>>

Simulation == [soc : 0..Capacity, lowest : 0..Capacity]

DayTypeOK == /\ slot \in 0..Slots
             /\ floor \in 1..Capacity
             /\ lesser \in Simulation
             /\ greater \in Simulation
             /\ flow \in [soc : 0..Capacity, import : Nat, export : Nat]
             /\ day \in [start : 0..Capacity, net : Int, paused : Nat]

Starting(soc) == [soc |-> soc, lowest |-> soc]

\* Any two levels.  The minimum SoC the forms accept is 5 or more, so the floor
\* is not 0, where _simulate_min_soc could not tell empty from safe.
DayInit == \E low, high \in 0..Capacity, least \in 1..Capacity :
           /\ low <= high
           /\ slot = 0
           /\ floor = least
           /\ lesser = Starting(low)
           /\ greater = Starting(high)
           /\ flow = [soc |-> high, import |-> 0, export |-> 0]
           /\ day = [start |-> high, net |-> 0, paused |-> 0]

\* What of a slot reaches the battery, of which `part' falls in a pause.  A
\* shortfall in the pause is the grid's; a surplus always reaches the battery.
BatteryNet(net, part) == IF net < 0 THEN net + part ELSE net

\* One turn of the loop in _simulate_min_soc.
Simulated(run, change) ==
  LET soc == Higher(0, Lower(Capacity, run.soc + change))
  IN  [soc |-> soc, lowest |-> Lower(run.lowest, soc)]

\* Mutant of Flowed: the pause does not hold the battery back.
IgnoresPause(net, change) ==
  LET wanted == flow.soc + net
      lowest == Lower(flow.soc, floor)
  IN  [soc    |-> Higher(lowest, Lower(Capacity, wanted)),
       import |-> flow.import + Higher(0, lowest - wanted),
       export |-> flow.export + Higher(0, wanted - Capacity)]

\* _step_slot: a battery that starts below the floor does not discharge.
Flowed(net, change) ==
  LET wanted == flow.soc + change
      lowest == Lower(flow.soc, floor)
  IN  [soc    |-> Higher(lowest, Lower(Capacity, wanted)),
       import |-> flow.import + change - net + Higher(0, lowest - wanted),
       export |-> flow.export + Higher(0, wanted - Capacity)]

Slot(net, part) ==
  LET change == BatteryNet(net, part)
  IN  /\ slot < Slots
      /\ slot' = slot + 1
      /\ lesser' = Simulated(lesser, change)
      /\ greater' = Simulated(greater, change)
      /\ flow' = Flowed(net, change)
      /\ day' = [day EXCEPT !.net = @ + net, !.paused = @ + change - net]
      /\ UNCHANGED floor

DayNext == \E net \in Nets : \E part \in 0..Higher(0, -net) : Slot(net, part)

DaySpec == DayInit /\ [][DayNext]_dayVars

-----------------------------------------------------------------------------

(* "More charge -> higher min SoC -> monotonically safe to binary search",
   as _find_minimum_charge_target puts it: whatever the day brings, the
   battery that started with more never holds less, nor has ever held less,
   and what it started with beyond the other it never turns into more. *)
MoreChargeIsSafer ==
  /\ lesser.soc <= greater.soc
  /\ lesser.lowest <= greater.lowest

(* The outlook accounts for every point: what is in the battery is what it
   started with, what the sun brought less what the house took, what came
   from the grid, less what went to it. *)
EnergyAddsUp ==
  flow.soc = day.start + day.net + flow.import - flow.export

(* The outlook shows the day the target was searched for: from a level the
   search finds safe for this floor, it draws from the grid only what the
   pause makes it draw, and ends where the search's simulation ends. *)
OutlookIsThePlan ==
  greater.lowest >= floor => /\ flow.soc = greater.soc
                             /\ flow.import = day.paused

(* The floor protects and is never bought for: the flow's battery never
   falls below the floor unless it started below it, and it never holds
   less than the simulation without a floor. *)
FloorHolds ==
  /\ flow.soc >= Lower(floor, day.start)
  /\ flow.soc >= greater.soc

(* The outlook the owner reads is honest: it is the day the target was
   searched for, with every point of energy accounted for and the floor kept. *)
OutlookHolds == EnergyAddsUp /\ OutlookIsThePlan /\ FloorHolds

(* A day of the plan: starting with more is never worse, and what the owner
   reads of it is the same day. *)
DayIsSound == MoreChargeIsSafer /\ OutlookHolds
=============================================================================
