----------------------------- MODULE EnergyStep -----------------------------
(***************************************************************************)
(* What a cycle adds to the day's energy and money and to the battery's    *)
(* cycles (accumulate_energy, update_battery_stats, core/engine.py), and   *)
(* what the saving makes of it (core/stored_energy.py).  A cycle covers an *)
(* hour of the same flows, in kWh; a point of charge is a kWh.             *)
(***************************************************************************)
EXTENDS Integers, FiniteSets

CONSTANTS EnergyHours,   \* hours in the day
          CheapUntil,    \* the timed rate's last hour
          CheapRate, PeakRate, ExportRate,
          MoneyPart,         \* money is in parts of this, so that shares are whole
          Flows,         \* [solar, house, ev, heat, battery] of an hour; charging is positive
          Readable,      \* sets of readings that a cycle may find: "soc", "ac", "bms"
          EmptyAt, FullAt, \* the levels of the battery
          MaxStep,       \* BATTERY_MAX_SOC_STEP_PCT
          Unknown

ASSUME EnergyAssumption ==
  /\ {EnergyHours, CheapUntil, CheapRate, PeakRate, ExportRate, MoneyPart} \subseteq Nat
  /\ Flows \subseteq [solar: Nat, house: Nat, ev: Nat, heat: Nat, battery: Int]
  /\ Readable \subseteq SUBSET {"soc", "ac", "bms"}
  /\ {EmptyAt, FullAt, MaxStep} \subseteq Nat
  /\ Unknown \notin Int

VARIABLES hourNo,   \* hours of the day that are over
          pack,     \* the world: [soc, ac, fallen], level, AC charge counter, all it has given
          sums,     \* today's EnergyAccumulator
          heatLog,  \* ImmersionHeatLog of today: kWh from the grid
          memory,   \* [last, ac, soc]: of the last cycle, Unknown after a start
          stats,    \* BatteryStats, with what the battery had given as its tracking began
          truth     \* what the flows say: [timely, solar, given, givenWorth, sunStored, base]

energyVars == <<hourNo, pack, sums, heatLog, memory, stats, truth>>

AtLeast0(n) == IF n > 0 THEN n ELSE 0
Lesser(a, b) == IF a < b THEN a ELSE b
RateAt(h) == IF h < CheapUntil THEN CheapRate ELSE PeakRate
GridOf(f) == f.house + f.battery - f.solar

NoEnergy == [import |-> 0, importCheap |-> 0, importPeak |-> 0, costCheap |-> 0, costPeak |-> 0,
             export |-> 0, earned |-> 0, house |-> 0, ev |-> 0, heat |-> 0, evCost |-> 0,
             heatCost |-> 0, houseCost |-> 0, loadCost |-> 0, charged |-> 0, given |-> 0,
             heatSolar |-> 0, missed |-> 0, priced |-> 0, acCost |-> 0, ac |-> 0,
             startSoc |-> Unknown]
NoTruth == [timely |-> TRUE, solar |-> 0, given |-> 0, givenWorth |-> 0, sunStored |-> 0,
            base |-> 0]

EnergyInit ==
  /\ hourNo = 0
  /\ \E s \in EmptyAt..FullAt : pack = [soc |-> s, ac |-> 0, fallen |-> 0]
  /\ sums = NoEnergy
  /\ heatLog = 0
  /\ memory = [last |-> FALSE, ac |-> Unknown, soc |-> Unknown]
  /\ stats = [total |-> 0, start |-> 0, tracked |-> FALSE, bms |-> FALSE, from |-> 0]
  /\ truth = NoTruth

\* _apportion_import_cost: the car and the heater pay for their share of the load, out
\* of the import that fed the load; import above it is the battery's.
\* Mutant of ShareOf: the share is taken of all that was imported.
ShareOfAll(part, f, cost) ==
  IF f.ev + f.heat = 0 THEN 0
  ELSE (cost * part) \div (IF f.ev + f.heat > f.house THEN f.ev + f.heat ELSE f.house)
ShareOf(part, f, cost) ==
  IF f.ev + f.heat = 0 THEN 0
  ELSE (cost * Lesser(GridOf(f), f.house) * part)
         \div (GridOf(f) * (IF f.ev + f.heat > f.house THEN f.ev + f.heat ELSE f.house))

\* _solar_to_immersion_kwh with available_surplus_w.
SolarHeat(f) == Lesser(f.heat, AtLeast0(f.solar - (f.house - Lesser(f.heat, f.house))
                                        - AtLeast0(f.battery)))

\* accumulate_energy: loads, battery flow, import or export, the heater's sun, missed sun.
Accumulated(f, h, soc) ==
  LET import == AtLeast0(GridOf(f))
      export == AtLeast0(-GridOf(f))
      cost == import * RateAt(h) * MoneyPart
      cheap == h < CheapUntil
      evCost == IF import > 0 THEN ShareOf(f.ev, f, cost) ELSE 0
      heatCost == IF import > 0 THEN ShareOf(f.heat, f, cost) ELSE 0
  IN  [sums EXCEPT !.import = @ + import, !.export = @ + export,
                  !.importCheap = @ + (IF cheap THEN import ELSE 0),
                  !.importPeak = @ + (IF cheap THEN 0 ELSE import),
                  !.costCheap = @ + (IF cheap THEN cost ELSE 0),
                  !.costPeak = @ + (IF cheap THEN 0 ELSE cost),
                  !.earned = @ + export * ExportRate * MoneyPart,
                  !.house = @ + f.house, !.ev = @ + f.ev, !.heat = @ + f.heat,
                  !.evCost = @ + evCost, !.heatCost = @ + heatCost,
                  !.houseCost = @ + cost - evCost - heatCost,
                  !.loadCost = @ + f.house * RateAt(h) * MoneyPart,
                  !.charged = @ + AtLeast0(f.battery), !.given = @ + AtLeast0(-f.battery),
                  !.heatSolar = @ + SolarHeat(f),
                  !.missed = @ + (IF soc = FullAt /\ f.heat = 0 /\ f.ev = 0 THEN export ELSE 0)]

\* _carry_grid_to_battery: what the AC charge counter rose by since its last reading, at
\* the rate in force.
WithGridCharge(a, h, read, ac) ==
  LET rise == IF memory.ac = Unknown THEN 0 ELSE ac - memory.ac
  IN  IF "ac" \notin read THEN [a EXCEPT !.ac = 0]
      ELSE [a EXCEPT !.ac = ac, !.priced = @ + rise,
                     !.acCost = @ + rise * RateAt(h) * MoneyPart]

\* _bookmark_start_of_day_soc.
Bookmarked(a, read, soc) ==
  IF a.startSoc = Unknown /\ "soc" \in read THEN [a EXCEPT !.startSoc = soc] ELSE a

\* _adopt_lifetime_cycles: the rate goes on from where the estimate left it.
\* Mutant of Adopted: the count is taken over as it stands.
JustAdopted(s, lifetime, given) ==
  [total |-> lifetime, tracked |-> TRUE, bms |-> TRUE,
   start |-> IF s.tracked THEN s.start ELSE lifetime, from |-> IF s.tracked THEN s.from ELSE given]
Adopted(s, lifetime, given) ==
  [total |-> lifetime, tracked |-> TRUE, bms |-> TRUE,
   start |-> IF ~s.tracked THEN lifetime
             ELSE IF s.bms THEN s.start ELSE s.start + lifetime - s.total,
   from |-> IF s.tracked THEN s.from ELSE given]

\* _count_estimated_cycles: a fall between two readings that could be one.
Estimated(s, was, is, given) ==
  IF was = Unknown \/ is = Unknown \/ was = is THEN s
  ELSE IF was <= 0 \/ is <= 0 \/ is - was > MaxStep \/ was - is > MaxStep THEN s
  ELSE [s EXCEPT !.total = @ + AtLeast0(was - is), !.tracked = TRUE,
                 !.start = IF s.tracked THEN @ ELSE s.total,
                 !.from = IF s.tracked THEN @ ELSE given - AtLeast0(was - is)]

\* update_battery_stats.
StatsAfter(read, was, is, b) ==
  IF "bms" \in read THEN Adopted(stats, 3 + b.fallen, b.fallen)
  ELSE Estimated([stats EXCEPT !.bms = FALSE], was, is, b.fallen)

\* The world over an hour of these flows.
World(f) == [soc |-> pack.soc + f.battery,
             ac |-> pack.ac + Lesser(AtLeast0(GridOf(f)), AtLeast0(f.battery)),
             fallen |-> pack.fallen + AtLeast0(-f.battery)]
Possible(f) == pack.soc + f.battery \in EmptyAt..FullAt

\* What came of the sun and the battery: the sun used at the rate it saved, sold or
\* stored, and what the battery gave: to the house at that rate, the rest is sold.
Told(f, h, read) ==
  LET sun == Lesser(f.solar, f.house)
  IN  [truth EXCEPT !.timely = @ /\ read = {"soc", "ac", "bms"},
         !.solar = @ + sun * RateAt(h) * MoneyPart
                     + AtLeast0(-GridOf(f)) * ExportRate * MoneyPart,
         !.given = @ + AtLeast0(-f.battery),
         !.givenWorth = @ + Lesser(AtLeast0(-f.battery), f.house - sun) * RateAt(h) * MoneyPart,
         !.sunStored = @ + AtLeast0(AtLeast0(f.battery) - AtLeast0(GridOf(f))),
         !.base = @ + AtLeast0(f.house - f.ev - f.heat)]

\* build_coordinator_data, as far as the totals and the stats: a reading that is missing
\* or nought stands in for what is there, and the first cycle after a start adds nothing.
EnergyCycle(f, read, glitch) ==
  LET world == World(f)
      is == IF "soc" \notin read THEN Unknown ELSE IF glitch THEN 0 ELSE world.soc
      before == IF memory.last THEN Accumulated(f, hourNo, is) ELSE sums
  IN  /\ hourNo < EnergyHours /\ Possible(f)
      /\ hourNo' = hourNo + 1
      /\ pack' = world
      /\ sums' = Bookmarked(WithGridCharge(before, hourNo, read, world.ac), read, is)
      /\ heatLog' = heatLog + (IF memory.last THEN f.heat - SolarHeat(f) ELSE 0)
      /\ memory' = [last |-> TRUE, soc |-> is,
                    ac |-> IF "ac" \in read THEN world.ac ELSE memory.ac]
      /\ stats' = StatsAfter(read, memory.soc, is, world)
      /\ truth' = IF memory.last THEN [Told(f, hourNo, read) EXCEPT !.timely = @ /\ ~glitch]
                  ELSE [truth EXCEPT !.timely = @ /\ ~glitch /\ read = {"soc", "ac", "bms"}]

\* Home Assistant is away for an hour.  The totals and the counter's last reading are
\* stored, the last level is not, nor that the cycles are the battery's own.
Away(f) ==
  /\ hourNo < EnergyHours /\ Possible(f)
  /\ hourNo' = hourNo + 1
  /\ pack' = World(f)
  /\ memory' = [memory EXCEPT !.last = FALSE, !.soc = Unknown]
  /\ stats' = [stats EXCEPT !.bms = FALSE]
  /\ truth' = [truth EXCEPT !.timely = FALSE]
  /\ UNCHANGED <<sums, heatLog>>

EnergyNext ==
  \/ \E f \in Flows, read \in Readable, glitch \in BOOLEAN : EnergyCycle(f, read, glitch)
  \/ \E f \in Flows : Away(f)

EnergySpec == EnergyInit /\ [][EnergyNext]_energyVars

\* _set_savings_fields with value_per_stored_kwh, times what the average is taken over.
PricedKwh == IF sums.priced > 0 THEN sums.priced ELSE 1
ValueOver == IF sums.priced > 0 THEN sums.acCost ELSE CheapRate * MoneyPart
StoredChange == IF memory.soc = Unknown \/ sums.startSoc = Unknown THEN 0
                ELSE memory.soc - sums.startSoc
SavingOver == (sums.loadCost - sums.costCheap - sums.costPeak + sums.earned) * PricedKwh
                + StoredChange * ValueOver

\* The shares of the money add up and none is negative: nobody pays for what charged
\* the battery but the house, and the car and the heater pay at most what fed the load.
SharesAdd ==
  /\ sums.evCost + sums.heatCost + sums.houseCost = sums.costCheap + sums.costPeak
  /\ sums.importCheap + sums.importPeak = sums.import
  /\ sums.houseCost >= 0
  /\ sums.evCost + sums.heatCost <= sums.loadCost
  /\ sums.heatSolar + heatLog = sums.heat

\* On a day seen without a break, the saving is what the sun and the battery were worth:
\* the sun used or sold, what the battery gave less what that had cost, and the sun it
\* stored, at what a stored kWh is worth.
SavingIsWhole ==
  memory.last /\ truth.timely =>
    SavingOver = (truth.solar + truth.givenWorth) * PricedKwh
                   + (truth.sunStored - truth.given) * ValueOver

\* However the battery's own count comes and goes, and readings with it, the cycles the
\* daily rate is worked out from are cycles the battery did since it was tracked.
RateIsTrue == /\ stats.total - stats.start <= pack.fallen - stats.from
              /\ stats.total >= stats.start

\* The accumulation of a day (core/engine.py, core/stored_energy.py).
EnergyIsSound == SharesAdd /\ SavingIsWhole /\ RateIsTrue
=============================================================================
