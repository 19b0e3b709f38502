---------------------------- MODULE Records_proof ----------------------------
(***************************************************************************)
(* What EnergyStep adds up is sound for every set of flows, every rate and *)
(* every length of day: the shares of the money, the day's saving and the  *)
(* cycles that the daily rate is worked out from.                          *)
(*                                                                         *)
(* The saving is where one would not see it at a glance: the code works it *)
(* out from what the house used, what was bought and sold, and the change  *)
(* of the charge, the truth from the sun and the battery.  The two are     *)
(* linked by an invariant of the day (Whole): the money is in balance but  *)
(* for what the battery's charge from the grid had cost, and the charge    *)
(* that came is what was paid for and the sun's, less what was given.      *)
(* That a cycle keeps it rests on the balance of an hour's flows.          *)
(*                                                                         *)
(* Then the tariff dialogs: what a save stores is what its visit was told, *)
(* for every number of days, rows and keys.  It needs that a visit which   *)
(* has not touched the tariff was told nothing, and that the stored list   *)
(* has one change a day, so that the last of them by day is well defined.  *)
(*                                                                         *)
(* Then the set-up: the entry it makes is of the inverter that was picked, *)
(* after every page that was ticked, and stays that.  What is kept says    *)
(* page by page what has been passed and what is to come, that a warning   *)
(* remembered for this page was seen on it, and that the name is free; of  *)
(* the entries, that each has a name of its own and that one which was not *)
(* wired by hand is wired to one device.                                   *)
(*                                                                         *)
(* Then the totals, in two parts.  That the bill adds up and each day      *)
(* keeps its own energy holds because midnight moves a day as it is from   *)
(* today's total to a row, and a row to the archive with the period it is  *)
(* of, for any number of midnights at once.  That no energy is repeated    *)
(* holds because from every reading that is saved or trusted there is      *)
(* still due at least what the counter has gone up since, or all that it   *)
(* shows, whatever stop, start or reset of the counter comes next.         *)
(*                                                                         *)
(* Then what is learned of the sun and the house: it belongs to the day    *)
(* since the last midnight the program has seen, which may be days ago in  *)
(* the store, and is put right midnight by midnight when it starts; what   *)
(* the recorder gives of the days before is theirs, one by one.            *)
(*                                                                         *)
(* Last the half-hourly history.  A tick is booked once, because what is   *)
(* seen of a day is before the last update, or before now when there is    *)
(* none; and a half hour in the file stays as it is, because half hours    *)
(* before the one last booked have ended by then.  The sums are of a fold  *)
(* of the library, of which is first proved what one more element adds.    *)
(***************************************************************************)
EXTENDS EnergyStep, OptionsWizard, SetupWizard, PeriodTotals, SolarLearning, SlotHistory,
        FiniteSetTheorems, SequenceTheorems, NaturalsInduction, WellFoundedInduction, TLAPS

USE EnergyAssumption

Flow == [solar: Nat, house: Nat, ev: Nat, heat: Nat, battery: Int]
Figures == {"import", "importCheap", "importPeak", "costCheap", "costPeak", "export", "earned",
            "house", "ev", "heat", "evCost", "heatCost", "houseCost", "loadCost", "charged",
            "given", "heatSolar", "missed", "priced", "acCost", "ac", "startSoc"}

(* The money of a kWh in the hour h, and what a cycle of the flows f comes to. *)
PriceAt(h) == RateAt(h) * MoneyPart
Import(f) == AtLeast0(GridOf(f))
Export(f) == AtLeast0(-GridOf(f))
Sun(f) == Lesser(f.solar, f.house)
ToHouse(f) == Lesser(AtLeast0(-f.battery), f.house - Sun(f))
FromGrid(f) == Lesser(Import(f), AtLeast0(f.battery))
SunStored(f) == AtLeast0(AtLeast0(f.battery) - Import(f))

-----------------------------------------------------------------------------
LEMMA FlowTyped ==
  ASSUME NEW f \in Flow
  PROVE  /\ GridOf(f) \in Int /\ Import(f) \in Nat /\ Export(f) \in Nat /\ Sun(f) \in Nat
         /\ ToHouse(f) \in Nat /\ FromGrid(f) \in Nat /\ SunStored(f) \in Nat
         /\ f.house \in Nat /\ f.ev \in Nat /\ f.heat \in Nat /\ f.battery \in Int
         /\ SolarHeat(f) \in Nat
BY DEF Flow, GridOf, Import, Export, Sun, ToHouse, FromGrid, SunStored, AtLeast0, Lesser, SolarHeat

(* Energy is neither made nor lost on its way between the grid, the sun, the *)
(* house and the battery.                                                    *)
LEMMA FlowsBalance ==
  ASSUME NEW f \in Flow
  PROVE  /\ f.house - Import(f) = Sun(f) + ToHouse(f) - FromGrid(f)
         /\ f.battery = FromGrid(f) + SunStored(f) - AtLeast0(-f.battery)
BY DEF Flow, GridOf, Import, Export, Sun, ToHouse, FromGrid, SunStored, AtLeast0, Lesser

LEMMA PriceTyped ==
  ASSUME NEW h
  PROVE  RateAt(h) \in Nat /\ PriceAt(h) \in Nat
<1>1. RateAt(h) \in Nat
  BY DEF RateAt
<1>2. \A x, y \in Nat : x * y \in Nat
  OBVIOUS
<1> QED BY <1>1, <1>2 DEF PriceAt

LEMMA Priced ==
  ASSUME NEW h, NEW x \in Int
  PROVE  x * RateAt(h) * MoneyPart = x * PriceAt(h) /\ x * PriceAt(h) \in Int
<1>1. \A r, m \in Int : x * r * m = x * (r * m) /\ x * (r * m) \in Int
  OBVIOUS
<1>2. RateAt(h) \in Int /\ MoneyPart \in Int
  BY PriceTyped
<1> QED BY <1>1, <1>2, Zenon DEF PriceAt

-----------------------------------------------------------------------------
(* The shares of the cost. *)
LEMMA WholePart ==
  ASSUME NEW n \in Nat, NEW d \in Nat, d > 0
  PROVE  n \div d \in Nat /\ d * (n \div d) <= n
OBVIOUS

LEMMA Cancel ==
  ASSUME NEW a \in Int, NEW b \in Int, NEW d \in Nat, d > 0, d * a <= d * b
  PROVE  a <= b
OBVIOUS

LEMMA Larger ==
  ASSUME NEW a \in Nat, NEW b \in Nat, NEW x \in Nat, a <= b
  PROVE  x * a <= x * b /\ a * x <= b * x
OBVIOUS
(* The car and the heater pay for no more than what was imported, and than   *)
(* the house used.                                                           *)
LEMMA SharesFit ==
  ASSUME NEW f \in Flow, GridOf(f) > 0, NEW k \in Nat
  PROVE  /\ ShareOf(f.ev, f, GridOf(f) * k) \in Nat /\ ShareOf(f.heat, f, GridOf(f) * k) \in Nat
         /\ ShareOf(f.ev, f, GridOf(f) * k) + ShareOf(f.heat, f, GridOf(f) * k) <= GridOf(f) * k
         /\ ShareOf(f.ev, f, GridOf(f) * k) + ShareOf(f.heat, f, GridOf(f) * k) <= f.house * k
<1> DEFINE g == GridOf(f)
           least == Lesser(g, f.house)
           over == IF f.ev + f.heat > f.house THEN f.ev + f.heat ELSE f.house
           n1 == g * k * least * f.ev
           n2 == g * k * least * f.heat
           q1 == ShareOf(f.ev, f, g * k)
           q2 == ShareOf(f.heat, f, g * k)
<1>1. /\ g \in Nat /\ g > 0 /\ least \in Nat /\ least <= g /\ least <= f.house
      /\ f.ev \in Nat /\ f.heat \in Nat /\ f.house \in Nat
      /\ over \in Nat /\ f.ev + f.heat <= over
  BY FlowTyped DEF Lesser
<1>2. k * least <= g * k /\ k * least <= f.house * k /\ k * least \in Nat
  <2> HIDE DEF least, g
  <2>1. k * least <= k * g /\ k * least <= k * f.house
    BY <1>1, Larger
  <2>2. \A x, y \in Nat : x * y = y * x /\ x * y \in Nat
    OBVIOUS
  <2> QED BY <1>1, <2>1, <2>2
<1>3. CASE f.ev + f.heat = 0
  <2>1. q1 = 0 /\ q2 = 0
    BY <1>3 DEF ShareOf
  <2> HIDE DEF q1, q2, g, least
  <2> QED BY <1>1, <1>2, <2>1 DEF q1, q2, g
<1>4. CASE f.ev + f.heat # 0
  <2>1. /\ q1 = n1 \div (g * over) /\ q2 = n2 \div (g * over)
    BY <1>4 DEF ShareOf
  <2>2. over > 0
    BY <1>1, <1>4
  <2> HIDE DEF g, least, over, q1, q2, n1, n2
  <2>3. \A x, y \in Nat : x * y \in Nat /\ (x > 0 /\ y > 0 => x * y > 0)
    OBVIOUS
  <2>4. g * over \in Nat /\ g * over > 0
    BY <1>1, <2>2, <2>3
  <2>5. g * k \in Nat /\ g * k * least \in Nat
    BY <1>1, <2>3
  <2>6. n1 \in Nat /\ n2 \in Nat
    BY <1>1, <2>3, <2>5 DEF n1, n2
  <2>7. q1 \in Nat /\ q2 \in Nat /\ (g * over) * q1 <= n1 /\ (g * over) * q2 <= n2
    BY <2>1, <2>4, <2>6, WholePart
  <2>8. (g * over) * (q1 + q2) <= n1 + n2
    <3>1. \A d, x, y \in Nat : d * (x + y) = d * x + d * y /\ d * x \in Nat
      OBVIOUS
    <3> QED BY <3>1, <2>4, <2>6, <2>7
  <2>9. n1 + n2 = (g * k * least) * (f.ev + f.heat)
    <3>1. \A a, x, y \in Nat : a * x + a * y = a * (x + y)
      OBVIOUS
    <3> QED BY <3>1, <2>5, <1>1 DEF n1, n2
  <2>10. (g * k * least) * (f.ev + f.heat) <= (g * k * least) * over
    BY <1>1, <2>5, Larger
  <2>11. (g * k * least) * over = (g * over) * (k * least)
    <3>1. \A a, b, c, d \in Nat : (a * b * c) * d = (a * d) * (b * c)
      OBVIOUS
    <3> QED BY <3>1, <1>1
  <2>12. (g * over) * (q1 + q2) <= (g * over) * (k * least)
    <3>1. (g * over) * (q1 + q2) \in Nat /\ (g * k * least) * over \in Nat
          /\ (g * k * least) * (f.ev + f.heat) \in Nat
      BY <2>3, <2>4, <2>5, <2>7, <1>1
    <3> QED BY <3>1, <2>6, <2>8, <2>9, <2>10, <2>11
  <2>13. q1 + q2 <= k * least
    BY <2>4, <2>7, <2>12, <1>2, Cancel
  <2>14. q1 + q2 <= g * k /\ q1 + q2 <= f.house * k
    <3>1. g * k \in Nat /\ f.house * k \in Nat
      BY <1>1, <2>3
    <3> QED BY <3>1, <1>2, <2>7, <2>13
  <2> QED BY <2>7, <2>14 DEF q1, q2, g
<1> QED BY <1>3, <1>4
-----------------------------------------------------------------------------
(* The figures of a cycle. *)
Sums(s) ==
  /\ DOMAIN s = Figures
  /\ {s.import, s.importCheap, s.importPeak, s.costCheap, s.costPeak, s.earned, s.evCost,
      s.heatCost, s.houseCost, s.loadCost, s.heat, s.heatSolar, s.priced, s.acCost} \subseteq Int
  /\ s.startSoc \in Int \cup {Unknown}

EVCost(f, h) == IF Import(f) > 0 THEN ShareOf(f.ev, f, Import(f) * PriceAt(h)) ELSE 0
HeatCost(f, h) == IF Import(f) > 0 THEN ShareOf(f.heat, f, Import(f) * PriceAt(h)) ELSE 0

LEMMA CostsFit ==
  ASSUME NEW f \in Flow, NEW h
  PROVE  /\ EVCost(f, h) \in Nat /\ HeatCost(f, h) \in Nat
         /\ EVCost(f, h) + HeatCost(f, h) <= Import(f) * PriceAt(h)
         /\ EVCost(f, h) + HeatCost(f, h) <= f.house * PriceAt(h)
         /\ Import(f) * PriceAt(h) \in Nat /\ f.house * PriceAt(h) \in Nat
<1>1. \A x, y \in Nat : x * y \in Nat
  OBVIOUS
<1>2. Import(f) * PriceAt(h) \in Nat /\ f.house * PriceAt(h) \in Nat
  BY <1>1, FlowTyped, PriceTyped
<1>3. CASE Import(f) > 0
  <2>1. Import(f) = GridOf(f) /\ GridOf(f) > 0
    BY <1>3, FlowTyped DEF Import, AtLeast0
  <2> QED BY <1>2, <1>3, <2>1, PriceTyped, SharesFit DEF EVCost, HeatCost
<1>4. CASE ~(Import(f) > 0)
  BY <1>2, <1>4 DEF EVCost, HeatCost
<1> QED BY <1>3, <1>4

LEMMA AccumulatedIs ==
  ASSUME Sums(sums), NEW f \in Flow, NEW h, NEW soc, NEW a, a = Accumulated(f, h, soc)
  PROVE  /\ DOMAIN a = Figures
         /\ a.import = sums.import + Import(f)
         /\ a.importCheap = sums.importCheap + (IF h < CheapUntil THEN Import(f) ELSE 0)
         /\ a.importPeak = sums.importPeak + (IF h < CheapUntil THEN 0 ELSE Import(f))
         /\ a.costCheap = sums.costCheap + (IF h < CheapUntil THEN Import(f) * PriceAt(h) ELSE 0)
         /\ a.costPeak = sums.costPeak + (IF h < CheapUntil THEN 0 ELSE Import(f) * PriceAt(h))
         /\ a.earned = sums.earned + Export(f) * ExportRate * MoneyPart
         /\ a.heat = sums.heat + f.heat /\ a.heatSolar = sums.heatSolar + SolarHeat(f)
         /\ a.evCost = sums.evCost + EVCost(f, h)
         /\ a.heatCost = sums.heatCost + HeatCost(f, h)
         /\ a.houseCost = sums.houseCost + Import(f) * PriceAt(h) - EVCost(f, h) - HeatCost(f, h)
         /\ a.loadCost = sums.loadCost + f.house * PriceAt(h)
         /\ a.priced = sums.priced /\ a.acCost = sums.acCost /\ a.startSoc = sums.startSoc
<1>1. /\ Import(f) * RateAt(h) * MoneyPart = Import(f) * PriceAt(h)
      /\ f.house * RateAt(h) * MoneyPart = f.house * PriceAt(h)
  BY FlowTyped, Priced
<1> DEFINE cost == Import(f) * RateAt(h) * MoneyPart
           dear == f.house * RateAt(h) * MoneyPart
<1>2. Import(f) \in Nat
  BY FlowTyped
<1>3. DOMAIN sums = Figures
  BY DEF Sums
<1>4. a = [sums EXCEPT !.import = @ + Import(f), !.export = @ + Export(f),
                  !.importCheap = @ + (IF h < CheapUntil THEN Import(f) ELSE 0),
                  !.importPeak = @ + (IF h < CheapUntil THEN 0 ELSE Import(f)),
                  !.costCheap = @ + (IF h < CheapUntil THEN cost ELSE 0),
                  !.costPeak = @ + (IF h < CheapUntil THEN 0 ELSE cost),
                  !.earned = @ + Export(f) * ExportRate * MoneyPart,
                  !.house = @ + f.house, !.ev = @ + f.ev, !.heat = @ + f.heat,
                  !.evCost = @ + (IF Import(f) > 0 THEN ShareOf(f.ev, f, cost) ELSE 0),
                  !.heatCost = @ + (IF Import(f) > 0 THEN ShareOf(f.heat, f, cost) ELSE 0),
                  !.houseCost = @ + cost - (IF Import(f) > 0 THEN ShareOf(f.ev, f, cost) ELSE 0)
                                  - (IF Import(f) > 0 THEN ShareOf(f.heat, f, cost) ELSE 0),
                  !.loadCost = @ + dear,
                  !.charged = @ + AtLeast0(f.battery), !.given = @ + AtLeast0(-f.battery),
                  !.heatSolar = @ + SolarHeat(f),
                  !.missed = @ + (IF soc = FullAt /\ f.heat = 0 /\ f.ev = 0 THEN Export(f) ELSE 0)]
  BY DEF Accumulated, Import, Export
<1>5. cost = Import(f) * PriceAt(h) /\ dear = f.house * PriceAt(h)
  BY <1>1
<1>6. /\ (IF Import(f) > 0 THEN ShareOf(f.ev, f, cost) ELSE 0) = EVCost(f, h)
      /\ (IF Import(f) > 0 THEN ShareOf(f.heat, f, cost) ELSE 0) = HeatCost(f, h)
  BY <1>5 DEF EVCost, HeatCost
<1> HIDE DEF cost, dear
<1>7. /\ DOMAIN a = Figures
      /\ a.priced = sums.priced /\ a.acCost = sums.acCost /\ a.startSoc = sums.startSoc
  BY <1>3, <1>4 DEF Figures
<1>8. /\ a.import = sums.import + Import(f)
      /\ a.importCheap = sums.importCheap + (IF h < CheapUntil THEN Import(f) ELSE 0)
      /\ a.importPeak = sums.importPeak + (IF h < CheapUntil THEN 0 ELSE Import(f))
  BY <1>3, <1>4 DEF Figures
<1>9. /\ a.costCheap = sums.costCheap + (IF h < CheapUntil THEN cost ELSE 0)
      /\ a.costPeak = sums.costPeak + (IF h < CheapUntil THEN 0 ELSE cost)
      /\ a.loadCost = sums.loadCost + dear
  BY <1>3, <1>4 DEF Figures
<1>10. /\ a.earned = sums.earned + Export(f) * ExportRate * MoneyPart
       /\ a.heat = sums.heat + f.heat /\ a.heatSolar = sums.heatSolar + SolarHeat(f)
  BY <1>3, <1>4 DEF Figures
<1> DEFINE byCar == IF Import(f) > 0 THEN ShareOf(f.ev, f, cost) ELSE 0
           byHeat == IF Import(f) > 0 THEN ShareOf(f.heat, f, cost) ELSE 0
<1>11. /\ a.evCost = sums.evCost + byCar
       /\ a.heatCost = sums.heatCost + byHeat
       /\ a.houseCost = sums.houseCost + cost - byCar - byHeat
  <2> HIDE DEF byCar, byHeat
  <2> QED BY <1>3, <1>4 DEF Figures, byCar, byHeat
<1> QED BY <1>5, <1>6, <1>7, <1>8, <1>9, <1>10, <1>11

LEMMA ChargedIs ==
  ASSUME NEW a, DOMAIN a = Figures, NEW h, NEW read, NEW ac,
         NEW c, c = WithGridCharge(a, h, read, ac)
  PROVE  /\ DOMAIN c = Figures
         /\ \A x \in Figures \ {"ac", "priced", "acCost"} : c[x] = a[x]
         /\ "ac" \notin read => c.priced = a.priced /\ c.acCost = a.acCost
         /\ "ac" \in read => LET rise == IF memory.ac = Unknown THEN 0 ELSE ac - memory.ac
                             IN  /\ c.priced = a.priced + rise
                                 /\ c.acCost = a.acCost + rise * RateAt(h) * MoneyPart
BY DEF WithGridCharge, Figures

LEMMA BookmarkedIs ==
  ASSUME NEW a, DOMAIN a = Figures, NEW read, NEW soc, NEW b, b = Bookmarked(a, read, soc)
  PROVE  /\ DOMAIN b = Figures
         /\ \A x \in Figures \ {"startSoc"} : b[x] = a[x]
         /\ b.startSoc = IF a.startSoc = Unknown /\ "soc" \in read THEN soc ELSE a.startSoc
BY DEF Bookmarked, Figures
-----------------------------------------------------------------------------
(* The invariant. *)
Truths == {"timely", "solar", "given", "givenWorth", "sunStored", "base"}
Stats == [total: Int, start: Int, tracked: BOOLEAN, bms: BOOLEAN, from: Int]

EnergyTyped ==
  /\ {pack.soc, pack.ac} \subseteq Int /\ pack.fallen \in Nat
  /\ Sums(sums) /\ heatLog \in Int
  /\ memory \in [last: BOOLEAN, ac: Int \cup {Unknown}, soc: Int \cup {Unknown}]
  /\ stats \in Stats
  /\ DOMAIN truth = Truths /\ truth.timely \in BOOLEAN
  /\ {truth.solar, truth.given, truth.givenWorth, truth.sunStored} \subseteq Int

(* A level that was read is the battery's, or the nought of a glitch; the    *)
(* battery's own count is the one it showed last.                            *)
CountsTrue ==
  /\ memory.soc \in {Unknown, 0, pack.soc}
  /\ stats.bms => stats.tracked /\ stats.total = 3 + pack.fallen

(* A day seen without a break: until its first cycle nothing has been added  *)
(* up, and from then on the counter and the level are those of the last      *)
(* cycle, what the day saved is what the sun and the battery were worth less *)
(* what the battery's charge had cost, and the charge that came is the one   *)
(* paid for and the sun's, less what was given.                              *)
Balance ==
  sums.loadCost - sums.costCheap - sums.costPeak + sums.earned
    = truth.solar + truth.givenWorth - sums.acCost
NothingYet ==
  /\ memory.ac = Unknown /\ memory.soc = Unknown /\ sums.startSoc = Unknown
  /\ sums.priced = 0 /\ truth.sunStored = 0 /\ truth.given = 0
SeenWhole ==
  /\ memory.ac = pack.ac /\ memory.soc = pack.soc /\ sums.startSoc \in Int
  /\ pack.soc - sums.startSoc = sums.priced + truth.sunStored - truth.given
Whole ==
  truth.timely =>
    /\ Balance
    /\ sums.priced \in Nat /\ (sums.priced = 0 => sums.acCost = 0)
    /\ IF memory.last THEN SeenWhole ELSE NothingYet

EnergyInv == EnergyTyped /\ SharesAdd /\ CountsTrue /\ RateIsTrue /\ Whole

LEMMA EnergyStarts == EnergyInit => EnergyInv
<1> SUFFICES ASSUME EnergyInit PROVE EnergyInv
  OBVIOUS
<1>1. /\ pack.soc \in Int /\ pack.ac = 0 /\ pack.fallen = 0
      /\ sums = NoEnergy /\ heatLog = 0 /\ truth = NoTruth
      /\ memory = [last |-> FALSE, ac |-> Unknown, soc |-> Unknown]
      /\ stats = [total |-> 0, start |-> 0, tracked |-> FALSE, bms |-> FALSE, from |-> 0]
  BY DEF EnergyInit
<1>2. EnergyTyped
  BY <1>1 DEF EnergyTyped, Sums, NoEnergy, Figures, NoTruth, Truths, Stats
<1>3. SharesAdd /\ CountsTrue /\ RateIsTrue
  BY <1>1 DEF SharesAdd, CountsTrue, RateIsTrue, NoEnergy
<1>4. Whole
  BY <1>1 DEF Whole, Balance, NothingYet, NoEnergy, NoTruth
<1> QED BY <1>2, <1>3, <1>4 DEF EnergyInv

-----------------------------------------------------------------------------
(* What a cycle makes of the figures. *)
LEMMA WorldIs ==
  ASSUME EnergyTyped, NEW f \in Flow
  PROVE  /\ World(f).soc = pack.soc + f.battery
         /\ World(f).ac = pack.ac + FromGrid(f)
         /\ World(f).fallen = pack.fallen + AtLeast0(-f.battery)
         /\ {World(f).soc, World(f).ac} \subseteq Int /\ World(f).fallen \in Nat
<1>1. AtLeast0(-f.battery) \in Nat
  BY FlowTyped DEF AtLeast0
<1> QED BY <1>1, FlowTyped DEF World, FromGrid, Import, EnergyTyped

(* The shares of a cycle's cost, in sums that are added to. *)
SharesOf(s, log) ==
  /\ s.evCost + s.heatCost + s.houseCost = s.costCheap + s.costPeak
  /\ s.importCheap + s.importPeak = s.import
  /\ s.houseCost >= 0
  /\ s.evCost + s.heatCost <= s.loadCost
  /\ s.heatSolar + log = s.heat

LEMMA SharesGrow ==
  ASSUME EnergyInv, NEW f \in Flow, NEW h, NEW soc, NEW a, a = Accumulated(f, h, soc)
  PROVE  Sums(a) /\ SharesOf(a, heatLog + f.heat - SolarHeat(f))
<1> DEFINE paid == Import(f) * PriceAt(h)
           used == f.house * PriceAt(h)
           sold == Export(f) * ExportRate * MoneyPart
<1>1. /\ DOMAIN a = Figures
      /\ a.import = sums.import + Import(f)
      /\ a.importCheap = sums.importCheap + (IF h < CheapUntil THEN Import(f) ELSE 0)
      /\ a.importPeak = sums.importPeak + (IF h < CheapUntil THEN 0 ELSE Import(f))
      /\ a.costCheap = sums.costCheap + (IF h < CheapUntil THEN paid ELSE 0)
      /\ a.costPeak = sums.costPeak + (IF h < CheapUntil THEN 0 ELSE paid)
      /\ a.earned = sums.earned + sold
      /\ a.heat = sums.heat + f.heat /\ a.heatSolar = sums.heatSolar + SolarHeat(f)
      /\ a.evCost = sums.evCost + EVCost(f, h)
      /\ a.heatCost = sums.heatCost + HeatCost(f, h)
      /\ a.houseCost = sums.houseCost + paid - EVCost(f, h) - HeatCost(f, h)
      /\ a.loadCost = sums.loadCost + used
      /\ a.priced = sums.priced /\ a.acCost = sums.acCost /\ a.startSoc = sums.startSoc
  BY AccumulatedIs DEF EnergyInv, EnergyTyped
<1>2. /\ EVCost(f, h) \in Nat /\ HeatCost(f, h) \in Nat
      /\ EVCost(f, h) + HeatCost(f, h) <= paid
      /\ EVCost(f, h) + HeatCost(f, h) <= used
      /\ paid \in Nat /\ used \in Nat
  BY CostsFit
<1>3. sold \in Int
  <2>1. \A x, y, z \in Int : x * y * z \in Int
    OBVIOUS
  <2> QED BY <2>1, FlowTyped
<1>4. Import(f) \in Nat /\ f.heat \in Nat /\ SolarHeat(f) \in Nat
  BY FlowTyped
<1>5. Sums(sums) /\ SharesOf(sums, heatLog) /\ heatLog \in Int
  BY DEF EnergyInv, EnergyTyped, SharesAdd, SharesOf
<1> HIDE DEF paid, used, sold
<1>6. Sums(a)
  BY <1>1, <1>2, <1>3, <1>4, <1>5 DEF Sums
<1>7. SharesOf(a, heatLog + f.heat - SolarHeat(f))
  <2>1. /\ {sums.evCost, sums.heatCost, sums.houseCost, sums.costCheap, sums.costPeak} \subseteq Int
        /\ {sums.importCheap, sums.importPeak, sums.import} \subseteq Int
        /\ {sums.loadCost, sums.heatSolar, sums.heat} \subseteq Int
    BY <1>5 DEF Sums
  <2>2. a.costCheap + a.costPeak = sums.costCheap + sums.costPeak + paid
    BY <1>1, <1>2, <2>1
  <2>3. a.evCost + a.heatCost + a.houseCost
          = sums.evCost + sums.heatCost + sums.houseCost + paid
    BY <1>1, <1>2, <2>1
  <2>4. a.importCheap + a.importPeak = sums.importCheap + sums.importPeak + Import(f)
    BY <1>1, <1>4, <2>1
  <2>5. a.evCost + a.heatCost + a.houseCost = a.costCheap + a.costPeak
    BY <1>5, <2>2, <2>3 DEF SharesOf
  <2>6. a.importCheap + a.importPeak = a.import
    BY <1>1, <1>5, <2>4 DEF SharesOf
  <2>7. a.houseCost >= 0
    BY <1>1, <1>2, <1>5, <2>1 DEF SharesOf
  <2>8. a.evCost + a.heatCost <= a.loadCost
    BY <1>1, <1>2, <1>5, <2>1 DEF SharesOf
  <2>9. a.heatSolar + (heatLog + f.heat - SolarHeat(f)) = a.heat
    BY <1>1, <1>4, <1>5, <2>1 DEF SharesOf
  <2> QED BY <2>5, <2>6, <2>7, <2>8, <2>9 DEF SharesOf
<1> QED BY <1>6, <1>7
(* What a cycle reads of the level, what it adds to, and what it prices. *)
Level(f, read, glitch) ==
  IF "soc" \notin read THEN Unknown ELSE IF glitch THEN 0 ELSE World(f).soc
Before(f, is) == IF memory.last THEN Accumulated(f, hourNo, is) ELSE sums
AcRise(f, read) ==
  IF "ac" \notin read \/ memory.ac = Unknown THEN 0 ELSE World(f).ac - memory.ac

LEMMA LevelTyped ==
  ASSUME EnergyTyped, NEW f \in Flow, NEW read, NEW glitch \in BOOLEAN
  PROVE  /\ Level(f, read, glitch) \in {Unknown, 0, World(f).soc}
         /\ Level(f, read, glitch) \in Int \cup {Unknown}
         /\ AcRise(f, read) \in Int
<1>1. {World(f).soc, World(f).ac} \subseteq Int
  BY WorldIs
<1>2. memory.ac \in Int \cup {Unknown}
  BY DEF EnergyTyped
<1> QED BY <1>1, <1>2 DEF Level, AcRise

LEMMA CycleAdds ==
  ASSUME EnergyInv, NEW f \in Flow, NEW read, NEW glitch \in BOOLEAN,
         EnergyCycle(f, read, glitch)
  PROVE  LET is == Level(f, read, glitch)
         IN  /\ Sums(sums') /\ SharesOf(sums', heatLog') /\ heatLog' \in Int
             /\ \A x \in Figures \ {"ac", "priced", "acCost", "startSoc"} :
                   sums'[x] = Before(f, is)[x]
             /\ sums'.startSoc = IF sums.startSoc = Unknown /\ "soc" \in read THEN is
                                 ELSE sums.startSoc
             /\ sums'.priced = sums.priced + AcRise(f, read)
             /\ sums'.acCost = sums.acCost + AcRise(f, read) * PriceAt(hourNo)
<1> DEFINE is == Level(f, read, glitch)
           before == Before(f, is)
           with == WithGridCharge(before, hourNo, read, World(f).ac)
           log == heatLog + (IF memory.last THEN f.heat - SolarHeat(f) ELSE 0)
<1>1. sums' = Bookmarked(with, read, is) /\ heatLog' = log
  BY DEF EnergyCycle, Level, Before
<1>2. Sums(sums) /\ SharesOf(sums, heatLog) /\ heatLog \in Int
  BY DEF EnergyInv, EnergyTyped, SharesAdd, SharesOf
<1>3. /\ Sums(before) /\ SharesOf(before, log) /\ log \in Int
      /\ before.priced = sums.priced /\ before.acCost = sums.acCost
      /\ before.startSoc = sums.startSoc
  <2>1. CASE memory.last
    <3>1. before = Accumulated(f, hourNo, is) /\ log = heatLog + f.heat - SolarHeat(f)
      BY <2>1, <1>2, FlowTyped DEF Before
    <3> HIDE DEF before, log, is
    <3>2. Sums(before) /\ SharesOf(before, heatLog + f.heat - SolarHeat(f))
      BY <3>1, SharesGrow
    <3>3. /\ before.priced = sums.priced /\ before.acCost = sums.acCost
          /\ before.startSoc = sums.startSoc
      BY <3>1, <1>2, AccumulatedIs
    <3> QED BY <3>1, <3>2, <3>3, <1>2, FlowTyped
  <2>2. CASE ~memory.last
    <3>1. before = sums /\ log = heatLog
      BY <2>2, <1>2 DEF Before
    <3> QED BY <3>1, <1>2
  <2> QED BY <2>1, <2>2
<1>4. /\ is \in Int \cup {Unknown} /\ AcRise(f, read) \in Int
      /\ AcRise(f, read) * PriceAt(hourNo) \in Int
      /\ AcRise(f, read) * RateAt(hourNo) * MoneyPart = AcRise(f, read) * PriceAt(hourNo)
  <2>1. is \in Int \cup {Unknown} /\ AcRise(f, read) \in Int
    BY LevelTyped DEF EnergyInv
  <2> QED BY <2>1, Priced
<1>5. {before.priced, before.acCost} \subseteq Int /\ DOMAIN before = Figures
  BY <1>3 DEF Sums
<1> HIDE DEF is, before, log
<1>6. /\ DOMAIN with = Figures
      /\ \A x \in Figures \ {"ac", "priced", "acCost"} : with[x] = before[x]
      /\ "ac" \notin read => with.priced = before.priced /\ with.acCost = before.acCost
      /\ "ac" \in read =>
           LET rise == IF memory.ac = Unknown THEN 0 ELSE World(f).ac - memory.ac
           IN  /\ with.priced = before.priced + rise
               /\ with.acCost = before.acCost + rise * RateAt(hourNo) * MoneyPart
  <2> HIDE DEF with
  <2>1. with = WithGridCharge(before, hourNo, read, World(f).ac)
    BY DEF with
  <2> QED BY <2>1, <1>5, ChargedIs
<1> HIDE DEF with
<1>7. /\ with.priced = before.priced + AcRise(f, read)
      /\ with.acCost = before.acCost + AcRise(f, read) * PriceAt(hourNo)
  <2>1. CASE "ac" \in read
    <3>1. AcRise(f, read) = IF memory.ac = Unknown THEN 0 ELSE World(f).ac - memory.ac
      BY <2>1 DEF AcRise
    <3> QED BY <2>1, <3>1, <1>4, <1>6
  <2>2. CASE "ac" \notin read
    <3>1. AcRise(f, read) = 0 /\ 0 * PriceAt(hourNo) = 0
      BY <2>2, PriceTyped DEF AcRise
    <3> QED BY <2>2, <3>1, <1>5, <1>6
  <2> QED BY <2>1, <2>2
<1>8. /\ DOMAIN sums' = Figures
      /\ \A x \in Figures \ {"startSoc"} : sums'[x] = with[x]
      /\ sums'.startSoc = IF with.startSoc = Unknown /\ "soc" \in read THEN is ELSE with.startSoc
  BY <1>1, <1>6, BookmarkedIs
<1>9. with.startSoc = sums.startSoc
  BY <1>3, <1>6 DEF Figures
<1>10. /\ sums'.priced = sums.priced + AcRise(f, read)
       /\ sums'.acCost = sums.acCost + AcRise(f, read) * PriceAt(hourNo)
  BY <1>3, <1>7, <1>8 DEF Figures
<1>11. \A x \in Figures \ {"ac", "priced", "acCost", "startSoc"} : sums'[x] = before[x]
  BY <1>6, <1>8
<1>12. Sums(sums')
  <2>1. sums'.startSoc \in Int \cup {Unknown}
    BY <1>3, <1>4, <1>8, <1>9 DEF Sums
  <2>2. sums'.priced \in Int /\ sums'.acCost \in Int
    BY <1>4, <1>10, <1>3, <1>5
  <2>3. {sums'.import, sums'.importCheap, sums'.importPeak, sums'.costCheap, sums'.costPeak,
         sums'.earned, sums'.evCost, sums'.heatCost, sums'.houseCost, sums'.loadCost,
         sums'.heat, sums'.heatSolar} \subseteq Int
    BY <1>3, <1>11 DEF Sums, Figures
  <2> QED BY <1>8, <2>1, <2>2, <2>3 DEF Sums
<1>13. SharesOf(sums', heatLog')
  BY <1>1, <1>3, <1>11 DEF SharesOf, Figures
<1>14. heatLog' \in Int
  BY <1>1, <1>3
<1> QED BY <1>8, <1>9, <1>10, <1>11, <1>12, <1>13, <1>14 DEF is, before
-----------------------------------------------------------------------------
(* The battery's cycles. *)
CyclesCounted(s, given) ==
  /\ s \in Stats
  /\ s.total - s.start <= given - s.from
  /\ s.total >= s.start
  /\ s.bms => s.tracked /\ s.total = 3 + given

(* Taking the battery's own count over leaves the cycles that the rate is    *)
(* worked out from as they were.                                             *)
LEMMA AdoptedCounts ==
  ASSUME NEW s, NEW now \in Nat, NEW given \in Nat, now <= given,
         CyclesCounted(s, now), NEW t, t = Adopted(s, 3 + given, given)
  PROVE  CyclesCounted(t, given)
<1>1. /\ t \in Stats /\ t.total = 3 + given /\ t.tracked /\ t.bms
      /\ t.start = IF ~s.tracked THEN 3 + given
                   ELSE IF s.bms THEN s.start ELSE s.start + 3 + given - s.total
      /\ t.from = IF s.tracked THEN s.from ELSE given
  BY DEF Adopted, CyclesCounted, Stats
<1>2. {s.total, s.start, s.from} \subseteq Int /\ s.tracked \in BOOLEAN /\ s.bms \in BOOLEAN
  BY DEF CyclesCounted, Stats
<1>3. CASE ~s.tracked
  BY <1>1, <1>2, <1>3 DEF CyclesCounted
<1>4. CASE s.tracked /\ s.bms
  BY <1>1, <1>2, <1>4 DEF CyclesCounted
<1>5. CASE s.tracked /\ ~s.bms
  BY <1>1, <1>2, <1>5 DEF CyclesCounted
<1> QED BY <1>2, <1>3, <1>4, <1>5

(* An estimate counts no more than what the battery gave.                    *)
LEMMA EstimatedCounts ==
  ASSUME NEW s, NEW now \in Nat, NEW given \in Nat, now <= given,
         CyclesCounted(s, now), ~s.bms, NEW was \in Int \cup {Unknown}, NEW is \in Int \cup {Unknown},
         was # Unknown /\ is # Unknown /\ was > 0 /\ is > 0 => AtLeast0(was - is) = given - now
  PROVE  CyclesCounted(Estimated(s, was, is, given), given)
<1> DEFINE t == Estimated(s, was, is, given)
<1> SUFFICES CyclesCounted(t, given)
  OBVIOUS
<1> HIDE DEF t
<1>1. {s.total, s.start, s.from} \subseteq Int /\ s.tracked \in BOOLEAN
  BY DEF CyclesCounted, Stats
<1>2. CASE t = s
  BY <1>1, <1>2 DEF CyclesCounted
<1>3. CASE t # s
  <2> DEFINE fall == AtLeast0(was - is)
  <2>1. /\ was # Unknown /\ is # Unknown /\ was > 0 /\ is > 0
        /\ t = [s EXCEPT !.total = @ + fall, !.tracked = TRUE,
                         !.start = IF s.tracked THEN @ ELSE s.total,
                         !.from = IF s.tracked THEN @ ELSE given - fall]
    BY <1>3 DEF Estimated, t
  <2>2. fall = given - now
    BY <2>1
  <2> HIDE DEF fall
  <2>3. /\ t \in Stats /\ t.total = s.total + fall
        /\ t.start = IF s.tracked THEN s.start ELSE s.total
        /\ t.from = IF s.tracked THEN s.from ELSE given - fall
        /\ ~t.bms
    <3>1. DOMAIN s = {"total", "start", "tracked", "bms", "from"}
      BY DEF CyclesCounted, Stats
    <3>2. /\ DOMAIN t = {"total", "start", "tracked", "bms", "from"}
          /\ t.total = s.total + fall /\ t.tracked = TRUE /\ t.bms = s.bms
          /\ t.start = IF s.tracked THEN s.start ELSE s.total
          /\ t.from = IF s.tracked THEN s.from ELSE given - fall
      BY <2>1, <3>1
    <3>3. t = [total |-> t.total, start |-> t.start, tracked |-> t.tracked, bms |-> t.bms,
               from |-> t.from]
      BY <2>1, <3>2 DEF CyclesCounted, Stats
    <3>4. {t.total, t.start, t.from} \subseteq Int
      BY <1>1, <2>2, <3>2
    <3>5. t.tracked \in BOOLEAN /\ t.bms \in BOOLEAN
      BY <3>2 DEF CyclesCounted, Stats
    <3> HIDE DEF fall
    <3>6. t \in Stats
      BY <3>3, <3>4, <3>5 DEF Stats
    <3> QED BY <3>2, <3>6
  <2> QED BY <1>1, <2>2, <2>3 DEF CyclesCounted
<1> QED BY <1>2, <1>3

LEMMA CountsHold ==
  EnergyInv <=> /\ EnergyTyped /\ SharesAdd /\ Whole
                /\ memory.soc \in {Unknown, 0, pack.soc} /\ CyclesCounted(stats, pack.fallen)
BY DEF EnergyInv, EnergyTyped, CountsTrue, RateIsTrue, CyclesCounted

LEMMA WithoutOwn ==
  ASSUME NEW s, NEW given \in Nat, CyclesCounted(s, given), NEW t, t = [s EXCEPT !.bms = FALSE]
  PROVE  CyclesCounted(t, given) /\ ~t.bms
<1>1. s \in Stats
  BY DEF CyclesCounted
<1>2. t \in Stats /\ ~t.bms /\ t.total = s.total /\ t.start = s.start /\ t.from = s.from
  BY <1>1 DEF Stats
<1> QED BY <1>2 DEF CyclesCounted

LEMMA CycleCounts ==
  ASSUME EnergyInv, NEW f \in Flow, NEW read, NEW glitch \in BOOLEAN,
         EnergyCycle(f, read, glitch)
  PROVE  /\ memory'.soc \in {Unknown, 0, pack'.soc}
         /\ CyclesCounted(stats', pack'.fallen)
<1> DEFINE is == Level(f, read, glitch)
<1>1. /\ memory'.soc = is /\ pack' = World(f)
      /\ stats' = StatsAfter(read, memory.soc, is, pack')
  BY DEF EnergyCycle, Level
<1>2. EnergyTyped /\ memory.soc \in {Unknown, 0, pack.soc} /\ CyclesCounted(stats, pack.fallen)
  BY CountsHold
<1>3. /\ pack.soc \in Int /\ pack.fallen \in Nat
      /\ pack'.soc = pack.soc + f.battery /\ pack'.fallen = pack.fallen + AtLeast0(-f.battery)
      /\ pack'.soc \in Int /\ pack'.fallen \in Nat /\ f.battery \in Int
  BY <1>1, <1>2, WorldIs, FlowTyped DEF EnergyTyped
<1>4. is \in {Unknown, 0, pack'.soc}
  BY <1>1, <1>2, LevelTyped
<1> HIDE DEF is
<1>5. memory.soc \in Int \cup {Unknown} /\ is \in Int \cup {Unknown}
  BY <1>2, <1>3, <1>4
<1>6. pack.fallen <= pack'.fallen
  BY <1>3 DEF AtLeast0
<1>7. CASE "bms" \in read
  <2>1. stats' = Adopted(stats, 3 + pack'.fallen, pack'.fallen)
    BY <1>1, <1>7 DEF StatsAfter
  <2>2. CyclesCounted(stats', pack'.fallen)
    BY <1>2, <1>3, <1>6, <2>1, AdoptedCounts
  <2> QED BY <1>1, <1>4, <2>2
<1>8. CASE "bms" \notin read
  <2> DEFINE s == [stats EXCEPT !.bms = FALSE]
  <2>1. stats' = Estimated(s, memory.soc, is, pack'.fallen)
    BY <1>1, <1>8 DEF StatsAfter
  <2>2. CyclesCounted(s, pack.fallen) /\ ~s.bms
    BY <1>2, <1>3, WithoutOwn
  <2>3. memory.soc # Unknown /\ is # Unknown /\ memory.soc > 0 /\ is > 0
           => AtLeast0(memory.soc - is) = pack'.fallen - pack.fallen
    BY <1>2, <1>3, <1>4 DEF AtLeast0
  <2> HIDE DEF s
  <2>4. CyclesCounted(stats', pack'.fallen)
    BY <1>3, <1>5, <1>6, <2>1, <2>2, <2>3, EstimatedCounts
  <2> QED BY <1>1, <1>4, <2>4
<1> QED BY <1>7, <1>8

-----------------------------------------------------------------------------
(* What the day saved. *)
LEMMA Scaled ==
  ASSUME NEW a \in Int, NEW b \in Int, NEW c \in Int, NEW d \in Int, NEW e \in Int,
         NEW p \in Int, a - b = c + d - e
  PROVE  a * p - b * p = c * p + d * p - e * p
<1>1. (a - b) * p = a * p - b * p /\ (c + d - e) * p = c * p + d * p - e * p
  OBVIOUS
<1> QED BY <1>1

(* What a cycle's figures come to: what the house used, less what was        *)
(* bought, is what sun and battery gave, less what charging cost.            *)
LEMMA BalanceGrows ==
  ASSUME Sums(sums), NEW f \in Flow, NEW h, NEW soc, NEW a, a = Accumulated(f, h, soc)
  PROVE  a.loadCost - a.costCheap - a.costPeak + a.earned
           = sums.loadCost - sums.costCheap - sums.costPeak + sums.earned
               + Sun(f) * PriceAt(h) + Export(f) * ExportRate * MoneyPart
               + ToHouse(f) * PriceAt(h) - FromGrid(f) * PriceAt(h)
<1> DEFINE used == f.house * PriceAt(h)
           paid == Import(f) * PriceAt(h)
           sun == Sun(f) * PriceAt(h)
           gave == ToHouse(f) * PriceAt(h)
           bought == FromGrid(f) * PriceAt(h)
           sold == Export(f) * ExportRate * MoneyPart
<1>1. used - paid = sun + gave - bought
  <2> DEFINE house == f.house
             import == Import(f)
             rate == PriceAt(h)
             s == Sun(f)
             g == ToHouse(f)
             b == FromGrid(f)
  <2>1. /\ house \in Int /\ import \in Int /\ rate \in Int /\ s \in Int /\ g \in Int /\ b \in Int
        /\ house - import = s + g - b
    BY FlowTyped, PriceTyped, FlowsBalance
  <2> HIDE DEF house, import, rate, s, g, b
  <2>2. house * rate - import * rate = s * rate + g * rate - b * rate
    BY <2>1, Scaled
  <2> QED BY <2>2 DEF house, import, rate, s, g, b
<1>2. {used, paid, sun, gave, bought} \subseteq Int
  <2>1. \A x, y \in Nat : x * y \in Int
    OBVIOUS
  <2> QED BY <2>1, FlowTyped, PriceTyped
<1>3. sold \in Int
  <2>1. \A x, y, z \in Int : x * y * z \in Int
    OBVIOUS
  <2> QED BY <2>1, FlowTyped
<1>4. /\ a.loadCost = sums.loadCost + used /\ a.earned = sums.earned + sold
      /\ a.costCheap = sums.costCheap + (IF h < CheapUntil THEN paid ELSE 0)
      /\ a.costPeak = sums.costPeak + (IF h < CheapUntil THEN 0 ELSE paid)
  BY AccumulatedIs
<1>5. {sums.loadCost, sums.earned, sums.costCheap, sums.costPeak} \subseteq Int
  BY DEF Sums
<1> HIDE DEF used, paid, sun, gave, bought, sold
<1>6. a.costCheap + a.costPeak = sums.costCheap + sums.costPeak + paid
  BY <1>2, <1>4, <1>5
<1>7. a.costCheap \in Int /\ a.costPeak \in Int
  BY <1>2, <1>4, <1>5
<1>8. a.loadCost - a.costCheap - a.costPeak + a.earned
        = sums.loadCost - sums.costCheap - sums.costPeak + sums.earned + sun + sold + gave - bought
  <2> DEFINE wl == sums.loadCost
             wc == sums.costCheap
             wp == sums.costPeak
             we == sums.earned
             al == a.loadCost
             ac == a.costCheap
             ap == a.costPeak
             ae == a.earned
  <2>1. /\ wl \in Int /\ wc \in Int /\ wp \in Int /\ we \in Int
        /\ al \in Int /\ ac \in Int /\ ap \in Int /\ ae \in Int
    BY <1>2, <1>3, <1>4, <1>5, <1>7
  <2>2. al = wl + used /\ ae = we + sold /\ ac + ap = wc + wp + paid
    BY <1>4, <1>6
  <2> HIDE DEF wl, wc, wp, we, al, ac, ap, ae
  <2>3. al - ac - ap + ae = wl - wc - wp + we + sun + sold + gave - bought
    <3>1. used \in Int /\ paid \in Int /\ sun \in Int /\ gave \in Int /\ bought \in Int
      BY <1>2
    <3> QED BY <2>1, <2>2, <3>1, <1>1, <1>3
  <2> QED BY <2>3 DEF wl, wc, wp, we, al, ac, ap, ae
<1> QED BY <1>8 DEF sun, gave, bought, sold
LEMMA TruthIs ==
  ASSUME EnergyTyped, NEW f \in Flow, NEW read, NEW glitch \in BOOLEAN,
         EnergyCycle(f, read, glitch)
  PROVE  /\ DOMAIN truth' = Truths /\ truth'.timely \in BOOLEAN
         /\ truth'.timely => truth.timely /\ read = {"soc", "ac", "bms"} /\ ~glitch
         /\ ~memory.last =>
              /\ truth'.solar = truth.solar /\ truth'.given = truth.given
              /\ truth'.givenWorth = truth.givenWorth /\ truth'.sunStored = truth.sunStored
         /\ memory.last =>
              /\ truth'.solar = truth.solar + Sun(f) * PriceAt(hourNo)
                                  + Export(f) * ExportRate * MoneyPart
              /\ truth'.given = truth.given + AtLeast0(-f.battery)
              /\ truth'.givenWorth = truth.givenWorth + ToHouse(f) * PriceAt(hourNo)
              /\ truth'.sunStored = truth.sunStored + SunStored(f)
<1>1. DOMAIN truth = Truths /\ truth.timely \in BOOLEAN
  BY DEF EnergyTyped
<1>2. CASE ~memory.last
  <2>1. truth' = [truth EXCEPT !.timely = @ /\ ~glitch /\ read = {"soc", "ac", "bms"}]
    BY <1>2 DEF EnergyCycle
  <2>2. truth'.timely = (truth.timely /\ ~glitch /\ read = {"soc", "ac", "bms"})
    BY <1>1, <2>1, Zenon DEF Truths
  <2>3. /\ DOMAIN truth' = Truths
        /\ truth'.solar = truth.solar /\ truth'.given = truth.given
        /\ truth'.givenWorth = truth.givenWorth /\ truth'.sunStored = truth.sunStored
    BY <1>1, <2>1 DEF Truths
  <2> QED BY <1>2, <2>2, <2>3, Zenon
<1>3. CASE memory.last
  <2> DEFINE told == Told(f, hourNo, read)
             sun == Sun(f) * RateAt(hourNo) * MoneyPart
             sold == Export(f) * ExportRate * MoneyPart
             gave == ToHouse(f) * RateAt(hourNo) * MoneyPart
             based == AtLeast0(f.house - f.ev - f.heat)
  <2>1. truth' = [told EXCEPT !.timely = @ /\ ~glitch]
    BY <1>3 DEF EnergyCycle
  <2>2. told = [truth EXCEPT !.timely = @ /\ read = {"soc", "ac", "bms"},
                  !.solar = @ + sun + sold, !.given = @ + AtLeast0(-f.battery),
                  !.givenWorth = @ + gave, !.sunStored = @ + SunStored(f), !.base = @ + based]
    BY DEF Told, Sun, Export, ToHouse, SunStored, Import
  <2>3. sun = Sun(f) * PriceAt(hourNo) /\ gave = ToHouse(f) * PriceAt(hourNo)
    BY FlowTyped, Priced
  <2> HIDE DEF told, sun, sold, gave, based
  <2>4. told.timely = (truth.timely /\ read = {"soc", "ac", "bms"}) /\ DOMAIN told = Truths
    BY <1>1, <2>2, Zenon DEF Truths
  <2>5. /\ told.solar = truth.solar + sun + sold /\ told.given = truth.given + AtLeast0(-f.battery)
        /\ told.givenWorth = truth.givenWorth + gave
        /\ told.sunStored = truth.sunStored + SunStored(f)
    BY <1>1, <2>2 DEF Truths
  <2>6. truth'.timely = (told.timely /\ ~glitch) /\ DOMAIN truth' = Truths
    BY <2>1, <2>4, Zenon DEF Truths
  <2>7. /\ truth'.solar = told.solar /\ truth'.given = told.given
        /\ truth'.givenWorth = told.givenWorth /\ truth'.sunStored = told.sunStored
    BY <2>1, <2>4 DEF Truths
  <2>8. truth'.timely = (truth.timely /\ read = {"soc", "ac", "bms"} /\ ~glitch)
    BY <2>4, <2>6, Zenon
  <2>9. /\ truth'.solar = truth.solar + Sun(f) * PriceAt(hourNo)
                            + Export(f) * ExportRate * MoneyPart
        /\ truth'.given = truth.given + AtLeast0(-f.battery)
        /\ truth'.givenWorth = truth.givenWorth + ToHouse(f) * PriceAt(hourNo)
        /\ truth'.sunStored = truth.sunStored + SunStored(f)
    BY <2>3, <2>5, <2>7 DEF sold
  <2> QED BY <1>3, <2>6, <2>8, <2>9, Zenon
<1>4. memory.last \in BOOLEAN
  BY DEF EnergyTyped
<1> QED BY <1>2, <1>3, <1>4, Zenon
LEMMA TruthStays ==
  ASSUME EnergyTyped, NEW f, NEW read, NEW glitch, EnergyCycle(f, read, glitch), ~memory.last
  PROVE  /\ truth'.solar = truth.solar /\ truth'.given = truth.given
         /\ truth'.givenWorth = truth.givenWorth /\ truth'.sunStored = truth.sunStored
<1>1. truth' = [truth EXCEPT !.timely = @ /\ ~glitch /\ read = {"soc", "ac", "bms"}]
  BY DEF EnergyCycle
<1> QED BY <1>1 DEF EnergyTyped, Truths

(* A cycle of a day seen without a break.                                    *)
LEMMA CycleWhole ==
  ASSUME EnergyInv, NEW f \in Flow, NEW read, NEW glitch \in BOOLEAN,
         EnergyCycle(f, read, glitch)
  PROVE  Whole'
<1> SUFFICES ASSUME truth'.timely
             PROVE  /\ Balance'
                    /\ sums'.priced \in Nat /\ (sums'.priced = 0 => sums'.acCost = 0)
                    /\ IF memory'.last THEN SeenWhole' ELSE NothingYet'
  BY Zenon DEF Whole
<1> DEFINE is == Level(f, read, glitch)
           before == Before(f, is)
           rise == AcRise(f, read)
           cost == rise * PriceAt(hourNo)
<1>1. EnergyTyped /\ Sums(sums) /\ Whole
  BY DEF EnergyInv, EnergyTyped
<1>2. truth.timely /\ read = {"soc", "ac", "bms"} /\ ~glitch
  BY <1>1, TruthIs
<1>3. /\ Balance /\ sums.priced \in Nat /\ (sums.priced = 0 => sums.acCost = 0)
      /\ IF memory.last THEN SeenWhole ELSE NothingYet
  BY <1>1, <1>2 DEF Whole
<1>4. /\ memory'.last /\ memory'.ac = World(f).ac /\ memory'.soc = World(f).soc
      /\ pack' = World(f) /\ is = World(f).soc
  BY <1>2 DEF EnergyCycle, Level
<1>5. /\ World(f).soc = pack.soc + f.battery /\ World(f).ac = pack.ac + FromGrid(f)
      /\ pack.soc \in Int /\ pack.ac \in Int /\ World(f).soc \in Int /\ World(f).ac \in Int
  BY <1>1, WorldIs DEF EnergyTyped
<1>6. /\ Sums(sums')
      /\ \A x \in Figures \ {"ac", "priced", "acCost", "startSoc"} : sums'[x] = before[x]
      /\ sums'.startSoc = IF sums.startSoc = Unknown THEN is ELSE sums.startSoc
      /\ sums'.priced = sums.priced + rise
      /\ sums'.acCost = sums.acCost + cost
  BY <1>2, CycleAdds
<1>7. /\ sums'.loadCost = before.loadCost /\ sums'.earned = before.earned
      /\ sums'.costCheap = before.costCheap /\ sums'.costPeak = before.costPeak
  BY <1>6 DEF Figures
<1>8. FromGrid(f) \in Nat /\ SunStored(f) \in Nat /\ AtLeast0(-f.battery) \in Nat
      /\ f.battery \in Int /\ f.battery = FromGrid(f) + SunStored(f) - AtLeast0(-f.battery)
  BY FlowTyped, FlowsBalance DEF AtLeast0
<1>9. sums.acCost \in Int /\ sums.startSoc \in Int \cup {Unknown}
  BY <1>1 DEF Sums
<1>10. CASE ~memory.last
  <2>1. NothingYet
    BY <1>3, <1>10
  <2>2. before = sums /\ rise = 0
    BY <1>10, <2>1 DEF Before, AcRise, NothingYet
  <2>3. cost = 0
    <3>1. \A y \in Nat : 0 * y = 0
      OBVIOUS
    <3> QED BY <2>2, <3>1, PriceTyped
  <2> HIDE DEF rise, cost, is, before
  <2>4. /\ truth'.solar = truth.solar /\ truth'.given = truth.given
        /\ truth'.givenWorth = truth.givenWorth /\ truth'.sunStored = truth.sunStored
    BY <1>1, <1>10, TruthStays
  <2>5. sums'.acCost = sums.acCost /\ sums'.priced = sums.priced
    BY <1>3, <1>6, <1>9, <2>2, <2>3
  <2>6. Balance'
    BY <1>3, <1>7, <2>2, <2>4, <2>5 DEF Balance
  <2>7. sums'.startSoc = World(f).soc
    BY <1>4, <1>6, <2>1 DEF NothingYet
  <2>8. SeenWhole'
    BY <1>4, <1>5, <2>1, <2>4, <2>5, <2>7 DEF SeenWhole, NothingYet
  <2> QED BY <1>3, <1>4, <2>5, <2>6, <2>8
<1>11. CASE memory.last
  <2>1. SeenWhole
    BY <1>3, <1>11
  <2>2. before = Accumulated(f, hourNo, is)
    BY <1>11 DEF Before
  <2>3. rise = FromGrid(f)
    BY <1>2, <1>5, <1>8, <2>1 DEF AcRise, SeenWhole
  <2>4. /\ cost = FromGrid(f) * PriceAt(hourNo) /\ cost \in Nat /\ (rise = 0 => cost = 0)
    <3> HIDE DEF rise
    <3>1. \A y \in Nat : 0 * y = 0
      OBVIOUS
    <3>2. \A x, y \in Nat : x * y \in Nat
      OBVIOUS
    <3> QED BY <1>8, <2>3, <3>1, <3>2, PriceTyped
  <2> HIDE DEF rise, cost, is, before
  <2>5. /\ truth'.solar = truth.solar + Sun(f) * PriceAt(hourNo)
                            + Export(f) * ExportRate * MoneyPart
        /\ truth'.given = truth.given + AtLeast0(-f.battery)
        /\ truth'.givenWorth = truth.givenWorth + ToHouse(f) * PriceAt(hourNo)
        /\ truth'.sunStored = truth.sunStored + SunStored(f)
    BY <1>1, <1>11, TruthIs
  <2>6. before.loadCost - before.costCheap - before.costPeak + before.earned
           = sums.loadCost - sums.costCheap - sums.costPeak + sums.earned
               + Sun(f) * PriceAt(hourNo) + Export(f) * ExportRate * MoneyPart
               + ToHouse(f) * PriceAt(hourNo) - cost
    BY <1>1, <2>2, <2>4, BalanceGrows
  <2>7. Balance'
    <3> DEFINE sun == Sun(f) * PriceAt(hourNo)
               sold == Export(f) * ExportRate * MoneyPart
               gave == ToHouse(f) * PriceAt(hourNo)
               was == sums.loadCost - sums.costCheap - sums.costPeak + sums.earned
               now == before.loadCost - before.costCheap - before.costPeak + before.earned
               sol == truth.solar
               wor == truth.givenWorth
               ac == sums.acCost
    <3>1. /\ sun \in Int /\ gave \in Int
      BY FlowTyped, Priced
    <3>2. sold \in Int
      <4>1. \A x, y, z \in Int : x * y * z \in Int
        OBVIOUS
      <4> QED BY <4>1, FlowTyped
    <3>3. sol \in Int /\ wor \in Int /\ ac \in Int /\ cost \in Int
      BY <1>1, <2>4 DEF EnergyTyped, Sums
    <3>4. was = sol + wor - ac /\ now = was + sun + sold + gave - cost
      BY <1>3, <2>6 DEF Balance
    <3>5. truth'.solar = sol + sun + sold /\ truth'.givenWorth = wor + gave
      BY <2>5
    <3>6. sums'.acCost = ac + cost
      BY <1>6
    <3>7. sums'.loadCost - sums'.costCheap - sums'.costPeak + sums'.earned = now
      BY <1>7
    <3> HIDE DEF sun, sold, gave, was, now, sol, wor, ac
    <3>8. now = (sol + sun + sold) + (wor + gave) - (ac + cost)
      BY <3>1, <3>2, <3>3, <3>4
    <3> QED BY <3>5, <3>6, <3>7, <3>8 DEF Balance
  <2>8. sums'.priced \in Nat /\ (sums'.priced = 0 => sums'.acCost = 0)
    BY <1>3, <1>6, <1>8, <1>9, <2>3, <2>4
  <2>9. sums'.startSoc = sums.startSoc
    BY <1>6, <2>1 DEF SeenWhole
  <2>10. SeenWhole'
    <3>1. truth.sunStored \in Int /\ truth.given \in Int /\ sums.priced \in Nat
      BY <1>1, <1>3 DEF EnergyTyped
    <3>2. /\ memory'.ac = pack'.ac /\ memory'.soc = pack'.soc /\ sums'.startSoc \in Int
      BY <1>4, <2>1, <2>9 DEF SeenWhole
    <3> DEFINE soc == pack.soc
               start == sums.startSoc
               priced == sums.priced
               keptSun == truth.sunStored
               given == truth.given
               came == FromGrid(f)
               sunny == SunStored(f)
               left == AtLeast0(-f.battery)
    <3>3. /\ soc \in Int /\ start \in Int /\ priced \in Int /\ keptSun \in Int /\ given \in Int
          /\ came \in Int /\ sunny \in Int /\ left \in Int
      BY <1>5, <1>8, <2>1, <3>1 DEF SeenWhole
    <3>4. soc - start = priced + keptSun - given
      BY <2>1 DEF SeenWhole
    <3>5. pack'.soc = soc + f.battery /\ f.battery = came + sunny - left
      BY <1>4, <1>5, <1>8
    <3>6. /\ sums'.startSoc = start /\ sums'.priced = priced + came
          /\ truth'.sunStored = keptSun + sunny /\ truth'.given = given + left
      BY <1>6, <2>3, <2>5, <2>9
    <3> HIDE DEF soc, start, priced, keptSun, given, came, sunny, left
    <3>7. pack'.soc - start = (priced + came) + (keptSun + sunny) - (given + left)
      BY <3>3, <3>4, <3>5
    <3> QED BY <3>2, <3>6, <3>7 DEF SeenWhole
  <2> QED BY <1>4, <2>7, <2>8, <2>10
<1> QED BY <1>10, <1>11
LEMMA CycleKeeps ==
  ASSUME EnergyInv, NEW f \in Flow, NEW read, NEW glitch \in BOOLEAN,
         EnergyCycle(f, read, glitch)
  PROVE  EnergyInv'
<1> DEFINE is == Level(f, read, glitch)
<1>1. EnergyTyped /\ CyclesCounted(stats, pack.fallen)
  BY CountsHold
<1>2. /\ Sums(sums') /\ SharesOf(sums', heatLog') /\ heatLog' \in Int
  BY CycleAdds
<1>3. memory'.soc \in {Unknown, 0, pack'.soc} /\ CyclesCounted(stats', pack'.fallen)
  BY CycleCounts
<1>4. pack' = World(f)
      /\ memory' = [last |-> TRUE, soc |-> is,
                    ac |-> IF "ac" \in read THEN World(f).ac ELSE memory.ac]
  BY DEF EnergyCycle, Level
<1>5. {pack'.soc, pack'.ac} \subseteq Int /\ pack'.fallen \in Nat
  BY <1>1, <1>4, WorldIs
<1>6. memory' \in [last: BOOLEAN, ac: Int \cup {Unknown}, soc: Int \cup {Unknown}]
  <2>1. is \in Int \cup {Unknown}
    BY <1>1, LevelTyped
  <2>2. (IF "ac" \in read THEN World(f).ac ELSE memory.ac) \in Int \cup {Unknown}
    BY <1>1, <1>4, <1>5 DEF EnergyTyped
  <2> HIDE DEF is
  <2> QED BY <1>4, <2>1, <2>2
<1>7. DOMAIN truth' = Truths
  BY <1>1, TruthIs
<1>8. truth'.timely \in BOOLEAN
  BY <1>1, TruthIs
<1>9. {truth'.solar, truth'.given, truth'.givenWorth, truth'.sunStored} \subseteq Int
  <2>1. {truth.solar, truth.given, truth.givenWorth, truth.sunStored} \subseteq Int
    BY <1>1 DEF EnergyTyped
  <2>2. CASE ~memory.last
    BY <1>1, <2>1, <2>2, TruthStays
  <2>3. CASE memory.last
    <3>1. /\ Sun(f) * PriceAt(hourNo) \in Int /\ ToHouse(f) * PriceAt(hourNo) \in Int
          /\ Export(f) * ExportRate * MoneyPart \in Int
          /\ SunStored(f) \in Int /\ AtLeast0(-f.battery) \in Int
      <4>1. \A x, y, z \in Int : x * y * z \in Int
        OBVIOUS
      <4> QED BY <4>1, FlowTyped, Priced DEF AtLeast0
    <3>2. /\ truth'.solar = truth.solar + Sun(f) * PriceAt(hourNo)
                              + Export(f) * ExportRate * MoneyPart
          /\ truth'.given = truth.given + AtLeast0(-f.battery)
          /\ truth'.givenWorth = truth.givenWorth + ToHouse(f) * PriceAt(hourNo)
          /\ truth'.sunStored = truth.sunStored + SunStored(f)
      BY <1>1, <2>3, TruthIs
    <3> QED BY <2>1, <3>1, <3>2
  <2> QED BY <2>2, <2>3
<1>10. EnergyTyped'
  <2>1. stats' \in Stats
    BY <1>3 DEF CyclesCounted
  <2> QED BY <1>2, <1>5, <1>6, <1>7, <1>8, <1>9, <2>1 DEF EnergyTyped
<1>11. SharesAdd'
  BY <1>2 DEF SharesAdd, SharesOf
<1>12. Whole'
  BY CycleWhole
<1> QED BY <1>3, <1>10, <1>11, <1>12, CountsHold DEF EnergyInv, CountsTrue, RateIsTrue, CyclesCounted

(* Home Assistant away: the battery goes on, and its own count is forgotten. *)
LEMMA AwayKeeps ==
  ASSUME EnergyInv, NEW f \in Flow, Away(f)
  PROVE  EnergyInv'
<1>1. /\ EnergyTyped /\ SharesAdd /\ CyclesCounted(stats, pack.fallen)
  BY CountsHold
<1>2. /\ pack' = World(f) /\ stats' = [stats EXCEPT !.bms = FALSE]
      /\ memory' = [memory EXCEPT !.last = FALSE, !.soc = Unknown]
      /\ truth' = [truth EXCEPT !.timely = FALSE]
      /\ sums' = sums /\ heatLog' = heatLog
  BY DEF Away
<1>3. /\ {pack'.soc, pack'.ac} \subseteq Int /\ pack'.fallen \in Nat
      /\ pack'.fallen = pack.fallen + AtLeast0(-f.battery) /\ AtLeast0(-f.battery) \in Nat
  BY <1>1, <1>2, WorldIs, FlowTyped DEF AtLeast0
<1>4. /\ memory' \in [last: BOOLEAN, ac: Int \cup {Unknown}, soc: Int \cup {Unknown}]
      /\ memory'.soc = Unknown
  BY <1>1, <1>2 DEF EnergyTyped
<1>5. /\ DOMAIN truth' = Truths /\ truth'.timely = FALSE
      /\ {truth'.solar, truth'.given, truth'.givenWorth, truth'.sunStored} \subseteq Int
  BY <1>1, <1>2 DEF EnergyTyped, Truths
<1>6. CyclesCounted(stats', pack.fallen) /\ ~stats'.bms
  <2>1. pack.fallen \in Nat
    BY <1>1 DEF EnergyTyped
  <2> QED BY <1>1, <1>2, <2>1, WithoutOwn
<1>7. /\ stats' \in Stats /\ stats'.total >= stats'.start
      /\ stats'.total - stats'.start <= pack'.fallen - stats'.from
  BY <1>1, <1>3, <1>6 DEF CyclesCounted, EnergyTyped, Stats
<1>8. EnergyTyped'
  BY <1>1, <1>2, <1>3, <1>4, <1>5, <1>7 DEF EnergyTyped
<1>9. SharesAdd'
  BY <1>1, <1>2 DEF SharesAdd
<1>10. Whole'
  BY <1>5 DEF Whole
<1> QED BY <1>4, <1>6, <1>7, <1>8, <1>9, <1>10 DEF EnergyInv, CountsTrue, RateIsTrue

(* The saving, from what the cycles added up to.                             *)
LEMMA SavingFollows == EnergyInv => SavingIsWhole
<1> SUFFICES ASSUME EnergyInv, memory.last, truth.timely
             PROVE  SavingOver = (truth.solar + truth.givenWorth) * PricedKwh
                                   + (truth.sunStored - truth.given) * ValueOver
  BY DEF SavingIsWhole
<1>1. /\ Balance /\ SeenWhole /\ sums.priced \in Nat /\ (sums.priced = 0 => sums.acCost = 0)
  BY DEF EnergyInv, Whole
<1> DEFINE saved == sums.loadCost - sums.costCheap - sums.costPeak + sums.earned
           worth == truth.solar + truth.givenWorth
           net == truth.sunStored - truth.given
           cost == sums.acCost
           priced == sums.priced
           per == PricedKwh
           value == ValueOver
<1>2. worth \in Int /\ net \in Int /\ cost \in Int /\ priced \in Nat
  BY <1>1 DEF EnergyInv, EnergyTyped, Sums
<1>3. saved = worth - cost
  BY <1>1, <1>2 DEF Balance, EnergyInv, EnergyTyped, Sums
<1>4. StoredChange = priced + net
  <2>1. memory.soc # Unknown /\ sums.startSoc # Unknown
    BY <1>1 DEF SeenWhole, EnergyInv, EnergyTyped
  <2>2. memory.soc - sums.startSoc = sums.priced + truth.sunStored - truth.given
    BY <1>1 DEF SeenWhole
  <2> QED BY <2>1, <2>2, <1>2 DEF StoredChange, EnergyInv, EnergyTyped
<1>5. SavingOver = saved * per + StoredChange * value
  BY DEF SavingOver
<1>6. CASE priced > 0
  <2>1. per = priced /\ value = cost
    BY <1>6 DEF PricedKwh, ValueOver
  <2> HIDE DEF saved, worth, net, cost, priced, per, value
  <2>2. (worth - cost) * priced + (priced + net) * cost = worth * priced + net * cost
    BY <1>2
  <2>3. SavingOver = worth * per + net * value
    BY <1>3, <1>4, <1>5, <2>1, <2>2
  <2> QED BY <2>3 DEF worth, net, per, value
<1>7. CASE priced = 0
  <2>1. per = 1 /\ value \in Int /\ cost = 0
    <3>1. CheapRate * MoneyPart \in Int
      OBVIOUS
    <3> QED BY <1>1, <1>7, <3>1 DEF PricedKwh, ValueOver
  <2> HIDE DEF saved, worth, net, cost, priced, per, value
  <2>2. (worth - 0) * 1 + (0 + net) * value = worth * 1 + net * value
    BY <1>2, <2>1
  <2>3. SavingOver = worth * per + net * value
    BY <1>3, <1>4, <1>5, <1>7, <2>1, <2>2
  <2> QED BY <2>3 DEF worth, net, per, value
<1> QED BY <1>2, <1>6, <1>7

(* However the flows, the readings and the times Home Assistant is away fall *)
(* out: the car and the heater pay no more than their share of what fed the  *)
(* house and the shares add up (_apportion_import_cost); the saving of a day *)
(* seen without a break is what the sun and the battery were worth           *)
(* (_set_savings_fields); and the rate of the battery's wear counts cycles   *)
(* it did (_adopt_lifetime_cycles, _count_estimated_cycles).                 *)
THEOREM EnergySound == EnergySpec => []EnergyIsSound
<1>1. EnergyInit => EnergyInv
  BY EnergyStarts
<1>2. EnergyInv /\ [EnergyNext]_energyVars => EnergyInv'
  <2> SUFFICES ASSUME EnergyInv, [EnergyNext]_energyVars PROVE EnergyInv'
    OBVIOUS
  <2>1. ASSUME NEW f \in Flows, NEW read \in Readable, NEW glitch \in BOOLEAN,
               EnergyCycle(f, read, glitch)
        PROVE  EnergyInv'
    BY <2>1, CycleKeeps DEF Flow
  <2>2. ASSUME NEW f \in Flows, Away(f) PROVE EnergyInv'
    BY <2>2, AwayKeeps DEF Flow
  <2>3. CASE UNCHANGED energyVars
    BY <2>3 DEF energyVars, EnergyInv, EnergyTyped, SharesAdd, CountsTrue, RateIsTrue, Whole,
                Balance, SeenWhole, NothingYet
  <2> QED BY <2>1, <2>2, <2>3 DEF EnergyNext
<1>3. EnergyInv => EnergyIsSound
  BY SavingFollows DEF EnergyInv, EnergyIsSound
<1> QED BY <1>1, <1>2, <1>3, PTL DEF EnergySpec

-----------------------------------------------------------------------------
(* The tariff dialogs.                                                      *)
USE WizardAssumption

(* The rates a change carries, and what one key is saved as.  *)
Change == [effective : 1..WizardDays, base : Nat, rows : Nat]
Chosen == [OptionKeys -> Nat \cup {Unset}]
OneADay(list) == \A c, d \in list : c.effective = d.effective => c = d

WizardTypeOK ==
  /\ options \in Chosen /\ values \in Chosen
  /\ dated \in SUBSET Change
  /\ today \in 1..WizardDays /\ editDate \in 0..WizardDays
  /\ rateCount \in Nat \cup {Unset}
  /\ tariffTouched \in BOOLEAN /\ cancelScheduled \in BOOLEAN

WizardInv ==
  /\ WizardTypeOK
  /\ OneADay(dated)
  /\ ~tariffTouched => editDate = 0 /\ \A k \in TariffKeys : values[k] = Unset

IsLast(c, list) == c \in list /\ \A d \in list : d.effective <= c.effective

-----------------------------------------------------------------------------
LEMMA LastIsThere ==
  ASSUME NEW list \in SUBSET Change, list # {}
  PROVE  \E c \in list : IsLast(c, list)
<1> DEFINE R == {pair \in Nat \X Nat : pair[1] < pair[2]}
           T == {WizardDays - c.effective : c \in list}
<1>1. OpToRel(<, Nat) = R
  BY Zenon DEF OpToRel
<1>2. IsWellFoundedOn(R, Nat)
  BY <1>1, NatLessThanWellFounded
<1>3. \A c \in list : c.effective \in Nat /\ WizardDays - c.effective \in Nat
  BY DEF Change
<1>4. T \in SUBSET Nat /\ T # {}
  BY <1>3
<1>5. PICK y \in T : \A z \in T : ~(<<z, y>> \in R)
  BY <1>2, <1>4, WFMin
<1>6. PICK c \in list : y = WizardDays - c.effective
  OBVIOUS
<1>7. ASSUME NEW d \in list PROVE d.effective <= c.effective
  <2>1. WizardDays - d.effective \in T /\ y \in Nat /\ WizardDays - d.effective \in Nat
    BY <1>3, <1>4
  <2>2. ~(WizardDays - d.effective < y)
    BY <1>5, <2>1
  <2> QED BY <1>3, <1>6, <2>2
<1> QED BY <1>7 DEF IsLast

LEMMA LastIsOne ==
  ASSUME NEW list \in SUBSET Change, OneADay(list), NEW c, IsLast(c, list)
  PROVE  (CHOOSE x \in list : \A d \in list : d.effective <= x.effective) = c
<1> DEFINE x == CHOOSE x \in list : \A d \in list : d.effective <= x.effective
<1>1. x \in list /\ \A d \in list : d.effective <= x.effective
  BY DEF IsLast
<1>2. x.effective <= c.effective /\ c.effective <= x.effective /\ c \in list
  BY <1>1 DEF IsLast
<1>3. x.effective \in Int /\ c.effective \in Int
  BY <1>1, <1>2 DEF Change
<1>4. x.effective = c.effective
  BY <1>2, <1>3
<1> QED BY <1>1, <1>2, <1>4 DEF OneADay

LEMMA EffectiveTypes ==
  ASSUME NEW opts \in Chosen
  PROVE  /\ EffectiveOptions(opts) \in [OptionKeys -> Nat]
         /\ \A k \in OptionKeys : EffectiveOptions(opts)[k] = IF opts[k] = Unset THEN Defaults[k] ELSE opts[k]
<1>1. Defaults \in [OptionKeys -> Nat]
  BY DEF Defaults, OptionKeys, TariffKeys, RateKeys
<1> QED BY <1>1 DEF EffectiveOptions, Over, Chosen

LEMMA InForceAt ==
  ASSUME NEW opts \in Chosen, NEW list \in SUBSET Change, OneADay(list), NEW date \in Int
  PROVE  /\ Started(list, date) = {} => InForce(opts, list, date) = EffectiveOptions(opts)
         /\ \A c : IsLast(c, Started(list, date)) =>
              /\ \A k \in RateKeys : InForce(opts, list, date)[k] = c[k]
         /\ InForce(opts, list, date) \in [OptionKeys -> Nat]
         /\ \A k \in OptionKeys \ RateKeys : InForce(opts, list, date)[k] = EffectiveOptions(opts)[k]
<1> DEFINE due == Started(list, date)
           before == EffectiveOptions(opts)
<1>1. before \in [OptionKeys -> Nat]
  BY EffectiveTypes
<1>2. due \in SUBSET Change /\ OneADay(due)
  BY DEF Started, OneADay
<1> DEFINE latest == CHOOSE c \in due : \A d \in due : d.effective <= c.effective
<1>3. InForce(opts, list, date) = IF due = {} THEN before
                                  ELSE [before EXCEPT !.base = latest.base, !.rows = latest.rows]
  BY DEF InForce
<1>4. ASSUME NEW c, IsLast(c, due) PROVE latest = c /\ due # {}
  BY <1>2, <1>4, LastIsOne DEF IsLast
<1>5. due # {} => latest \in Change
  <2> SUFFICES ASSUME due # {} PROVE latest \in Change
    OBVIOUS
  <2>1. PICK c \in due : IsLast(c, due)
    BY <1>2, LastIsThere
  <2> QED BY <1>2, <1>4, <2>1
<1> HIDE DEF latest, before, due
<1>6. due # {} => [before EXCEPT !.base = latest.base, !.rows = latest.rows] \in [OptionKeys -> Nat]
  BY <1>1, <1>5 DEF Change, OptionKeys, TariffKeys, RateKeys
<1>7. \A k \in RateKeys : [before EXCEPT !.base = latest.base, !.rows = latest.rows][k] = latest[k]
  BY <1>1 DEF OptionKeys, TariffKeys, RateKeys
<1>8. \A k \in OptionKeys \ RateKeys : [before EXCEPT !.base = latest.base, !.rows = latest.rows][k] = before[k]
  BY <1>1 DEF OptionKeys, TariffKeys, RateKeys
<1>9. due = {} => InForce(opts, list, date) = before
  BY <1>3
<1>10. \A c : IsLast(c, due) => \A k \in RateKeys : InForce(opts, list, date)[k] = c[k]
  BY <1>3, <1>4, <1>7
<1>11. InForce(opts, list, date) \in [OptionKeys -> Nat]
  BY <1>1, <1>3, <1>6
<1>12. \A k \in OptionKeys \ RateKeys : InForce(opts, list, date)[k] = before[k]
  BY <1>3, <1>8
<1> QED BY <1>9, <1>10, <1>11, <1>12 DEF before, due

-----------------------------------------------------------------------------
LEMMA NowTypes ==
  ASSUME WizardInv
  PROVE  /\ Now \in [OptionKeys -> Nat]
         /\ \A k \in OptionKeys \ RateKeys : Now[k] = EffectiveOptions(options)[k]
<1>1. today \in Int
  BY DEF WizardInv, WizardTypeOK
<1> QED BY <1>1, InForceAt DEF Now, WizardInv, WizardTypeOK

(* What a save writes of each key of the tariff.  *)
LEMMA SubmittedTypes ==
  ASSUME WizardInv
  PROVE  /\ \A k \in TariffKeys : Submitted[k] \in Nat \cup {Unset}
         /\ editDate # 0 => \A k \in RateKeys : Submitted[k] = Over(values, Now)[k]
         /\ IsUpdated /\ Superseding => \A k \in RateKeys : Submitted[k] = Over(values, Now)[k]
         /\ editDate = 0 /\ ~Superseding => \A k \in RateKeys : Submitted[k] = Updates[k]
         /\ Submitted.vat = Updates.vat
         /\ \A k \in OptionKeys : Over(values, Now)[k] \in Nat
         /\ \A k \in TariffKeys : Updates[k] = IF values[k] = Now[k] THEN Unset ELSE values[k]
         /\ \A k \in OptionKeys : Over(values, Now)[k] = IF values[k] = Unset THEN Now[k] ELSE values[k]
<1>1. Now \in [OptionKeys -> Nat] /\ values \in Chosen
  BY NowTypes DEF WizardInv, WizardTypeOK
<1>2. \A k \in OptionKeys : /\ Over(values, Now)[k] = IF values[k] = Unset THEN Now[k] ELSE values[k]
                            /\ Over(values, Now)[k] \in Nat
  BY <1>1 DEF Over, Chosen
<1>3. \A k \in TariffKeys : Updates[k] = IF values[k] = Now[k] THEN Unset ELSE values[k]
  BY DEF Updates
<1>4. \A k \in TariffKeys : Updates[k] \in Nat \cup {Unset} /\ k \in OptionKeys
  BY <1>1, <1>3 DEF Chosen, OptionKeys
<1>5. "vat" \in TariffKeys /\ "vat" \notin RateKeys /\ \A k \in RateKeys : k \in TariffKeys
  BY DEF TariffKeys, RateKeys
<1> DEFINE whole == editDate # 0 \/ (IsUpdated /\ Superseding)
<1>6. \A k \in TariffKeys : Submitted[k] = IF whole /\ k \in RateKeys THEN Over(values, Now)[k] ELSE Updates[k]
  BY <1>3 DEF Submitted, Updates
<1> HIDE DEF whole
<1>7. \A k \in TariffKeys : Submitted[k] \in Nat \cup {Unset}
  BY <1>2, <1>4, <1>6
<1>8. whole => \A k \in RateKeys : Submitted[k] = Over(values, Now)[k]
  BY <1>5, <1>6
<1>9. ~whole => \A k \in RateKeys : Submitted[k] = Updates[k]
  BY <1>5, <1>6
<1>10. Submitted["vat"] = Updates["vat"]
  BY <1>5, <1>6
<1> QED BY <1>2, <1>3, <1>7, <1>8, <1>9, <1>10 DEF whole

(* The list of changes after a save that keeps what is ahead.  *)
LEMMA DatedIsKept ==
  ASSUME WizardInv
  PROVE  /\ DatedAfter \in SUBSET Change
         /\ OneADay(DatedAfter)
<1>1. Kept \in SUBSET Change /\ OneADay(Kept) /\ Kept \in SUBSET dated
  BY DEF WizardInv, WizardTypeOK, Kept, Started, OneADay
<1>2. CASE editDate > today
  <2> DEFINE new == [effective |-> editDate, base |-> Submitted.base, rows |-> Submitted.rows]
             others == {c \in Kept : c.effective # editDate}
  <2>1. editDate # 0 /\ editDate \in 1..WizardDays
    BY <1>2 DEF WizardInv, WizardTypeOK
  <2>2. Submitted["base"] \in Nat /\ Submitted["rows"] \in Nat
    BY <2>1, SubmittedTypes DEF OptionKeys, TariffKeys, RateKeys
  <2>3. new \in Change /\ new.effective = editDate
    BY <2>1, <2>2 DEF Change
  <2>4. DatedAfter = others \cup {new}
    BY <1>2 DEF DatedAfter
  <2> HIDE DEF new
  <2>5. others \cup {new} \in SUBSET Change
    BY <1>1, <2>3
  <2>6. ASSUME NEW c \in others \cup {new}, NEW d \in others \cup {new}, c.effective = d.effective
        PROVE  c = d
    BY <1>1, <2>3, <2>6 DEF OneADay
  <2> QED BY <2>4, <2>5, <2>6 DEF OneADay
<1>3. CASE ~(editDate > today)
  BY <1>1, <1>3 DEF DatedAfter, Ahead, OneADay
<1> QED BY <1>2, <1>3

LEMMA OptionsAreKept ==
  ASSUME WizardInv
  PROVE  /\ OptionsAfter \in Chosen
         /\ NewOptions \in Chosen
         /\ \A k \in TariffKeys : NewOptions[k] = IF TariffIsSaved THEN OptionsAfter[k] ELSE options[k]
         /\ NewOptions.battery = IF values.battery \in {Unset, EffectiveOptions(options).battery}
                                 THEN options.battery ELSE values.battery
<1>1. \A k \in OptionKeys : OptionsAfter[k] =
        IF k \notin TariffKeys \/ (k \in RateKeys /\ editDate > today) \/ Submitted[k] = Unset
        THEN options[k] ELSE Submitted[k]
  BY DEF OptionsAfter
<1>2. options \in Chosen /\ values \in Chosen
  BY DEF WizardInv, WizardTypeOK
<1>3. OptionsAfter \in Chosen
  <2>1. \A k \in TariffKeys : Submitted[k] \in Nat \cup {Unset}
    BY SubmittedTypes
  <2>2. \A k \in OptionKeys : OptionsAfter[k] \in Nat \cup {Unset}
    BY <1>1, <1>2, <2>1 DEF Chosen
  <2> QED BY <2>2 DEF OptionsAfter, Chosen
<1> DEFINE rates == IF TariffIsSaved THEN OptionsAfter ELSE options
           battery == IF values.battery \in {Unset, EffectiveOptions(options).battery} THEN rates.battery
                      ELSE values.battery
<1>4. NewOptions = [rates EXCEPT !.battery = battery]
  BY DEF NewOptions
<1>5. rates \in Chosen
  BY <1>2, <1>3
<1>6. "battery" \in OptionKeys /\ "battery" \notin TariffKeys /\ TariffKeys \in SUBSET OptionKeys
  BY DEF OptionKeys, TariffKeys, RateKeys
<1>7. rates.battery = options.battery
  BY <1>1, <1>6
<1>8. battery \in Nat \cup {Unset}
  BY <1>2, <1>5, <1>6 DEF Chosen
<1>9. battery = IF values.battery \in {Unset, EffectiveOptions(options).battery}
                THEN options.battery ELSE values.battery
  BY <1>7
<1>10. \A k \in TariffKeys : rates[k] = IF TariffIsSaved THEN OptionsAfter[k] ELSE options[k]
  OBVIOUS
<1> HIDE DEF rates, battery
<1>11. NewOptions \in Chosen
  BY <1>4, <1>5, <1>8 DEF Chosen
<1>12. \A k \in TariffKeys : NewOptions[k] = rates[k]
  BY <1>4, <1>5, <1>6 DEF Chosen
<1>13. NewOptions.battery = battery
  BY <1>4, <1>5, <1>6 DEF Chosen
<1> QED BY <1>3, <1>9, <1>10, <1>11, <1>12, <1>13

LEMMA NextKeepsWizardInv == WizardInv /\ [WizardNext]_wizardVars => WizardInv'
<1> SUFFICES ASSUME WizardInv, [WizardNext]_wizardVars PROVE WizardInv'
  OBVIOUS
<1> USE DEF WizardInv
<1>1. NothingEntered \in Chosen /\ Unset \in Nat \cup {Unset} /\ 0 \in 0..WizardDays
      /\ \A k \in TariffKeys : NothingEntered[k] = Unset
  BY DEF NothingEntered, Chosen, OptionKeys
<1>2. StartCollecting => /\ values' \in Chosen /\ rateCount' \in Nat \cup {Unset} /\ editDate' \in 0..WizardDays
                         /\ tariffTouched' \in BOOLEAN /\ cancelScheduled' \in BOOLEAN
                         /\ editDate' = 0 /\ \A k \in TariffKeys : values'[k] = Unset
  BY <1>1 DEF StartCollecting
<1>3. CASE OpenConfigure
  BY <1>2, <1>3 DEF OpenConfigure, WizardTypeOK
<1>4. ASSUME NEW base \in 0..1, NEW number \in 0..1, RatesPage(base, number) PROVE WizardInv'
  <2>1. values' \in Chosen
    <3>1. values \in Chosen
      BY DEF WizardTypeOK
    <3>2. "base" \in OptionKeys /\ "rows" \in OptionKeys
      BY DEF OptionKeys, TariffKeys, RateKeys
    <3>3. values["rows"] \in Nat \cup {Unset}
      BY <3>1, <3>2 DEF Chosen
    <3> DEFINE rows == IF number = 0 /\ Now.rows > 0 THEN 0 ELSE values.rows
    <3>4. rows \in Nat \cup {Unset} /\ base \in Nat \cup {Unset}
      BY <3>3
    <3>5. values' = [values EXCEPT !.base = base, !.rows = rows]
      BY <1>4, <3>1, <3>2 DEF RatesPage, Chosen
    <3> HIDE DEF rows
    <3> QED BY <3>1, <3>4, <3>5 DEF Chosen
  <2> QED BY <1>4, <2>1 DEF RatesPage, Submitting, WizardTypeOK
<1>5. CASE TimedRatesPage
  <2>1. "rows" \in OptionKeys
    BY DEF OptionKeys, TariffKeys, RateKeys
  <2>2. CurrentCount \in Nat \cup {Unset}
    BY <2>1, NowTypes DEF CurrentCount, WizardTypeOK, Chosen
  <2>3. values' \in Chosen
    BY <1>5, <2>1, <2>2 DEF TimedRatesPage, WizardTypeOK, Chosen
  <2> QED BY <1>5, <2>3 DEF TimedRatesPage, Submitting, WizardTypeOK
<1>6. ASSUME NEW vat \in 0..1, BillPage(vat) PROVE WizardInv'
  <2>1. values' \in Chosen
    BY <1>6 DEF BillPage, WizardTypeOK, Chosen
  <2> QED BY <1>6, <2>1 DEF BillPage, Submitting, WizardTypeOK
<1>7. ASSUME NEW date \in 0..WizardDays, NEW cancel \in BOOLEAN, SchedulePage(date, cancel) PROVE WizardInv'
  BY <1>7 DEF SchedulePage, Submitting, WizardTypeOK
<1>8. CASE StillCurrentPage
  BY <1>8 DEF StillCurrentPage, Submitting, WizardTypeOK
<1>9. ASSUME NEW cost \in 0..1, BatteryPage(cost) PROVE WizardInv'
  <2>1. values' \in Chosen
    BY <1>9 DEF BatteryPage, WizardTypeOK, Chosen
  <2>2. \A k \in TariffKeys : values'[k] = values[k]
    BY <1>9 DEF BatteryPage, WizardTypeOK, Chosen, OptionKeys, TariffKeys, RateKeys
  <2> QED BY <1>9, <2>1, <2>2 DEF BatteryPage, Submitting, WizardTypeOK
<1>10. ASSUME NEW cost \in 0..1, SetElsewhere(cost) PROVE WizardInv'
  <2>1. options' \in Chosen
    BY <1>10 DEF SetElsewhere, WizardTypeOK, Chosen
  <2> QED BY <1>10, <2>1 DEF SetElsewhere, WizardTypeOK, collected
<1>11. CASE ShowConfirm
  BY <1>11 DEF ShowConfirm, WizardTypeOK, collected
<1>12. CASE Confirm
  <2>1. options' \in Chosen
    BY <1>12, OptionsAreKept DEF Confirm
  <2>2. dated' \in SUBSET Change /\ OneADay(dated')
    BY <1>12, DatedIsKept DEF Confirm, NewDated, WizardTypeOK
  <2> QED BY <1>2, <1>12, <2>1, <2>2 DEF Confirm, WizardTypeOK
<1>13. CASE CloseConfigure
  BY <1>2, <1>13 DEF CloseConfigure, WizardTypeOK
<1>14. CASE DayPasses
  BY <1>14 DEF DayPasses, WizardTypeOK, collected
<1>15. CASE UNCHANGED wizardVars
  BY <1>15 DEF wizardVars, WizardTypeOK, collected
<1> QED
  BY <1>3, <1>4, <1>5, <1>6, <1>7, <1>8, <1>9, <1>10, <1>11, <1>12, <1>13, <1>14, <1>15 DEF WizardNext

(* The rates are whole numbers or not said, a change has a day of its own, and pages that did not *)
(* touch the tariff said nothing of it.                                                           *)
THEOREM WizardKeepsItsTypes == WizardSpec => []WizardInv
<1>1. WizardInit => WizardInv
  <2>1. NothingEntered \in Chosen /\ \A k \in TariffKeys : NothingEntered[k] = Unset
    BY DEF NothingEntered, Chosen, OptionKeys
  <2>2. {} \in SUBSET Change /\ OneADay({}) /\ 1 \in 1..WizardDays /\ 0 \in 0..WizardDays /\ Unset \in Nat \cup {Unset}
    BY DEF OneADay
  <2> QED BY <2>1, <2>2 DEF WizardInit, WizardInv, WizardTypeOK
<1> QED BY <1>1, NextKeepsWizardInv, PTL DEF WizardSpec

-----------------------------------------------------------------------------
(* How a day's rates are read from the changes: the last of those that are *)
(* due, and of those ahead when one of them is.                             *)
LEMMA AheadIsLater ==
  ASSUME NEW list \in SUBSET Change, NEW now \in Int, NEW date \in Int, NEW late \in SUBSET Change,
         late = {c \in Ahead(list, now) : c.effective <= date}, now <= date
  PROVE  /\ \A c : IsLast(c, late) => IsLast(c, Started(list, date))
         /\ late = {} => Started(list, date) = Started(list, now)
<1>1. \A c \in list : c.effective \in Int
  BY DEF Change
<1>2. ASSUME NEW c, IsLast(c, late) PROVE IsLast(c, Started(list, date))
  <2>1. c \in list /\ c.effective > now /\ c.effective <= date
    BY <1>2 DEF IsLast, Ahead
  <2>2. ASSUME NEW d \in Started(list, date) PROVE d.effective <= c.effective
    <3>1. d \in list /\ d.effective <= date
      BY <2>2 DEF Started
    <3>2. CASE d.effective > now
      BY <1>2, <3>1, <3>2 DEF IsLast, Ahead
    <3>3. CASE ~(d.effective > now)
      BY <1>1, <2>1, <3>1, <3>3
    <3> QED BY <3>2, <3>3
  <2> QED BY <2>1, <2>2 DEF IsLast, Started
<1>3. ASSUME late = {} PROVE Started(list, date) = Started(list, now)
  <2>1. \A c \in list : c.effective <= date => c.effective <= now
    BY <1>1, <1>3 DEF Ahead
  <2>2. \A c \in list : c.effective <= now => c.effective <= date
    BY <1>1
  <2> QED BY <2>1, <2>2 DEF Started
<1> QED BY <1>2, <1>3

(* The rates of a day, from those in force and the changes ahead.           *)
LEMMA DayFollows ==
  ASSUME WizardInv, NEW date \in today..WizardDays, NEW k \in RateKeys, NEW opts \in Chosen,
         EffectiveOptions(opts)[k] = EffectiveOptions(options)[k]
  PROVE  LET late == {c \in Ahead(dated, today) : c.effective <= date}
         IN  /\ \A c : IsLast(c, late) => InForce(opts, dated, date)[k] = c[k]
             /\ late = {} => InForce(opts, dated, date)[k] = Now[k]
<1> DEFINE late == {c \in Ahead(dated, today) : c.effective <= date}
<1>1. /\ today \in Int /\ date \in Int /\ today <= date /\ dated \in SUBSET Change
      /\ options \in Chosen /\ OneADay(dated)
  BY DEF WizardInv, WizardTypeOK
<1>2. late \in SUBSET Change
  BY <1>1 DEF Ahead
<1> HIDE DEF late
<1>3. late = {c \in Ahead(dated, today) : c.effective <= date}
  BY DEF late
<1>4. \A c : IsLast(c, late) => InForce(opts, dated, date)[k] = c[k]
  <2>1. ASSUME NEW c, IsLast(c, late) PROVE InForce(opts, dated, date)[k] = c[k]
    <3>1. IsLast(c, Started(dated, date))
      BY <1>1, <1>2, <1>3, <2>1, AheadIsLater
    <3> QED BY <1>1, <3>1, InForceAt
  <2> QED BY <2>1
<1>5. ASSUME late = {} PROVE InForce(opts, dated, date)[k] = Now[k]
  <2>1. Started(dated, date) = Started(dated, today)
    BY <1>1, <1>2, <1>3, <1>5, AheadIsLater
  <2>2. CASE Started(dated, today) = {}
    <3>1. InForce(opts, dated, date) = EffectiveOptions(opts)
      BY <1>1, <2>1, <2>2, InForceAt
    <3>2. Now = EffectiveOptions(options)
      BY <1>1, <2>2, InForceAt DEF Now
    <3> QED BY <3>1, <3>2
  <2>3. CASE Started(dated, today) # {}
    <3>1. Started(dated, today) \in SUBSET Change
      BY <1>1 DEF Started
    <3>2. PICK c : IsLast(c, Started(dated, today))
      BY <2>3, <3>1, LastIsThere
    <3>3. InForce(opts, dated, date)[k] = c[k]
      BY <1>1, <2>1, <3>2, InForceAt
    <3>4. Now[k] = c[k]
      BY <1>1, <3>2, InForceAt DEF Now
    <3> QED BY <3>3, <3>4
  <2> QED BY <2>2, <2>3
<1> QED BY <1>4, <1>5 DEF late

(* What the pages promise, when nothing they promise is ahead, or something. *)
LEMMA ExpectedAt ==
  ASSUME WizardInv, NEW date \in today..WizardDays, NEW k \in RateKeys
  PROVE  LET late == {c \in Ahead(dated, today) : c.effective <= date}
             later == {c \in late : c.effective > editDate}
             sooner == {c \in late : c.effective < editDate}
         IN  /\ \A c : IsLast(c, later) => Expected(date, k) = c[k]
             /\ later = {} /\ editDate <= date => Expected(date, k) = Over(values, Now)[k]
             /\ \A c : later = {} /\ ~(editDate <= date) /\ IsLast(c, sooner) => Expected(date, k) = c[k]
             /\ later = {} /\ ~(editDate <= date) /\ sooner = {} => Expected(date, k) = Now[k]
<1> DEFINE late == {c \in Ahead(dated, today) : c.effective <= date}
           later == {c \in late : c.effective > editDate}
           sooner == {c \in late : c.effective < editDate}
<1>1. dated \in SUBSET Change /\ OneADay(dated)
  BY DEF WizardInv, WizardTypeOK
<1>2. /\ later = {c \in Ahead(dated, today) : c.effective <= date /\ c.effective > editDate}
      /\ sooner = {c \in Ahead(dated, today) : c.effective <= date /\ c.effective < editDate}
      /\ later \in SUBSET dated /\ sooner \in SUBSET dated
  BY DEF Ahead
<1> HIDE DEF later, sooner
<1>3. Expected(date, k) =
        IF later # {} THEN (CHOOSE c \in later : \A d \in later : d.effective <= c.effective)[k]
        ELSE IF editDate <= date THEN Over(values, Now)[k]
        ELSE IF sooner # {} THEN (CHOOSE c \in sooner : \A d \in sooner : d.effective <= c.effective)[k] ELSE Now[k]
  BY <1>2 DEF Expected
<1>4. /\ later \in SUBSET Change /\ OneADay(later)
      /\ sooner \in SUBSET Change /\ OneADay(sooner)
  BY <1>1, <1>2 DEF OneADay
<1>5. ASSUME NEW c, IsLast(c, later) PROVE Expected(date, k) = c[k]
  <2>1. later # {}
    BY <1>5 DEF IsLast
  <2> QED BY <1>3, <1>4, <1>5, <2>1, LastIsOne
<1>6. ASSUME NEW c, later = {}, ~(editDate <= date), IsLast(c, sooner) PROVE Expected(date, k) = c[k]
  <2>1. sooner # {}
    BY <1>6 DEF IsLast
  <2> QED BY <1>3, <1>4, <1>6, <2>1, LastIsOne
<1>7. later = {} /\ editDate <= date => Expected(date, k) = Over(values, Now)[k]
  BY <1>3
<1>8. later = {} /\ ~(editDate <= date) /\ sooner = {} => Expected(date, k) = Now[k]
  BY <1>3
<1> QED BY <1>5, <1>6, <1>7, <1>8 DEF later, sooner

-----------------------------------------------------------------------------
(* The rates of a save that changes the tariff from a later day.            *)
LEMMA ADatedChangeHolds ==
  ASSUME WizardInv, TariffIsSaved, ~cancelScheduled, editDate > today,
         NEW date \in today..WizardDays, NEW k \in RateKeys
  PROVE  InForce(NewOptions, DatedAfter, date)[k] = Expected(date, k)
<1> DEFINE late == {c \in Ahead(dated, today) : c.effective <= date}
           later == {c \in late : c.effective > editDate}
           sooner == {c \in late : c.effective < editDate}
           new == [effective |-> editDate, base |-> Submitted.base, rows |-> Submitted.rows]
<1>1. /\ today \in Int /\ date \in Int /\ today <= date /\ dated \in SUBSET Change
      /\ options \in Chosen /\ OneADay(dated) /\ editDate \in Int /\ editDate # 0
  BY DEF WizardInv, WizardTypeOK
<1>2. /\ NewOptions \in Chosen /\ DatedAfter \in SUBSET Change /\ OneADay(DatedAfter)
  BY OptionsAreKept, DatedIsKept
<1>3. DatedAfter = {c \in dated : c.effective # editDate} \cup {new}
  BY DEF DatedAfter, Kept
<1>4. k \in TariffKeys /\ k \in OptionKeys
  BY DEF OptionKeys, TariffKeys
<1>5. EffectiveOptions(NewOptions)[k] = EffectiveOptions(options)[k]
  <2>1. NewOptions[k] = OptionsAfter[k]
    BY <1>4, OptionsAreKept
  <2>2. OptionsAfter[k] = options[k]
    BY <1>4 DEF OptionsAfter
  <2> QED BY <1>1, <1>2, <1>4, <2>1, <2>2, EffectiveTypes
<1>6. new.effective = editDate /\ new[k] = Over(values, Now)[k]
  BY <1>1, SubmittedTypes DEF RateKeys
<1> HIDE DEF new
<1>7. \A c \in dated : c.effective \in Int
  BY <1>1 DEF Change
<1>8. \A c \in late : c \in dated /\ c.effective > today /\ c.effective <= date
  BY DEF Ahead
<1>9. CASE editDate <= date
  <2>1. new \in Started(DatedAfter, date)
    BY <1>3, <1>6, <1>9 DEF Started
  <2>2. CASE later = {}
    <3>1. IsLast(new, Started(DatedAfter, date))
      <4>1. ASSUME NEW d \in Started(DatedAfter, date) PROVE d.effective <= editDate
        <5>1. d = new \/ (d \in dated /\ d.effective <= date)
          BY <1>3, <4>1 DEF Started
        <5>2. ASSUME d \in dated, d.effective <= date, d.effective > editDate PROVE FALSE
          <6>1. d.effective > today
            BY <1>1, <1>7, <5>2
          <6> QED BY <2>2, <5>2, <6>1 DEF Ahead
        <5> QED BY <1>1, <1>6, <1>7, <5>1, <5>2
      <4> QED BY <1>6, <2>1, <4>1 DEF IsLast
    <3>2. InForce(NewOptions, DatedAfter, date)[k] = new[k]
      BY <1>1, <1>2, <3>1, InForceAt
    <3>3. Expected(date, k) = Over(values, Now)[k]
      BY <1>9, <2>2, ExpectedAt
    <3> QED BY <1>6, <3>2, <3>3
  <2>3. CASE later # {}
    <3>1. later \in SUBSET Change
      BY <1>1, <1>8
    <3>2. PICK c : IsLast(c, later)
      BY <2>3, <3>1, LastIsThere
    <3>3. c \in dated /\ c.effective > editDate /\ c.effective <= date
      BY <1>8, <3>2 DEF IsLast
    <3>4. c \in Started(DatedAfter, date)
      BY <1>1, <1>3, <1>7, <3>3 DEF Started
    <3>5. ASSUME NEW d \in Started(DatedAfter, date) PROVE d.effective <= c.effective
      <4>1. d = new \/ (d \in dated /\ d.effective <= date)
        BY <1>3, <3>5 DEF Started
      <4>2. CASE d = new
        BY <1>1, <1>6, <1>7, <3>3, <4>2
      <4>3. ASSUME d \in dated, d.effective <= date, d.effective > editDate PROVE d.effective <= c.effective
        <5>1. d.effective > today
          BY <1>1, <1>7, <4>3
        <5>2. d \in later
          BY <4>3, <5>1 DEF Ahead
        <5> QED BY <3>2, <5>2 DEF IsLast
      <4>4. ASSUME d \in dated, ~(d.effective > editDate) PROVE d.effective <= c.effective
        BY <1>1, <1>7, <3>3, <4>4
      <4> QED BY <4>1, <4>2, <4>3, <4>4
    <3>6. IsLast(c, Started(DatedAfter, date))
      BY <3>4, <3>5 DEF IsLast
    <3>7. InForce(NewOptions, DatedAfter, date)[k] = c[k]
      BY <1>1, <1>2, <3>6, InForceAt
    <3>8. Expected(date, k) = c[k]
      BY <3>2, ExpectedAt
    <3> QED BY <3>7, <3>8
  <2> QED BY <2>2, <2>3
<1>10. CASE ~(editDate <= date)
  <2>1. later = {}
    BY <1>1, <1>7, <1>8, <1>10
  <2>2. sooner = late
    BY <1>1, <1>7, <1>8, <1>10
  <2>3. Started(DatedAfter, date) = Started(dated, date)
    <3>1. \A c \in dated : c.effective <= date => c.effective # editDate
      BY <1>1, <1>7, <1>10
    <3> QED BY <1>3, <1>6, <1>10, <3>1 DEF Started
  <2>4. InForce(NewOptions, DatedAfter, date) = InForce(NewOptions, dated, date)
    BY <2>3 DEF InForce
  <2>5. CASE late = {}
    BY <1>2, <1>5, <1>10, <2>1, <2>2, <2>4, <2>5, DayFollows, ExpectedAt
  <2>6. CASE late # {}
    <3>1. late \in SUBSET Change
      BY <1>1, <1>8
    <3>2. PICK c : IsLast(c, late)
      BY <2>6, <3>1, LastIsThere
    <3>3. InForce(NewOptions, dated, date)[k] = c[k]
      BY <1>2, <1>5, <3>2, DayFollows
    <3>4. Expected(date, k) = c[k]
      BY <1>10, <2>1, <2>2, <3>2, ExpectedAt
    <3> QED BY <2>4, <3>3, <3>4
  <2> QED BY <2>5, <2>6
<1> QED BY <1>9, <1>10

(* The rates of a save that changes it from now.                            *)
LEMMA AChangeNowHolds ==
  ASSUME WizardInv, TariffIsSaved, ~cancelScheduled, ~(editDate > today),
         NEW date \in today..WizardDays, NEW k \in RateKeys
  PROVE  InForce(NewOptions, DatedAfter, date)[k] = Expected(date, k)
<1> DEFINE late == {c \in Ahead(dated, today) : c.effective <= date}
           later == {c \in late : c.effective > editDate}
<1>1. /\ today \in Int /\ date \in Int /\ today <= date /\ dated \in SUBSET Change
      /\ options \in Chosen /\ values \in Chosen /\ OneADay(dated) /\ editDate \in Int
  BY DEF WizardInv, WizardTypeOK
<1>2. /\ NewOptions \in Chosen /\ DatedAfter \in SUBSET Change /\ OneADay(DatedAfter)
  BY OptionsAreKept, DatedIsKept
<1>3. DatedAfter = Ahead(dated, today)
  BY DEF DatedAfter, Kept
<1>4. k \in TariffKeys /\ k \in OptionKeys
  BY DEF OptionKeys, TariffKeys
<1>5. \A c \in dated : c.effective \in Int
  BY <1>1 DEF Change
<1>6. later = late
  BY <1>1, <1>5 DEF Ahead
<1>7. Started(DatedAfter, date) = late
  BY <1>3 DEF Started
<1>8. CASE late # {}
  <2>1. late \in SUBSET Change
    BY <1>1 DEF Ahead
  <2>2. PICK c : IsLast(c, late)
    BY <1>8, <2>1, LastIsThere
  <2>3. InForce(NewOptions, DatedAfter, date)[k] = c[k]
    <3>1. IsLast(c, Started(DatedAfter, date))
      BY <1>7, <2>2
    <3> QED BY <1>1, <1>2, <3>1, InForceAt
  <2>4. Expected(date, k) = c[k]
    BY <1>6, <2>2, ExpectedAt
  <2> QED BY <2>3, <2>4
<1>9. CASE late = {}
  <2>1. Expected(date, k) = Over(values, Now)[k]
    BY <1>1, <1>6, <1>9, ExpectedAt
  <2>2. InForce(NewOptions, DatedAfter, date)[k] = EffectiveOptions(NewOptions)[k]
    <3>1. Started(DatedAfter, date) = {}
      BY <1>7, <1>9
    <3> QED BY <1>1, <1>2, <3>1, InForceAt
  <2>3. EffectiveOptions(NewOptions)[k] = IF Submitted[k] = Unset THEN EffectiveOptions(options)[k] ELSE Submitted[k]
    <3>1. NewOptions[k] = IF Submitted[k] = Unset THEN options[k] ELSE Submitted[k]
      BY <1>4, OptionsAreKept DEF OptionsAfter
    <3> QED BY <1>1, <1>2, <1>4, <3>1, EffectiveTypes
  <2>4. Over(values, Now)[k] = IF values[k] = Unset THEN Now[k] ELSE values[k]
    BY <1>4, SubmittedTypes
  <2>5. Over(values, Now)[k] # Unset
    BY <1>4, SubmittedTypes DEF Unset
  <2>6. CASE editDate # 0 \/ (IsUpdated /\ Superseding)
    BY <2>1, <2>2, <2>3, <2>5, <2>6, SubmittedTypes
  <2>7. CASE ~(editDate # 0 \/ (IsUpdated /\ Superseding))
    <3>1. editDate = 0 /\ ~Superseding
      BY <2>7 DEF TariffIsSaved
    <3>2. Now[k] = EffectiveOptions(options)[k]
      BY <3>1 DEF Superseding
    <3>3. Submitted[k] = IF values[k] = Now[k] THEN Unset ELSE values[k]
      BY <1>4, <3>1, SubmittedTypes
    <3> QED BY <2>1, <2>2, <2>3, <2>4, <3>2, <3>3
  <2> QED BY <2>6, <2>7
<1> QED BY <1>8, <1>9

(* The rates of a save that leaves the tariff.                              *)
LEMMA ALeftTariffHolds ==
  ASSUME WizardInv, ~TariffIsSaved, ~cancelScheduled,
         NEW date \in today..WizardDays, NEW k \in RateKeys
  PROVE  InForce(NewOptions, dated, date)[k] = Expected(date, k)
<1> DEFINE late == {c \in Ahead(dated, today) : c.effective <= date}
           later == {c \in late : c.effective > editDate}
<1>1. /\ today \in Int /\ date \in Int /\ today <= date /\ today > 0 /\ dated \in SUBSET Change
      /\ options \in Chosen /\ values \in Chosen
  BY DEF WizardInv, WizardTypeOK
<1>2. NewOptions \in Chosen
  BY OptionsAreKept
<1>3. k \in TariffKeys /\ k \in OptionKeys
  BY DEF OptionKeys, TariffKeys
<1>4. editDate = 0 /\ values[k] \in {Unset, Now[k]}
  <2>1. CASE ~tariffTouched
    BY <1>3, <2>1 DEF WizardInv
  <2>2. CASE tariffTouched
    BY <1>3, <2>2, SubmittedTypes DEF TariffIsSaved, IsUpdated
  <2> QED BY <2>1, <2>2
<1>5. EffectiveOptions(NewOptions)[k] = EffectiveOptions(options)[k]
  BY <1>1, <1>2, <1>3, OptionsAreKept, EffectiveTypes
<1>6. Over(values, Now)[k] = Now[k]
  BY <1>3, <1>4, SubmittedTypes
<1>7. \A c \in dated : c.effective \in Int
  BY <1>1 DEF Change
<1>8. later = late
  BY <1>1, <1>4, <1>7 DEF Ahead
<1>9. CASE late = {}
  <2>1. Expected(date, k) = Now[k]
    BY <1>1, <1>4, <1>6, <1>8, <1>9, ExpectedAt
  <2> QED BY <1>2, <1>5, <1>9, <2>1, DayFollows
<1>10. CASE late # {}
  <2>1. late \in SUBSET Change
    BY <1>1 DEF Ahead
  <2>2. PICK c : IsLast(c, late)
    BY <1>10, <2>1, LastIsThere
  <2>3. InForce(NewOptions, dated, date)[k] = c[k]
    BY <1>2, <1>5, <2>2, DayFollows
  <2>4. Expected(date, k) = c[k]
    BY <1>8, <2>2, ExpectedAt
  <2> QED BY <2>3, <2>4
<1> QED BY <1>9, <1>10

(* The rest of what is saved.                                               *)
LEMMA TheRestHolds ==
  ASSUME WizardInv
  PROVE  /\ EffectiveOptions(NewOptions).vat = Over(values, EffectiveOptions(options)).vat
         /\ EffectiveOptions(NewOptions).battery = Over(values, EffectiveOptions(options)).battery
<1>1. options \in Chosen /\ values \in Chosen /\ NewOptions \in Chosen
  BY OptionsAreKept DEF WizardInv, WizardTypeOK
<1>2. "vat" \in TariffKeys /\ "vat" \notin RateKeys /\ "vat" \in OptionKeys /\ "battery" \in OptionKeys
  BY DEF OptionKeys, TariffKeys, RateKeys
<1>3. \A k \in OptionKeys : Over(values, EffectiveOptions(options))[k] =
        IF values[k] = Unset THEN EffectiveOptions(options)[k] ELSE values[k]
  BY <1>1, EffectiveTypes DEF Over
<1>4. EffectiveOptions(NewOptions)["vat"] = Over(values, EffectiveOptions(options))["vat"]
  <2>1. Now["vat"] = EffectiveOptions(options)["vat"]
    BY <1>2, NowTypes
  <2>2. CASE TariffIsSaved
    <3>1. NewOptions["vat"] = IF Submitted["vat"] = Unset THEN options["vat"] ELSE Submitted["vat"]
      BY <1>2, <2>2, OptionsAreKept DEF OptionsAfter
    <3>2. Submitted["vat"] = IF values["vat"] = Now["vat"] THEN Unset ELSE values["vat"]
      BY <1>2, SubmittedTypes
    <3>3. values["vat"] # Unset /\ values["vat"] # Now["vat"] => Submitted["vat"] # Unset
      BY <3>2
    <3> QED BY <1>1, <1>2, <1>3, <2>1, <3>1, <3>2, <3>3, EffectiveTypes
  <2>3. CASE ~TariffIsSaved
    <3>1. NewOptions["vat"] = options["vat"]
      BY <1>2, <2>3, OptionsAreKept
    <3>2. values["vat"] \in {Unset, Now["vat"]}
      <4>1. CASE ~tariffTouched
        BY <1>2, <4>1 DEF WizardInv
      <4>2. CASE tariffTouched
        BY <1>2, <2>3, <4>2, SubmittedTypes DEF TariffIsSaved, IsUpdated
      <4> QED BY <4>1, <4>2
    <3> QED BY <1>1, <1>2, <1>3, <2>1, <3>1, <3>2, EffectiveTypes
  <2> QED BY <2>2, <2>3
<1>5. EffectiveOptions(NewOptions)["battery"] = Over(values, EffectiveOptions(options))["battery"]
  BY <1>1, <1>2, <1>3, OptionsAreKept, EffectiveTypes
<1> QED BY <1>4, <1>5

(* A save does to the tariff of this and of every later day what was entered and nothing else, *)
(* for any number of days, though a dated change may start while Configure is open.            *)
THEOREM SavesHold == WizardSpec => SavedTariffHolds
<1> DEFINE Premise == configure = "confirm" /\ configure' = "closed" /\ <<options, dated>>' # <<options, dated>> /\ ~cancelScheduled
           Held == /\ \A date \in today..WizardDays : \A k \in RateKeys :
                        InForce(options', dated', date)[k] = Expected(date, k)
                   /\ EffectiveOptions(options').vat = Over(values, EffectiveOptions(options)).vat
                   /\ EffectiveOptions(options').battery = Over(values, EffectiveOptions(options)).battery
<1>1. ASSUME WizardInv, [WizardNext]_wizardVars, Premise PROVE Held
  <2>1. Confirm
    BY <1>1 DEF WizardNext, wizardVars, OpenConfigure, RatesPage, TimedRatesPage, BillPage, SchedulePage,
       StillCurrentPage, BatteryPage, SetElsewhere, ShowConfirm, CloseConfigure, DayPasses, Submitting
  <2>2. options' = NewOptions /\ dated' = NewDated
    BY <2>1 DEF Confirm
  <2>3. ASSUME NEW date \in today..WizardDays, NEW k \in RateKeys
        PROVE  InForce(NewOptions, NewDated, date)[k] = Expected(date, k)
    <3>1. CASE TariffIsSaved /\ editDate > today
      BY <1>1, <3>1, ADatedChangeHolds DEF NewDated
    <3>2. CASE TariffIsSaved /\ ~(editDate > today)
      BY <1>1, <3>2, AChangeNowHolds DEF NewDated
    <3>3. CASE ~TariffIsSaved
      BY <1>1, <3>3, ALeftTariffHolds DEF NewDated
    <3> QED BY <3>1, <3>2, <3>3
  <2> QED BY <1>1, <2>2, <2>3, TheRestHolds
<1>2. WizardInv /\ [WizardNext]_wizardVars => [Premise => Held]_wizardVars
  BY <1>1
<1>3. WizardSpec => []WizardInv
  BY WizardKeepsItsTypes
<1> QED BY <1>2, <1>3, PTL DEF WizardSpec, SavedTariffHolds

-----------------------------------------------------------------------------
(* The set-up.                                                             *)
HIDE EnergyAssumption
HIDE WizardAssumption

(* A name, what discovery finds, what is remembered of it, an entry and a set-up. *)
ItsName == [by : {"serial", "prefix", "tail", "manual"}, of : Nat]
Kinds == {KindOf(d) : d \in Devices}
Found == [id : Nat, name : ItsName, kind : Kinds, complete : BOOLEAN, power : SUBSET PowerRoles,
          charge : BOOLEAN, limit : BOOLEAN, units : Nat, modules : Nat]
Known == [kind : Kinds, controller : ItsName, modules : Nat, roles : Nat \X (SUBSET PowerRoles) \X BOOLEAN]
OneId == Nat \cup {NoDevice}
Entry == [name : ItsName, wiring : [PowerRoles -> OneId], limit : OneId, rows : Nat, byHand : BOOLEAN,
          known : Known \cup {NoDevice}]
Ticked == SUBSET {"tariff", "forecast", "hot_water"}
Pages == {"tariff", "tariff_rates", "forecast", "hot_water", "confirm"}
Submission ==
  [step : Pages \cup {"closed", "system", "inverter_entities"}, found : SUBSET Found,
   picked : Found \cup {NoDevice}, chosen : Found \cup {NoDevice}, name : ItsName,
   wiring : [PowerRoles -> OneId], limit : OneId, ticked : Ticked, queue : Seq(Pages), rows : Nat,
   count : Nat, warned : SUBSET [page : Pages, of : PageWarnings], passed : Seq(Pages), missed : BOOLEAN]

(***************************************************************************)
(* What is found, and the one that is chosen                               *)
(***************************************************************************)

\* A device that is found is read as it is.
LEMMA FoundTyped ==
  ASSUME NEW devices \in Layouts
  PROVE  /\ Discover(devices) \in SUBSET Found
         /\ \A f \in Discover(devices) : \E d \in devices :
               /\ f.id = d.id /\ f.name = NameOf(d) /\ f.power = d.power
               /\ f.complete <=> d.power = PowerRoles
<1> DEFINE candidates == {d \in devices : IsCandidate(d)}
           many(d) == IF Cardinality(candidates) = 1 THEN d.modules ELSE 0
           seen(d) == [id |-> d.id, name |-> NameOf(d), kind |-> KindOf(d), complete |-> d.power = PowerRoles,
                       power |-> d.power, charge |-> d.charge, limit |-> d.limit, units |-> d.units,
                       modules |-> many(d)]
<1>1. Discover(devices) = {seen(d) : d \in candidates}
  BY DEF Discover
<1>2. ASSUME NEW d \in devices
      PROVE  seen(d) \in Found
  <2>1. d \in DeviceRecords
    BY SetupAssumption
  <2>2. NameOf(d) \in ItsName
    BY <2>1 DEF NameOf, Serial, NamedBy, ItsName, DeviceRecords
  <2>3. KindOf(d) \in Kinds
    BY DEF Kinds, Devices
  <2>4. many(d) \in Nat
    BY <2>1 DEF DeviceRecords
  <2>5. (d.power = PowerRoles) \in BOOLEAN
    OBVIOUS
  <2> HIDE DEF many
  <2>6. /\ d.id \in Nat /\ d.power \in SUBSET PowerRoles /\ d.charge \in BOOLEAN /\ d.limit \in BOOLEAN
        /\ d.units \in Nat
    BY <2>1 DEF DeviceRecords
  <2> QED
    BY <2>2, <2>3, <2>4, <2>5, <2>6 DEF Found
<1>3. \A f \in Discover(devices) : \E d \in devices : f = seen(d)
  BY <1>1
<1>4. ASSUME NEW d \in devices
      PROVE  /\ seen(d).id = d.id /\ seen(d).name = NameOf(d) /\ seen(d).power = d.power
             /\ seen(d).complete <=> d.power = PowerRoles
  OBVIOUS
<1> HIDE DEF seen
<1> QED
  BY <1>2, <1>3, <1>4

\* There is a first one of any that are found.
LEMMA FirstIsThere ==
  ASSUME NEW found \in SUBSET Found, found # {}
  PROVE  FirstOf(found) \in found
<1> DEFINE ranks == {Rank(f.name) : f \in found}
           R == {p \in Nat \X Nat : p[1] < p[2]}
<1>1. \A f \in Found : Rank(f.name) \in Nat
  BY DEF Found, Rank, ItsName
<1>2. ranks \subseteq Nat /\ ranks # {}
  BY <1>1
<1>3. OpToRel(<, Nat) = {p \in Nat \X Nat : p[1] < p[2]}
  BY Zenon DEF OpToRel
<1>4. IsWellFoundedOn(R, Nat)
  BY <1>3, NatLessThanWellFounded
<1> HIDE DEF R, ranks
<1>5. PICK least \in ranks : \A r \in ranks : <<r, least>> \notin R
  BY <1>2, <1>4, WFMin
<1>6. ASSUME NEW r \in ranks
      PROVE  least <= r
  <2>1. r \in Nat /\ least \in Nat
    BY <1>2
  <2>2. <<r, least>> \notin R
    BY <1>5
  <2>3. ~(r < least)
    BY <2>1, <2>2 DEF R
  <2> QED
    BY <2>1, <2>3
<1>7. \E f \in found : \A g \in found : Rank(f.name) <= Rank(g.name)
  BY <1>6 DEF ranks
<1> QED
  BY <1>7 DEF FirstOf

\* The rules choose one of those that are found, where there is one.
LEMMA ChosenIsFound ==
  ASSUME NEW found \in SUBSET Found
  PROVE  /\ found = {} => SelectController(found).controller = NoDevice
         /\ found # {} => SelectController(found).controller \in found
<1> DEFINE gateways == {f \in found : f.kind = "gateway"}
           rest == found \ gateways
           whole == {f \in found : f.complete}
           several == (CHOOSE f \in gateways : TRUE).units >= 2 \/ Cardinality(rest) >= 2
           n == Cardinality(found)
           selected == SelectController(found)
<1>1. selected =
        CASE found = {} -> [controller |-> NoDevice, ask |-> FALSE]
          [] n = 1 -> [controller |-> FirstOf(found), ask |-> FALSE]
          [] n > 1 /\ Cardinality(gateways) = 1 ->
               [controller |-> IF several THEN FirstOf(gateways) ELSE FirstOf(rest), ask |-> FALSE]
          [] OTHER -> [controller |-> FirstOf(IF whole = {} THEN found ELSE whole), ask |-> TRUE]
  BY DEF SelectController
<1>2. Cardinality({}) = 0
  BY FS_EmptySet
<1>3. \A part \in SUBSET found : part # {} => FirstOf(part) \in found
  BY FirstIsThere
<1>4. gateways \in SUBSET found /\ rest \in SUBSET found /\ whole \in SUBSET found
  OBVIOUS
<1>5. Cardinality(gateways) = 1 => gateways # {}
  BY <1>2
<1>6. n > 1 /\ Cardinality(gateways) = 1 => rest # {}
  <2>1. SUFFICES ASSUME rest = {} PROVE n = Cardinality(gateways)
    OBVIOUS
  <2>2. found = gateways
    BY <2>1
  <2> QED
    BY <2>2
<1> HIDE DEF gateways, rest, whole, several, selected, n
<1>7. CASE found = {}
  <2>1. n = 0
    BY <1>2, <1>7 DEF n
  <2>2. ~(n = 1) /\ ~(n > 1 /\ Cardinality(gateways) = 1)
    BY <2>1
  <2>3. selected = [controller |-> NoDevice, ask |-> FALSE]
    BY <1>1, <1>7, <2>2
  <2> QED
    BY <1>7, <2>3 DEF selected
<1>8. CASE found # {}
  <2>1. CASE n = 1
    <3>1. selected = [controller |-> FirstOf(found), ask |-> FALSE]
      BY <1>1, <1>8, <2>1
    <3> QED
      BY <1>3, <1>8, <3>1 DEF selected
  <2>2. CASE n > 1 /\ Cardinality(gateways) = 1
    <3>1. selected = [controller |-> IF several THEN FirstOf(gateways) ELSE FirstOf(rest), ask |-> FALSE]
      BY <1>1, <1>8, <2>2
    <3>2. gateways # {} /\ rest # {}
      BY <1>5, <1>6, <2>2
    <3> QED
      BY <1>3, <1>4, <1>8, <3>1, <3>2 DEF selected
  <2>3. CASE ~(n = 1) /\ ~(n > 1 /\ Cardinality(gateways) = 1)
    <3>1. selected = [controller |-> FirstOf(IF whole = {} THEN found ELSE whole), ask |-> TRUE]
      BY <1>1, <1>8, <2>3
    <3> QED
      BY <1>3, <1>4, <1>8, <3>1 DEF selected
  <2> QED
    BY <2>1, <2>2, <2>3
<1> QED
  BY <1>7, <1>8

\* What a look finds of a system is the whole of its identity.
LEMMA SystemTyped ==
  ASSUME NEW found \in SUBSET Found, NEW name \in ItsName
  PROVE  SystemNow(name, found) \in Known \cup {NoDevice}
<1>1. ASSUME NEW f \in Found
      PROVE  Identity(f) \in Known
  <2>1. /\ f.kind \in Kinds /\ f.name \in ItsName /\ f.modules \in Nat
        /\ f.id \in Nat /\ f.power \in SUBSET PowerRoles /\ f.charge \in BOOLEAN
    BY DEF Found
  <2>2. <<f.id, f.power, f.charge>> \in Nat \X (SUBSET PowerRoles) \X BOOLEAN
    BY <2>1
  <2> QED
    BY <2>1, <2>2 DEF Identity, Known
<1> DEFINE mine == {f \in found : f.name = name}
<1>2. mine # {} => FirstOf(mine) \in Found /\ SelectController(found).controller \in Found
  <2>1. mine # {} => FirstOf(mine) \in mine
    BY FirstIsThere
  <2>2. mine # {} => found # {}
    OBVIOUS
  <2> QED
    BY <2>1, <2>2, ChosenIsFound
<1>3. mine = {} => SystemNow(name, found) = NoDevice
  BY DEF SystemNow
<1>4. mine # {} => SystemNow(name, found) \in {Identity(SelectController(found).controller), Identity(FirstOf(mine))}
  BY DEF SystemNow
<1> QED
  BY <1>1, <1>2, <1>3, <1>4

(***************************************************************************)
(* The pages                                                               *)
(***************************************************************************)

Rates(s) == IF s.count > 0 THEN <<"tariff_rates">> ELSE <<>>
AfterTariff(s) == PageIf("forecast", s.ticked) \o PageIf("hot_water", s.ticked)
Behind(s, page) ==
  CASE page \in {"tariff", "inverter_entities"} -> <<>>
    [] page = "tariff_rates" -> <<"tariff">>
    [] page = "forecast" -> PageIf("tariff", s.ticked) \o Rates(s)
    [] page = "hot_water" -> PageIf("tariff", s.ticked) \o Rates(s) \o PageIf("forecast", s.ticked)
    [] OTHER -> PageIf("tariff", s.ticked) \o Rates(s) \o PageIf("forecast", s.ticked)
                   \o PageIf("hot_water", s.ticked)
ToCome(s, page) ==
  CASE page = "inverter_entities" -> SetupPages(s.ticked)
    [] page \in {"tariff", "tariff_rates"} -> AfterTariff(s)
    [] page = "forecast" -> PageIf("hot_water", s.ticked)
    [] OTHER -> <<>>

\* On each page the set-up has passed the ones before it, has those after it to come, and the timed
\* rates are as many as said once their page is behind it.
InOrder(s) ==
  s.step \in Pages =>
     /\ s.passed = Behind(s, s.step) /\ s.queue = ToCome(s, s.step)
     /\ s.step \in {"tariff", "tariff_rates", "forecast", "hot_water"} =>
           s.step = "tariff_rates" \/ s.step \in s.ticked
     /\ s.step = "tariff" => s.count = 0
     /\ s.step = "tariff_rates" => s.count > 0 /\ "tariff" \in s.ticked
     /\ s.step # "tariff_rates" => s.rows = s.count

\* A page that is ticked is the next, and one that is not makes no difference.
LEMMA PagesInTurn ==
  ASSUME NEW page \in Pages, NEW ticked, NEW queue \in Seq(Pages)
  PROVE  /\ PageIf(page, ticked) \in Seq(Pages)
         /\ PageIf(page, ticked) \o queue \in Seq(Pages)
         /\ page \in ticked => /\ PageIf(page, ticked) \o queue # <<>>
                               /\ Head(PageIf(page, ticked) \o queue) = page
                               /\ Tail(PageIf(page, ticked) \o queue) = queue
         /\ page \notin ticked => PageIf(page, ticked) \o queue = queue
<1>1. CASE page \in ticked
  <2>1. PageIf(page, ticked) = <<page>>
    BY <1>1 DEF PageIf
  <2>2. <<page>> \in Seq(Pages) /\ Len(<<page>>) = 1 /\ <<page>>[1] = page
    OBVIOUS
  <2> DEFINE both == <<page>> \o queue
  <2>3. /\ both \in Seq(Pages) /\ Len(both) = 1 + Len(queue) /\ both[1] = page
        /\ \A i \in 1..Len(queue) : both[i + 1] = queue[i]
    BY <2>2
  <2>4. both # <<>> /\ Head(both) = page
    BY <2>3
  <2>5. Tail(both) \in Seq(Pages) /\ Len(Tail(both)) = Len(queue)
    BY <2>3, <2>4
  <2>6. \A i \in 1..Len(queue) : Tail(both)[i] = queue[i]
    BY <2>3, <2>4
  <2>7. Tail(both) = queue
    BY <2>5, <2>6, SeqEqual
  <2> QED
    BY <1>1, <2>1, <2>2, <2>3, <2>4, <2>7
<1>2. CASE page \notin ticked
  <2>1. PageIf(page, ticked) = <<>>
    BY <1>2 DEF PageIf
  <2>2. <<>> \o queue = queue
    BY ConcatEmptySeq
  <2> QED
    BY <1>2, <2>1, <2>2
<1> QED
  BY <1>1, <1>2

\* What is passed is what was, and the page.
LEMMA OnePageMore ==
  ASSUME NEW page \in Pages, NEW passed \in Seq(Pages)
  PROVE  Append(passed, page) = passed \o <<page>> /\ passed \o <<>> = passed
BY AppendIsConcat, ConcatEmptySeq

\* On to a page: the step and the queue change, and nothing else.
Moves(s, t) == t.step \in Pages /\ t.queue \in Seq(Pages) /\ t = [s EXCEPT !.step = t.step, !.queue = t.queue]

LEMMA MoveKeepsTheRest ==
  ASSUME NEW s \in Submission, NEW t, Moves(s, t)
  PROVE  /\ t \in Submission
         /\ t.found = s.found /\ t.picked = s.picked /\ t.chosen = s.chosen /\ t.name = s.name
         /\ t.wiring = s.wiring /\ t.limit = s.limit /\ t.ticked = s.ticked /\ t.rows = s.rows
         /\ t.count = s.count /\ t.warned = s.warned /\ t.passed = s.passed /\ t.missed = s.missed
         /\ \A page : Behind(t, page) = Behind(s, page) /\ ToCome(t, page) = ToCome(s, page)
<1> DEFINE step == t.step
           queue == t.queue
<1>1. step \in Pages /\ queue \in Seq(Pages) /\ t = [s EXCEPT !.step = step, !.queue = queue]
  BY DEF Moves
<1> HIDE DEF step, queue
<1>2. t \in Submission
  BY <1>1 DEF Submission
<1>3. /\ t.found = s.found /\ t.picked = s.picked /\ t.chosen = s.chosen /\ t.name = s.name
      /\ t.wiring = s.wiring /\ t.limit = s.limit /\ t.ticked = s.ticked /\ t.rows = s.rows
      /\ t.count = s.count /\ t.warned = s.warned /\ t.passed = s.passed /\ t.missed = s.missed
  BY <1>1 DEF Submission
<1>4. \A page : Behind(t, page) = Behind(s, page) /\ ToCome(t, page) = ToCome(s, page)
  BY <1>3, Zenon DEF Behind, ToCome, Rates, AfterTariff
<1> QED
  BY <1>2, <1>3, <1>4

\* The page that is next, by what has been passed.
LEMMA ToTheEnd ==
  ASSUME NEW s \in Submission, s.passed = Behind(s, "confirm"), s.queue = <<>>, s.rows = s.count
  PROVE  /\ Moves(s, NextPage(s)) /\ NextPage(s).step = "confirm" /\ InOrder(NextPage(s))
<1> DEFINE t == NextPage(s)
<1>1. t = [s EXCEPT !.step = "confirm"]
  BY DEF NextPage
<1> HIDE DEF t
<1>2. /\ t.step = "confirm" /\ t.queue = <<>> /\ t = [s EXCEPT !.step = t.step, !.queue = t.queue]
      /\ <<>> \in Seq(Pages)
  BY <1>1 DEF Submission
<1>3. Moves(s, t)
  BY <1>2 DEF Moves, Pages
<1>4. /\ t.passed = Behind(t, "confirm") /\ t.rows = t.count
  BY <1>3, MoveKeepsTheRest
<1>5. t.queue = ToCome(t, "confirm")
  BY <1>2 DEF ToCome
<1>6. InOrder(t)
  BY <1>2, <1>4, <1>5 DEF InOrder
<1> QED
  BY <1>2, <1>3, <1>6 DEF t

LEMMA ToHotWater ==
  ASSUME NEW s \in Submission, s.passed = Behind(s, "hot_water"), s.queue = ToCome(s, "forecast"),
         s.rows = s.count
  PROVE  /\ Moves(s, NextPage(s)) /\ NextPage(s).step \in {"hot_water", "confirm"} /\ InOrder(NextPage(s))
<1> DEFINE t == NextPage(s)
           before == PageIf("tariff", s.ticked) \o Rates(s) \o PageIf("forecast", s.ticked)
<1>1. s.queue = PageIf("hot_water", s.ticked)
  BY DEF ToCome
<1>2. s.passed = before
  BY DEF Behind
<1> HIDE DEF before
<1>3. CASE "hot_water" \notin s.ticked
  <2>1. PageIf("hot_water", s.ticked) = <<>>
    BY <1>3 DEF PageIf
  <2>2. Behind(s, "confirm") = before \o <<>>
    BY <2>1 DEF Behind, before
  <2>3. s.passed \in Seq(Pages) /\ "tariff" \in Pages
    BY DEF Submission, Pages
  <2>4. before \o <<>> = before
    BY <1>2, <2>3, ConcatEmptySeq
  <2> QED
    BY <1>1, <1>2, <2>1, <2>2, <2>4, ToTheEnd
<1>4. CASE "hot_water" \in s.ticked
  <2>1. s.queue = <<"hot_water">>
    BY <1>1, <1>4 DEF PageIf
  <2>2. <<"hot_water">> # <<>> /\ Head(<<"hot_water">>) = "hot_water" /\ Tail(<<"hot_water">>) = <<>>
    OBVIOUS
  <2>3. t = [s EXCEPT !.step = "hot_water", !.queue = <<>>]
    BY <2>1, <2>2 DEF NextPage
  <2> HIDE DEF t
  <2>4. t.step = "hot_water" /\ t.queue = <<>> /\ <<>> \in Seq(Pages)
    BY <2>3 DEF Submission
  <2>5. Moves(s, t)
    BY <2>3, <2>4 DEF Moves, Pages
  <2>6. t.passed = Behind(t, "hot_water") /\ t.rows = t.count /\ t.ticked = s.ticked
    BY <2>5, MoveKeepsTheRest
  <2>7. t.queue = ToCome(t, "hot_water")
    BY <2>4 DEF ToCome
  <2>8. InOrder(t)
    BY <1>4, <2>4, <2>6, <2>7 DEF InOrder
  <2> QED
    BY <2>4, <2>5, <2>8 DEF t
<1> QED
  BY <1>3, <1>4

LEMMA ToForecast ==
  ASSUME NEW s \in Submission, s.passed = Behind(s, "forecast"), s.queue = AfterTariff(s), s.rows = s.count
  PROVE  /\ Moves(s, NextPage(s)) /\ NextPage(s).step \in {"forecast", "hot_water", "confirm"}
         /\ InOrder(NextPage(s))
<1> DEFINE t == NextPage(s)
           hot == PageIf("hot_water", s.ticked)
           before == PageIf("tariff", s.ticked) \o Rates(s)
<1>1. s.queue = PageIf("forecast", s.ticked) \o hot
  BY DEF AfterTariff
<1>2. s.passed = before
  BY DEF Behind
<1>3. <<>> \in Seq(Pages) /\ "hot_water" \in Pages /\ "forecast" \in Pages
  BY DEF Pages
<1>4. hot \in Seq(Pages)
  BY <1>3, PagesInTurn
<1> HIDE DEF before, hot
<1>5. CASE "forecast" \notin s.ticked
  <2>1. s.queue = hot
    BY <1>1, <1>3, <1>4, <1>5, PagesInTurn
  <2>2. s.queue = ToCome(s, "forecast")
    BY <2>1 DEF ToCome, hot
  <2>3. Behind(s, "hot_water") = before \o <<>>
    BY <1>5 DEF Behind, PageIf, before
  <2>4. s.passed \in Seq(Pages)
    BY DEF Submission
  <2>5. before \o <<>> = before
    BY <1>2, <2>4, ConcatEmptySeq
  <2> QED
    BY <1>2, <2>2, <2>3, <2>5, ToHotWater
<1>6. CASE "forecast" \in s.ticked
  <2>1. s.queue # <<>> /\ Head(s.queue) = "forecast" /\ Tail(s.queue) = hot
    BY <1>1, <1>3, <1>4, <1>6, PagesInTurn
  <2>2. t = [s EXCEPT !.step = "forecast", !.queue = hot]
    BY <2>1 DEF NextPage
  <2> HIDE DEF t
  <2>3. t.step = "forecast" /\ t.queue = hot
    BY <2>2 DEF Submission
  <2>4. Moves(s, t)
    BY <1>3, <1>4, <2>2, <2>3 DEF Moves
  <2>5. t.passed = Behind(t, "forecast") /\ t.rows = t.count /\ t.ticked = s.ticked
    BY <2>4, MoveKeepsTheRest
  <2>6. t.queue = ToCome(t, "forecast")
    BY <2>3, <2>5 DEF ToCome, hot
  <2>7. InOrder(t)
    BY <1>6, <2>3, <2>5, <2>6 DEF InOrder
  <2> QED
    BY <2>3, <2>4, <2>7 DEF t
<1> QED
  BY <1>5, <1>6

LEMMA ToTariff ==
  ASSUME NEW s \in Submission, s.passed = <<>>, s.queue = SetupPages(s.ticked), s.rows = 0, s.count = 0
  PROVE  /\ Moves(s, NextPage(s)) /\ NextPage(s).step \in {"tariff", "forecast", "hot_water", "confirm"}
         /\ InOrder(NextPage(s))
<1> DEFINE t == NextPage(s)
           after == AfterTariff(s)
<1>1. s.queue = PageIf("tariff", s.ticked) \o after
  BY DEF AfterTariff, SetupPages
<1>2. <<>> \in Seq(Pages) /\ "hot_water" \in Pages /\ "forecast" \in Pages /\ "tariff" \in Pages
  BY DEF Pages
<1>3. PageIf("hot_water", s.ticked) \in Seq(Pages)
  BY <1>2, PagesInTurn
<1>4. after \in Seq(Pages)
  BY <1>2, <1>3, PagesInTurn DEF AfterTariff
<1> HIDE DEF after
<1>5. CASE "tariff" \notin s.ticked
  <2>1. s.queue = after
    BY <1>1, <1>2, <1>4, <1>5, PagesInTurn
  <2>2. PageIf("tariff", s.ticked) = <<>> /\ Rates(s) = <<>>
    BY <1>5 DEF PageIf, Rates
  <2>3. Behind(s, "forecast") = <<>> \o <<>>
    BY <2>2 DEF Behind
  <2>4. <<>> \o <<>> = <<>>
    BY <1>2, ConcatEmptySeq
  <2> QED
    BY <2>1, <2>3, <2>4, ToForecast DEF after
<1>6. CASE "tariff" \in s.ticked
  <2>1. s.queue # <<>> /\ Head(s.queue) = "tariff" /\ Tail(s.queue) = after
    BY <1>1, <1>2, <1>4, <1>6, PagesInTurn
  <2>2. t = [s EXCEPT !.step = "tariff", !.queue = after]
    BY <2>1 DEF NextPage
  <2> HIDE DEF t
  <2>3. t.step = "tariff" /\ t.queue = after
    BY <2>2 DEF Submission
  <2>4. Moves(s, t)
    BY <1>2, <1>4, <2>2, <2>3 DEF Moves
  <2>5. t.passed = <<>> /\ t.rows = 0 /\ t.count = 0 /\ t.ticked = s.ticked
    BY <2>4, MoveKeepsTheRest
  <2>6. t.queue = ToCome(t, "tariff") /\ t.passed = Behind(t, "tariff")
    BY <2>3, <2>5 DEF ToCome, Behind, AfterTariff, after
  <2>7. InOrder(t)
    BY <1>6, <2>3, <2>5, <2>6 DEF InOrder
  <2> QED
    BY <2>3, <2>4, <2>7 DEF t
<1> QED
  BY <1>5, <1>6

(***************************************************************************)
(* The set-up, as it is kept                                               *)
(***************************************************************************)

Whom(s) == IF s.picked = NoDevice THEN SelectController(s.found).controller ELSE s.picked
PageNo == [p \in Pages |-> CASE p = "tariff" -> 1 [] p = "tariff_rates" -> 2 [] p = "forecast" -> 3
                             [] p = "hot_water" -> 4 [] OTHER -> 5]
WholeFound(s) == \A f \in s.found : f.complete => f.power = PowerRoles
AtStart(s) == s.passed = <<>> /\ s.warned = {} /\ s.count = 0 /\ s.rows = 0
ChosenAsAsked(s) == s.chosen = Whom(s) /\ s.limit = LimitFrom(s.chosen)
NamedAfter(s, names) ==
  /\ s.name = IF s.chosen = NoDevice THEN Manual ELSE s.chosen.name
  /\ s.name \notin names
  /\ s.chosen # NoDevice /\ s.chosen.complete => \A r \in PowerRoles : s.wiring[r] = s.chosen.id

\* The set-up is kept: the choice as asked, the name free, the pages in order, and what it has warned
\* of was on this page, where the user saw it, or on one behind it.
IsKept(s, names, seen) ==
  /\ s \in Submission /\ WholeFound(s) /\ InOrder(s) /\ ~s.missed
  /\ s.step \notin Pages => AtStart(s)
  /\ s.step = "inverter_entities" =>
        s.queue = SetupPages(s.ticked) /\ (s.chosen = NoDevice \/ ~s.chosen.complete)
  /\ s.step \notin {"closed", "system"} => ChosenAsAsked(s)
  /\ s.step \in Pages =>
        /\ NamedAfter(s, names)
        /\ \A w \in s.warned : PageNo[w.page] <= PageNo[s.step] /\ (w.page = s.step => w.of \in seen)

\* One page on, all of it is kept.
LEMMA MoveKeeps ==
  ASSUME NEW s \in Submission, NEW t, NEW names, NEW seen, Moves(s, t), InOrder(t),
         WholeFound(s), ~s.missed, ChosenAsAsked(s), NamedAfter(s, names),
         \A w \in s.warned : PageNo[w.page] < PageNo[t.step]
  PROVE  IsKept(t, names, seen)
<1>1. /\ t \in Submission /\ t.step \in Pages
      /\ t.found = s.found /\ t.picked = s.picked /\ t.chosen = s.chosen /\ t.name = s.name
      /\ t.wiring = s.wiring /\ t.limit = s.limit /\ t.warned = s.warned /\ t.missed = s.missed
  BY MoveKeepsTheRest DEF Moves
<1>2. WholeFound(t) /\ ChosenAsAsked(t) /\ NamedAfter(t, names)
  BY <1>1, Zenon DEF WholeFound, ChosenAsAsked, NamedAfter, Whom
<1>3. \A w \in t.warned : PageNo[w.page] <= PageNo[t.step] /\ (w.page = t.step => w.of \in seen)
  <2>1. SUFFICES ASSUME NEW w \in s.warned
                 PROVE  PageNo[w.page] <= PageNo[t.step] /\ w.page # t.step
    BY <1>1
  <2>2. PageNo[w.page] < PageNo[t.step] /\ w.page \in Pages
    BY DEF Submission
  <2>3. PageNo[w.page] \in Nat /\ PageNo[t.step] \in Nat
    BY <1>1, <2>2 DEF PageNo
  <2> QED
    BY <2>2, <2>3
<1>4. t.step \notin {"closed", "system", "inverter_entities"}
  BY <1>1 DEF Pages
<1>5. ~t.missed
  BY <1>1
<1> QED
  BY <1>1, <1>2, <1>3, <1>4, <1>5 DEF IsKept

\* From the choice to the first page.
LEMMA GoesOn ==
  ASSUME NEW s \in Submission, NEW name \in ItsName, NEW names, NEW seen,
         AtStart(s), s.queue = SetupPages(s.ticked), WholeFound(s), ~s.missed, ChosenAsAsked(s),
         name = IF s.chosen = NoDevice THEN Manual ELSE s.chosen.name, name \notin names,
         s.chosen # NoDevice /\ s.chosen.complete => \A r \in PowerRoles : s.wiring[r] = s.chosen.id
  PROVE  IsKept(NextPage([s EXCEPT !.name = name]), names, seen)
<1> DEFINE n == [s EXCEPT !.name = name]
<1>1. /\ n \in Submission /\ n.name = name
      /\ n.found = s.found /\ n.picked = s.picked /\ n.chosen = s.chosen /\ n.wiring = s.wiring
      /\ n.limit = s.limit /\ n.warned = s.warned /\ n.missed = s.missed /\ n.passed = s.passed
      /\ n.queue = s.queue /\ n.ticked = s.ticked /\ n.rows = s.rows /\ n.count = s.count
  BY DEF Submission
<1> HIDE DEF n
<1>2. WholeFound(n) /\ ChosenAsAsked(n) /\ AtStart(n)
  BY <1>1, Zenon DEF WholeFound, ChosenAsAsked, Whom, AtStart
<1>3. NamedAfter(n, names)
  BY <1>1, Zenon DEF NamedAfter
<1>4. n.passed = <<>> /\ n.rows = 0 /\ n.count = 0 /\ n.warned = {}
  BY <1>2 DEF AtStart
<1>5. Moves(n, NextPage(n)) /\ InOrder(NextPage(n))
  BY <1>1, <1>4, ToTariff
<1> QED
  BY <1>1, <1>2, <1>3, <1>4, <1>5, MoveKeeps DEF n

LEMMA LimitTyped ==
  ASSUME NEW f \in Found \cup {NoDevice}
  PROVE  LimitFrom(f) \in OneId /\ WiringFrom(f) \in [PowerRoles -> OneId]
<1>1. f # NoDevice => f.id \in Nat
  BY DEF Found
<1> QED
  BY <1>1 DEF LimitFrom, WiringFrom, OneId

\* A set-up that is over, and one that has just begun.
LEMMA ClosedKept ==
  ASSUME NEW names, NEW seen
  PROVE  /\ IsKept(Closed, names, seen) /\ Closed \in Submission
         /\ \A found \in SUBSET Found : (\A f \in found : f.complete => f.power = PowerRoles)
               => IsKept([Closed EXCEPT !.step = "system", !.found = found], names, seen)
<1>1. Manual \in ItsName /\ Unwired \in [PowerRoles -> OneId] /\ <<>> \in Seq(Pages)
  BY DEF Manual, NamedBy, ItsName, Unwired, OneId
<1>2. Closed \in Submission /\ Closed.step = "closed" /\ Closed.found = {} /\ ~Closed.missed
  BY <1>1 DEF Closed, Submission, OneId, Ticked
<1>3. AtStart(Closed)
  BY DEF Closed, AtStart
<1>4. \A step \in {"closed", "system"} : step \notin Pages /\ step # "inverter_entities"
  BY DEF Pages
<1>5. IsKept(Closed, names, seen)
  BY <1>2, <1>3, <1>4 DEF IsKept, InOrder, WholeFound
<1>6. ASSUME NEW found \in SUBSET Found, \A f \in found : f.complete => f.power = PowerRoles
      PROVE  IsKept([Closed EXCEPT !.step = "system", !.found = found], names, seen)
  <2> DEFINE begun == [Closed EXCEPT !.step = "system", !.found = found]
  <2>1. begun \in Submission /\ begun.step = "system" /\ begun.found = found /\ ~begun.missed
    BY <1>2 DEF Submission
  <2>2. AtStart(begun)
    BY <1>2, <1>3 DEF AtStart, Submission
  <2> HIDE DEF begun
  <2>3. IsKept(begun, names, seen)
    BY <1>4, <1>6, <2>1, <2>2 DEF IsKept, InOrder, WholeFound
  <2> QED
    BY <2>3 DEF begun
<1> QED
  BY <1>2, <1>5, <1>6

LEMMA SystemStep ==
  ASSUME IsKept(setup, Names, warnedOf), NEW picked \in setup.found \cup {NoDevice}, NEW ticked \in Ticks,
         SubmitSystem(picked, ticked)
  PROVE  IsKept(setup', Names', warnedOf')
<1> DEFINE selected == SelectController(setup.found)
           chosen == IF picked = NoDevice THEN selected.controller ELSE picked
           s == StoreSystem(setup, picked, chosen, ticked)
           wired == [s EXCEPT !.wiring = WiringFrom(chosen)]
<1>1. /\ setup.step = "system"
      /\ IF chosen # NoDevice /\ chosen.complete
         THEN GoOnAs(chosen.name, wired)
         ELSE setup' = [s EXCEPT !.step = "inverter_entities"]
      /\ Names' = Names
  BY DEF SubmitSystem, Names
<1>2. /\ setup \in Submission /\ WholeFound(setup) /\ ~setup.missed /\ AtStart(setup)
  BY <1>1 DEF IsKept, Pages
<1>3. setup.found \in SUBSET Found
  BY <1>2 DEF Submission
<1>4. chosen \in Found \cup {NoDevice} /\ picked \in Found \cup {NoDevice}
      /\ (chosen = NoDevice \/ chosen \in setup.found)
  BY <1>3, ChosenIsFound
<1>5. ticked \in Ticked
  BY SetupAssumption DEF Ticked
<1>6. SetupPages(ticked) \in Seq(Pages)
  <2>1. <<>> \in Seq(Pages) /\ "hot_water" \in Pages /\ "forecast" \in Pages /\ "tariff" \in Pages
    BY DEF Pages
  <2>2. PageIf("hot_water", ticked) \in Seq(Pages)
    BY <2>1, PagesInTurn
  <2>3. PageIf("forecast", ticked) \o PageIf("hot_water", ticked) \in Seq(Pages)
    BY <2>1, <2>2, PagesInTurn
  <2> QED
    BY <2>1, <2>3, PagesInTurn DEF SetupPages
<1>7. LimitFrom(chosen) \in OneId /\ WiringFrom(chosen) \in [PowerRoles -> OneId]
  BY <1>4, LimitTyped
<1> DEFINE onOffer == SetupPages(ticked)
           limit == LimitFrom(chosen)
           wiring == WiringFrom(chosen)
<1>8. s = [setup EXCEPT !.picked = picked, !.chosen = chosen, !.ticked = ticked, !.rows = 0, !.count = 0,
                        !.limit = limit, !.queue = onOffer]
  BY DEF StoreSystem, LimitOfChosen
<1>9. chosen = IF picked = NoDevice THEN SelectController(setup.found).controller ELSE picked
  OBVIOUS
<1> HIDE DEF selected, chosen, s, onOffer, limit, wiring
<1>10. /\ s \in Submission /\ s.found = setup.found /\ s.picked = picked /\ s.chosen = chosen
       /\ s.ticked = ticked /\ s.rows = 0 /\ s.count = 0 /\ s.limit = limit /\ s.queue = onOffer
       /\ s.passed = setup.passed /\ s.warned = setup.warned /\ s.missed = setup.missed
  <2>1. limit \in OneId /\ onOffer \in Seq(Pages)
    BY <1>6, <1>7 DEF limit, onOffer
  <2>2. s \in Submission
    BY <1>2, <1>4, <1>5, <1>8, <2>1 DEF Submission
  <2> QED
    BY <1>2, <1>8, <2>2 DEF Submission
<1>11. /\ WholeFound(s) /\ ~s.missed /\ AtStart(s) /\ ChosenAsAsked(s)
  <2>1. WholeFound(s) /\ ~s.missed /\ AtStart(s)
    BY <1>2, <1>10 DEF WholeFound, AtStart
  <2>2. s.chosen = Whom(s)
    BY <1>9, <1>10 DEF Whom
  <2>3. s.limit = LimitFrom(s.chosen)
    BY <1>10 DEF limit
  <2> QED
    BY <2>1, <2>2, <2>3 DEF ChosenAsAsked
<1>12. s.queue = SetupPages(s.ticked)
  BY <1>10 DEF onOffer
<1>13. CASE chosen # NoDevice /\ chosen.complete
  <2>1. GoOnAs(chosen.name, wired)
    BY <1>1, <1>13
  <2>2. CASE chosen.name \in Names
    <3>1. setup' = Closed
      BY <2>1, <2>2 DEF GoOnAs, Abort
    <3>2. IsKept(Closed, Names, warnedOf')
      BY ClosedKept
    <3> QED
      BY <1>1, <3>1, <3>2
  <2>3. CASE chosen.name \notin Names
    <3>1. setup' = NextPage([wired EXCEPT !.name = chosen.name])
      BY <2>1, <2>3 DEF GoOnAs
    <3>2. wiring \in [PowerRoles -> OneId] /\ wired = [s EXCEPT !.wiring = wiring]
      BY <1>7 DEF wiring
    <3> HIDE DEF wired
    <3>3. /\ wired \in Submission /\ wired.wiring = wiring
          /\ wired.found = s.found /\ wired.picked = s.picked /\ wired.chosen = s.chosen
          /\ wired.limit = s.limit /\ wired.ticked = s.ticked /\ wired.queue = s.queue
          /\ wired.rows = s.rows /\ wired.count = s.count /\ wired.passed = s.passed
          /\ wired.warned = s.warned /\ wired.missed = s.missed
      BY <1>10, <3>2 DEF Submission
    <3>4. WholeFound(wired) /\ ~wired.missed /\ AtStart(wired) /\ ChosenAsAsked(wired)
          /\ wired.queue = SetupPages(wired.ticked)
      BY <1>11, <1>12, <3>3, Zenon DEF WholeFound, AtStart, ChosenAsAsked, Whom
    <3>5. chosen \in Found /\ chosen.power = PowerRoles
      BY <1>2, <1>3, <1>4, <1>13 DEF WholeFound
    <3>6. chosen.name \in ItsName
      BY <3>5 DEF Found
    <3>7. \A r \in PowerRoles : wiring[r] = chosen.id
      BY <1>13, <3>5 DEF wiring, WiringFrom
    <3>8. wired.chosen = chosen
      BY <1>10, <3>3
    <3>9. chosen.name = IF wired.chosen = NoDevice THEN Manual ELSE wired.chosen.name
      BY <1>13, <3>8
    <3>10. \A r \in PowerRoles : wired.wiring[r] = wired.chosen.id
      BY <3>3, <3>7, <3>8
    <3>11. IsKept(NextPage([wired EXCEPT !.name = chosen.name]), Names, warnedOf')
      BY <2>3, <3>3, <3>4, <3>6, <3>9, <3>10, GoesOn
    <3> DEFINE t == NextPage([wired EXCEPT !.name = chosen.name])
    <3>12. setup' = t /\ Names' = Names /\ IsKept(t, Names, warnedOf')
      BY <1>1, <3>1, <3>11
    <3> HIDE DEF t
    <3> QED
      BY <3>12
  <2> QED
    BY <2>2, <2>3
<1>14. CASE ~(chosen # NoDevice /\ chosen.complete)
  <2> DEFINE t == [s EXCEPT !.step = "inverter_entities"]
  <2>1. setup' = t
    BY <1>1, <1>14
  <2>2. /\ t \in Submission /\ t.step = "inverter_entities" /\ t.found = s.found /\ t.picked = s.picked
        /\ t.chosen = s.chosen /\ t.limit = s.limit /\ t.ticked = s.ticked /\ t.queue = s.queue
        /\ t.rows = s.rows /\ t.count = s.count /\ t.passed = s.passed /\ t.warned = s.warned
        /\ t.missed = s.missed
    BY <1>10 DEF Submission
  <2> HIDE DEF t
  <2>3. WholeFound(t) /\ ~t.missed /\ AtStart(t) /\ ChosenAsAsked(t) /\ t.queue = SetupPages(t.ticked)
    BY <1>11, <1>12, <2>2, Zenon DEF WholeFound, AtStart, ChosenAsAsked, Whom
  <2>4. t.chosen = NoDevice \/ ~t.chosen.complete
    BY <1>10, <1>14, <2>2
  <2>5. t.step \notin Pages
    BY <2>2 DEF Pages
  <2>6. IsKept(t, Names', warnedOf')
    BY <2>2, <2>3, <2>4, <2>5 DEF IsKept, InOrder
  <2> QED
    BY <2>1, <2>6
<1> QED
  BY <1>13, <1>14

LEMMA OpenStep ==
  ASSUME layout \in Layouts, OpenSetup
  PROVE  IsKept(setup', Names', warnedOf')
<1>1. setup' = [Closed EXCEPT !.step = "system", !.found = Discover(layout)]
  BY DEF OpenSetup
<1>2. Discover(layout) \in SUBSET Found /\ \A f \in Discover(layout) : f.complete => f.power = PowerRoles
  BY FoundTyped
<1> DEFINE found == Discover(layout)
<1> HIDE DEF found
<1>3. IsKept([Closed EXCEPT !.step = "system", !.found = found], Names', warnedOf')
  BY <1>2, ClosedKept DEF found
<1> QED
  BY <1>1, <1>3 DEF found

LEMMA EntitiesStep ==
  ASSUME IsKept(setup, Names, warnedOf), NEW wiring \in [PowerRoles -> OneId], SubmitEntities(wiring)
  PROVE  IsKept(setup', Names', warnedOf')
<1> DEFINE name == IF setup.chosen = NoDevice THEN Manual ELSE setup.chosen.name
           wired == [setup EXCEPT !.wiring = wiring]
<1>1. setup.step = "inverter_entities" /\ GoOnAs(name, wired) /\ Names' = Names
  BY DEF SubmitEntities, Names
<1>2. setup.step \notin Pages
  BY <1>1 DEF Pages
<1>3. /\ setup \in Submission /\ WholeFound(setup) /\ ~setup.missed /\ AtStart(setup)
      /\ setup.queue = SetupPages(setup.ticked) /\ (setup.chosen = NoDevice \/ ~setup.chosen.complete)
      /\ ChosenAsAsked(setup)
  BY <1>1, <1>2 DEF IsKept
<1>4. CASE name \in Names
  <2>1. setup' = Closed
    BY <1>1, <1>4 DEF GoOnAs, Abort
  <2>2. IsKept(Closed, Names, warnedOf')
    BY ClosedKept
  <2> QED
    BY <1>1, <2>1, <2>2
<1>5. CASE name \notin Names
  <2> DEFINE t == NextPage([wired EXCEPT !.name = name])
  <2>1. setup' = t
    BY <1>1, <1>5 DEF GoOnAs
  <2>2. /\ wired \in Submission
        /\ wired.found = setup.found /\ wired.picked = setup.picked /\ wired.chosen = setup.chosen
        /\ wired.limit = setup.limit /\ wired.ticked = setup.ticked /\ wired.queue = setup.queue
        /\ wired.rows = setup.rows /\ wired.count = setup.count /\ wired.passed = setup.passed
        /\ wired.warned = setup.warned /\ wired.missed = setup.missed
    BY <1>3 DEF Submission
  <2>3. name \in ItsName
    <3>1. Manual \in ItsName
      BY DEF Manual, NamedBy, ItsName
    <3>2. setup.chosen # NoDevice => setup.chosen \in Found
      BY <1>3 DEF Submission
    <3> QED
      BY <3>1, <3>2 DEF Found
  <2>4. name = IF wired.chosen = NoDevice THEN Manual ELSE wired.chosen.name
    BY <2>2
  <2> HIDE DEF wired
  <2>5. WholeFound(wired) /\ ~wired.missed /\ AtStart(wired) /\ ChosenAsAsked(wired)
        /\ wired.queue = SetupPages(wired.ticked)
    BY <1>3, <2>2, Zenon DEF WholeFound, AtStart, ChosenAsAsked, Whom
  <2>6. wired.chosen = NoDevice \/ ~wired.chosen.complete
    BY <1>3, <2>2
  <2> HIDE DEF name
  <2>7. IsKept(t, Names, warnedOf')
    BY <1>5, <2>2, <2>3, <2>4, <2>5, <2>6, GoesOn
  <2> HIDE DEF t
  <2> QED
    BY <1>1, <2>1, <2>7
<1> QED
  BY <1>4, <1>5

\* A page that warns stays, and what it warned of was seen; one that goes through has been warned of
\* on this page, and is passed.
LEMMA PageStep ==
  ASSUME IsKept(setup, Names, warnedOf), NEW warnings \in PageWarnings, NEW n \in 0..MaxRows,
         SubmitPage(warnings, n)
  PROVE  IsKept(setup', Names', warnedOf')
<1> DEFINE here == setup.step
           s == [setup EXCEPT !.passed = Append(@, here), !.missed = @ \/ ~WasSeen(warnings)]
           told == [page |-> here, of |-> warnings]
           warns == warnings # {} /\ ~HasWarned(setup, warnings)
<1>1. /\ here \in {"tariff", "tariff_rates", "forecast", "hot_water"}
      /\ (here = "tariff") => warnings = {}
      /\ (here # "tariff") => n = 0
      /\ Names' = Names
  BY DEF SubmitPage, Names
<1>2. here \in Pages
  BY <1>1 DEF Pages
<1>3. /\ setup \in Submission /\ WholeFound(setup) /\ ~setup.missed /\ InOrder(setup)
      /\ ChosenAsAsked(setup) /\ NamedAfter(setup, Names)
      /\ \A w \in setup.warned : PageNo[w.page] <= PageNo[here] /\ (w.page = here => w.of \in warnedOf)
  <2>1. here \notin {"closed", "system"}
    BY <1>1
  <2> QED
    BY <1>2, <2>1 DEF IsKept
<1>4. CASE warns
  <2> DEFINE t == [setup EXCEPT !.warned = {w \in @ : w.page # here} \cup {told}]
  <2>1. setup' = t /\ warnedOf' = warnedOf \cup {warnings}
    BY <1>4 DEF SubmitPage
  <2>2. told \in [page : Pages, of : PageWarnings]
    BY <1>2
  <2>3. /\ t \in Submission /\ t.warned = {w \in setup.warned : w.page # here} \cup {told}
        /\ t.step = here /\ t.queue = setup.queue /\ t.name = setup.name /\ t.wiring = setup.wiring
        /\ t.found = setup.found /\ t.picked = setup.picked /\ t.chosen = setup.chosen
        /\ t.limit = setup.limit /\ t.ticked = setup.ticked /\ t.rows = setup.rows
        /\ t.count = setup.count /\ t.passed = setup.passed /\ t.missed = setup.missed
    BY <1>3, <2>2 DEF Submission
  <2> HIDE DEF t
  <2>4. WholeFound(t) /\ ChosenAsAsked(t) /\ NamedAfter(t, Names) /\ ~t.missed
    BY <1>3, <2>3, Zenon DEF WholeFound, ChosenAsAsked, Whom, NamedAfter
  <2>5. InOrder(t)
    <3>1. \A page : Behind(t, page) = Behind(setup, page) /\ ToCome(t, page) = ToCome(setup, page)
      BY <2>3, Zenon DEF Behind, ToCome, Rates, AfterTariff
    <3> QED
      BY <1>3, <2>3, <3>1 DEF InOrder
  <2>6. \A w \in t.warned : PageNo[w.page] <= PageNo[here] /\ (w.page = here => w.of \in warnedOf')
    <3>1. told.page = here /\ told.of = warnings
      OBVIOUS
    <3>2. PageNo[here] \in Nat
      BY <1>2 DEF PageNo
    <3> QED
      BY <1>3, <2>1, <2>3, <3>1, <3>2
  <2>7. here \notin {"closed", "system", "inverter_entities"}
    BY <1>1
  <2>8. IsKept(t, Names, warnedOf')
    BY <1>2, <2>3, <2>4, <2>5, <2>6, <2>7 DEF IsKept
  <2> QED
    BY <1>1, <2>1, <2>8
<1>5. CASE ~warns
  <2>1. /\ setup' = CASE here = "tariff" /\ n > 0 -> [s EXCEPT !.step = "tariff_rates", !.count = n, !.rows = 0]
                      [] here = "tariff_rates" -> NextPage([s EXCEPT !.rows = s.count])
                      [] OTHER -> NextPage(s)
    BY <1>5 DEF SubmitPage
  <2>2. WasSeen(warnings)
    <3>1. CASE warnings = {}
      BY <3>1 DEF WasSeen
    <3>2. CASE warnings # {}
      <4>1. told \in setup.warned
        BY <1>5, <3>2 DEF HasWarned
      <4>2. told.page = here /\ told.of = warnings
        OBVIOUS
      <4> QED
        BY <1>3, <4>1, <4>2 DEF WasSeen
    <3> QED
      BY <3>1, <3>2
  <2>3. setup.passed \in Seq(Pages)
    BY <1>3 DEF Submission
  <2>4. Append(setup.passed, here) \in Seq(Pages) /\ Append(setup.passed, here) = setup.passed \o <<here>>
    BY <1>2, <2>3, AppendProperties, AppendIsConcat
  <2> DEFINE passed == Append(setup.passed, here)
             missedAny == setup.missed \/ ~WasSeen(warnings)
  <2>5. s = [setup EXCEPT !.passed = passed, !.missed = missedAny]
    BY <1>3 DEF Submission
  <2>6. missedAny = FALSE
    BY <1>3, <2>2
  <2>7. passed \in Seq(Pages)
    BY <2>4
  <2> HIDE DEF passed, missedAny, s, told, warns
  <2>8. /\ s \in Submission /\ s.passed = passed /\ ~s.missed
        /\ s.step = here /\ s.queue = setup.queue /\ s.name = setup.name /\ s.wiring = setup.wiring
        /\ s.found = setup.found /\ s.picked = setup.picked /\ s.chosen = setup.chosen
        /\ s.limit = setup.limit /\ s.ticked = setup.ticked /\ s.rows = setup.rows
        /\ s.count = setup.count /\ s.warned = setup.warned
    BY <1>3, <2>5, <2>6, <2>7 DEF Submission
  <2>9. WholeFound(s) /\ ChosenAsAsked(s) /\ NamedAfter(s, Names)
    BY <1>3, <2>8, Zenon DEF WholeFound, ChosenAsAsked, Whom, NamedAfter
  <2>10. \A page : Behind(s, page) = Behind(setup, page) /\ ToCome(s, page) = ToCome(setup, page)
    BY <2>8, Zenon DEF Behind, ToCome, Rates, AfterTariff
  <2>11. s.passed = Behind(setup, here) \o <<here>> /\ s.queue = ToCome(setup, here)
    BY <1>2, <1>3, <2>4, <2>8 DEF InOrder, passed
  <2>12. \A page \in Pages : PageNo[page] \in Nat
    BY DEF PageNo
  <2>13. PageNo["tariff"] = 1 /\ PageNo["tariff_rates"] = 2 /\ PageNo["forecast"] = 3
         /\ PageNo["hot_water"] = 4 /\ PageNo["confirm"] = 5
    BY DEF PageNo, Pages
  <2>14. ASSUME NEW page \in Pages, PageNo[here] < PageNo[page]
         PROVE  \A w \in s.warned : PageNo[w.page] < PageNo[page]
    <3>1. \A w \in setup.warned : w.page \in Pages
      BY <1>3 DEF Submission
    <3> QED
      BY <1>2, <1>3, <2>8, <2>12, <2>14, <3>1
  <2>15. CASE here = "tariff" /\ n > 0
    <3> DEFINE t == [s EXCEPT !.step = "tariff_rates", !.count = n, !.rows = 0]
    <3>1. setup' = t
      BY <2>1, <2>15
    <3>2. "tariff_rates" \in Pages /\ n \in Nat
      BY SetupAssumption DEF Pages
    <3>3. /\ t \in Submission /\ t.step = "tariff_rates" /\ t.count = n /\ t.passed = s.passed
          /\ t.queue = s.queue /\ t.name = s.name /\ t.wiring = s.wiring /\ t.missed = s.missed
          /\ t.found = s.found /\ t.picked = s.picked /\ t.chosen = s.chosen
          /\ t.limit = s.limit /\ t.ticked = s.ticked /\ t.warned = s.warned
      BY <2>8, <3>2 DEF Submission
    <3> HIDE DEF t
    <3>4. WholeFound(t) /\ ChosenAsAsked(t) /\ NamedAfter(t, Names) /\ ~t.missed
      BY <2>8, <2>9, <3>3, Zenon DEF WholeFound, ChosenAsAsked, Whom, NamedAfter
    <3>5. s.passed = <<"tariff">>
      <4>1. Behind(setup, "tariff") = <<>>
        BY DEF Behind
      <4>2. <<"tariff">> \in Seq(Pages) /\ <<>> \in Seq(Pages)
        BY DEF Pages
      <4>3. <<>> \o <<"tariff">> = <<"tariff">>
        BY <4>2, ConcatEmptySeq
      <4> QED
        BY <2>11, <2>15, <4>1, <4>3
    <3>6. s.queue = AfterTariff(t)
      BY <2>11, <2>15, <2>8, <3>3, Zenon DEF ToCome, AfterTariff
    <3>7. InOrder(t)
      <4>1. t.passed = Behind(t, "tariff_rates") /\ t.queue = ToCome(t, "tariff_rates")
        BY <3>3, <3>5, <3>6 DEF Behind, ToCome
      <4>2. "tariff" \in t.ticked
        BY <1>2, <1>3, <2>8, <2>15, <3>3 DEF InOrder
      <4> QED
        BY <2>15, <3>3, <4>1, <4>2 DEF InOrder
    <3>8. \A w \in t.warned : PageNo[w.page] <= PageNo[t.step] /\ (w.page = t.step => w.of \in warnedOf')
      <4>1. PageNo[here] < PageNo["tariff_rates"]
        BY <2>13, <2>15
      <4>2. \A w \in s.warned : PageNo[w.page] < PageNo["tariff_rates"]
        BY <2>14, <3>2, <4>1
      <4>3. \A w \in s.warned : w.page \in Pages
        BY <2>8 DEF Submission
      <4> QED
        BY <2>12, <3>2, <3>3, <4>2, <4>3
    <3>9. IsKept(t, Names, warnedOf')
      <4>1. t.step \in Pages /\ t.step \notin {"closed", "system", "inverter_entities"}
        BY <3>2, <3>3
      <4> QED
        BY <3>3, <3>4, <3>7, <3>8, <4>1 DEF IsKept
    <3> QED
      BY <1>1, <3>1, <3>9
  <2>16. ASSUME NEW r \in Submission, setup' = NextPage(r), Moves(r, NextPage(r)), InOrder(NextPage(r)),
                r.name = s.name, r.wiring = s.wiring, r.missed = s.missed, r.found = s.found,
                r.picked = s.picked, r.chosen = s.chosen, r.limit = s.limit, r.warned = s.warned,
                PageNo[here] < PageNo[NextPage(r).step]
         PROVE  IsKept(setup', Names', warnedOf')
    <3> DEFINE t == NextPage(r)
    <3>1. t.step \in Pages
      BY <2>16 DEF Moves
    <3>2. \A w \in r.warned : PageNo[w.page] < PageNo[t.step]
      BY <2>14, <2>16, <3>1
    <3>3. WholeFound(r) /\ ChosenAsAsked(r) /\ NamedAfter(r, Names) /\ ~r.missed
      BY <2>8, <2>9, <2>16, Zenon DEF WholeFound, ChosenAsAsked, Whom, NamedAfter
    <3> HIDE DEF t
    <3>4. Moves(r, t) /\ InOrder(t) /\ setup' = t
      BY <2>16 DEF t
    <3>5. IsKept(t, Names, warnedOf')
      BY <2>16, <3>2, <3>3, <3>4, MoveKeeps
    <3> QED
      BY <1>1, <3>4, <3>5
  <2>17. CASE here = "tariff" /\ ~(n > 0)
    <3>1. setup' = NextPage(s)
      BY <2>1, <2>17
    <3>2. s.count = 0 /\ s.rows = 0 /\ "tariff" \in s.ticked
      BY <1>2, <1>3, <2>8, <2>17 DEF InOrder
    <3>3. s.passed = Behind(s, "forecast")
      <4>1. Behind(setup, "tariff") = <<>>
        BY DEF Behind
      <4>2. <<"tariff">> \in Seq(Pages) /\ <<>> \in Seq(Pages)
        BY DEF Pages
      <4>3. <<>> \o <<"tariff">> = <<"tariff">> /\ <<"tariff">> \o <<>> = <<"tariff">>
        BY <4>2, ConcatEmptySeq
      <4>4. PageIf("tariff", s.ticked) = <<"tariff">> /\ Rates(s) = <<>>
        BY <3>2 DEF PageIf, Rates
      <4>5. Behind(s, "forecast") = PageIf("tariff", s.ticked) \o Rates(s)
        BY DEF Behind
      <4> QED
        BY <2>11, <2>17, <4>1, <4>3, <4>4, <4>5
    <3>4. s.queue = AfterTariff(s)
      BY <2>10, <2>11, <2>17 DEF ToCome
    <3>5. Moves(s, NextPage(s)) /\ NextPage(s).step \in {"forecast", "hot_water", "confirm"} /\ InOrder(NextPage(s))
      BY <2>8, <3>2, <3>3, <3>4, ToForecast
    <3>6. PageNo[here] < PageNo[NextPage(s).step]
      BY <2>13, <2>17, <3>5
    <3> QED
      BY <2>8, <2>16, <3>1, <3>5, <3>6
  <2>18. CASE here = "tariff_rates"
    <3> DEFINE r == [s EXCEPT !.rows = s.count]
    <3>1. setup' = NextPage(r)
      BY <2>1, <2>18
    <3>2. /\ r \in Submission /\ r.rows = s.count /\ r.count = s.count /\ r.passed = s.passed
          /\ r.queue = s.queue /\ r.name = s.name /\ r.wiring = s.wiring /\ r.missed = s.missed
          /\ r.found = s.found /\ r.picked = s.picked /\ r.chosen = s.chosen
          /\ r.limit = s.limit /\ r.ticked = s.ticked /\ r.warned = s.warned
      BY <2>8 DEF Submission
    <3> HIDE DEF r
    <3>3. s.count > 0 /\ "tariff" \in s.ticked
      BY <1>2, <1>3, <2>8, <2>18 DEF InOrder
    <3>4. r.passed = Behind(r, "forecast")
      <4>1. Behind(setup, "tariff_rates") = <<"tariff">>
        BY DEF Behind
      <4>2. PageIf("tariff", r.ticked) = <<"tariff">> /\ Rates(r) = <<"tariff_rates">>
        BY <3>2, <3>3 DEF PageIf, Rates
      <4>3. Behind(r, "forecast") = PageIf("tariff", r.ticked) \o Rates(r)
        BY DEF Behind
      <4> QED
        BY <2>11, <2>18, <3>2, <4>1, <4>2, <4>3
    <3>5. r.queue = AfterTariff(r)
      BY <2>10, <2>11, <2>18, <3>2 DEF ToCome, AfterTariff
    <3>6. Moves(r, NextPage(r)) /\ NextPage(r).step \in {"forecast", "hot_water", "confirm"} /\ InOrder(NextPage(r))
      BY <3>2, <3>4, <3>5, ToForecast
    <3>7. PageNo[here] < PageNo[NextPage(r).step]
      BY <2>13, <2>18, <3>6
    <3> QED
      BY <2>16, <3>1, <3>2, <3>6, <3>7
  <2>19. CASE here = "forecast"
    <3>1. setup' = NextPage(s)
      BY <2>1, <2>19
    <3>2. s.rows = s.count /\ "forecast" \in s.ticked
      BY <1>2, <1>3, <2>8, <2>19 DEF InOrder
    <3>3. s.passed = Behind(s, "hot_water")
      <4>1. Behind(setup, "forecast") = Behind(s, "forecast")
        BY <2>10
      <4>2. PageIf("forecast", s.ticked) = <<"forecast">>
        BY <3>2 DEF PageIf
      <4> QED
        BY <2>11, <2>19, <4>1, <4>2 DEF Behind
    <3>4. s.queue = ToCome(s, "forecast")
      BY <2>10, <2>11, <2>19
    <3>5. Moves(s, NextPage(s)) /\ NextPage(s).step \in {"hot_water", "confirm"} /\ InOrder(NextPage(s))
      BY <2>8, <3>2, <3>3, <3>4, ToHotWater
    <3>6. PageNo[here] < PageNo[NextPage(s).step]
      BY <2>13, <2>19, <3>5
    <3> QED
      BY <2>8, <2>16, <3>1, <3>5, <3>6
  <2>20. CASE here = "hot_water"
    <3>1. setup' = NextPage(s)
      BY <2>1, <2>20
    <3>2. s.rows = s.count /\ "hot_water" \in s.ticked
      BY <1>2, <1>3, <2>8, <2>20 DEF InOrder
    <3>3. s.passed = Behind(s, "confirm")
      <4>1. Behind(setup, "hot_water") = Behind(s, "hot_water")
        BY <2>10
      <4>2. PageIf("hot_water", s.ticked) = <<"hot_water">>
        BY <3>2 DEF PageIf
      <4> QED
        BY <2>11, <2>20, <4>1, <4>2 DEF Behind
    <3>4. s.queue = <<>>
      BY <2>11, <2>20 DEF ToCome
    <3>5. Moves(s, NextPage(s)) /\ NextPage(s).step = "confirm" /\ InOrder(NextPage(s))
      BY <2>8, <3>2, <3>3, <3>4, ToTheEnd
    <3>6. PageNo[here] < PageNo[NextPage(s).step]
      BY <2>13, <2>20, <3>5
    <3> QED
      BY <2>8, <2>16, <3>1, <3>5, <3>6
  <2> QED
    BY <1>1, <2>15, <2>17, <2>18, <2>19, <2>20
<1> QED
  BY <1>4, <1>5

(***************************************************************************)
(* The entries                                                             *)
(***************************************************************************)

OneEach(es) == \A one, other \in es : one.name = other.name => one = other
OfOneDevice(e) == ~e.byHand => \E id \in Nat : \A r \in PowerRoles : e.wiring[r] = id
EntriesKept(es) == es \in SUBSET Entry /\ OneEach(es) /\ \A e \in es : OfOneDevice(e)

LEMMA StaysItself ==
  ASSUME NEW e \in Entry
  PROVE  StaysTheSame(e, e)
<1>1. e.known # NoDevice => SameSystem(e.known, e.known)
  <2>1. e.known # NoDevice => e.known \in Known
    BY DEF Entry
  <2>2. \A k \in Known : [k EXCEPT !.roles = k.roles] = k
    BY DEF Known
  <2> QED
    BY <2>1, <2>2 DEF SameSystem
<1> QED
  BY <1>1 DEF StaysTheSame

\* One entry becomes another of the same name, and the rest stay.
LEMMA Becoming ==
  ASSUME EntriesKept(entries), NEW e \in entries, NEW changed \in Entry, Becomes(e, changed),
         changed.name = e.name, OfOneDevice(changed), StaysTheSame(e, changed)
  PROVE  /\ EntriesKept(entries') /\ Names' = Names
         /\ \A o \in entries : \E after \in entries' : StaysTheSame(o, after)
<1>1. entries' = (entries \ {e}) \cup {changed}
  BY DEF Becomes
<1>2. entries \in SUBSET Entry /\ OneEach(entries) /\ \A o \in entries : OfOneDevice(o)
  BY DEF EntriesKept
<1>3. entries' \in SUBSET Entry /\ \A o \in entries' : OfOneDevice(o)
  BY <1>1, <1>2
<1>4. OneEach(entries')
  BY <1>1, <1>2 DEF OneEach
<1>5. Names' = Names
  BY <1>1 DEF Names
<1>6. ASSUME NEW o \in entries
      PROVE  \E after \in entries' : StaysTheSame(o, after)
  <2>1. CASE o = e
    BY <1>1, <2>1
  <2>2. CASE o # e
    <3>1. o \in entries' /\ o \in Entry
      BY <1>1, <1>2, <2>2
    <3> QED
      BY <3>1, StaysItself
  <2> QED
    BY <2>1, <2>2
<1> QED
  BY <1>3, <1>4, <1>5, <1>6 DEF EntriesKept

\* A look remembers the system it finds only where it is the same.
LEMMA LookStep ==
  ASSUME layout \in Layouts, EntriesKept(entries), NEW e \in entries, NEW fresh \in Entry,
         fresh.name = e.name, fresh.known = e.known, fresh.wiring = e.wiring, fresh.byHand = e.byHand,
         ~fresh.byHand /\ fresh.limit # e.limit => fresh.limit = fresh.wiring["battery"],
         Checked(fresh, e)
  PROVE  /\ EntriesKept(entries') /\ Names' = Names
         /\ \A o \in entries : \E after \in entries' : StaysTheSame(o, after)
<1> DEFINE now == SystemNow(fresh.name, Discover(layout))
           same == fresh.known = NoDevice \/ (now # NoDevice /\ SameSystem(fresh.known, now))
           changed == IF now # NoDevice /\ same THEN [fresh EXCEPT !.known = now] ELSE fresh
<1>1. Becomes(e, changed)
  BY DEF Checked
<1>2. e \in Entry /\ OfOneDevice(e)
  BY DEF EntriesKept
<1>3. now \in Known \cup {NoDevice}
  <2>1. fresh.name \in ItsName
    BY DEF Entry
  <2> QED
    BY <2>1, FoundTyped, SystemTyped
<1>4. now # NoDevice /\ same /\ fresh.known # NoDevice => SameSystem(fresh.known, now)
  OBVIOUS
<1> HIDE DEF now, same
<1>5. /\ changed \in Entry /\ changed.name = e.name /\ changed.wiring = e.wiring
      /\ changed.byHand = e.byHand /\ changed.limit = fresh.limit
      /\ changed.known = (IF now # NoDevice /\ same THEN now ELSE fresh.known)
  BY <1>3 DEF Entry
<1> HIDE DEF changed
<1>6. OfOneDevice(changed)
  BY <1>2, <1>5, Zenon DEF OfOneDevice
<1>7. e.known # NoDevice => SameSystem(e.known, changed.known)
  <2>1. e.known # NoDevice => SameSystem(e.known, e.known)
    <3>1. e.known # NoDevice => e.known \in Known
      BY <1>2 DEF Entry
    <3>2. \A k \in Known : [k EXCEPT !.roles = k.roles] = k
      BY DEF Known
    <3> QED
      BY <3>1, <3>2 DEF SameSystem
  <2> QED
    BY <1>4, <1>5, <2>1, Zenon
<1>8. StaysTheSame(e, changed)
  BY <1>5, <1>7 DEF StaysTheSame
<1> QED
  BY <1>1, <1>5, <1>6, <1>8, Becoming

\* The device of an entry that was not wired by hand is the one it is wired to.
LEMMA PrefixIsOfTheWiring ==
  ASSUME NEW e \in Entry, OfOneDevice(e), ~e.byHand
  PROVE  DevicePrefix(e) = e.wiring["battery"]
<1>1. PICK id \in Nat : \A r \in PowerRoles : e.wiring[r] = id
  BY DEF OfOneDevice
<1>2. "battery" \in PowerRoles /\ id # NoDevice
  BY SetupAssumption DEF PowerRoles
<1> DEFINE Carries(i) == i = e.name.of /\ (e.name.by \in {"prefix", "tail"}
                           \/ \E d \in Devices : d.id = i /\ d.prefixed /\ e.name = Serial(i))
           trusted == {i \in {e.wiring[r] : r \in PowerRoles} \ {NoDevice} :
                         Carries(i) \/ \A r \in PowerRoles : e.wiring[r] = i}
<1>3. DevicePrefix(e) =
        IF trusted # {} THEN CHOOSE i \in trusted : i = e.wiring["battery"] \/ e.wiring["battery"] \notin trusted
        ELSE IF e.name.by = "serial" THEN e.name.of ELSE NoDevice
  BY DEF DevicePrefix
<1> HIDE DEF Carries
<1>4. trusted = {id}
  BY <1>1, <1>2
<1>5. e.wiring["battery"] = id
  BY <1>1, <1>2
<1> HIDE DEF trusted
<1> QED
  BY <1>3, <1>4, <1>5

LEMMA EntryStep ==
  ASSUME layout \in Layouts, EntriesKept(entries), NEW e \in entries, Look(e) \/ EntryStart(e)
  PROVE  /\ EntriesKept(entries') /\ Names' = Names
         /\ \A o \in entries : \E after \in entries' : StaysTheSame(o, after)
<1>1. e \in Entry /\ OfOneDevice(e)
  BY DEF EntriesKept
<1>2. CASE Look(e)
  <2>1. Checked(e, e)
    BY <1>2 DEF Look
  <2> QED
    BY <1>1, <2>1, LookStep
<1>3. CASE EntryStart(e)
  <2> DEFINE adopts == e.limit = NoDevice /\ \E d \in layout : d.id = DevicePrefix(e) /\ d.limit
             limit == DevicePrefix(e)
             fresh == IF adopts THEN [e EXCEPT !.limit = limit] ELSE e
  <2>1. Checked(fresh, e)
    BY <1>3 DEF EntryStart
  <2>2. adopts => limit \in OneId
    <3>1. \A d \in layout : d.id \in Nat
      BY SetupAssumption DEF DeviceRecords
    <3> QED
      BY <3>1 DEF OneId
  <2>3. ~e.byHand => limit = e.wiring["battery"]
    BY <1>1, PrefixIsOfTheWiring
  <2> HIDE DEF adopts, limit
  <2>4. /\ fresh \in Entry /\ fresh.name = e.name /\ fresh.known = e.known /\ fresh.wiring = e.wiring
        /\ fresh.byHand = e.byHand /\ fresh.limit = (IF adopts THEN limit ELSE e.limit)
    BY <1>1, <2>2 DEF Entry
  <2> HIDE DEF fresh
  <2>5. ~fresh.byHand /\ fresh.limit # e.limit => fresh.limit = fresh.wiring["battery"]
    BY <2>3, <2>4
  <2> QED
    BY <2>1, <2>4, <2>5, LookStep
<1> QED
  BY <1>2, <1>3

\* What is accepted is remembered of every entry, while the user is told.
LEMMA AcceptStep ==
  ASSUME layout \in Layouts, EntriesKept(entries), Accept
  PROVE  /\ EntriesKept(entries') /\ Names' = Names
         /\ \A o \in entries : \E after \in entries' : StaysTheSame(o, after)
<1> DEFINE now(e) == SystemNow(e.name, Discover(layout))
           after(e) == IF now(e) = NoDevice THEN e ELSE [e EXCEPT !.known = now(e)]
<1>1. different /\ entries' = {after(e) : e \in entries}
  BY DEF Accept
<1>2. entries \in SUBSET Entry /\ OneEach(entries) /\ \A o \in entries : OfOneDevice(o)
  BY DEF EntriesKept
<1>3. \A e \in entries : now(e) \in Known \cup {NoDevice}
  <2>1. \A e \in entries : e.name \in ItsName
    BY <1>2 DEF Entry
  <2> QED
    BY <2>1, FoundTyped, SystemTyped
<1> HIDE DEF now
<1>4. ASSUME NEW e \in entries
      PROVE  /\ after(e) \in Entry /\ after(e).name = e.name /\ after(e).wiring = e.wiring
             /\ after(e).byHand = e.byHand /\ after(e).limit = e.limit
  <2>1. e \in Entry /\ now(e) \in Known \cup {NoDevice}
    BY <1>2, <1>3
  <2> QED
    BY <2>1 DEF Entry
<1>5. \A a \in entries' : \E e \in entries : a = after(e)
  BY <1>1
<1>6. \A e \in entries : after(e) \in entries'
  BY <1>1
<1> HIDE DEF after
<1>7. entries' \in SUBSET Entry
  BY <1>4, <1>5
<1>8. OneEach(entries')
  <2>1. SUFFICES ASSUME NEW one \in entries', NEW other \in entries', one.name = other.name
                 PROVE  one = other
    BY DEF OneEach
  <2>2. PICK e \in entries : one = after(e)
    BY <1>5
  <2>3. PICK o \in entries : other = after(o)
    BY <1>5
  <2>4. e.name = o.name
    BY <1>4, <2>1, <2>2, <2>3
  <2>5. e = o
    BY <1>2, <2>4 DEF OneEach
  <2> QED
    BY <2>2, <2>3, <2>5
<1>9. ASSUME NEW a \in entries'
      PROVE  OfOneDevice(a)
  <2>1. PICK e \in entries : a = after(e)
    BY <1>5
  <2>2. a.byHand = e.byHand /\ a.wiring = e.wiring /\ OfOneDevice(e)
    BY <1>2, <1>4, <2>1
  <2> QED
    BY <2>2, Zenon DEF OfOneDevice
<1>10. Names' = Names
  <2>1. Names' = {a.name : a \in entries'} /\ Names = {e.name : e \in entries}
    BY DEF Names
  <2> QED
    BY <1>4, <1>5, <1>6, <2>1
<1>11. ASSUME NEW e \in entries
       PROVE  \E a \in entries' : StaysTheSame(e, a)
  <2>1. StaysTheSame(e, after(e))
    BY <1>1, <1>4 DEF StaysTheSame
  <2> QED
    BY <1>6, <2>1
<1> QED
  BY <1>7, <1>8, <1>9, <1>10, <1>11 DEF EntriesKept

\* A device whose serial cannot be read has nothing else to read: it is GivTCP that is not there yet.
SilentIsAsleep == \A d \in Devices : d.prefixed /\ d.serial = "silent" => d.awake = {}

LEMMA FoundStep ==
  ASSUME SilentIsAsleep, layout \in Layouts, EntriesKept(entries), NEW e \in entries, ReconfigureFound(e)
  PROVE  /\ EntriesKept(entries') /\ Names' = Names
         /\ \A o \in entries : \E after \in entries' : StaysTheSame(o, after)
<1>1. PICK f \in Discover(layout) :
        /\ f.name = e.name /\ f.complete /\ IsUsable(WiringFrom(f))
        /\ Becomes(e, [e EXCEPT !.wiring = WiringFrom(f), !.byHand = FALSE])
  BY DEF ReconfigureFound
<1>2. e \in Entry /\ f \in Found
  BY FoundTyped DEF EntriesKept
<1>3. PICK d \in layout : f.id = d.id /\ f.name = NameOf(d) /\ f.power = d.power /\ (f.complete <=> d.power = PowerRoles)
  BY FoundTyped
<1>4. \A x \in layout : x \in Devices /\ x \in DeviceRecords /\ x.id \in Nat
  BY SetupAssumption DEF Devices, DeviceRecords
<1> DEFINE wiring == WiringFrom(f)
           changed == [e EXCEPT !.wiring = wiring, !.byHand = FALSE]
<1>5. wiring \in [PowerRoles -> OneId]
  BY <1>2, LimitTyped
<1>6. PICK x \in layout : x.id = wiring["battery"] /\ "battery" \in x.awake
  BY <1>1 DEF IsUsable, PowerRoles
<1>7. \A r \in PowerRoles : wiring[r] = f.id
  <2>1. wiring["battery"] # NoDevice
    BY <1>4, <1>6, SetupAssumption
  <2>2. f # NoDevice
    BY <2>1 DEF WiringFrom, PowerRoles
  <2> QED
    BY <1>1, <1>3, <2>2 DEF WiringFrom
<1>8. x = d
  <2>1. x.id = d.id
    BY <1>3, <1>6, <1>7 DEF PowerRoles
  <2> QED
    BY <2>1, SetupAssumption
<1>9. ~(d.prefixed /\ d.serial = "silent")
  BY <1>4, <1>6, <1>8 DEF SilentIsAsleep
<1> HIDE DEF wiring
<1>10. SerialsMatch(SerialsIn(wiring), e.name)
  <2>1. SUFFICES ASSUME NEW y \in Devices, y.prefixed, NEW r \in PowerRoles, wiring[r] = y.id
                 PROVE  Serial(y.id) = e.name
    BY DEF SerialsMatch, SerialsIn
  <2>2. y.id = d.id
    BY <1>3, <1>7, <2>1
  <2>3. d.prefixed
    BY <1>4, <2>1, <2>2, SetupAssumption
  <2>4. d.serial \in {"shown", "none"}
    BY <1>4, <1>9, <2>3 DEF DeviceRecords
  <2>5. NameOf(d) = Serial(d.id)
    BY <2>3, <2>4 DEF NameOf
  <2> QED
    BY <1>1, <1>3, <2>2, <2>5
<1>11. /\ changed \in Entry /\ changed.name = e.name /\ changed.wiring = wiring /\ changed.byHand = FALSE
       /\ changed.limit = e.limit /\ changed.known = e.known
  BY <1>2, <1>5 DEF Entry
<1>12. Becomes(e, changed)
  BY <1>1 DEF wiring
<1> HIDE DEF changed
<1>13. OfOneDevice(changed)
  BY <1>3, <1>4, <1>7, <1>11 DEF OfOneDevice
<1>14. StaysTheSame(e, changed)
  <2>1. StaysTheSame(e, e)
    BY <1>2, StaysItself
  <2> QED
    BY <1>10, <1>11, <2>1 DEF StaysTheSame
<1> QED
  BY <1>11, <1>12, <1>13, <1>14, Becoming

LEMMA ManualStep ==
  ASSUME layout \in Layouts, EntriesKept(entries), NEW e \in entries, NEW wiring \in [PowerRoles -> OneId],
         ReconfigureManual(e, wiring)
  PROVE  /\ EntriesKept(entries') /\ Names' = Names
         /\ \A o \in entries : \E after \in entries' : StaysTheSame(o, after)
<1> DEFINE changed == [e EXCEPT !.wiring = wiring, !.byHand = TRUE]
<1>1. Becomes(e, changed) /\ SerialsMatch(SerialsIn(wiring), e.name)
  BY DEF ReconfigureManual
<1>2. e \in Entry
  BY DEF EntriesKept
<1>3. /\ changed \in Entry /\ changed.name = e.name /\ changed.wiring = wiring /\ changed.byHand = TRUE
      /\ changed.limit = e.limit /\ changed.known = e.known
  BY <1>2 DEF Entry
<1> HIDE DEF changed
<1>4. OfOneDevice(changed)
  BY <1>3 DEF OfOneDevice
<1>5. StaysTheSame(e, changed)
  <2>1. StaysTheSame(e, e)
    BY <1>2, StaysItself
  <2> QED
    BY <1>1, <1>3, <2>1 DEF StaysTheSame
<1> QED
  BY <1>1, <1>3, <1>4, <1>5, Becoming

\* The entry that is made is the one the set-up was about.
LEMMA ConfirmStep ==
  ASSUME IsKept(setup, Names, warnedOf), EntriesKept(entries), ConfirmSetup
  PROVE  /\ IsKept(setup', Names', warnedOf') /\ EntriesKept(entries')
         /\ \A o \in entries : \E after \in entries' : StaysTheSame(o, after)
         /\ \A after \in entries' : after.name \notin Names => IsMadeAsAsked(after)
<1> DEFINE byHand == setup.chosen = NoDevice \/ ~setup.chosen.complete
           made == [name |-> setup.name, wiring |-> setup.wiring, limit |-> setup.limit, rows |-> setup.rows,
                    known |-> NoDevice, byHand |-> byHand]
<1>1. setup.step = "confirm" /\ entries' = entries \cup {made} /\ setup' = Closed
  BY DEF ConfirmSetup, Abort
<1>2. "confirm" \in Pages /\ "confirm" \notin {"closed", "system"}
  BY DEF Pages
<1>3. /\ setup \in Submission /\ ~setup.missed /\ ChosenAsAsked(setup) /\ NamedAfter(setup, Names)
      /\ setup.rows = setup.count /\ setup.passed = Behind(setup, "confirm")
  BY <1>1, <1>2 DEF IsKept, InOrder
<1>4. /\ setup.name \in ItsName /\ setup.wiring \in [PowerRoles -> OneId] /\ setup.limit \in OneId
      /\ setup.rows \in Nat /\ setup.chosen \in Found \cup {NoDevice}
  BY <1>3 DEF Submission
<1>5. made \in Entry
  <2>1. byHand \in BOOLEAN
    <3>1. setup.chosen # NoDevice => setup.chosen.complete \in BOOLEAN
      BY <1>4 DEF Found
    <3> QED
      BY <3>1
  <2> HIDE DEF byHand
  <2> QED
    BY <1>4, <2>1 DEF Entry
<1>6. /\ made.name = setup.name /\ made.wiring = setup.wiring /\ made.limit = setup.limit
      /\ made.rows = setup.rows /\ (made.byHand <=> byHand)
  OBVIOUS
<1> HIDE DEF made
<1>7. entries \in SUBSET Entry /\ OneEach(entries) /\ \A o \in entries : OfOneDevice(o)
  BY DEF EntriesKept
<1>8. made.name \notin Names
  BY <1>3, <1>6 DEF NamedAfter
<1>9. OfOneDevice(made)
  <2>1. SUFFICES ASSUME ~made.byHand
                 PROVE  \E id \in Nat : \A r \in PowerRoles : made.wiring[r] = id
    BY DEF OfOneDevice
  <2>2. setup.chosen # NoDevice /\ setup.chosen.complete
    BY <1>6, <2>1
  <2>3. \A r \in PowerRoles : setup.wiring[r] = setup.chosen.id
    BY <1>3, <2>2 DEF NamedAfter
  <2>4. setup.chosen.id \in Nat
    BY <1>4, <2>2 DEF Found
  <2> QED
    BY <1>6, <2>3, <2>4
<1>10. EntriesKept(entries')
  <2>1. OneEach(entries')
    BY <1>1, <1>7, <1>8 DEF OneEach, Names
  <2> QED
    BY <1>1, <1>5, <1>7, <1>9, <2>1 DEF EntriesKept
<1>11. IsKept(setup', Names', warnedOf')
  <2>1. IsKept(Closed, Names', warnedOf')
    BY ClosedKept
  <2> QED
    BY <1>1, <2>1
<1>12. IsMadeAsAsked(made)
  <2> DEFINE whom == IF setup.picked = NoDevice THEN SelectController(setup.found).controller ELSE setup.picked
  <2>1. setup.chosen = whom
    BY <1>3 DEF ChosenAsAsked, Whom
  <2> HIDE DEF whom
  <2>2. made.name = IF whom = NoDevice THEN Manual ELSE whom.name
    BY <1>3, <1>6, <2>1 DEF NamedAfter
  <2>3. made.limit \in {NoDevice} \cup (IF whom = NoDevice THEN {} ELSE {whom.id})
    BY <1>3, <1>6, <2>1 DEF ChosenAsAsked, LimitFrom
  <2>4. ~made.byHand => \A r \in PowerRoles : made.wiring[r] = whom.id
    BY <1>3, <1>6, <2>1 DEF NamedAfter
  <2>5. setup.passed = PageIf("tariff", setup.ticked) \o (IF setup.count > 0 THEN <<"tariff_rates">> ELSE <<>>)
                         \o PageIf("forecast", setup.ticked) \o PageIf("hot_water", setup.ticked)
    BY <1>3 DEF Behind, Rates
  <2>6. ~setup.missed /\ made.rows = setup.count
    BY <1>3, <1>6
  <2> QED
    BY <2>2, <2>3, <2>4, <2>5, <2>6, Zenon DEF IsMadeAsAsked, whom
<1>13. ASSUME NEW o \in entries
       PROVE  \E after \in entries' : StaysTheSame(o, after)
  <2>1. o \in entries' /\ o \in Entry
    BY <1>1, <1>7
  <2> QED
    BY <2>1, StaysItself
<1>14. ASSUME NEW after \in entries', after.name \notin Names
       PROVE  IsMadeAsAsked(after)
  <2>1. after = made
    BY <1>1, <1>14 DEF Names
  <2> QED
    BY <1>12, <2>1
<1> QED
  BY <1>10, <1>11, <1>13, <1>14

(***************************************************************************)
(* The theorem                                                             *)
(***************************************************************************)

SetupInv == layout \in Layouts /\ IsKept(setup, Names, warnedOf) /\ EntriesKept(entries)
SetupStep ==
  /\ \A e \in entries : \E after \in entries' : StaysTheSame(e, after)
  /\ \A after \in entries' : after.name \notin Names => IsMadeAsAsked(after)
  /\ \A one, other \in entries' : one.name = other.name => one = other

LEMMA SetupBegins == SetupInit => SetupInv
<1>1. SUFFICES ASSUME SetupInit
               PROVE  SetupInv
  OBVIOUS
<1>2. layout \in Layouts /\ setup = Closed /\ entries = {}
  BY <1>1 DEF SetupInit
<1>3. IsKept(Closed, Names, warnedOf)
  BY ClosedKept
<1>4. EntriesKept({})
  BY DEF EntriesKept, OneEach
<1> QED
  BY <1>2, <1>3, <1>4 DEF SetupInv

\* Where the entries stay, so does all that is said of them.
LEMMA EntriesStay ==
  ASSUME EntriesKept(entries), entries' = entries
  PROVE  EntriesKept(entries') /\ SetupStep
<1>1. \A e \in entries : StaysTheSame(e, e)
  BY StaysItself DEF EntriesKept
<1>2. \A e \in entries : e.name \in Names
  BY DEF Names
<1>3. \A one, other \in entries : one.name = other.name => one = other
  BY DEF EntriesKept, OneEach
<1>4. SetupStep
  BY <1>1, <1>2, <1>3 DEF SetupStep
<1> QED
  BY <1>4

LEMMA EntriesMove ==
  ASSUME EntriesKept(entries'), Names' = Names,
         \A o \in entries : \E after \in entries' : StaysTheSame(o, after)
  PROVE  SetupStep
<1>1. \A after \in entries' : after.name \in Names
  <2>1. \A after \in entries' : after.name \in Names'
    BY DEF Names
  <2> QED
    BY <2>1
<1>2. \A one, other \in entries' : one.name = other.name => one = other
  BY DEF EntriesKept, OneEach
<1> QED
  BY <1>1, <1>2 DEF SetupStep

LEMMA SetupKeeps ==
  ASSUME SilentIsAsleep, SetupInv, [SetupNext]_setupVars
  PROVE  SetupInv' /\ SetupStep
<1>1. layout \in Layouts /\ IsKept(setup, Names, warnedOf) /\ EntriesKept(entries)
  BY DEF SetupInv
<1>2. ASSUME layout' = layout, IsKept(setup', Names', warnedOf'), entries' = entries
      PROVE  SetupInv' /\ SetupStep
  <2>1. EntriesKept(entries') /\ SetupStep
    BY <1>1, <1>2, EntriesStay
  <2> QED
    BY <1>1, <1>2, <2>1 DEF SetupInv
<1>3. ASSUME layout' = layout, setup' = setup, warnedOf' = warnedOf, EntriesKept(entries'), Names' = Names,
             \A o \in entries : \E after \in entries' : StaysTheSame(o, after)
      PROVE  SetupInv' /\ SetupStep
  <2>1. SetupStep
    BY <1>3, EntriesMove
  <2> QED
    BY <1>1, <1>3, <2>1 DEF SetupInv
<1>4. ASSUME NEW wiring \in Wirings
      PROVE  wiring \in [PowerRoles -> OneId]
  <2>1. \A d \in layout : d.id \in Nat
    BY <1>1, SetupAssumption DEF DeviceRecords
  <2> QED
    BY <2>1 DEF Wirings, OneId
<1>5. CASE OpenSetup
  <2>1. layout' = layout /\ entries' = entries
    BY <1>5 DEF OpenSetup
  <2> QED
    BY <1>1, <1>2, <1>5, <2>1, OpenStep
<1>6. CASE \E picked \in setup.found \cup {NoDevice}, ticked \in Ticks : SubmitSystem(picked, ticked)
  <2>1. PICK picked \in setup.found \cup {NoDevice}, ticked \in Ticks : SubmitSystem(picked, ticked)
    BY <1>6
  <2>2. layout' = layout /\ entries' = entries
    BY <2>1 DEF SubmitSystem
  <2> QED
    BY <1>1, <1>2, <2>1, <2>2, SystemStep
<1>7. CASE \E wiring \in Wirings : SubmitEntities(wiring)
  <2>1. PICK wiring \in Wirings : SubmitEntities(wiring)
    BY <1>7
  <2>2. layout' = layout /\ entries' = entries
    BY <2>1 DEF SubmitEntities
  <2> QED
    BY <1>1, <1>2, <1>4, <2>1, <2>2, EntitiesStep
<1>8. CASE \E warnings \in PageWarnings, n \in 0..MaxRows : SubmitPage(warnings, n)
  <2>1. PICK warnings \in PageWarnings, n \in 0..MaxRows : SubmitPage(warnings, n)
    BY <1>8
  <2>2. layout' = layout /\ entries' = entries
    BY <2>1 DEF SubmitPage
  <2> QED
    BY <1>1, <1>2, <2>1, <2>2, PageStep
<1>9. CASE ConfirmSetup
  <2>1. layout' = layout
    BY <1>9 DEF ConfirmSetup
  <2>2. /\ IsKept(setup', Names', warnedOf') /\ EntriesKept(entries')
        /\ \A o \in entries : \E after \in entries' : StaysTheSame(o, after)
        /\ \A after \in entries' : after.name \notin Names => IsMadeAsAsked(after)
    BY <1>1, <1>9, ConfirmStep
  <2>3. SetupStep
    BY <2>2 DEF SetupStep, EntriesKept, OneEach
  <2> QED
    BY <1>1, <2>1, <2>2, <2>3 DEF SetupInv
<1>10. CASE \E e \in entries : ReconfigureFound(e) \/ \E wiring \in Wirings : ReconfigureManual(e, wiring)
  <2>1. PICK e \in entries : ReconfigureFound(e) \/ \E wiring \in Wirings : ReconfigureManual(e, wiring)
    BY <1>10
  <2>2. CASE ReconfigureFound(e)
    <3>1. layout' = layout /\ setup' = setup /\ warnedOf' = warnedOf
      BY <2>2 DEF ReconfigureFound
    <3> QED
      BY <1>1, <1>3, <2>2, <3>1, FoundStep
  <2>3. CASE \E wiring \in Wirings : ReconfigureManual(e, wiring)
    <3>1. PICK wiring \in Wirings : ReconfigureManual(e, wiring)
      BY <2>3
    <3>2. layout' = layout /\ setup' = setup /\ warnedOf' = warnedOf
      BY <3>1 DEF ReconfigureManual
    <3> QED
      BY <1>1, <1>3, <1>4, <3>1, <3>2, ManualStep
  <2> QED
    BY <2>1, <2>2, <2>3
<1>11. CASE \E e \in entries : (Look(e) \/ EntryStart(e)) /\ UNCHANGED <<layout, setup, setups, layoutChanges, warnedOf>>
  <2>1. PICK e \in entries : (Look(e) \/ EntryStart(e)) /\ UNCHANGED <<layout, setup, setups, layoutChanges, warnedOf>>
    BY <1>11
  <2> QED
    BY <1>1, <1>3, <2>1, EntryStep
<1>12. CASE Accept
  <2>1. layout' = layout /\ setup' = setup /\ warnedOf' = warnedOf
    BY <1>12 DEF Accept
  <2> QED
    BY <1>1, <1>3, <1>12, <2>1, AcceptStep
<1>13. CASE LayoutChanges
  <2>1. layout' \in Layouts /\ setup' = setup /\ entries' = entries /\ warnedOf' = warnedOf /\ Names' = Names
    BY <1>13 DEF LayoutChanges, Names
  <2>2. EntriesKept(entries') /\ SetupStep
    BY <1>1, <2>1, EntriesStay
  <2> QED
    BY <1>1, <2>1, <2>2 DEF SetupInv
<1>14. CASE UNCHANGED setupVars
  <2>1. layout' = layout /\ setup' = setup /\ entries' = entries /\ warnedOf' = warnedOf /\ Names' = Names
    BY <1>14 DEF setupVars, Names
  <2> QED
    BY <1>1, <1>2, <2>1
<1> QED
  BY <1>5, <1>6, <1>7, <1>8, <1>9, <1>10, <1>11, <1>12, <1>13, <1>14 DEF SetupNext

\* An entry is the inverter it was made for, after every page and every warning, and stays it
\* (setup_flow.py, reconfigure_flow.py, _check_system), for every set of devices, page, warning and
\* number of rates.
THEOREM SetupHolds ==
  ASSUME SilentIsAsleep
  PROVE  SetupSpec => SetupIsSound
<1>1. SetupInv /\ [SetupNext]_setupVars => SetupInv' /\ [SetupStep]_setupVars
  BY SetupKeeps
<1>2. SetupStep =>
        /\ \A e \in entries : \E after \in entries' : StaysTheSame(e, after)
        /\ \A after \in entries' : after.name \notin Names => IsMadeAsAsked(after)
        /\ \A one, other \in entries' : one.name = other.name => one = other
  BY DEF SetupStep
<1> QED
  BY <1>1, <1>2, SetupBegins, PTL DEF SetupSpec, SetupIsSound

-----------------------------------------------------------------------------
\* A sum over the rows, from the first to one of them.
SumsOf(rows, partial) == partial = [i \in 0..Len(rows) |-> IF i = 0 THEN 0 ELSE partial[i - 1] + rows[i].cost]

\* A property of some numbers and of each next one is one of all.
LEMMA LeastOut ==
  ASSUME NEW S \in SUBSET Nat, NEW n \in Nat, n \notin S, 0 \in S
  PROVE  \E k \in Nat : k \in S /\ k + 1 \notin S /\ k < n
<1> DEFINE out == {i \in Nat : i \notin S}
           R == {p \in Nat \X Nat : p[1] < p[2]}
<1>1. OpToRel(<, Nat) = R
  BY Zenon DEF OpToRel
<1>2. IsWellFoundedOn(R, Nat)
  BY <1>1, NatLessThanWellFounded
<1>3. out \subseteq Nat /\ out # {}
  OBVIOUS
<1> HIDE DEF R, out
<1>4. PICK least \in out : \A i \in out : <<i, least>> \notin R
  BY <1>2, <1>3, WFMin
<1>5. least \in Nat /\ least \notin S
  BY <1>4 DEF out
<1>6. \A i \in Nat : i < least => i \in S
  BY <1>4, <1>5 DEF R, out
<1>7. least # 0 /\ least - 1 \in Nat /\ least - 1 < least
  BY <1>5
<1>8. least - 1 \in S
  BY <1>6, <1>7
<1>9. least <= n
  BY <1>5, <1>6
<1> WITNESS least - 1 \in Nat
<1> QED
  BY <1>5, <1>7, <1>8, <1>9

LEMMA CostIsASum ==
  ASSUME NEW rows
  PROVE  CostOf(rows) = (CHOOSE partial : SumsOf(rows, partial))[Len(rows)]
BY DEF CostOf, SumsOf

Summed(rows, n, partial) ==
  /\ partial \in [0..n -> Nat]
  /\ partial[0] = 0
  /\ \A i \in 1..n : partial[i] = partial[i - 1] + rows[i].cost

LEMMA SumIsThere ==
  ASSUME NEW rows \in Seq(Row)
  PROVE  \E partial : Summed(rows, Len(rows), partial)
<1> DEFINE S == {n \in Nat : n <= Len(rows) => \E partial : Summed(rows, n, partial)}
<1>1. Len(rows) \in Nat /\ \A i \in 1..Len(rows) : rows[i].cost \in Nat
  <2>1. ASSUME NEW i \in 1..Len(rows)
        PROVE  rows[i].cost \in Nat
    <3>1. rows[i] \in Row
      BY ElementOfSeq
    <3> QED
      BY <3>1 DEF Row
  <2> QED
    BY <2>1, LenProperties
<1>2. 0 \in S
  <2>1. Summed(rows, 0, [i \in 0..0 |-> 0])
    BY DEF Summed
  <2> QED
    BY <2>1
<1>3. ASSUME NEW k \in Nat, k \in S
      PROVE  k + 1 \in S
  <2>1. SUFFICES ASSUME k + 1 <= Len(rows)
                 PROVE  \E partial : Summed(rows, k + 1, partial)
    OBVIOUS
  <2>2. PICK partial : Summed(rows, k, partial)
    BY <1>1, <1>3, <2>1
  <2> DEFINE more == [i \in 0..(k + 1) |-> IF i = k + 1 THEN partial[k] + rows[k + 1].cost ELSE partial[i]]
  <2>3. rows[k + 1].cost \in Nat
    BY <1>1, <2>1
  <2>4. Summed(rows, k + 1, more)
    <3>1. partial \in [0..k -> Nat] /\ partial[0] = 0 /\ \A i \in 1..k : partial[i] = partial[i - 1] + rows[i].cost
      BY <2>2 DEF Summed
    <3>2. more \in [0..(k + 1) -> Nat] /\ more[0] = 0
      BY <2>3, <3>1
    <3>3. \A i \in 0..k : more[i] = partial[i]
      OBVIOUS
    <3>4. more[k + 1] = more[k] + rows[k + 1].cost
      BY <3>3
    <3>5. \A i \in 1..k : more[i] = more[i - 1] + rows[i].cost
      BY <3>1, <3>3
    <3> HIDE DEF more
    <3>6. \A i \in 1..(k + 1) : more[i] = more[i - 1] + rows[i].cost
      BY <3>4, <3>5
    <3> QED
      BY <3>2, <3>6 DEF Summed
  <2> QED
    BY <2>4
<1> HIDE DEF S
<1>4. Len(rows) \in S
  <2>1. S \in SUBSET Nat
    BY DEF S
  <2> QED
    BY <1>1, <1>2, <1>3, <2>1, LeastOut
<1> QED
  BY <1>1, <1>4 DEF S

\* Two partial over rows that begin alike are alike as far as the rows are.
LEMMA SumsAgree ==
  ASSUME NEW rows, NEW others, NEW m \in Nat, NEW n \in Nat, NEW partial, NEW sums2,
         Summed(rows, m, partial), Summed(others, n, sums2), m <= n,
         \A i \in 1..m : rows[i].cost = others[i].cost
  PROVE  partial[m] = sums2[m]
<1> DEFINE S == {k \in Nat : k <= m => partial[k] = sums2[k]}
<1>1. 0 \in S
  BY DEF Summed
<1>2. ASSUME NEW k \in Nat, k \in S
      PROVE  k + 1 \in S
  <2>1. SUFFICES ASSUME k + 1 <= m
                 PROVE  partial[k + 1] = sums2[k + 1]
    OBVIOUS
  <2>2. k + 1 \in 1..m /\ k + 1 \in 1..n /\ partial[k] = sums2[k] /\ (k + 1) - 1 = k
    BY <1>2, <2>1
  <2>3. partial[k + 1] = partial[k] + rows[k + 1].cost
    BY <2>2 DEF Summed
  <2>4. sums2[k + 1] = sums2[k] + others[k + 1].cost
    BY <2>2 DEF Summed
  <2> QED
    BY <2>2, <2>3, <2>4
<1>3. S \in SUBSET Nat
  OBVIOUS
<1> HIDE DEF S
<1>4. m \in S
  BY <1>1, <1>2, <1>3, LeastOut
<1> QED
  BY <1>4 DEF S

LEMMA CostIsSummed ==
  ASSUME NEW rows \in Seq(Row)
  PROVE  \E partial : Summed(rows, Len(rows), partial) /\ CostOf(rows) = partial[Len(rows)]
<1>1. Len(rows) \in Nat
  OBVIOUS
<1>2. \E partial : SumsOf(rows, partial)
  <2>1. PICK partial : Summed(rows, Len(rows), partial)
    BY SumIsThere
  <2>2. partial = [i \in 0..Len(rows) |-> IF i = 0 THEN 0 ELSE partial[i - 1] + rows[i].cost]
    BY <1>1, <2>1 DEF Summed
  <2> QED
    BY <2>2 DEF SumsOf
<1> DEFINE partial == CHOOSE s : SumsOf(rows, s)
<1>3. SumsOf(rows, partial)
  BY <1>2
<1>4. CostOf(rows) = partial[Len(rows)]
  BY CostIsASum
<1> HIDE DEF partial
<1>5. PICK known : Summed(rows, Len(rows), known)
  BY SumIsThere
<1>6. partial[0] = 0 /\ \A i \in 1..Len(rows) : partial[i] = partial[i - 1] + rows[i].cost
  BY <1>1, <1>3 DEF SumsOf
<1> DEFINE S == {k \in Nat : k <= Len(rows) => partial[k] = known[k]}
<1>7. 0 \in S
  BY <1>5, <1>6 DEF Summed
<1>8. ASSUME NEW k \in Nat, k \in S
      PROVE  k + 1 \in S
  <2>1. SUFFICES ASSUME k + 1 <= Len(rows)
                 PROVE  partial[k + 1] = known[k + 1]
    OBVIOUS
  <2>2. k + 1 \in 1..Len(rows) /\ partial[k] = known[k] /\ (k + 1) - 1 = k
    BY <1>1, <1>8, <2>1
  <2>3. partial[k + 1] = partial[k] + rows[k + 1].cost
    BY <1>6, <2>2
  <2>4. known[k + 1] = known[k] + rows[k + 1].cost
    BY <1>5, <2>2 DEF Summed
  <2> QED
    BY <2>2, <2>3, <2>4
<1>9. S \in SUBSET Nat
  OBVIOUS
<1> HIDE DEF S
<1>10. Len(rows) \in S
  BY <1>1, <1>7, <1>8, <1>9, LeastOut
<1>11. partial[Len(rows)] = known[Len(rows)]
  BY <1>1, <1>10 DEF S
<1> QED
  BY <1>4, <1>5, <1>11

LEMMA CostGrows ==
  /\ CostOf(<<>>) = 0
  /\ \A rows \in Seq(Row) : CostOf(rows) \in Nat
  /\ \A rows \in Seq(Row), row \in Row : CostOf(Append(rows, row)) = CostOf(rows) + row.cost
<1>1. CostOf(<<>>) = 0
  <2>1. <<>> \in Seq(Row) /\ Len(<<>>) = 0
    OBVIOUS
  <2>2. PICK partial : Summed(<<>>, Len(<<>>), partial) /\ CostOf(<<>>) = partial[Len(<<>>)]
    BY <2>1, CostIsSummed
  <2> QED
    BY <2>1, <2>2 DEF Summed
<1>2. ASSUME NEW rows \in Seq(Row)
      PROVE  CostOf(rows) \in Nat
  <2>1. PICK partial : Summed(rows, Len(rows), partial) /\ CostOf(rows) = partial[Len(rows)]
    BY CostIsSummed
  <2> QED
    BY <2>1 DEF Summed
<1>3. ASSUME NEW rows \in Seq(Row), NEW row \in Row
      PROVE  CostOf(Append(rows, row)) = CostOf(rows) + row.cost
  <2> DEFINE more == Append(rows, row)
             n == Len(rows)
  <2>1. /\ more \in Seq(Row) /\ Len(more) = n + 1 /\ n \in Nat
        /\ \A i \in 1..n : more[i] = rows[i]
        /\ more[n + 1] = row
    BY AppendProperties
  <2> HIDE DEF more
  <2>2. PICK partial : Summed(rows, n, partial) /\ CostOf(rows) = partial[n]
    BY CostIsSummed
  <2>3. PICK sums2 : Summed(more, Len(more), sums2) /\ CostOf(more) = sums2[Len(more)]
    BY <2>1, CostIsSummed
  <2> HIDE DEF n
  <2>4. Summed(more, n + 1, sums2)
    BY <2>1, <2>3
  <2>5. \A i \in 1..n : rows[i].cost = more[i].cost
    BY <2>1
  <2>6. partial[n] = sums2[n]
    BY <2>1, <2>2, <2>4, <2>5, SumsAgree
  <2>7. n + 1 \in 1..(n + 1) /\ (n + 1) - 1 = n
    BY <2>1
  <2>8. sums2[n + 1] = sums2[n] + more[n + 1].cost
    BY <2>4, <2>7 DEF Summed
  <2> QED
    BY <2>1, <2>2, <2>3, <2>6, <2>8 DEF more
<1> QED
  BY <1>1, <1>2, <1>3

LEMMA RowListsAre ==
  ASSUME NEW a \in State
  PROVE  /\ Len(a.archive) \in Nat
         /\ RowLists(a) \in Seq(Seq(Row))
         /\ Len(RowLists(a)) = Len(a.archive) + 1
         /\ \A l \in 1..Len(a.archive) : RowLists(a)[l] = a.archive[l].rows
         /\ RowLists(a)[Len(a.archive) + 1] = a.rows
<1> DEFINE n == Len(a.archive)
           old == [i \in DOMAIN a.archive |-> a.archive[i].rows]
<1>1. a.archive \in Seq([rows: Seq(Row), cost: Nat]) /\ a.rows \in Seq(Row)
  BY DEF State
<1>2. n \in Nat /\ DOMAIN a.archive = 1..n
  BY <1>1, LenProperties
<1>3. ASSUME NEW i \in 1..n
      PROVE  a.archive[i].rows \in Seq(Row)
  <2>1. a.archive[i] \in [rows: Seq(Row), cost: Nat]
    BY <1>1, <1>2, ElementOfSeq
  <2> QED
    BY <2>1
<1>4. old = [i \in 1..n |-> a.archive[i].rows]
  BY <1>2
<1> HIDE DEF n
<1>5. old \in Seq(Seq(Row)) /\ Len(old) = n
  BY <1>2, <1>3, <1>4, IsASeq
<1>6. \A i \in 1..n : old[i] = a.archive[i].rows
  BY <1>4
<1>7. RowLists(a) = Append(old, a.rows)
  BY DEF RowLists
<1> HIDE DEF old
<1> QED
  BY <1>1, <1>2, <1>5, <1>6, <1>7, AppendProperties DEF n

\* Where a row is.
IsAt(lists, l, i) == l \in 1..Len(lists) /\ i \in 1..Len(lists[l])

\* The last list gets a row more, or none, and after it there may be an empty list.
Carried(lists, more, m, added, row) ==
  /\ m \in Nat \ {0} /\ lists \in Seq(Seq(Row)) /\ Len(lists) = m /\ more \in Seq(Seq(Row))
  /\ \A l \in 1..(m - 1) : more[l] = lists[l]
  /\ more[m] = IF added THEN Append(lists[m], row) ELSE lists[m]
  /\ Len(more) = m \/ (Len(more) = m + 1 /\ more[m + 1] = <<>>)

\* Then every row stays where it is.
Stayed(lists, more, m, k, added, row) ==
  /\ \A l, i \in Nat : IsAt(more, l, i) =>
       \/ IsAt(lists, l, i) /\ more[l][i] = lists[l][i]
       \/ added /\ l = m /\ i = k + 1 /\ more[l][i] = row
  /\ \A l, i \in Nat : IsAt(lists, l, i) => IsAt(more, l, i) /\ more[l][i] = lists[l][i]
  /\ added => IsAt(more, m, k + 1) /\ more[m][k + 1] = row

LEMMA RowsStay ==
  ASSUME NEW lists, NEW more, NEW m, NEW added \in BOOLEAN, NEW row \in Row,
         Carried(lists, more, m, added, row)
  PROVE  Len(lists[m]) \in Nat /\ Stayed(lists, more, m, Len(lists[m]), added, row)
<1> DEFINE k == Len(lists[m])
<1>10. /\ m \in Nat \ {0} /\ lists \in Seq(Seq(Row)) /\ Len(lists) = m /\ more \in Seq(Seq(Row))
       /\ \A l \in 1..(m - 1) : more[l] = lists[l]
       /\ more[m] = IF added THEN Append(lists[m], row) ELSE lists[m]
       /\ Len(more) = m \/ (Len(more) = m + 1 /\ more[m + 1] = <<>>)
  BY DEF Carried
<1>1. m \in 1..m /\ lists[m] \in Seq(Row)
  BY <1>10, ElementOfSeq
<1>2. k \in Nat
  BY <1>1, LenProperties
<1>3. \A l \in Nat : l \in 1..Len(more) => l \in 1..(m - 1) \/ l = m \/ (l = m + 1 /\ Len(more[l]) = 0)
  BY <1>10
<1>4. \A l \in 1..m : l \in 1..Len(more)
  BY <1>10
<1>5. IF added THEN /\ Len(more[m]) = k + 1 /\ more[m][k + 1] = row
                    /\ \A i \in 1..k : more[m][i] = lists[m][i]
               ELSE more[m] = lists[m]
  BY <1>1, <1>10, AppendProperties
<1>6. m = Len(lists) /\ k = Len(lists[m]) /\ m \in Nat /\ \A l \in 1..(m - 1) : more[l] = lists[l]
  BY <1>10
<1> HIDE DEF k
<1>7. ASSUME NEW l \in Nat, NEW i \in Nat, IsAt(more, l, i)
      PROVE  \/ IsAt(lists, l, i) /\ more[l][i] = lists[l][i]
             \/ added /\ l = m /\ i = k + 1 /\ more[l][i] = row
  <2>1. l \in 1..Len(more) /\ i \in 1..Len(more[l])
    BY <1>7 DEF IsAt
  <2>2. CASE l \in 1..(m - 1)
    BY <1>6, <2>1, <2>2 DEF IsAt
  <2>3. CASE l = m
    <3>1. i \in 1..Len(more[m]) /\ more[l][i] = more[m][i] /\ lists[l] = lists[m]
      BY <2>1, <2>3
    <3>2. CASE added
      <4>1. i \in 1..k \/ i = k + 1
        BY <1>2, <1>5, <3>1, <3>2
      <4> QED
        BY <1>1, <1>5, <1>6, <2>3, <3>1, <3>2, <4>1 DEF IsAt
    <3>3. CASE ~added
      BY <1>1, <1>5, <1>6, <2>3, <3>1, <3>3 DEF IsAt
    <3> QED
      BY <3>2, <3>3
  <2>4. ~(l = m + 1 /\ Len(more[l]) = 0)
    BY <2>1
  <2> QED
    BY <1>3, <2>1, <2>2, <2>3, <2>4
<1>8. ASSUME NEW l \in Nat, NEW i \in Nat, IsAt(lists, l, i)
      PROVE  IsAt(more, l, i) /\ more[l][i] = lists[l][i]
  <2>1. l \in 1..m /\ i \in 1..Len(lists[l])
    BY <1>6, <1>8 DEF IsAt
  <2>2. l \in 1..Len(more)
    BY <1>4, <2>1
  <2>3. CASE l \in 1..(m - 1)
    BY <1>6, <2>1, <2>2, <2>3 DEF IsAt
  <2>4. CASE l = m
    <3>1. i \in 1..k /\ more[l] = more[m] /\ lists[l] = lists[m]
      BY <1>6, <2>1, <2>4
    <3>2. i \in 1..Len(more[m]) /\ more[m][i] = lists[m][i]
      BY <1>2, <1>5, <1>6, <3>1
    <3> QED
      BY <2>2, <3>1, <3>2 DEF IsAt
  <2> QED
    BY <1>6, <2>1, <2>3, <2>4
<1>9. added => IsAt(more, m, k + 1) /\ more[m][k + 1] = row
  BY <1>1, <1>2, <1>4, <1>5 DEF IsAt
<1> QED
  BY <1>2, <1>6, <1>7, <1>8, <1>9 DEF Stayed

\* Each row holds what was spent on its day, a day before the last reset, and the days are in order.
RowsAreDays(a) ==
  LET lists == RowLists(a)
  IN /\ \A l, i \in Nat : IsAt(lists, l, i) =>
          lists[l][i].day < a.last_reset /\ a.spent[lists[l][i].day] = lists[l][i].cost
     /\ \A d \in Days : d < a.last_reset =>
          a.spent[d] = 0 \/ \E l, i \in Nat : IsAt(lists, l, i) /\ lists[l][i].day = d
     /\ \A l, i, m, j \in Nat : IsAt(lists, l, i) /\ IsAt(lists, m, j) /\ (l < m \/ (l = m /\ i < j)) =>
          lists[l][i].day < lists[m][j].day

\* What is kept of the days and of the bill.
TotalsKept(a) ==
  /\ BillAddsUp(a)
  /\ RowsAreDays(a)
  /\ a.spent[a.last_reset] = a.today.cost
  /\ \A d \in Days : d > a.last_reset => a.spent[d] = 0

LEMMA KeptIsDays ==
  ASSUME NEW a \in State, TotalsKept(a)
  PROVE  DaysKeepTheirEnergy(a)
<1> DEFINE lists == RowLists(a)
<1>2. lists \in Seq(Seq(Row)) /\ RowsAreDays(a)
  BY RowListsAre DEF TotalsKept
<1>3. /\ \A l, i \in Nat : IsAt(lists, l, i) =>
           lists[l][i].day < a.last_reset /\ a.spent[lists[l][i].day] = lists[l][i].cost
      /\ \A d \in Days : d < a.last_reset =>
           a.spent[d] = 0 \/ \E l, i \in Nat : IsAt(lists, l, i) /\ lists[l][i].day = d
      /\ \A l, i, m, j \in Nat : IsAt(lists, l, i) /\ IsAt(lists, m, j) /\ (l < m \/ (l = m /\ i < j)) =>
           lists[l][i].day < lists[m][j].day
  BY <1>2 DEF RowsAreDays
<1> HIDE DEF lists
<1>4. \A l \in DOMAIN lists : lists[l] \in Seq(Row)
  BY <1>2, ElementOfSeq, LenProperties
<1>5. DOMAIN lists = 1..Len(lists) /\ Len(lists) \in Nat
  BY <1>2, LenProperties
<1>6. \A l \in DOMAIN lists : DOMAIN lists[l] = 1..Len(lists[l]) /\ Len(lists[l]) \in Nat
  BY <1>4, LenProperties
<1>7. \A l : l \in DOMAIN lists => l \in Nat
  BY <1>5
<1>8. \A l \in DOMAIN lists : \A i \in DOMAIN lists[l] : i \in Nat /\ IsAt(lists, l, i)
  BY <1>5, <1>6 DEF IsAt
<1>9. \A l, i \in Nat : IsAt(lists, l, i) => l \in DOMAIN lists /\ i \in DOMAIN lists[l]
  BY <1>5, <1>6 DEF IsAt
<1>10. a.spent[a.last_reset] = a.today.cost
  BY DEF TotalsKept
<1>11. \A l \in DOMAIN lists : \A i \in DOMAIN lists[l] : a.spent[lists[l][i].day] = lists[l][i].cost
  BY <1>3, <1>7, <1>8
<1>12. ASSUME NEW d \in Days, d # a.last_reset
       PROVE  a.spent[d] = 0 \/ \E l \in DOMAIN lists : \E i \in DOMAIN lists[l] : lists[l][i].day = d
  <2>1. d \in Int /\ a.last_reset \in Int
    BY DEF State, Days
  <2>2. CASE d > a.last_reset
    BY <2>2 DEF TotalsKept
  <2>3. CASE d < a.last_reset
    BY <1>3, <1>9, <2>3
  <2> QED
    BY <1>12, <2>1, <2>2, <2>3
<1>13. \A l, m \in DOMAIN lists : \A i \in DOMAIN lists[l], j \in DOMAIN lists[m] :
         l < m \/ (l = m /\ i < j) => lists[l][i].day < lists[m][j].day
  BY <1>3, <1>7, <1>8
<1> QED
  BY <1>10, <1>11, <1>12, <1>13, Zenon DEF DaysKeepTheirEnergy, lists

LEMMA WithRowIs ==
  ASSUME NEW a \in State, NEW d \in Days
  PROVE  /\ WithRow(a, d) \in Seq(Row)
         /\ CostOf(WithRow(a, d)) = CostOf(a.rows) + a.today.cost
<1> DEFINE row == [day |-> d, cost |-> a.today.cost, kwh |-> a.today.kwh]
<1>1. a.rows \in Seq(Row) /\ a.today \in [cost: Nat, kwh: Nat]
  BY DEF State, Total
<1>2. row \in Row
  BY <1>1 DEF Row
<1>3. row.cost = a.today.cost
  OBVIOUS
<1>4. CASE a.today = Empty
  <2>1. a.today.cost = 0 /\ WithRow(a, d) = a.rows
    BY <1>4 DEF Empty, WithRow
  <2> QED
    BY <1>1, <2>1, CostGrows
<1>5. CASE a.today # Empty
  <2>1. WithRow(a, d) = Append(a.rows, row)
    BY <1>5 DEF WithRow
  <2> HIDE DEF row
  <2>2. Append(a.rows, row) \in Seq(Row)
    BY <1>1, <1>2, AppendProperties
  <2> QED
    BY <1>1, <1>2, <1>3, <2>1, <2>2, CostGrows
<1> QED
  BY <1>4, <1>5

\* A state with other values in five of its fields.
Turned(a, day, archive, rows, long) ==
  [a EXCEPT !.today = Empty, !.last_reset = day, !.archive = archive, !.rows = rows, !.long = long]

IsTurned(b, a, day, archive, rows, long) ==
  /\ b \in State
  /\ b.today = Empty /\ b.last_reset = day /\ b.archive = archive
  /\ b.rows = rows /\ b.long = long
  /\ b.spent = a.spent /\ b.booked = a.booked /\ b.baseline = a.baseline

LEMMA OtherPeriod ==
  ASSUME NEW a \in State, NEW day \in Days, NEW long \in [BillPeriods -> Total],
         NEW rows \in Seq(Row), NEW archive \in Seq([rows: Seq(Row), cost: Nat])
  PROVE  IsTurned(Turned(a, day, archive, rows, long), a, day, archive, rows, long)
<1>1. Empty \in Total
  BY DEF Empty, Total
<1> QED
  BY <1>1 DEF State, Turned, IsTurned

\* What the midnight callback leaves, in a month that ends and in one that goes on.
LEMMA MidnightIs ==
  ASSUME NEW a \in State, NEW d \in Days, NEW rows, rows = WithRow(a, d - 1), rows \in Seq(Row),
         NEW b, b = OnMidnight(a, d), NEW period, period = [rows |-> rows, cost |-> a.long["month"].cost]
  PROVE  /\ b \in State /\ b.today = Empty /\ b.last_reset = d
         /\ b.spent = a.spent /\ b.booked = a.booked /\ b.baseline = a.baseline
         /\ period \in [rows: Seq(Row), cost: Nat]
         /\ \/ b.archive = Append(a.archive, period) /\ b.rows = <<>> /\ b.long["month"] = Empty
            \/ b.archive = a.archive /\ b.rows = rows /\ b.long["month"] = a.long["month"]
<1> DEFINE closes == d \in Starts["month"]
           archive == IF closes THEN Append(a.archive, period) ELSE a.archive
           now == IF closes THEN <<>> ELSE rows
           long == [p \in BillPeriods |-> IF d \in Starts[p] THEN Empty ELSE a.long[p]]
<1>1. /\ a.archive \in Seq([rows: Seq(Row), cost: Nat]) /\ a.long \in [BillPeriods -> Total]
      /\ "month" \in BillPeriods
  BY TotalsAssumption DEF State
<1>2. a.long["month"].cost \in Nat
  BY <1>1 DEF Total
<1>3. period \in [rows: Seq(Row), cost: Nat]
  BY <1>2
<1>4. b = Turned(a, d, archive, now, long)
  BY Zenon DEF OnMidnight, Turned
<1>5. archive \in Seq([rows: Seq(Row), cost: Nat])
  <2>1. Append(a.archive, period) \in Seq([rows: Seq(Row), cost: Nat])
    BY <1>1, <1>3, AppendProperties
  <2> QED
    BY <1>1, <2>1
<1>6. now \in Seq(Row)
  OBVIOUS
<1>7. long \in [BillPeriods -> Total]
  <2>1. Empty \in Total
    BY DEF Empty, Total
  <2> QED
    BY <1>1, <2>1
<1>8. long["month"] = IF closes THEN Empty ELSE a.long["month"]
  BY <1>1
<1> HIDE DEF long
<1>9. \/ archive = Append(a.archive, period) /\ now = <<>> /\ long["month"] = Empty
      \/ archive = a.archive /\ now = rows /\ long["month"] = a.long["month"]
  BY <1>8
<1> HIDE DEF archive, now, closes
<1>10. IsTurned(b, a, d, archive, now, long)
  <2>1. IsTurned(Turned(a, d, archive, now, long), a, d, archive, now, long)
    BY <1>5, <1>6, <1>7, OtherPeriod
  <2> QED
    BY <1>4, <2>1
<1> QED
  BY <1>3, <1>9, <1>10 DEF IsTurned

\* The midnight callback keeps the days and the bill, and books nothing.
LEMMA MidnightKeeps ==
  ASSUME NEW a \in State, TotalsKept(a), NEW d \in Days, d = a.last_reset + 1, NEW b, b = OnMidnight(a, d)
  PROVE  b \in State /\ TotalsKept(b) /\ b.last_reset = d /\ b.booked = a.booked /\ b.baseline = a.baseline
<1> DEFINE e == a.last_reset
           rows == WithRow(a, d - 1)
           period == [rows |-> rows, cost |-> a.long["month"].cost]
           row == [day |-> e, cost |-> a.today.cost, kwh |-> a.today.kwh]
           lists == RowLists(a)
           more == RowLists(b)
           m == Len(a.archive) + 1
           added == a.today # Empty
<1>1. /\ a.archive \in Seq([rows: Seq(Row), cost: Nat]) /\ a.rows \in Seq(Row)
      /\ a.today \in [cost: Nat, kwh: Nat] /\ e \in Days
  BY DEF State, Total
<1>2. e \in Nat /\ d \in Nat /\ d - 1 = e
  BY DEF State, Days
<1>3. rows \in Seq(Row) /\ CostOf(rows) = a.long["month"].cost
  <2>1. CostOf(WithRow(a, e)) = CostOf(a.rows) + a.today.cost /\ WithRow(a, e) \in Seq(Row)
    BY <1>1, WithRowIs
  <2>2. a.long["month"].cost = CostOf(a.rows) + a.today.cost
    BY DEF TotalsKept, BillAddsUp
  <2> QED
    BY <1>2, <2>1, <2>2
<1>4. rows = IF added THEN Append(a.rows, row) ELSE a.rows
  BY <1>2 DEF WithRow
<1>7. row \in Row /\ row.day = e /\ row.cost = a.today.cost
  BY <1>1 DEF Row
<1>5. /\ b \in State /\ b.today = Empty /\ b.last_reset = d
      /\ b.spent = a.spent /\ b.booked = a.booked /\ b.baseline = a.baseline
      /\ period \in [rows: Seq(Row), cost: Nat]
      /\ \/ b.archive = Append(a.archive, period) /\ b.rows = <<>> /\ b.long["month"] = Empty
         \/ b.archive = a.archive /\ b.rows = rows /\ b.long["month"] = a.long["month"]
  BY <1>3, MidnightIs
<1>6. period.rows = rows /\ period.cost = CostOf(rows)
  BY <1>3
<1> HIDE DEF rows, period, row, lists, more, m, added
<1>13. /\ Append(a.archive, period) \in Seq([rows: Seq(Row), cost: Nat])
       /\ Len(Append(a.archive, period)) = Len(a.archive) + 1
       /\ Append(a.archive, period)[Len(a.archive) + 1] = period
       /\ \A j \in 1..Len(a.archive) : Append(a.archive, period)[j] = a.archive[j]
  BY <1>1, <1>5, AppendProperties
<1>8. BillAddsUp(b)
  <2>1. \A i \in DOMAIN a.archive : a.archive[i].cost = CostOf(a.archive[i].rows)
    BY DEF TotalsKept, BillAddsUp
  <2>2. CASE b.archive = Append(a.archive, period) /\ b.rows = <<>> /\ b.long["month"] = Empty
    <3>1. b.long["month"].cost = CostOf(b.rows) + b.today.cost
      BY <1>5, <2>2, CostGrows DEF Empty
    <3>2. ASSUME NEW i \in DOMAIN b.archive
          PROVE  b.archive[i].cost = CostOf(b.archive[i].rows)
      <4>1. /\ DOMAIN b.archive = 1..(Len(a.archive) + 1) /\ b.archive[Len(a.archive) + 1] = period
            /\ \A j \in 1..Len(a.archive) : b.archive[j] = a.archive[j]
        BY <1>13, <2>2, LenProperties
      <4>3. DOMAIN a.archive = 1..Len(a.archive) /\ Len(a.archive) \in Nat
        BY <1>1, LenProperties
      <4>2. i \in 1..Len(a.archive) \/ i = Len(a.archive) + 1
        BY <4>1, <4>3
      <4> QED
        BY <1>6, <2>1, <4>1, <4>2, <4>3
    <3> QED
      BY <3>1, <3>2 DEF BillAddsUp
  <2>3. CASE b.archive = a.archive /\ b.rows = rows /\ b.long["month"] = a.long["month"]
    <3>1. CostOf(rows) \in Nat /\ b.today.cost = 0
      BY <1>3, <1>5, CostGrows DEF Empty
    <3>2. b.long["month"].cost = CostOf(b.rows) + b.today.cost
      BY <1>3, <2>3, <3>1
    <3> QED
      BY <2>1, <2>3, <3>2 DEF BillAddsUp
  <2> QED
    BY <1>5, <2>2, <2>3
<1>9. Carried(lists, more, m, added, row)
  <2> DEFINE n == Len(a.archive)
             o == Len(b.archive)
  <2>1. n \in Nat /\ Len(lists) = n + 1 /\ lists[n + 1] = a.rows
    BY RowListsAre DEF lists
  <2>2. \A l \in 1..n : lists[l] = a.archive[l].rows
    BY RowListsAre DEF lists
  <2>3. o \in Nat /\ Len(more) = o + 1 /\ more[o + 1] = b.rows
    BY <1>5, RowListsAre DEF more
  <2>4. \A l \in 1..o : more[l] = b.archive[l].rows
    BY <1>5, RowListsAre DEF more
  <2>5. lists \in Seq(Seq(Row)) /\ more \in Seq(Seq(Row))
    BY <1>5, RowListsAre DEF lists, more
  <2>6. m = n + 1 /\ m - 1 = n /\ m \in Nat \ {0}
    BY <2>1 DEF m
  <2>7. CASE b.archive = Append(a.archive, period) /\ b.rows = <<>> /\ b.long["month"] = Empty
    <3>1. o = n + 1 /\ b.archive[n + 1] = period /\ \A i \in 1..n : b.archive[i] = a.archive[i]
      BY <1>13, <2>7
    <3> HIDE DEF n, o
    <3>2. \A l \in 1..n : more[l] = lists[l]
      <4>1. \A l \in 1..n : l \in 1..o
        BY <2>1, <3>1
      <4> QED
        BY <2>2, <2>4, <3>1, <4>1
    <3>3. more[n + 1] = rows
      <4>1. n + 1 \in 1..o
        BY <2>1, <3>1
      <4> QED
        BY <1>6, <2>4, <3>1, <4>1
    <3>4. Len(more) = m + 1 /\ more[m + 1] = <<>>
      BY <2>3, <2>6, <2>7, <3>1
    <3> QED
      BY <1>4, <2>1, <2>5, <2>6, <3>2, <3>3, <3>4 DEF Carried
  <2>8. CASE b.archive = a.archive /\ b.rows = rows /\ b.long["month"] = a.long["month"]
    <3>1. o = n /\ \A l \in 1..n : more[l] = b.archive[l].rows
      BY <2>4, <2>8
    <3> HIDE DEF n, o
    <3>2. \A l \in 1..n : more[l] = lists[l]
      BY <2>2, <2>8, <3>1
    <3>3. more[n + 1] = rows /\ Len(more) = m
      BY <2>3, <2>6, <2>8, <3>1
    <3> QED
      BY <1>4, <2>1, <2>5, <2>6, <3>2, <3>3 DEF Carried
  <2> QED
    BY <1>5, <2>7, <2>8
<1> DEFINE k == Len(lists[m])
<1>10. k \in Nat /\ Stayed(lists, more, m, k, added, row)
  <2>1. added \in BOOLEAN
    BY DEF added
  <2> QED
    BY <1>7, <1>9, <2>1, RowsStay
<1>11. RowsAreDays(b)
  <2>1. /\ \A l, i \in Nat : IsAt(lists, l, i) =>
             lists[l][i].day < e /\ a.spent[lists[l][i].day] = lists[l][i].cost
        /\ \A day \in Days : day < e =>
             a.spent[day] = 0 \/ \E l, i \in Nat : IsAt(lists, l, i) /\ lists[l][i].day = day
        /\ \A l, i, l2, j \in Nat : IsAt(lists, l, i) /\ IsAt(lists, l2, j) /\ (l < l2 \/ (l = l2 /\ i < j)) =>
             lists[l][i].day < lists[l2][j].day
    BY DEF TotalsKept, RowsAreDays, lists
  <2>2. a.spent[e] = a.today.cost
    BY DEF TotalsKept
  <2>3. ~added => a.spent[e] = 0
    BY <2>2 DEF Empty, added
  <2>4. m \in Nat /\ lists \in Seq(Seq(Row)) /\ Len(lists) = m
    BY <1>9 DEF Carried
  <2>5. \A l, i \in Nat : IsAt(lists, l, i) => lists[l][i].day \in Nat
    <3>1. ASSUME NEW l \in Nat, NEW i \in Nat, IsAt(lists, l, i)
          PROVE  lists[l][i].day \in Nat
      <4>1. lists[l] \in Seq(Row)
        BY <2>4, <3>1, ElementOfSeq DEF IsAt
      <4>2. lists[l][i] \in Row
        BY <3>1, <4>1, ElementOfSeq DEF IsAt
      <4> QED
        BY <4>2 DEF Row, Days
    <3> QED
      BY <3>1
  <2>6. \A l, i \in Nat : IsAt(lists, l, i) => l < m \/ (l = m /\ i <= k)
    BY <1>10, <2>4 DEF IsAt
  <2> HIDE DEF k
  <2>7. /\ \A l, i \in Nat : IsAt(more, l, i) =>
             \/ IsAt(lists, l, i) /\ more[l][i] = lists[l][i]
             \/ added /\ l = m /\ i = k + 1 /\ more[l][i] = row
        /\ \A l, i \in Nat : IsAt(lists, l, i) => IsAt(more, l, i) /\ more[l][i] = lists[l][i]
        /\ added => IsAt(more, m, k + 1) /\ more[m][k + 1] = row
    BY <1>10 DEF Stayed
  <2>8. ASSUME NEW l \in Nat, NEW i \in Nat, IsAt(more, l, i)
        PROVE  more[l][i].day < d /\ a.spent[more[l][i].day] = more[l][i].cost
    <3>1. CASE IsAt(lists, l, i) /\ more[l][i] = lists[l][i]
      BY <1>2, <2>1, <2>5, <3>1
    <3>2. CASE more[l][i] = row
      BY <1>2, <1>7, <2>2, <3>2
    <3> QED
      BY <2>7, <2>8, <3>1, <3>2
  <2>9. ASSUME NEW day \in Days, day < d
        PROVE  a.spent[day] = 0 \/ \E l, i \in Nat : IsAt(more, l, i) /\ more[l][i].day = day
    <3>1. CASE day = e
      <4>1. CASE added
        <5>1. k + 1 \in Nat
          BY <1>10
        <5> QED
          BY <1>7, <2>4, <2>7, <3>1, <4>1, <5>1
      <4> QED
        BY <2>3, <3>1, <4>1
    <3>2. CASE day # e
      <4>1. day < e
        BY <1>2, <2>9, <3>2 DEF Days
      <4> QED
        BY <2>1, <2>7, <4>1
    <3> QED
      BY <3>1, <3>2
  <2>10. ASSUME NEW l \in Nat, NEW i \in Nat, NEW l2 \in Nat, NEW j \in Nat,
                IsAt(more, l, i), IsAt(more, l2, j), l < l2 \/ (l = l2 /\ i < j)
         PROVE  more[l][i].day < more[l2][j].day
    <3>1. CASE IsAt(lists, l, i) /\ more[l][i] = lists[l][i] /\ IsAt(lists, l2, j) /\ more[l2][j] = lists[l2][j]
      BY <2>1, <2>10, <3>1
    <3>2. CASE IsAt(lists, l, i) /\ more[l][i] = lists[l][i] /\ more[l2][j] = row
      BY <1>7, <2>1, <3>2
    <3>3. ~(l = m /\ i = k + 1 /\ IsAt(lists, l2, j))
      <4>1. IsAt(lists, l2, j) => l2 < m \/ (l2 = m /\ j <= k)
        BY <2>6
      <4> QED
        BY <1>10, <2>4, <2>10, <4>1
    <3>4. ~(l = m /\ i = k + 1 /\ l2 = m /\ j = k + 1)
      BY <1>10, <2>4, <2>10
    <3> QED
      BY <2>7, <2>10, <3>1, <3>2, <3>3, <3>4
  <2>11. b.last_reset = d /\ b.spent = a.spent
    BY <1>5
  <2> QED
    BY <2>8, <2>9, <2>10, <2>11 DEF RowsAreDays, more
<1>12. b.spent[d] = b.today.cost /\ \A later \in Days : later > d => b.spent[later] = 0
  <2>1. \A later \in Days : later > e => a.spent[later] = 0
    BY DEF TotalsKept
  <2>2. a.spent[d] = 0 /\ \A later \in Days : later > d => a.spent[later] = 0
    BY <1>2, <2>1 DEF Days
  <2> QED
    BY <1>5, <2>2 DEF Empty
<1> QED
  BY <1>5, <1>8, <1>11, <1>12 DEF TotalsKept

\* The states from midnight to midnight, from a state to the day d.
RolledTo(a, d, rolled) ==
  rolled = [k \in a.last_reset..d |-> IF k = a.last_reset THEN a ELSE OnMidnight(rolled[k - 1], k)]

LEMMA RolledIsThere ==
  ASSUME NEW a, a.last_reset \in Nat, NEW n \in Nat
  PROVE  \E rolled : RolledTo(a, a.last_reset + n, rolled)
<1> DEFINE first == a.last_reset
           S == {j \in Nat : \E rolled : RolledTo(a, first + j, rolled)}
<1>1. 0 \in S
  <2> DEFINE alone == [k \in first..(first + 0) |-> a]
  <2>1. alone = [k \in first..(first + 0) |-> IF k = first THEN a ELSE OnMidnight(alone[k - 1], k)]
    <3>1. \A k \in first..(first + 0) : k = first
      OBVIOUS
    <3> QED
      BY <3>1
  <2>2. RolledTo(a, first + 0, alone)
    BY <2>1 DEF RolledTo
  <2> QED
    BY <2>2
<1>2. ASSUME NEW j \in Nat, j \in S
      PROVE  j + 1 \in S
  <2>1. PICK rolled : RolledTo(a, first + j, rolled)
    BY <1>2
  <2> DEFINE last_one == first + (j + 1)
             more == [k \in first..last_one |->
                        IF k = last_one THEN OnMidnight(rolled[last_one - 1], last_one) ELSE rolled[k]]
  <2>2. rolled = [k \in first..(first + j) |-> IF k = first THEN a ELSE OnMidnight(rolled[k - 1], k)]
    BY <2>1 DEF RolledTo
  <2>3. \A k \in first..last_one : k = last_one \/ (k \in first..(first + j) /\ k # last_one)
    OBVIOUS
  <2>4. last_one - 1 = first + j /\ last_one - 1 \in first..last_one /\ last_one - 1 # last_one /\ last_one # first
    OBVIOUS
  <2>5. \A k \in first..(first + j) : more[k] = rolled[k]
    OBVIOUS
  <2>6. ASSUME NEW k \in first..last_one
        PROVE  more[k] = IF k = first THEN a ELSE OnMidnight(more[k - 1], k)
    <3>1. CASE k = last_one
      <4>1. more[k] = OnMidnight(rolled[k - 1], k)
        BY <3>1
      <4>2. more[k - 1] = rolled[k - 1]
        BY <2>4, <2>5, <3>1
      <4> HIDE DEF more
      <4> QED
        BY <2>4, <3>1, <4>1, <4>2
    <3>2. CASE k # last_one
      <4>1. k \in first..(first + j)
        BY <2>3, <3>2
      <4>2. more[k] = rolled[k]
        BY <2>5, <4>1
      <4>3. rolled[k] = IF k = first THEN a ELSE OnMidnight(rolled[k - 1], k)
        BY <2>2, <4>1
      <4>4. k # first => more[k - 1] = rolled[k - 1]
        <5>1. k # first => k - 1 \in first..(first + j)
          BY <4>1
        <5> QED
          BY <2>5, <5>1
      <4> HIDE DEF more
      <4> QED
        BY <4>2, <4>3, <4>4
    <3> QED
      BY <3>1, <3>2
  <2>7. more = [k \in first..last_one |-> more[k]]
    OBVIOUS
  <2> HIDE DEF more
  <2>8. more = [k \in first..last_one |-> IF k = first THEN a ELSE OnMidnight(more[k - 1], k)]
    BY <2>6, <2>7
  <2>9. RolledTo(a, last_one, more)
    BY <2>8 DEF RolledTo
  <2> QED
    BY <2>9
<1>3. S \in SUBSET Nat
  OBVIOUS
<1> HIDE DEF S
<1>4. n \in S
  BY <1>1, <1>2, <1>3, LeastOut
<1> QED
  BY <1>4 DEF S

\* A state as it is on a day, with what was booked.
KeptOn(a, day, booked) == a \in State /\ TotalsKept(a) /\ a.last_reset = day /\ a.booked = booked

LEMMA RolledKeeps ==
  ASSUME NEW a \in State, TotalsKept(a), NEW n \in Nat, a.last_reset + n \in Days, NEW rolled,
         RolledTo(a, a.last_reset + n, rolled)
  PROVE  KeptOn(rolled[a.last_reset + n], a.last_reset + n, a.booked)
<1> DEFINE first == a.last_reset
           S == {j \in Nat : j <= n => KeptOn(rolled[first + j], first + j, a.booked)}
<1>1. first \in Nat
  BY DEF State, Days
<1>2. rolled = [k \in first..(first + n) |-> IF k = first THEN a ELSE OnMidnight(rolled[k - 1], k)]
  BY DEF RolledTo
<1>3. 0 \in S
  <2>1. first \in first..(first + n) /\ first + 0 = first
    BY <1>1
  <2>2. rolled[first] = a
    BY <1>2, <2>1
  <2> QED
    BY <2>1, <2>2 DEF KeptOn
<1>4. ASSUME NEW j \in Nat, j \in S
      PROVE  j + 1 \in S
  <2>1. SUFFICES ASSUME j + 1 <= n
                 PROVE  KeptOn(rolled[first + (j + 1)], first + (j + 1), a.booked)
    OBVIOUS
  <2> DEFINE k == first + (j + 1)
  <2>2. k \in first..(first + n) /\ k # first /\ k - 1 = first + j /\ k = (first + j) + 1 /\ j <= n
    BY <1>1, <2>1
  <2>3. k \in Days
    BY <1>1, <2>2, TotalsAssumption DEF Days
  <2>4. KeptOn(rolled[first + j], first + j, a.booked)
    BY <1>4, <2>2
  <2>5. rolled[k] = OnMidnight(rolled[first + j], k)
    BY <1>2, <2>2
  <2> HIDE DEF k, first, S
  <2>6. rolled[first + j] \in State /\ TotalsKept(rolled[first + j]) /\ k = rolled[first + j].last_reset + 1
    BY <2>2, <2>4 DEF KeptOn
  <2>7. /\ rolled[k] \in State /\ TotalsKept(rolled[k]) /\ rolled[k].last_reset = k
        /\ rolled[k].booked = rolled[first + j].booked
    BY <2>3, <2>5, <2>6, MidnightKeeps
  <2>8. KeptOn(rolled[k], k, a.booked)
    BY <2>4, <2>7 DEF KeptOn
  <2> QED
    BY <2>8 DEF k
<1>5. S \in SUBSET Nat
  OBVIOUS
<1> HIDE DEF S
<1>6. n \in S
  BY <1>3, <1>4, <1>5, LeastOut
<1> QED
  BY <1>6 DEF S

\* A start after midnights that were missed.
LEMMA RollForwardIsRolled ==
  ASSUME NEW a, NEW d, d # a.last_reset
  PROVE  RollForward(a, d) = [(CHOOSE rolled : RolledTo(a, d, rolled))[d] EXCEPT !.baseline = 0]
BY DEF RollForward, RolledTo

LEMMA RollKeeps ==
  ASSUME NEW a \in State, TotalsKept(a), NEW d \in Days, a.last_reset <= d
  PROVE  /\ KeptOn(RollForward(a, d), d, a.booked)
         /\ IF d = a.last_reset THEN RollForward(a, d) = a ELSE RollForward(a, d).baseline = 0
<1>1. a.last_reset \in Nat /\ d \in Nat
  BY DEF State, Days
<1>2. CASE d = a.last_reset
  <2>1. RollForward(a, d) = a
    BY <1>2 DEF RollForward
  <2> QED
    BY <1>2, <2>1 DEF KeptOn
<1>3. CASE d # a.last_reset
  <2> DEFINE n == d - a.last_reset
             rolled == CHOOSE r : RolledTo(a, d, r)
             b == rolled[d]
  <2>1. n \in Nat /\ a.last_reset + n = d
    BY <1>1
  <2> HIDE DEF n
  <2>2. \E r : RolledTo(a, d, r)
    BY <1>1, <2>1, RolledIsThere
  <2>3. RolledTo(a, d, rolled)
    BY <2>2
  <2>4. RollForward(a, d) = [b EXCEPT !.baseline = 0]
    BY <1>3, RollForwardIsRolled
  <2> HIDE DEF rolled
  <2>5. KeptOn(b, d, a.booked)
    BY <2>1, <2>3, RolledKeeps
  <2> HIDE DEF b
  <2> DEFINE c == [b EXCEPT !.baseline = 0]
  <2>6. b \in State /\ TotalsKept(b) /\ b.last_reset = d /\ b.booked = a.booked
    BY <2>5 DEF KeptOn
  <2>7. /\ c \in State /\ c.today = b.today /\ c.last_reset = b.last_reset /\ c.archive = b.archive
        /\ c.rows = b.rows /\ c.long = b.long /\ c.spent = b.spent /\ c.booked = b.booked /\ c.baseline = 0
    BY <2>6 DEF State
  <2> HIDE DEF c
  <2>8. RowLists(c) = RowLists(b)
    BY <2>7 DEF RowLists
  <2>9. TotalsKept(c)
    BY <2>6, <2>7, <2>8 DEF TotalsKept, BillAddsUp, RowsAreDays
  <2>10. RollForward(a, d) = c
    BY <2>4 DEF c
  <2> QED
    BY <1>3, <2>6, <2>7, <2>9, <2>10 DEF KeptOn
<1> QED
  BY <1>2, <1>3

\* The days move together: what the store has is of today or, until the callback's save, of
\* yesterday, and a step that is open began today.
DaysInStep ==
  /\ stored.last_reset <= acc.last_reset /\ acc.last_reset <= DayOf(clock)
  /\ midnight => alive /\ DayOf(clock) = acc.last_reset + 1 /\ stored.last_reset = acc.last_reset
  /\ alive /\ ~midnight => acc.last_reset = DayOf(clock)
  /\ alive /\ ~midnight /\ ~queued => stored.last_reset = DayOf(clock)
  /\ ~alive => /\ acc = stored /\ last = None /\ awaiting = None /\ trust = Forgotten /\ ~queued
  /\ awaiting # None => alive /\ awaiting <= clock /\ DayOf(awaiting) = DayOf(clock) /\ (midnight => cycled)
  /\ last # None => last <= clock /\ (DayOf(last) = acc.last_reset \/ (cycled /\ midnight))

TotalsInv == TotalsTypeOK /\ DaysInStep /\ TotalsKept(acc) /\ TotalsKept(stored)

LEMMA NoneIsNone == None \notin Nat
BY TotalsAssumption

LEMMA DayOfIs ==
  ASSUME NEW t \in 0..(DayLen * (LastDay + 1) - 1)
  PROVE  /\ t \in Nat /\ DayOf(t) \in Days /\ DayOf(t) \in Nat
         /\ DayOf(t + 1) = DayOf(t) \/ DayOf(t + 1) = DayOf(t) + 1
<1>1. DayLen \in Nat /\ DayLen > 0 /\ LastDay \in Nat /\ t \in Nat /\ t < DayLen * (LastDay + 1)
  BY TotalsAssumption
<1>2. \A n \in Nat : n \div DayLen \in Int /\ DayLen * (n \div DayLen) <= n /\ n < DayLen * (n \div DayLen) + DayLen
  BY <1>1
<1> QED
  BY <1>1, <1>2 DEF DayOf, Days

\* What a cycle makes of a state.
CycleMakes(b, a, r) ==
  /\ b \in State /\ b.last_reset = a.last_reset /\ b.rows = a.rows /\ b.archive = a.archive
  /\ b.today.cost = a.today.cost + StepCost
  /\ b.long["month"].cost = a.long["month"].cost + StepCost
  /\ b.spent = [a.spent EXCEPT ![a.last_reset] = @ + StepCost]
  /\ b.booked = a.booked + Booked(r)
  /\ b.baseline = IF r = None THEN a.baseline ELSE r

LEMMA TrustTyped ==
  ASSUME TotalsTypeOK, NEW r \in Nat \cup {None}
  PROVE  Booked(r) \in Nat /\ Remembered(r) \in [reading: CounterReading \cup {None},
                                                 trusted: CounterReading \cup {None}, distrusted: BOOLEAN]
<1>1. /\ trust.reading \in CounterReading \cup {None} /\ trust.trusted \in CounterReading \cup {None}
      /\ trust.distrusted \in BOOLEAN /\ acc.baseline \in Nat /\ clock \in Nat
  BY DayOfIs DEF TotalsTypeOK, State
<1>2. None \notin Nat
  BY NoneIsNone
<1>3. CASE r = None
  BY <1>3 DEF Booked, Remembered, TotalsTypeOK
<1>4. CASE r # None
  <2>1. r \in Nat /\ Distrusted(r) \in BOOLEAN
    BY <1>4 DEF Distrusted
  <2>2. [kwh |-> r, at |-> clock] \in CounterReading
    BY <1>1, <2>1 DEF CounterReading
  <2>3. Remembered(r) \in [reading: CounterReading \cup {None},
                           trusted: CounterReading \cup {None}, distrusted: BOOLEAN]
    BY <1>1, <1>4, <2>1, <2>2 DEF Remembered
  <2>4. Previous \in Nat \cup {None}
    BY <1>1 DEF Previous, CounterReading
  <2>5. Rise(r) \in Nat
    BY <1>2, <2>1, <2>4 DEF Rise, Fell
  <2>6. Recovered(r) => r - trust.trusted.kwh \in Nat
    BY <1>1, <2>1 DEF Recovered, CounterReading
  <2>7. Booked(r) \in Nat
    BY <1>4, <2>5, <2>6 DEF Booked
  <2> QED
    BY <2>3, <2>7
<1> QED
  BY <1>3, <1>4

LEMMA StepTyped ==
  ASSUME TotalsTypeOK, last # None => last <= clock
  PROVE  StepCost \in Nat
<1>1. clock \in Nat /\ power \in {0, 1} /\ (last # None => last \in Nat)
  BY DayOfIs DEF TotalsTypeOK
<1>2. CASE last = None \/ clock - last > MaxGap
  BY <1>2 DEF StepCost
<1>3. CASE ~(last = None \/ clock - last > MaxGap)
  <2>1. clock - last \in Nat /\ StepCost = (clock - last) * power
    BY <1>1, <1>3 DEF StepCost
  <2>2. CASE power = 0
    BY <2>1, <2>2
  <2>3. CASE power = 1
    BY <2>1, <2>3
  <2> QED
    BY <1>1, <2>2, <2>3
<1> QED
  BY <1>2, <1>3

LEMMA CycleMakesIt ==
  ASSUME TotalsTypeOK, last # None => last <= clock /\ DayOf(last) = acc.last_reset,
         NEW r \in Nat \cup {None}
  PROVE  CycleMakes(Accumulate(r), acc, r)
<1>1. /\ acc.today \in [cost: Nat, kwh: Nat] /\ acc.baseline \in Nat /\ acc.booked \in Nat
  BY DEF TotalsTypeOK, State, Total
<1>9. acc.long \in [BillPeriods -> [cost: Nat, kwh: Nat]] /\ "month" \in BillPeriods
  BY TotalsAssumption DEF TotalsTypeOK, State, Total
<1>10. acc.spent \in [Days -> Nat] /\ acc.last_reset \in Days
  BY DEF TotalsTypeOK, State
<1>2. StepCost \in Nat /\ Booked(r) \in Nat
  BY StepTyped, TrustTyped
<1>3. TodayKwh(r) \in Nat
  BY <1>1 DEF TodayKwh
<1> DEFINE totalNow == [cost |-> acc.today.cost + StepCost, kwh |-> TodayKwh(r)]
           long == [p \in BillPeriods |-> [cost |-> acc.long[p].cost + StepCost, kwh |-> acc.long[p].kwh + Booked(r)]]
           baseline == IF r = None THEN acc.baseline ELSE r
           spent == [d \in Days |-> IF last # None /\ d = DayOf(last) THEN acc.spent[d] + StepCost ELSE acc.spent[d]]
           booked == acc.booked + Booked(r)
<1>4. Accumulate(r) = [acc EXCEPT !.today = totalNow, !.long = long, !.baseline = baseline, !.spent = spent,
                                  !.booked = booked]
  BY Zenon DEF Accumulate
<1>5. totalNow \in Total /\ totalNow.cost = acc.today.cost + StepCost
  BY <1>1, <1>2, <1>3 DEF Total
<1>6. long \in [BillPeriods -> Total] /\ long["month"].cost = acc.long["month"].cost + StepCost
  <2>1. \A p \in BillPeriods : /\ acc.long[p].cost + StepCost \in Nat
                               /\ acc.long[p].kwh + Booked(r) \in Nat
    BY <1>2, <1>9
  <2>2. long \in [BillPeriods -> Total]
    BY <2>1 DEF Total
  <2> QED
    BY <1>9, <2>2
<1>7. spent \in [Days -> Nat] /\ spent = [acc.spent EXCEPT ![acc.last_reset] = @ + StepCost]
  <2>1. CASE last = None
    <3>1. StepCost = 0
      BY <2>1 DEF StepCost
    <3>2. \A d \in Days : acc.spent[d] + StepCost = acc.spent[d]
      BY <1>10, <3>1
    <3> QED
      BY <1>10, <2>1, <3>2
  <2>2. CASE last # None
    <3>1. \A d \in Days : acc.spent[d] + StepCost \in Nat
      BY <1>2, <1>10
    <3> QED
      BY <1>10, <2>2, <3>1
  <2> QED
    BY <2>1, <2>2
<1>8. baseline \in Nat /\ booked \in Nat
  BY <1>1, <1>2
<1> HIDE DEF totalNow, long, spent
<1> QED
  BY <1>1, <1>4, <1>5, <1>6, <1>7, <1>8 DEF CycleMakes, TotalsTypeOK, State

LEMMA CycleIsKept ==
  ASSUME NEW a \in State, TotalsKept(a), NEW b, NEW r, CycleMakes(b, a, r), StepCost \in Nat
  PROVE  TotalsKept(b)
<1>1. /\ b \in State /\ b.last_reset = a.last_reset /\ b.rows = a.rows /\ b.archive = a.archive
      /\ b.today.cost = a.today.cost + StepCost
      /\ b.long["month"].cost = a.long["month"].cost + StepCost
      /\ b.spent = [a.spent EXCEPT ![a.last_reset] = @ + StepCost]
  BY DEF CycleMakes
<1>2. a.last_reset \in Days /\ a.spent \in [Days -> Nat] /\ a.today.cost \in Nat /\ a.rows \in Seq(Row)
  BY DEF State, Total
<1>3. \A d \in Days : b.spent[d] = IF d = a.last_reset THEN a.spent[d] + StepCost ELSE a.spent[d]
  BY <1>1, <1>2
<1>4. BillAddsUp(b)
  <2>1. a.long["month"].cost = CostOf(a.rows) + a.today.cost
    BY DEF TotalsKept, BillAddsUp
  <2>2. CostOf(a.rows) \in Nat
    BY <1>2, CostGrows
  <2>3. b.long["month"].cost = CostOf(b.rows) + b.today.cost
    BY <1>1, <1>2, <2>1, <2>2
  <2> QED
    BY <1>1, <2>3 DEF TotalsKept, BillAddsUp
<1>5. RowsAreDays(b)
  <2> DEFINE lists == RowLists(a)
  <2>1. RowLists(b) = lists
    BY <1>1 DEF RowLists
  <2>2. /\ \A l, i \in Nat : IsAt(lists, l, i) =>
             lists[l][i].day < a.last_reset /\ a.spent[lists[l][i].day] = lists[l][i].cost
        /\ \A d \in Days : d < a.last_reset =>
             a.spent[d] = 0 \/ \E l, i \in Nat : IsAt(lists, l, i) /\ lists[l][i].day = d
        /\ \A l, i, m, j \in Nat : IsAt(lists, l, i) /\ IsAt(lists, m, j) /\ (l < m \/ (l = m /\ i < j)) =>
             lists[l][i].day < lists[m][j].day
    BY DEF TotalsKept, RowsAreDays
  <2>3. \A l, i \in Nat : IsAt(lists, l, i) => lists[l][i].day \in Days
    <3>1. ASSUME NEW l \in Nat, NEW i \in Nat, IsAt(lists, l, i)
          PROVE  lists[l][i].day \in Days
      <4>1. lists \in Seq(Seq(Row))
        BY RowListsAre
      <4> HIDE DEF lists
      <4>2. lists[l] \in Seq(Row)
        BY <3>1, <4>1, ElementOfSeq DEF IsAt
      <4>3. lists[l][i] \in Row
        BY <3>1, <4>2, ElementOfSeq DEF IsAt
      <4> QED
        BY <4>3 DEF Row
    <3> QED
      BY <3>1
  <2> HIDE DEF lists
  <2>4. \A d \in Days : d < a.last_reset => b.spent[d] = a.spent[d]
    BY <1>2, <1>3 DEF Days
  <2>5. \A l, i \in Nat : IsAt(lists, l, i) =>
             lists[l][i].day < b.last_reset /\ b.spent[lists[l][i].day] = lists[l][i].cost
    BY <1>1, <2>2, <2>3, <2>4
  <2>6. \A d \in Days : d < b.last_reset =>
             b.spent[d] = 0 \/ \E l, i \in Nat : IsAt(lists, l, i) /\ lists[l][i].day = d
    BY <1>1, <2>2, <2>4
  <2> QED
    BY <2>1, <2>2, <2>5, <2>6 DEF RowsAreDays
<1>6. b.spent[b.last_reset] = b.today.cost
  BY <1>1, <1>2, <1>3 DEF TotalsKept
<1>7. \A d \in Days : d > b.last_reset => b.spent[d] = 0
  <2>1. \A d \in Days : d > a.last_reset => d # a.last_reset /\ a.spent[d] = 0
    BY <1>2 DEF TotalsKept, Days
  <2> QED
    BY <1>1, <1>3, <2>1
<1> QED
  BY <1>4, <1>5, <1>6, <1>7 DEF TotalsKept

LEMMA TotalsBegin == TotalsInit => TotalsInv
<1> SUFFICES ASSUME TotalsInit
             PROVE  TotalsInv
  OBVIOUS
<1> DEFINE nothing == [today |-> Empty, long |-> [p \in BillPeriods |-> Empty], rows |-> <<>>,
                       archive |-> <<>>, last_reset |-> 0, baseline |-> 0,
                       spent |-> [d \in Days |-> 0], booked |-> 0]
<1>1. acc = nothing /\ stored = nothing
  BY DEF TotalsInit
<1>2. 0 \in 0..(DayLen * (LastDay + 1) - 1) /\ 0 \in Days
  <2>1. DayLen \in Nat /\ DayLen >= 1 /\ LastDay + 1 \in Nat /\ LastDay + 1 >= 1
    BY TotalsAssumption
  <2>2. DayLen * (LastDay + 1) >= 1
    BY <2>1
  <2> QED
    BY <2>1, <2>2, TotalsAssumption DEF Days
<1>3. DayOf(0) = 0
  BY TotalsAssumption DEF DayOf
<1>4. Empty \in Total
  BY DEF Empty, Total
<1>5. nothing \in State
  BY <1>2, <1>4 DEF State
<1>6. nothing.long["month"] = Empty /\ nothing.today = Empty /\ nothing.rows = <<>> /\ nothing.archive = <<>>
      /\ nothing.last_reset = 0 /\ \A d \in Days : nothing.spent[d] = 0
  BY TotalsAssumption
<1> HIDE DEF nothing
<1>7. RowsAreDays(nothing)
  <2> DEFINE lists == RowLists(nothing)
  <2>1. Len(nothing.archive) = 0 /\ Len(nothing.rows) = 0
    BY <1>6
  <2>2. Len(lists) = 1 /\ Len(lists[1]) = 0
    <3>1. Len(lists) = Len(nothing.archive) + 1 /\ lists[Len(nothing.archive) + 1] = nothing.rows
      BY <1>5, RowListsAre
    <3> QED
      BY <2>1, <3>1
  <2> HIDE DEF lists
  <2>3. \A l, i \in Nat : ~IsAt(lists, l, i)
    BY <2>2 DEF IsAt
  <2>4. \A d \in Days : ~(d < 0)
    BY DEF Days
  <2> QED
    BY <1>6, <2>3, <2>4 DEF RowsAreDays, lists
<1>8. TotalsKept(nothing)
  <2>1. BillAddsUp(nothing)
    <3>1. Empty.cost = 0 /\ DOMAIN <<>> = {}
      BY DEF Empty
    <3> QED
      BY <1>6, <3>1, CostGrows DEF BillAddsUp
  <2> QED
    BY <1>2, <1>6, <1>7, <2>1 DEF TotalsKept, Empty
<1>9. TotalsTypeOK
  <2>1. clock \in 0..(DayLen * (LastDay + 1) - 1) /\ count \in 0..(SaveEvery - 1) /\ restarts \in 0..MaxRestarts
    BY <1>2, TotalsAssumption DEF TotalsInit
  <2>2. trust \in [reading: CounterReading \cup {None}, trusted: CounterReading \cup {None},
                   distrusted: BOOLEAN]
    BY DEF TotalsInit, Forgotten
  <2> QED
    BY <1>1, <1>5, <2>1, <2>2 DEF TotalsInit, TotalsTypeOK
<1>10. DaysInStep
  BY <1>1, <1>3, <1>6, NoneIsNone DEF TotalsInit, DaysInStep
<1> QED
  BY <1>1, <1>8, <1>9, <1>10 DEF TotalsInv

\* The first step of a proof about each action: what holds of the days before it.
LEMMA CycleKeepsTotals ==
  ASSUME TotalsInv, TotalsCycle
  PROVE  TotalsInv'
<1>1. TotalsTypeOK /\ DaysInStep /\ TotalsKept(acc) /\ TotalsKept(stored)
  BY DEF TotalsInv
<1>2. /\ alive /\ ~cycled /\ awaiting = None /\ cycled' = TRUE
      /\ count' = (count + 1) % SaveEvery /\ queued' = (queued \/ count' = 0)
      /\ (last' = clock /\ awaiting' = None) \/ (awaiting' = clock /\ last' = last)
      /\ UNCHANGED <<clock, power, counter, lagging, delivered, alive, stored, midnight, restarts>>
  BY DEF TotalsCycle, Counted
<1>3. PICK r \in Readings : acc' = Accumulate(r) /\ trust' = Remembered(r)
  BY DEF TotalsCycle
<1>4. r \in Nat \cup {None}
  BY <1>1, TotalsAssumption DEF Readings, TotalsTypeOK
<1>5. last # None => last <= clock /\ DayOf(last) = acc.last_reset
  BY <1>1, <1>2 DEF DaysInStep
<1>6. CycleMakes(acc', acc, r) /\ StepCost \in Nat
  BY <1>1, <1>3, <1>4, <1>5, CycleMakesIt, StepTyped
<1>7. acc' \in State /\ acc'.last_reset = acc.last_reset
  BY <1>6 DEF CycleMakes
<1>8. clock \in Nat /\ DayOf(clock) \in Nat
  BY <1>1, DayOfIs DEF TotalsTypeOK
<1>9. TotalsKept(acc')
  BY <1>1, <1>6, CycleIsKept DEF TotalsTypeOK
<1>10. TotalsTypeOK'
  <2>1. count' \in 0..(SaveEvery - 1)
    BY <1>1, <1>2, TotalsAssumption DEF TotalsTypeOK
  <2>2. trust' \in [reading: CounterReading \cup {None}, trusted: CounterReading \cup {None},
                    distrusted: BOOLEAN]
    BY <1>1, <1>3, <1>4, TrustTyped
  <2>3. queued' \in BOOLEAN
    BY <1>2
  <2> QED
    BY <1>1, <1>2, <1>7, <1>8, <2>1, <2>2, <2>3 DEF TotalsTypeOK
<1>11. DaysInStep'
  <2>1. DayOf(clock)' = DayOf(clock)
    BY <1>2
  <2>2. queued => queued'
    BY <1>2
  <2>3. awaiting' # None => awaiting' = clock
    BY <1>2
  <2>4. DayOf(clock) = acc.last_reset \/ midnight
    BY <1>1, <1>2 DEF DaysInStep
  <2>5. last' # None => last' <= clock /\ (DayOf(last') = acc.last_reset \/ midnight)
    BY <1>2, <1>5, <1>8, <2>4
  <2>6. awaiting' # None => awaiting' <= clock /\ DayOf(awaiting') = DayOf(clock)
    BY <1>8, <2>3
  <2>7. \A t : DayOf(t)' = DayOf(t')
    BY DEF DayOf
  <2> QED
    BY <1>1, <1>2, <1>7, <2>1, <2>2, <2>5, <2>6 DEF DaysInStep
<1>12. TotalsKept(stored)'
  BY <1>1, <1>2
<1>13. TotalsKept(acc)'
  BY <1>9
<1> QED
  BY <1>10, <1>11, <1>12, <1>13 DEF TotalsInv

LEMMA NaturalsAdd == \A m, n \in Nat : m + n \in Nat
OBVIOUS

LEMMA ClockTyped ==
  ASSUME TotalsTypeOK
  PROVE  clock \in Nat /\ DayOf(clock) \in Days /\ DayOf(clock) \in Nat
BY DayOfIs DEF TotalsTypeOK

LEMMA OthersKeepTotals ==
  ASSUME TotalsInv, Resume \/ CycleFails \/ Saved
  PROVE  TotalsInv'
<1>1. TotalsTypeOK /\ DaysInStep /\ TotalsKept(acc) /\ TotalsKept(stored)
  BY DEF TotalsInv
<1>2. clock \in Nat /\ DayOf(clock) \in Nat
  BY <1>1, ClockTyped
<1>3. CASE Resume
  <2>1. /\ awaiting # None /\ last' = awaiting /\ awaiting' = None
        /\ UNCHANGED <<clock, power, counter, lagging, delivered, alive, acc, stored, trust, midnight,
                       queued, count, cycled, restarts>>
    BY <1>3 DEF Resume
  <2>2. TotalsTypeOK'
    BY <1>1, <2>1 DEF TotalsTypeOK
  <2>3. DaysInStep'
    BY <1>1, <2>1 DEF DaysInStep, DayOf
  <2> QED
    BY <1>1, <2>1, <2>2, <2>3 DEF TotalsInv
<1>4. CASE CycleFails
  <2>1. /\ alive /\ ~cycled /\ awaiting = None /\ last' \in {last, None} /\ cycled' = TRUE
        /\ count' = (count + 1) % SaveEvery /\ queued' = (queued \/ count' = 0)
        /\ UNCHANGED <<clock, power, counter, lagging, delivered, alive, acc, stored, trust, awaiting,
                       midnight, restarts>>
    BY <1>4 DEF CycleFails, Counted
  <2>2. count' \in 0..(SaveEvery - 1) /\ queued' \in BOOLEAN
    BY <1>1, <2>1, TotalsAssumption DEF TotalsTypeOK
  <2>3. TotalsTypeOK'
    BY <1>1, <2>1, <2>2 DEF TotalsTypeOK
  <2>4. last' # None => last' = last
    BY <2>1
  <2>5. queued => queued'
    BY <2>1
  <2>6. DayOf(clock)' = DayOf(clock) /\ DayOf(last)' = DayOf(last') /\ awaiting' = None
    BY <2>1 DEF DayOf
  <2>7. DaysInStep'
    BY <1>1, <2>1, <2>4, <2>5, <2>6 DEF DaysInStep
  <2> QED
    BY <1>1, <2>1, <2>3, <2>7 DEF TotalsInv
<1>5. CASE Saved
  <2>1. /\ queued /\ queued' = FALSE /\ stored' = acc
        /\ UNCHANGED <<clock, power, counter, lagging, delivered, alive, acc, trust, last, awaiting,
                       midnight, count, cycled, restarts>>
    BY <1>5 DEF Saved
  <2>2. TotalsTypeOK'
    BY <1>1, <2>1 DEF TotalsTypeOK
  <2>3. acc.last_reset \in Nat
    BY <1>1 DEF TotalsTypeOK, State, Days
  <2>4. DaysInStep'
    BY <1>1, <2>1, <2>3 DEF DaysInStep, DayOf
  <2>5. TotalsKept(stored)' /\ TotalsKept(acc)'
    BY <1>1, <2>1
  <2> QED
    BY <2>2, <2>4, <2>5 DEF TotalsInv
<1> QED
  BY <1>3, <1>4, <1>5

LEMMA MidnightKeepsTotals ==
  ASSUME TotalsInv, MidnightReset
  PROVE  TotalsInv' /\ acc'.booked = acc.booked /\ acc'.baseline = acc.baseline
         /\ acc'.last_reset = DayOf(clock)
<1>1. TotalsTypeOK /\ DaysInStep /\ TotalsKept(acc) /\ TotalsKept(stored)
  BY DEF TotalsInv
<1>2. clock \in Nat /\ DayOf(clock) \in Nat /\ DayOf(clock) \in Days
  BY <1>1, ClockTyped
<1>3. /\ midnight /\ midnight' = FALSE /\ acc' = OnMidnight(acc, DayOf(clock)) /\ last' = None
      /\ queued' = TRUE
      /\ UNCHANGED <<clock, power, counter, lagging, delivered, alive, stored, trust, awaiting, count, cycled,
                     restarts>>
  BY DEF MidnightReset, StepEnds
<1>4. alive /\ DayOf(clock) = acc.last_reset + 1 /\ acc \in State /\ stored.last_reset = acc.last_reset
  BY <1>1, <1>3 DEF DaysInStep, TotalsTypeOK
<1>5. /\ acc' \in State /\ TotalsKept(acc') /\ acc'.last_reset = DayOf(clock)
      /\ acc'.booked = acc.booked /\ acc'.baseline = acc.baseline
  BY <1>1, <1>2, <1>3, <1>4, MidnightKeeps
<1>6. TotalsTypeOK'
  BY <1>1, <1>3, <1>5 DEF TotalsTypeOK
<1>7. acc.last_reset \in Nat
  BY <1>4 DEF State, Days
<1>8. DaysInStep'
  BY <1>1, <1>2, <1>3, <1>4, <1>5, <1>7 DEF DaysInStep, DayOf
<1>9. TotalsKept(stored)' /\ TotalsKept(acc)'
  BY <1>1, <1>3, <1>5
<1> QED
  BY <1>5, <1>6, <1>8, <1>9 DEF TotalsInv

LEMMA TickKeepsTotals ==
  ASSUME TotalsInv, TotalsTick, ~WaitsOverMidnight
  PROVE  TotalsInv'
<1>1. TotalsTypeOK /\ DaysInStep /\ TotalsKept(acc) /\ TotalsKept(stored)
  BY DEF TotalsInv
<1>2. clock \in Nat /\ DayOf(clock) \in Nat
  BY <1>1, ClockTyped
<1> DEFINE turns == DayOf(clock') # DayOf(clock)
<1>3. /\ clock + 1 < DayLen * (LastDay + 1) /\ ~midnight /\ ~queued
      /\ awaiting # None => DayOf(clock + 1) = DayOf(awaiting)
      /\ clock' = clock + 1 /\ power' \in {0, 1} /\ delivered' = delivered + power'
      /\ lagging' \in (IF turns THEN BOOLEAN ELSE {FALSE})
      /\ counter' = IF lagging \/ (turns /\ ~lagging') THEN power' ELSE counter + power'
      /\ midnight' = (turns /\ alive) /\ cycled' = FALSE
      /\ UNCHANGED <<alive, acc, stored, trust, last, awaiting, queued, count, restarts>>
  BY Zenon DEF TotalsTick
<1>4. DayOf(clock') = DayOf(clock) \/ DayOf(clock') = DayOf(clock) + 1
  BY <1>1, <1>3, DayOfIs DEF TotalsTypeOK
<1>5. TotalsTypeOK'
  <2>1. clock' \in 0..(DayLen * (LastDay + 1) - 1)
    <3>1. DayLen * (LastDay + 1) \in Nat
      BY TotalsAssumption
    <3> QED
      BY <1>2, <1>3, <3>1
  <2>2. lagging' \in BOOLEAN /\ midnight' \in BOOLEAN /\ cycled' \in BOOLEAN
    BY <1>1, <1>3 DEF TotalsTypeOK
  <2>3. counter' \in Nat /\ delivered' \in Nat
    <3>1. counter \in Nat /\ delivered \in Nat /\ power' \in Nat
      BY <1>1, <1>3 DEF TotalsTypeOK
    <3>2. counter' = power' \/ counter' = counter + power'
      BY <1>3
    <3>3. delivered' = delivered + power'
      BY <1>3
    <3>4. counter + power' \in Nat /\ delivered + power' \in Nat
      BY <3>1, NaturalsAdd
    <3> QED
      BY <3>1, <3>2, <3>3, <3>4
  <2> QED
    BY <1>1, <1>3, <2>1, <2>2, <2>3 DEF TotalsTypeOK
<1>6. DaysInStep'
  <2>1. DayOf(clock)' = DayOf(clock') /\ DayOf(last)' = DayOf(last) /\ DayOf(awaiting)' = DayOf(awaiting)
    BY <1>3 DEF DayOf
  <2>2. acc.last_reset \in Nat /\ stored.last_reset \in Nat
    BY <1>1 DEF TotalsTypeOK, State, Days
  <2>3. stored.last_reset <= acc.last_reset /\ acc.last_reset <= DayOf(clock')
    BY <1>1, <1>2, <1>4, <2>2 DEF DaysInStep
  <2>4. turns => DayOf(clock') = DayOf(clock) + 1
    BY <1>4
  <2>5. alive => acc.last_reset = DayOf(clock) /\ stored.last_reset = DayOf(clock)
    BY <1>1, <1>3 DEF DaysInStep
  <2>6. awaiting # None => awaiting <= clock' /\ DayOf(awaiting) = DayOf(clock') /\ ~turns
    BY <1>1, <1>2, <1>3 DEF DaysInStep, TotalsTypeOK
  <2>7. last # None => last <= clock' /\ DayOf(last) = acc.last_reset
    BY <1>1, <1>2, <1>3 DEF DaysInStep, TotalsTypeOK
  <2>8. last # None => alive
    BY <1>1 DEF DaysInStep
  <2> HIDE DEF turns
  <2> QED
    BY <1>1, <1>3, <2>1, <2>3, <2>4, <2>5, <2>6, <2>7, <2>8 DEF DaysInStep, turns
<1>7. TotalsKept(stored)' /\ TotalsKept(acc)'
  BY <1>1, <1>3
<1> QED
  BY <1>5, <1>6, <1>7 DEF TotalsInv

LEMMA StopKeepsTotals ==
  ASSUME TotalsInv, StopTotals
  PROVE  TotalsInv'
<1>1. TotalsTypeOK /\ DaysInStep /\ TotalsKept(acc) /\ TotalsKept(stored)
  BY DEF TotalsInv
<1>2. /\ alive /\ alive' = FALSE /\ restarts < MaxRestarts /\ restarts' = restarts + 1
      /\ stored' \in {stored, acc} /\ acc' = stored'
      /\ trust' = Forgotten /\ last' = None /\ awaiting' = None
      /\ midnight' = FALSE /\ queued' = FALSE /\ count' = 0
      /\ UNCHANGED <<clock, power, counter, lagging, delivered, cycled>>
  BY DEF StopTotals
<1>3. stored' \in State /\ TotalsKept(stored') /\ stored'.last_reset <= DayOf(clock)
  <2>1. stored.last_reset \in Nat /\ acc.last_reset \in Nat /\ DayOf(clock) \in Nat
    BY <1>1, ClockTyped DEF TotalsTypeOK, State, Days
  <2> QED
    BY <1>1, <1>2, <2>1 DEF DaysInStep, TotalsTypeOK
<1>4. TotalsTypeOK'
  <2>1. restarts' \in 0..MaxRestarts /\ count' \in 0..(SaveEvery - 1)
    BY <1>1, <1>2, TotalsAssumption DEF TotalsTypeOK
  <2>2. Forgotten \in [reading: CounterReading \cup {None}, trusted: CounterReading \cup {None},
                       distrusted: BOOLEAN]
    BY DEF Forgotten
  <2> QED
    BY <1>1, <1>2, <1>3, <2>1, <2>2 DEF TotalsTypeOK
<1>5. DaysInStep'
  <2>1. stored'.last_reset \in Nat
    BY <1>3 DEF State, Days
  <2> QED
    BY <1>2, <1>3, <2>1 DEF DaysInStep, DayOf
<1>6. TotalsKept(stored)' /\ TotalsKept(acc)'
  BY <1>2, <1>3
<1> QED
  BY <1>4, <1>5, <1>6 DEF TotalsInv

LEMMA StartKeepsTotals ==
  ASSUME TotalsInv, Start
  PROVE  /\ TotalsInv' /\ acc'.booked = acc.booked /\ acc'.last_reset = DayOf(clock)
         /\ IF acc.last_reset = DayOf(clock) THEN acc' = acc ELSE acc'.baseline = 0
<1>1. TotalsTypeOK /\ DaysInStep /\ TotalsKept(acc) /\ TotalsKept(stored)
  BY DEF TotalsInv
<1>2. /\ ~alive /\ alive' = TRUE /\ acc' = RollForward(stored, DayOf(clock)) /\ stored' = acc'
      /\ UNCHANGED <<clock, power, counter, lagging, delivered, trust, last, awaiting, midnight,
                     queued, count, cycled, restarts>>
  BY DEF Start
<1>3. /\ acc = stored /\ last = None /\ awaiting = None /\ ~queued /\ ~midnight
      /\ stored \in State /\ stored.last_reset <= DayOf(clock)
  BY <1>1, <1>2 DEF DaysInStep, TotalsTypeOK
<1>4. DayOf(clock) \in Days /\ DayOf(clock) \in Nat
  BY <1>1, ClockTyped
<1>5. /\ KeptOn(acc', DayOf(clock), stored.booked)
      /\ IF DayOf(clock) = stored.last_reset THEN acc' = stored ELSE acc'.baseline = 0
  BY <1>1, <1>2, <1>3, <1>4, RollKeeps
<1>6. acc' \in State /\ TotalsKept(acc') /\ acc'.last_reset = DayOf(clock) /\ acc'.booked = stored.booked
  BY <1>5 DEF KeptOn
<1>7. TotalsTypeOK'
  BY <1>1, <1>2, <1>6 DEF TotalsTypeOK
<1>8. DaysInStep'
  BY <1>1, <1>2, <1>3, <1>4, <1>6 DEF DaysInStep, DayOf
<1>9. TotalsKept(stored)' /\ TotalsKept(acc)'
  BY <1>2, <1>6
<1> QED
  BY <1>3, <1>5, <1>6, <1>7, <1>8, <1>9 DEF TotalsInv

LEMMA TotalsStay == TotalsInv /\ ~WaitsOverMidnight /\ [TotalsNext]_totalsVars => TotalsInv'
<1> SUFFICES ASSUME TotalsInv, ~WaitsOverMidnight, [TotalsNext]_totalsVars
             PROVE  TotalsInv'
  OBVIOUS
<1>1. CASE TotalsNext
  BY <1>1, CycleKeepsTotals, OthersKeepTotals, MidnightKeepsTotals, TickKeepsTotals, StopKeepsTotals,
     StartKeepsTotals DEF TotalsNext
<1>2. CASE UNCHANGED totalsVars
  <2>1. TotalsTypeOK' /\ DaysInStep'
    BY <1>2 DEF TotalsInv, totalsVars, TotalsTypeOK, DaysInStep, DayOf
  <2>2. TotalsKept(acc)' /\ TotalsKept(stored)'
    BY <1>2 DEF TotalsInv, totalsVars
  <2> QED
    BY <2>1, <2>2 DEF TotalsInv
<1> QED
  BY <1>1, <1>2

\* The bill audit adds up to the bill and every day keeps its own energy (accumulation.py, the
\* midnight callback, roll_forward), for every length of day and of bill period, spike, reading,
\* stop and start, when no cycle waits for a write over midnight.
THEOREM DaysHold ==
  ASSUME ~WaitsOverMidnight
  PROVE  TotalsSpec => [](BillAddsUp(acc) /\ DaysKeepTheirEnergy(acc))
<1>1. TotalsInv => BillAddsUp(acc) /\ DaysKeepTheirEnergy(acc)
  BY KeptIsDays DEF TotalsInv, TotalsKept, TotalsTypeOK
<1>2. TotalsInv /\ [TotalsNext]_totalsVars => TotalsInv'
  BY TotalsStay
<1> QED
  BY <1>1, <1>2, TotalsBegin, PTL DEF TotalsSpec

\* What a counter can show at the most.
Horizon == DayLen * (LastDay + 1)
Reach == Rate * Horizon + Floor

\* The cases the theorem is about, and spikes that stand out.
Ordinary ==
  /\ ~SpikesAtRestart /\ ~StopAtMidnight /\ ~StaleStart /\ ~WaitsOverMidnight
  /\ \A s \in Spikes : s > Reach

\* From a reading p the counter's energy is still due, or all of what it shows is.
Due(b, p) == (p <= counter /\ b + counter - p <= delivered) \/ b + counter <= delivered
DueSince(b, reading) ==
  \/ /\ reading.kwh <= counter /\ b + counter - reading.kwh <= delivered
     /\ counter - reading.kwh <= clock - reading.at
  \/ b + counter <= delivered

CounterDay == DayOf(clock) - (IF lagging THEN 1 ELSE 0)

\* What is booked was delivered; all of a new day is due before its first cycle, and what
\* the counter shows beyond the last reading is.
IsDue(a) ==
  /\ a.booked <= delivered
  /\ ~cycled /\ a.last_reset < CounterDay => a.booked + counter <= delivered
  /\ a.baseline \notin Spikes => Due(a.booked, a.baseline)

\* The guard's memory is of the readings there were.
GuardKnows ==
  /\ trust.reading = None => trust = Forgotten /\ acc.baseline \notin Spikes
  /\ trust.reading # None =>
       /\ trust.reading.kwh = acc.baseline /\ trust.reading.at <= clock
       /\ acc.baseline \in Spikes => trust.distrusted /\ trust.trusted # None
       /\ acc.baseline \notin Spikes => acc.baseline <= trust.reading.at
  /\ trust.trusted # None =>
       /\ trust.trusted.kwh <= trust.trusted.at /\ trust.trusted.at <= clock
       /\ DueSince(acc.booked, trust.trusted)

CounterInv ==
  /\ counter <= clock
  /\ ~alive /\ cycled => acc.last_reset = DayOf(clock)
  /\ IsDue(acc) /\ IsDue(stored)
  /\ GuardKnows

LEMMA HorizonTyped ==
  /\ Horizon \in Nat /\ Rate \in Nat \ {0} /\ Floor \in Nat /\ Reach \in Nat
  /\ \A t \in Nat : Allowed(t) \in Nat /\ t <= Allowed(t)
  /\ \A t, at \in Nat : t + at <= Horizon => Allowed(t) + at <= Reach
<1>1. Horizon \in Nat /\ Rate \in Nat \ {0} /\ Floor \in Nat
  BY TotalsAssumption DEF Horizon
<1>2. \A m, n \in Nat : m * n \in Nat
  OBVIOUS
<1>3. Reach \in Nat
  BY <1>1, <1>2 DEF Reach
<1> HIDE DEF Horizon
<1>4. \A m \in Nat \ {0}, n \in Nat : n <= m * n
  OBVIOUS
<1>5. \A m, a, b, c \in Nat : a + b <= c => m * a + m * b <= m * c
  <2>1. ASSUME NEW m \in Nat, NEW a \in Nat, NEW b \in Nat, NEW c \in Nat, a + b <= c
        PROVE  m * a + m * b <= m * c
    <3>1. m * a + m * b = m * (a + b)
      OBVIOUS
    <3>2. m * (a + b) <= m * c
      BY <2>1
    <3>3. m * a \in Nat /\ m * b \in Nat /\ m * c \in Nat
      BY <1>2
    <3> QED
      BY <3>1, <3>2, <3>3
  <2> QED
    BY <2>1
<1>6. ASSUME NEW t \in Nat
      PROVE  Allowed(t) \in Nat /\ t <= Allowed(t)
  <2>1. Rate * t \in Nat /\ t <= Rate * t
    BY <1>1, <1>2, <1>4
  <2> QED
    BY <1>1, <2>1 DEF Allowed
<1>7. ASSUME NEW t \in Nat, NEW at \in Nat, t + at <= Horizon
      PROVE  Allowed(t) + at <= Reach
  <2>1. /\ Rate * t + Rate * at <= Rate * Horizon /\ at <= Rate * at
        /\ Rate * t \in Nat /\ Rate * at \in Nat /\ Rate * Horizon \in Nat
    BY <1>1, <1>2, <1>4, <1>5, <1>7
  <2> QED
    BY <1>1, <2>1 DEF Allowed, Reach
<1> QED
  BY <1>1, <1>3, <1>6, <1>7

LEMMA CounterTyped ==
  ASSUME TotalsTypeOK
  PROVE  /\ clock \in Nat /\ counter \in Nat /\ delivered \in Nat /\ clock < Horizon
         /\ acc.booked \in Nat /\ acc.baseline \in Nat /\ acc.last_reset \in Nat
         /\ stored.booked \in Nat /\ stored.baseline \in Nat /\ stored.last_reset \in Nat
         /\ trust.reading # None => trust.reading.kwh \in Nat /\ trust.reading.at \in Nat
         /\ trust.trusted # None => trust.trusted.kwh \in Nat /\ trust.trusted.at \in Nat
         /\ trust.distrusted \in BOOLEAN /\ CounterDay \in Int /\ CounterDay <= DayOf(clock)
<1>1. clock \in Nat /\ DayOf(clock) \in Nat
  BY ClockTyped
<1>2. clock < Horizon
  BY HorizonTyped DEF TotalsTypeOK, Horizon
<1>3. CounterDay \in Int /\ CounterDay <= DayOf(clock)
  BY <1>1 DEF CounterDay
<1>4. trust.reading # None => trust.reading.kwh \in Nat /\ trust.reading.at \in Nat
  BY DEF TotalsTypeOK, CounterReading
<1>5. trust.trusted # None => trust.trusted.kwh \in Nat /\ trust.trusted.at \in Nat
  BY DEF TotalsTypeOK, CounterReading
<1> QED
  BY <1>1, <1>2, <1>3, <1>4, <1>5 DEF TotalsTypeOK, State, Days

\* A spike is never booked.
LEMMA SpikesAreDistrusted ==
  ASSUME TotalsTypeOK, CounterInv, Ordinary, NEW r \in Spikes, trust.trusted # None
  PROVE  r \in Nat /\ r # None /\ Distrusted(r) /\ Booked(r) = 0
<1>1. r \in Nat /\ r > Reach /\ r # None
  BY TotalsAssumption DEF Ordinary
<1>2. /\ clock \in Nat /\ clock < Horizon
      /\ trust.trusted.kwh \in Nat /\ trust.trusted.at \in Nat
      /\ trust.trusted.kwh <= trust.trusted.at /\ trust.trusted.at <= clock
  BY CounterTyped DEF CounterInv, GuardKnows
<1>3. trust.reading # None
  BY DEF CounterInv, GuardKnows, Forgotten
<1>4. /\ trust.reading.kwh = acc.baseline /\ trust.reading.at <= clock
      /\ trust.reading.at \in Nat /\ acc.baseline \in Nat
      /\ acc.baseline \in Spikes => trust.distrusted
      /\ acc.baseline \notin Spikes => acc.baseline <= trust.reading.at
  BY <1>3, CounterTyped DEF CounterInv, GuardKnows
<1>5. Previous = acc.baseline /\ Elapsed = clock - trust.reading.at /\ Previous # None /\ Elapsed # None
  <2>1. clock - trust.reading.at \in Nat
    BY <1>2, <1>4
  <2> QED
    BY <1>3, <1>4, <2>1, NoneIsNone DEF Previous, Elapsed
<1>6. ASSUME NEW p \in Nat, NEW at \in Nat, p <= at, at <= clock
      PROVE  ~(r - p <= Allowed(clock - at))
  <2>1. clock - at \in Nat /\ (clock - at) + at <= Horizon
    BY <1>2, <1>6, HorizonTyped
  <2>2. Allowed(clock - at) \in Nat /\ Allowed(clock - at) + at <= Reach
    BY <1>6, <2>1, HorizonTyped
  <2> QED
    BY <1>1, <1>6, <2>2, HorizonTyped
<1>7. ~Recovered(r)
  BY <1>2, <1>6 DEF Recovered
<1>8. CASE Fell(r)
  <2>1. Rise(r) = r
    BY <1>8 DEF Rise
  <2>2. ~(r - 0 <= Allowed(clock - trust.reading.at))
    BY <1>4, <1>6
  <2>3. ~Judged(r)
    BY <1>1, <1>5, <2>1, <2>2 DEF Judged
  <2> QED
    BY <1>1, <1>7, <2>3 DEF Distrusted, Booked
<1>9. CASE ~Fell(r)
  <2>1. Rise(r) = r - acc.baseline
    BY <1>5, <1>9 DEF Rise
  <2>2. CASE acc.baseline \in Spikes
    BY <1>1, <1>4, <1>7, <1>9, <2>2 DEF Distrusted, Booked
  <2>3. CASE acc.baseline \notin Spikes
    <3>1. ~(r - acc.baseline <= Allowed(clock - trust.reading.at))
      BY <1>4, <1>6, <2>3
    <3>2. ~Judged(r)
      BY <1>5, <2>1, <3>1 DEF Judged
    <3> QED
      BY <1>1, <1>7, <3>2 DEF Distrusted, Booked
  <2> QED
    BY <2>2, <2>3
<1> QED
  BY <1>8, <1>9

\* What is booked of the counter's own reading was due.
LEMMA CounterIsDue ==
  ASSUME TotalsTypeOK, CounterInv, Ordinary
  PROVE  Booked(counter) \in Nat /\ acc.booked + Booked(counter) <= delivered
<1>1. /\ clock \in Nat /\ counter \in Nat /\ delivered \in Nat /\ clock < Horizon
      /\ acc.booked \in Nat /\ acc.baseline \in Nat /\ counter # None
  BY CounterTyped, NoneIsNone
<1>2. acc.booked <= delivered
  BY DEF CounterInv, IsDue
<1>3. Booked(counter) \in Nat
  BY <1>1, TrustTyped
<1>4. CASE Distrusted(counter)
  <2>1. Booked(counter) = 0
    BY <1>4 DEF Booked
  <2> QED
    BY <1>1, <1>2, <2>1
<1>5. CASE ~Distrusted(counter) /\ Recovered(counter)
  <2>1. trust.trusted # None /\ counter >= trust.trusted.kwh
    BY <1>5 DEF Recovered
  <2>2. Booked(counter) = counter - trust.trusted.kwh
    BY <1>1, <1>5 DEF Booked
  <2>3. DueSince(acc.booked, trust.trusted) /\ trust.trusted.kwh \in Nat
    BY <2>1, CounterTyped DEF CounterInv, GuardKnows
  <2> QED
    BY <1>1, <1>3, <2>1, <2>2, <2>3 DEF DueSince
<1>6. CASE ~Distrusted(counter) /\ ~Recovered(counter) /\ acc.baseline \notin Spikes
  <2>1. Booked(counter) = Rise(counter)
    BY <1>1, <1>6 DEF Booked
  <2>2. Due(acc.booked, acc.baseline)
    BY <1>6 DEF CounterInv, IsDue
  <2>3. Previous = acc.baseline \/ (Previous = None /\ acc.baseline = 0)
    BY <1>1 DEF CounterInv, GuardKnows, Previous
  <2>4. CASE Previous = None \/ Fell(counter)
    <3>1. Rise(counter) = counter
      BY <2>4 DEF Rise
    <3>2. Previous = None => acc.baseline = 0
      BY <1>1, <2>3, NoneIsNone
    <3>3. Previous # None => Previous = acc.baseline
      BY <2>3
    <3>4. acc.booked + counter <= delivered
      <4>1. CASE Previous = None
        BY <1>1, <2>2, <3>2, <4>1 DEF Due
      <4>2. CASE Previous # None
        <5>1. counter < acc.baseline
          BY <2>4, <3>3, <4>2 DEF Fell
        <5> QED
          BY <1>1, <2>2, <5>1 DEF Due
      <4> QED
        BY <4>1, <4>2
    <3> QED
      BY <1>3, <2>1, <3>1, <3>4
  <2>5. CASE ~(Previous = None \/ Fell(counter))
    <3>1. Rise(counter) = counter - acc.baseline /\ ~(counter < acc.baseline)
      BY <2>3, <2>5 DEF Rise, Fell
    <3>2. acc.booked + (counter - acc.baseline) <= delivered
      BY <1>1, <2>2, <3>1 DEF Due
    <3> QED
      BY <1>3, <2>1, <3>1, <3>2
  <2> QED
    BY <2>4, <2>5
<1>7. CASE ~Distrusted(counter) /\ ~Recovered(counter) /\ acc.baseline \in Spikes
  <2>1. acc.baseline > Reach
    BY <1>7 DEF Ordinary
  <2>2. trust.reading # None /\ trust.distrusted /\ trust.trusted # None /\ trust.reading.kwh = acc.baseline
    BY <1>7 DEF CounterInv, GuardKnows
  <2>3. counter < acc.baseline
    <3>1. counter <= clock /\ Horizon <= Reach
      <4>1. 0 + Horizon <= Horizon /\ 0 \in Nat
        BY HorizonTyped
      <4>2. Allowed(0) + Horizon <= Reach /\ Allowed(0) \in Nat
        BY <4>1, HorizonTyped
      <4> QED
        BY <4>2, HorizonTyped DEF CounterInv
    <3> QED
      BY <1>1, <2>1, <3>1, HorizonTyped
  <2>4. Fell(counter) /\ Previous # None
    BY <1>1, <2>2, <2>3, NoneIsNone DEF Fell, Previous
  <2>5. Booked(counter) = counter
    BY <1>1, <1>7, <2>4 DEF Booked, Rise
  <2>6. /\ trust.trusted.kwh \in Nat /\ trust.trusted.at \in Nat /\ trust.trusted.at <= clock
        /\ DueSince(acc.booked, trust.trusted)
    BY <2>2, CounterTyped DEF CounterInv, GuardKnows
  <2>7. acc.booked + counter <= delivered
    <3>1. SUFFICES ASSUME ~(acc.booked + counter <= delivered)
                   PROVE  FALSE
      OBVIOUS
    <3>2. trust.trusted.kwh <= counter /\ counter - trust.trusted.kwh <= clock - trust.trusted.at
      BY <2>6, <3>1 DEF DueSince
    <3>3. clock - trust.trusted.at \in Nat
      BY <1>1, <2>6
    <3>4. Allowed(clock - trust.trusted.at) \in Nat /\ clock - trust.trusted.at <= Allowed(clock - trust.trusted.at)
      BY <3>3, HorizonTyped
    <3>5. counter - trust.trusted.kwh <= Allowed(clock - trust.trusted.at)
      BY <1>1, <2>6, <3>2, <3>3, <3>4
    <3>6. Recovered(counter)
      BY <1>1, <2>2, <2>4, <2>6, <3>2, <3>5 DEF Recovered
    <3> QED
      BY <1>7, <3>6
  <2> QED
    BY <1>3, <2>5, <2>7
<1> QED
  BY <1>3, <1>4, <1>5, <1>6, <1>7

LEMMA CounterIsNoSpike ==
  ASSUME TotalsTypeOK, Ordinary, NEW k \in Nat, k <= clock
  PROVE  k \notin Spikes
<1>1. 0 + Horizon <= Horizon /\ 0 \in Nat
  BY HorizonTyped
<1>2. Allowed(0) + Horizon <= Reach /\ Allowed(0) \in Nat
  BY <1>1, HorizonTyped
<1>3. k <= Reach
  BY <1>2, CounterTyped, HorizonTyped
<1> QED
  BY <1>3, HorizonTyped DEF Ordinary

LEMMA ReadingIsSome ==
  ASSUME NEW k \in Nat, NEW at \in Nat
  PROVE  [kwh |-> k, at |-> at] # None
BY TotalsAssumption

LEMMA CounterBegins ==
  ASSUME TotalsInit, TotalsInv, Ordinary
  PROVE  CounterInv
<1>1. /\ clock = 0 /\ counter = 0 /\ delivered = 0 /\ alive /\ trust = Forgotten /\ stored = acc
      /\ acc.booked = 0 /\ acc.baseline = 0 /\ acc.last_reset = 0
  BY DEF TotalsInit
<1>2. TotalsTypeOK
  BY DEF TotalsInv
<1>3. 0 \notin Spikes
  BY <1>1, <1>2, CounterIsNoSpike
<1>4. IsDue(acc)
  <2>1. CounterDay <= 0 /\ CounterDay \in Int
    <3>1. DayOf(clock) = 0
      BY <1>1, TotalsAssumption DEF DayOf
    <3> QED
      BY <3>1 DEF CounterDay
  <2> QED
    BY <1>1, <2>1 DEF IsDue, Due
<1>5. GuardKnows
  BY <1>1, <1>3 DEF GuardKnows, Forgotten
<1> QED
  BY <1>1, <1>4, <1>5 DEF CounterInv

LEMMA CycleKeepsDue ==
  ASSUME TotalsInv, CounterInv, Ordinary, TotalsCycle
  PROVE  CounterInv'
<1>1. TotalsTypeOK /\ DaysInStep
  BY DEF TotalsInv
<1>2. /\ alive /\ ~cycled /\ cycled' = TRUE
      /\ UNCHANGED <<clock, power, counter, lagging, delivered, alive, stored, midnight, restarts>>
  BY DEF TotalsCycle, Counted
<1>3. PICK r \in Readings : acc' = Accumulate(r) /\ trust' = Remembered(r)
  BY DEF TotalsCycle
<1>4. /\ r \in Nat \cup {None}
      /\ r = None \/ r = counter \/ (r \in Spikes /\ trust.trusted # None)
  BY <1>1, TotalsAssumption DEF Readings, TotalsTypeOK, Ordinary
<1>5. last # None => last <= clock /\ DayOf(last) = acc.last_reset
  BY <1>1, <1>2 DEF DaysInStep
<1>6. /\ acc'.booked = acc.booked + Booked(r) /\ acc'.last_reset = acc.last_reset
      /\ acc'.baseline = IF r = None THEN acc.baseline ELSE r
  BY <1>1, <1>3, <1>4, <1>5, CycleMakesIt DEF CycleMakes
<1>7. /\ clock \in Nat /\ counter \in Nat /\ delivered \in Nat
      /\ acc.booked \in Nat /\ acc.baseline \in Nat /\ counter # None
  BY <1>1, CounterTyped, NoneIsNone
<1>8. counter <= clock /\ IsDue(acc) /\ IsDue(stored) /\ GuardKnows
  BY DEF CounterInv
<1>9. IsDue(stored)'
  BY <1>2, <1>8 DEF IsDue, Due, CounterDay, DayOf
<1>10. CASE r = None
  <2>1. trust' = trust /\ acc'.booked = acc.booked /\ acc'.baseline = acc.baseline
    BY <1>3, <1>6, <1>7, <1>10 DEF Remembered, Booked
  <2>2. IsDue(acc)'
    BY <1>2, <1>8, <2>1 DEF IsDue, Due
  <2>3. GuardKnows'
    BY <1>2, <1>8, <2>1 DEF GuardKnows, DueSince
  <2> QED
    BY <1>2, <1>8, <1>9, <2>2, <2>3 DEF CounterInv
<1>11. CASE r = counter
  <2>1. acc'.baseline = counter /\ acc'.booked = acc.booked + Booked(counter)
    BY <1>6, <1>7, <1>11
  <2>2. acc'.booked \in Nat /\ acc'.booked <= delivered
    BY <1>1, <1>7, <2>1, CounterIsDue
  <2>3. counter \notin Spikes
    BY <1>1, <1>7, <1>8, CounterIsNoSpike
  <2>4. IsDue(acc)'
    BY <1>2, <1>7, <2>1, <2>2 DEF IsDue, Due
  <2>5. trust' = [reading |-> [kwh |-> counter, at |-> clock],
                  trusted |-> IF Distrusted(counter) THEN trust.trusted ELSE [kwh |-> counter, at |-> clock],
                  distrusted |-> Distrusted(counter)]
    BY <1>3, <1>7, <1>11 DEF Remembered
  <2>6. trust'.reading = [kwh |-> counter, at |-> clock]
    BY <2>5
  <2>7. trust'.reading # None
    BY <1>1, <1>7, <2>6, ReadingIsSome
  <2>8. trust'.trusted # None => /\ trust'.trusted.kwh <= trust'.trusted.at /\ trust'.trusted.at <= clock
                                 /\ DueSince(acc.booked, trust.trusted)'
    <3>1. CASE Distrusted(counter)
      <4>1. trust'.trusted = trust.trusted
        BY <2>5, <3>1
      <4>2. Booked(counter) = 0 /\ acc'.booked = acc.booked
        BY <1>7, <2>1, <3>1 DEF Booked
      <4> QED
        BY <1>2, <1>8, <4>1, <4>2 DEF GuardKnows, DueSince
    <3>2. CASE ~Distrusted(counter)
      <4>1. trust'.trusted = [kwh |-> counter, at |-> clock]
        BY <2>5, <3>2
      <4>2. trust'.trusted.kwh = counter /\ trust'.trusted.at = clock
        BY <4>1
      <4> QED
        BY <1>2, <1>7, <1>8, <2>2, <4>2 DEF DueSince
    <3> QED
      BY <3>1, <3>2
  <2>9. GuardKnows'
    <3>1. trust'.reading.kwh = acc'.baseline /\ trust'.reading.at = clock'
      BY <1>2, <2>1, <2>6
    <3>2. acc'.baseline \notin Spikes /\ acc'.baseline <= clock' /\ clock' <= clock'
      BY <1>2, <1>7, <1>8, <2>1, <2>3
    <3>3. clock' = clock
      BY <1>2
    <3> QED
      BY <2>7, <2>8, <3>1, <3>2, <3>3 DEF GuardKnows
  <2> QED
    BY <1>2, <1>8, <1>9, <2>4, <2>9 DEF CounterInv
<1>12. CASE r \in Spikes /\ trust.trusted # None
  <2>1. r \in Nat /\ r # None /\ Distrusted(r) /\ Booked(r) = 0
    BY <1>1, <1>12, SpikesAreDistrusted
  <2>2. acc'.baseline = r /\ acc'.booked = acc.booked
    BY <1>6, <1>7, <2>1
  <2>3. trust' = [reading |-> [kwh |-> r, at |-> clock], trusted |-> trust.trusted, distrusted |-> TRUE]
    BY <1>3, <2>1 DEF Remembered
  <2>4. trust'.reading = [kwh |-> r, at |-> clock] /\ trust'.trusted = trust.trusted /\ trust'.distrusted
    BY <2>3
  <2>5. trust'.reading # None
    BY <1>7, <2>1, <2>4, ReadingIsSome
  <2>6. IsDue(acc)'
    BY <1>2, <1>8, <1>12, <2>2 DEF IsDue
  <2>7. GuardKnows'
    BY <1>2, <1>7, <1>8, <1>12, <2>2, <2>4, <2>5 DEF GuardKnows, DueSince
  <2> QED
    BY <1>2, <1>8, <1>9, <2>6, <2>7 DEF CounterInv
<1> QED
  BY <1>4, <1>10, <1>11, <1>12

LEMMA OthersKeepDue ==
  ASSUME TotalsInv, CounterInv, Resume \/ CycleFails \/ Saved \/ MidnightReset
  PROVE  CounterInv'
<1>1. TotalsTypeOK /\ DaysInStep
  BY DEF TotalsInv
<1>2. counter <= clock /\ IsDue(acc) /\ IsDue(stored) /\ GuardKnows
  BY DEF CounterInv
<1>3. CASE Resume
  BY <1>3 DEF Resume, CounterInv, IsDue, Due, CounterDay, DayOf, GuardKnows, DueSince
<1>4. CASE CycleFails
  <2>1. /\ alive /\ alive' = alive /\ cycled' = TRUE
        /\ UNCHANGED <<clock, counter, lagging, delivered, acc, stored, trust>>
    BY <1>4 DEF CycleFails, Counted
  <2>2. IsDue(acc)' /\ IsDue(stored)'
    BY <1>2, <2>1 DEF IsDue, Due
  <2>3. GuardKnows'
    BY <1>2, <2>1 DEF GuardKnows, DueSince
  <2> QED
    BY <1>2, <2>1, <2>2, <2>3 DEF CounterInv
<1>5. CASE Saved
  <2>1. stored' = acc /\ queued /\ UNCHANGED <<clock, counter, lagging, delivered, acc, trust, alive, cycled>>
    BY <1>5 DEF Saved
  <2>2. alive
    BY <1>1, <2>1 DEF DaysInStep
  <2>3. IsDue(acc)' /\ IsDue(stored)'
    BY <1>2, <2>1 DEF IsDue, Due, CounterDay, DayOf
  <2>4. GuardKnows'
    BY <1>2, <2>1 DEF GuardKnows, DueSince
  <2> QED
    BY <1>2, <2>1, <2>2, <2>3, <2>4 DEF CounterInv
<1>6. CASE MidnightReset
  <2>1. UNCHANGED <<clock, counter, lagging, delivered, stored, trust, alive, cycled>> /\ midnight
    BY <1>6 DEF MidnightReset
  <2>2. alive
    BY <1>1, <2>1 DEF DaysInStep
  <2>3. acc'.booked = acc.booked /\ acc'.baseline = acc.baseline /\ acc'.last_reset = DayOf(clock)
    BY <1>6, MidnightKeepsTotals
  <2>4. CounterDay \in Int /\ CounterDay <= DayOf(clock) /\ DayOf(clock) \in Nat
    BY <1>1, CounterTyped, ClockTyped
  <2>5. CounterDay' = CounterDay /\ DayOf(clock)' = DayOf(clock)
    BY <2>1 DEF CounterDay, DayOf
  <2>6. IsDue(acc)'
    BY <1>2, <2>1, <2>3, <2>4, <2>5 DEF IsDue, Due
  <2>7. IsDue(stored)'
    BY <1>2, <2>1, <2>5 DEF IsDue, Due
  <2>8. GuardKnows'
    BY <1>2, <2>1, <2>3 DEF GuardKnows, DueSince
  <2> QED
    BY <1>2, <2>1, <2>2, <2>6, <2>7, <2>8 DEF CounterInv
<1> QED
  BY <1>3, <1>4, <1>5, <1>6

LEMMA StopKeepsDue ==
  ASSUME TotalsInv, CounterInv, Ordinary, StopTotals
  PROVE  CounterInv'
<1>1. counter <= clock /\ IsDue(acc) /\ IsDue(stored) /\ GuardKnows
  BY DEF CounterInv
<1>2. /\ alive' = FALSE /\ stored' \in {stored, acc} /\ acc' = stored' /\ trust' = Forgotten
      /\ stored'.baseline \notin Spikes
      /\ ~cycled \/ stored'.last_reset = DayOf(clock)
      /\ UNCHANGED <<clock, counter, lagging, delivered, cycled>>
  BY DEF StopTotals, Ordinary
<1>3. IsDue(acc)' /\ IsDue(stored)'
  BY <1>1, <1>2 DEF IsDue, Due, CounterDay, DayOf
<1>4. GuardKnows'
  <2>1. trust'.reading = None /\ trust'.trusted = None
    BY <1>2 DEF Forgotten
  <2>2. trust' = Forgotten'
    BY <1>2 DEF Forgotten
  <2>3. acc'.baseline \notin Spikes
    <3>1. acc' = stored' /\ stored'.baseline \notin Spikes
      BY <1>2
    <3> QED
      BY <3>1
  <2> QED
    BY <2>1, <2>2, <2>3 DEF GuardKnows
<1>5. DayOf(clock)' = DayOf(clock)
  BY <1>2 DEF DayOf
<1> QED
  BY <1>1, <1>2, <1>3, <1>4, <1>5 DEF CounterInv

LEMMA StartKeepsDue ==
  ASSUME TotalsInv, CounterInv, Ordinary, Start
  PROVE  CounterInv'
<1>1. TotalsTypeOK /\ DaysInStep
  BY DEF TotalsInv
<1>2. counter <= clock /\ IsDue(acc) /\ GuardKnows /\ (cycled => acc.last_reset = DayOf(clock))
  BY DEF CounterInv, Start
<1>3. /\ ~alive /\ alive' = TRUE /\ ~lagging /\ stored' = acc'
      /\ UNCHANGED <<clock, counter, lagging, delivered, trust, cycled>>
  BY DEF Start, Ordinary
<1>4. /\ acc'.booked = acc.booked /\ acc'.last_reset = DayOf(clock)
      /\ IF acc.last_reset = DayOf(clock) THEN acc' = acc ELSE acc'.baseline = 0
  BY StartKeepsTotals
<1>5. trust = Forgotten /\ acc.last_reset <= DayOf(clock)
  BY <1>1, <1>3 DEF DaysInStep
<1>6. /\ clock \in Nat /\ counter \in Nat /\ delivered \in Nat /\ acc.booked \in Nat
      /\ acc.last_reset \in Nat /\ DayOf(clock) \in Nat
  BY <1>1, CounterTyped, ClockTyped
<1>7. CounterDay = DayOf(clock)
  BY <1>3, <1>6 DEF CounterDay
<1>8. CounterDay' = CounterDay /\ DayOf(clock)' = DayOf(clock)
  BY <1>3 DEF CounterDay, DayOf
<1>9. acc'.baseline \notin Spikes
  <2>1. 0 \notin Spikes
    BY <1>1, <1>6, CounterIsNoSpike
  <2>2. acc.baseline \notin Spikes
    BY <1>2, <1>5 DEF GuardKnows, Forgotten
  <2> QED
    BY <1>4, <2>1, <2>2
<1>10. Due(acc'.booked, acc'.baseline)
  <2>1. CASE acc.last_reset = DayOf(clock)
    <3>1. acc' = acc
      BY <1>4, <2>1
    <3>2. acc.baseline \notin Spikes
      BY <1>9, <3>1
    <3> QED
      BY <1>2, <3>1, <3>2 DEF IsDue
  <2>2. CASE acc.last_reset # DayOf(clock)
    <3>1. ~cycled /\ acc.last_reset < CounterDay
      BY <1>2, <1>5, <1>6, <1>7, <2>2
    <3>2. acc.booked + counter <= delivered
      BY <1>2, <3>1 DEF IsDue
    <3> QED
      BY <1>4, <3>2 DEF Due
  <2> QED
    BY <2>1, <2>2
<1>11. IsDue(acc)'
  BY <1>2, <1>3, <1>4, <1>6, <1>7, <1>8, <1>10 DEF IsDue, Due
<1>12. IsDue(stored)'
  BY <1>3, <1>11 DEF IsDue, Due
<1>13. GuardKnows'
  BY <1>3, <1>5, <1>9 DEF GuardKnows, Forgotten
<1> QED
  BY <1>2, <1>3, <1>11, <1>12, <1>13 DEF CounterInv

\* A tick of the power w, on the counter c that goes on or begins again, and on all there was.
LEMMA TickIsDue ==
  /\ \A b, c, d, w, c2, d2 \in Nat :
       b <= d /\ (c2 = w \/ c2 = c + w) /\ d2 = d + w /\ b + c <= d => b + c2 <= d2
  /\ \A b, p, c, d, w, c2, d2 \in Nat :
       b <= d /\ (c2 = w \/ c2 = c + w) /\ d2 = d + w /\ ((p <= c /\ b + c - p <= d) \/ b + c <= d) =>
         (p <= c2 /\ b + c2 - p <= d2) \/ b + c2 <= d2
  /\ \A b, p, c, d, w, c2, d2, t, at \in Nat :
       b <= d /\ w <= 1 /\ (c2 = w \/ c2 = c + w) /\ d2 = d + w
         /\ ((p <= c /\ b + c - p <= d /\ c - p <= t - at) \/ b + c <= d) =>
         (p <= c2 /\ b + c2 - p <= d2 /\ c2 - p <= (t + 1) - at) \/ b + c2 <= d2
  /\ \A c, c2, w, t \in Nat : c <= t /\ w <= 1 /\ (c2 = w \/ c2 = c + w) => c2 <= t + 1
  /\ \A b, d, w, c2, d2 \in Nat : b <= d /\ c2 = w /\ d2 = d + w => b + c2 <= d2
OBVIOUS

LEMMA TickKeepsDue ==
  ASSUME TotalsInv, CounterInv, Ordinary, TotalsTick
  PROVE  CounterInv'
<1>1. TotalsTypeOK /\ DaysInStep
  BY DEF TotalsInv
<1>2. counter <= clock /\ IsDue(acc) /\ IsDue(stored) /\ GuardKnows /\ (~alive /\ cycled => acc.last_reset = DayOf(clock))
  BY DEF CounterInv
<1> DEFINE turns == DayOf(clock') # DayOf(clock)
<1>3. /\ ~midnight /\ ~queued /\ clock' = clock + 1 /\ power' \in {0, 1} /\ delivered' = delivered + power'
      /\ lagging' \in (IF turns THEN BOOLEAN ELSE {FALSE})
      /\ counter' = IF lagging \/ (turns /\ ~lagging') THEN power' ELSE counter + power'
      /\ cycled' = FALSE
      /\ UNCHANGED <<alive, acc, stored, trust>>
  BY Zenon DEF TotalsTick
<1>4. /\ clock \in Nat /\ counter \in Nat /\ delivered \in Nat /\ power' \in Nat /\ power' <= 1
      /\ DayOf(clock) \in Nat
  BY <1>1, <1>3, CounterTyped, ClockTyped
<1>5. DayOf(clock') = DayOf(clock) \/ DayOf(clock') = DayOf(clock) + 1
  <2>1. clock + 1 = clock' /\ clock \in 0..(DayLen * (LastDay + 1) - 1)
    BY <1>1, <1>3 DEF TotalsTypeOK
  <2> QED
    BY <2>1, DayOfIs
<1>6. counter' = power' \/ counter' = counter + power'
  BY <1>3
<1>7. counter' <= clock'
  <2>1. counter' \in Nat
    BY <1>4, <1>6, NaturalsAdd
  <2> QED
    BY <1>2, <1>3, <1>4, <1>6, <2>1, TickIsDue
<1>10. counter' \in Nat /\ delivered' \in Nat
  BY <1>3, <1>4, <1>6, NaturalsAdd
<1>8. ASSUME NEW a, a \in {acc, stored}
      PROVE  IsDue(a)'
  <2>1. a \in State /\ a.booked \in Nat /\ a.baseline \in Nat /\ a.last_reset \in Nat /\ IsDue(a)
    BY <1>1, <1>2, <1>8, CounterTyped DEF TotalsTypeOK
  <2>2. a.booked <= delivered
    BY <2>1 DEF IsDue
  <2>3. a.booked <= delivered'
    BY <1>3, <1>4, <2>1, <2>2
  <2>4. a.baseline \notin Spikes => Due(a.booked, a.baseline)'
    <3>1. SUFFICES ASSUME Due(a.booked, a.baseline)
                   PROVE  Due(a.booked, a.baseline)'
      BY <2>1 DEF IsDue
    <3>2. \/ a.baseline <= counter' /\ a.booked + counter' - a.baseline <= delivered'
          \/ a.booked + counter' <= delivered'
      BY <1>3, <1>4, <1>6, <1>10, <2>1, <2>2, <3>1, TickIsDue DEF Due
    <3> QED
      BY <3>2 DEF Due
  <2>5. a.last_reset < CounterDay' => a.booked + counter' <= delivered'
    <3>1. SUFFICES ASSUME a.last_reset < CounterDay'
                   PROVE  a.booked + counter' <= delivered'
      OBVIOUS
    <3>2. CounterDay' = DayOf(clock') - (IF lagging' THEN 1 ELSE 0)
      BY DEF CounterDay, DayOf
    <3>3. CASE counter' = power'
      <4>1. delivered' = delivered + power'
        BY <1>3
      <4>2. a.booked \in Nat /\ delivered \in Nat /\ power' \in Nat /\ counter' \in Nat /\ delivered' \in Nat
        BY <1>4, <1>10, <2>1
      <4> QED
        BY <2>2, <3>3, <4>1, <4>2, TickIsDue
    <3>4. CASE counter' = counter + power' /\ ~lagging /\ ~(turns /\ ~lagging')
      <4>1. CounterDay' = CounterDay
        <5>1. CASE turns
          BY <1>4, <1>5, <3>2, <3>4, <5>1 DEF CounterDay
        <5>2. CASE ~turns
          BY <1>3, <1>4, <3>2, <3>4, <5>2 DEF CounterDay
        <5> QED
          BY <5>1, <5>2
      <4>2. a.last_reset < DayOf(clock)
        BY <1>4, <2>1, <3>1, <4>1 DEF CounterDay
      <4>3. ~alive
        <5>1. (acc.last_reset = DayOf(clock) /\ stored.last_reset = DayOf(clock)) \/ ~alive
          BY <1>1, <1>3 DEF DaysInStep
        <5> QED
          BY <1>4, <1>8, <2>1, <4>2, <5>1
      <4>4. a = acc
        BY <1>1, <1>8, <4>3 DEF DaysInStep
      <4>5. ~cycled
        BY <1>2, <1>4, <2>1, <4>2, <4>3, <4>4
      <4>6. a.booked + counter <= delivered
        BY <2>1, <3>1, <4>1, <4>5 DEF IsDue
      <4> QED
        BY <1>3, <1>4, <1>6, <1>10, <2>1, <2>2, <4>6, TickIsDue
    <3> QED
      BY <1>3, <3>3, <3>4
  <2> QED
    BY <1>3, <2>3, <2>4, <2>5 DEF IsDue
<1>9. GuardKnows'
  <2>1. acc' = acc /\ trust' = trust
    BY <1>3
  <2>2. trust.trusted # None => DueSince(acc.booked, trust.trusted)'
    <3> DEFINE reading == trust.trusted
    <3>1. SUFFICES ASSUME reading # None
                   PROVE  DueSince(acc.booked, reading)'
      OBVIOUS
    <3>2. reading.kwh \in Nat /\ reading.at \in Nat /\ DueSince(acc.booked, reading)
      BY <1>1, <1>2, <3>1, CounterTyped DEF GuardKnows
    <3>3. reading' = reading
      BY <2>1
    <3> HIDE DEF reading
    <3>4. acc.booked \in Nat /\ acc.booked <= delivered
      BY <1>1, <1>2, CounterTyped DEF IsDue
    <3>5. \/ /\ reading.kwh <= counter' /\ acc.booked + counter' - reading.kwh <= delivered'
             /\ counter' - reading.kwh <= (clock + 1) - reading.at
          \/ acc.booked + counter' <= delivered'
      BY <1>3, <1>4, <1>6, <1>10, <3>2, <3>4, TickIsDue DEF DueSince
    <3> QED
      BY <1>3, <2>1, <3>3, <3>5 DEF DueSince
  <2>3. trust.reading # None => trust.reading.at <= clock'
    BY <1>1, <1>2, <1>3, <1>4, CounterTyped DEF GuardKnows
  <2>4. trust.trusted # None => trust.trusted.at <= clock'
    BY <1>1, <1>2, <1>3, <1>4, CounterTyped DEF GuardKnows
  <2> QED
    BY <1>2, <2>1, <2>2, <2>3, <2>4 DEF GuardKnows, Forgotten
<1> QED
  BY <1>2, <1>3, <1>7, <1>8, <1>9 DEF CounterInv

LEMMA CounterStays == TotalsInv /\ CounterInv /\ Ordinary /\ [TotalsNext]_totalsVars => CounterInv'
<1> SUFFICES ASSUME TotalsInv, CounterInv, Ordinary, [TotalsNext]_totalsVars
             PROVE  CounterInv'
  OBVIOUS
<1>1. CASE TotalsNext
  BY <1>1, CycleKeepsDue, OthersKeepDue, StopKeepsDue, StartKeepsDue, TickKeepsDue DEF TotalsNext
<1>2. CASE UNCHANGED totalsVars
  <2>1. UNCHANGED <<clock, counter, lagging, delivered, alive, acc, stored, trust, cycled>>
    BY <1>2 DEF totalsVars
  <2>2. IsDue(acc)' /\ IsDue(stored)'
    BY <2>1 DEF CounterInv, IsDue, Due, CounterDay, DayOf
  <2>3. GuardKnows'
    BY <2>1 DEF CounterInv, GuardKnows, DueSince
  <2> QED
    BY <2>1, <2>2, <2>3 DEF CounterInv, DayOf
<1> QED
  BY <1>1, <1>2

\* The totals are sound (accumulation.py, lib/guards/counter.py): the two above, and no energy of
\* the counter is booked twice, in the cases the run has and for spikes the guard can tell.
THEOREM TotalsHold ==
  ASSUME Ordinary
  PROVE  TotalsSpec => []TotalsAreSound
<1>1. ~WaitsOverMidnight
  BY DEF Ordinary
<1>2. TotalsInv /\ CounterInv => TotalsAreSound
  BY KeptIsDays DEF TotalsInv, TotalsKept, TotalsTypeOK, CounterInv, IsDue, TotalsAreSound, NothingRepeated
<1>3. TotalsInit => TotalsInv /\ CounterInv
  BY TotalsBegin, CounterBegins
<1>4. TotalsInv /\ CounterInv /\ [TotalsNext]_totalsVars => TotalsInv' /\ CounterInv'
  BY <1>1, TotalsStay, CounterStays
<1> QED
  BY <1>2, <1>3, <1>4, PTL DEF TotalsSpec

-----------------------------------------------------------------------------
(* What is learned of the sun and the house                               *)

LearnedDays == 0..LearnDays
Figure == [day: Nat, kwh: Nat]
Sayings == [p50: Figure \cup {NoFigure}, p10: Figure \cup {NoFigure}, shape: Figure \cup {NoFigure}]
Ratio == [day: Nat, forecast: Figure, actual: Nat, clipped: BOOLEAN, whole: BOOLEAN, seeded: BOOLEAN]
DayLoad == [date: Nat, covered: SUBSET Nat, of: SUBSET Nat]
Learned == [pending: Sayings, today: Sayings, solar: Nat, whole: BOOLEAN, clipped: BOOLEAN, ratios: Seq(Ratio),
            load: [date: Nat \cup {NoFigure}, covered: SUBSET Nat, of: SUBSET Nat], loads: Seq(DayLoad),
            reset: Nat]
Suns == [LearnedDays -> Nat]
Recorders == [LearnedDays -> [forecast: Figure \cup {NoFigure}, solar: Nat \cup {NoFigure}]]

\* What is said is of the day d, and its shape came with its total.
OfDay(said, d) ==
  /\ \A f \in {said.p50, said.p10, said.shape} : f # NoFigure => f.day = d
  /\ said.shape # NoFigure => said.shape = said.p50

\* A night was measured against the forecast made for it, and by what the sun gave.
RatioTrue(r, sun, records) ==
  /\ r.forecast.day = r.day \/ (r.seeded /\ r.day >= 1 /\ records[r.day - 1].forecast = NoFigure)
  /\ IF r.whole THEN r.actual = sun[r.day] ELSE r.actual <= sun[r.day]
RatiosTrue(ratios, d, sun, records) ==
  /\ ratios \in Seq(Ratio)
  /\ \A i \in 1..Len(ratios) : RatioTrue(ratios[i], sun, records) /\ ratios[i].day < d
  /\ \A i, j \in 1..Len(ratios) : i < j => ratios[i].day < ratios[j].day
LoadsTrue(loads, d) ==
  /\ loads \in Seq(DayLoad)
  /\ \A i \in 1..Len(loads) : loads[i].of = {loads[i].date} /\ loads[i].date < d
  /\ \A i, j \in 1..Len(loads) : i < j => loads[i].date < loads[j].date
LoadOf(load, d) ==
  IF load.date = NoFigure THEN load.covered = {} /\ load.of = {}
  ELSE load.date = d /\ load.of = IF load.covered = {} THEN {} ELSE {d}

\* What is learned by the hour h, as far as the midnights it has seen.
LearnedTrue(a, h, sun, records) ==
  /\ a \in Learned /\ a.reset <= LearnDate(h)
  /\ OfDay(a.pending, a.reset + 1) /\ OfDay(a.today, a.reset)
  /\ a.solar <= sun[a.reset] /\ (a.whole => a.solar = sun[a.reset] /\ 3 * a.reset + 2 <= h)
  /\ RatiosTrue(a.ratios, a.reset, sun, records)
  /\ LoadsTrue(a.loads, a.reset) /\ LoadOf(a.load, a.reset)

SunNow(h, sun) == \A d \in LearnedDays : sun[d] = IF 3 * d + 1 <= h THEN SunOf(d) ELSE 0
RecorderTrue(records, sun) ==
  \A y \in LearnedDays :
    /\ records[y].forecast # NoFigure => records[y].forecast.day = y + 1
    /\ records[y].solar # NoFigure => records[y].solar <= sun[y]

LearnTypeOK ==
  /\ hour \in 0..(3 * LearnDays + 2) /\ sunGiven \in Suns /\ shown \in Sayings /\ haRuns \in BOOLEAN
  /\ since \in Nat \cup {NoFigure} /\ seeding \in Nat \cup {NoFigure} /\ recorder \in Recorders

InStep ==
  /\ OfDay(shown, LearnToday + 1)
  /\ haRuns => learned.reset = LearnToday
  /\ since # NoFigure => haRuns /\ since <= hour /\ LearnDate(since) = LearnToday
  /\ seeding # NoFigure => seeding <= LearnToday
  /\ haRuns /\ since = hour /\ shown.p50 # NoFigure /\ shown.p50.kwh > 0 =>
       learned.pending.p50 = shown.p50 /\ learned.pending.shape = shown.shape

LearnInv ==
  /\ LearnTypeOK /\ InStep /\ SunNow(hour, sunGiven) /\ RecorderTrue(recorder, sunGiven)
  /\ LearnedTrue(learned, hour, sunGiven, recorder) /\ LearnedTrue(kept, hour, sunGiven, recorder)

-----------------------------------------------------------------------------
LEMMA NoFigureIsNone == NoFigure \notin Nat /\ NoFigure \notin Figure
BY LearningAssumption DEF Figure

\* Three ticks to a day.
LEMMA LearnDateIs ==
  ASSUME NEW h \in Nat
  PROVE  /\ LearnDate(h) \in Nat /\ 3 * LearnDate(h) <= h /\ h < 3 * LearnDate(h) + 3
         /\ h % 3 = h - 3 * LearnDate(h)
         /\ h <= 3 * LearnDays + 2 => LearnDate(h) \in LearnedDays
         /\ \A n \in Nat : h <= n => LearnDate(h) <= LearnDate(n)
<1>1. /\ LearnDate(h) \in Nat /\ 3 * LearnDate(h) <= h /\ h < 3 * LearnDate(h) + 3
      /\ h % 3 = h - 3 * LearnDate(h)
  BY DEF LearnDate
<1>2. LearnDays \in Nat
  BY LearningAssumption
<1>3. h <= 3 * LearnDays + 2 => LearnDate(h) \in LearnedDays
  BY <1>1, <1>2 DEF LearnedDays
<1>4. \A n \in Nat : h <= n => LearnDate(h) <= LearnDate(n)
  BY DEF LearnDate
<1> QED
  BY <1>1, <1>3, <1>4

LEMMA RatioAdded ==
  ASSUME NEW sun, NEW records, NEW d \in Nat, NEW e \in Nat, NEW ratios, RatiosTrue(ratios, d, sun, records),
         NEW r \in Ratio, RatioTrue(r, sun, records), d <= r.day, r.day < e
  PROVE  RatiosTrue(Append(ratios, r), e, sun, records)
<1> DEFINE more == Append(ratios, r)
<1>1. ratios \in Seq(Ratio)
  BY DEF RatiosTrue
<1>2. /\ more \in Seq(Ratio) /\ Len(ratios) \in Nat /\ Len(more) = Len(ratios) + 1
      /\ more[Len(ratios) + 1] = r /\ \A i \in 1..Len(ratios) : more[i] = ratios[i]
  BY <1>1, AppendProperties
<1>3. \A i \in 1..Len(ratios) : RatioTrue(ratios[i], sun, records) /\ ratios[i].day < d /\ ratios[i].day \in Nat
  <2>1. \A i \in 1..Len(ratios) : ratios[i] \in Ratio
    BY <1>1, ElementOfSeq
  <2> QED
    BY <2>1 DEF RatiosTrue, Ratio
<1>4. r.day \in Nat
  BY DEF Ratio
<1> HIDE DEF more
<1>5. \A i \in 1..Len(more) : RatioTrue(more[i], sun, records) /\ more[i].day < e
  BY <1>2, <1>3, <1>4
<1>6. ASSUME NEW i \in 1..Len(more), NEW j \in 1..Len(more), i < j
      PROVE  more[i].day < more[j].day
  <2>1. i \in 1..Len(ratios) /\ more[i] = ratios[i]
    BY <1>2, <1>6
  <2>2. CASE j \in 1..Len(ratios)
    BY <1>2, <1>6, <2>1, <2>2 DEF RatiosTrue
  <2>3. CASE j = Len(ratios) + 1
    BY <1>2, <1>3, <1>4, <2>1, <2>3
  <2> QED
    BY <1>2, <2>2, <2>3
<1> QED
  BY <1>2, <1>5, <1>6 DEF RatiosTrue, more

LEMMA RatioDropped ==
  ASSUME NEW sun, NEW records, NEW d, NEW ratios, RatiosTrue(ratios, d, sun, records), ratios # <<>>
  PROVE  RatiosTrue(Tail(ratios), d, sun, records)
<1>1. /\ ratios \in Seq(Ratio) /\ Tail(ratios) \in Seq(Ratio) /\ Len(Tail(ratios)) = Len(ratios) - 1
      /\ \A i \in 1..Len(Tail(ratios)) : Tail(ratios)[i] = ratios[i + 1]
  BY HeadTailProperties DEF RatiosTrue
<1>2. Len(ratios) \in Nat
  BY <1>1, LenProperties
<1> QED
  BY <1>1, <1>2 DEF RatiosTrue

LEMMA LoadAdded ==
  ASSUME NEW d \in Nat, NEW e \in Nat, NEW loads, LoadsTrue(loads, d), NEW load \in DayLoad, load.of = {load.date},
         d <= load.date, load.date < e
  PROVE  LoadsTrue(Append(loads, load), e)
<1> DEFINE more == Append(loads, load)
<1>1. loads \in Seq(DayLoad)
  BY DEF LoadsTrue
<1>2. /\ more \in Seq(DayLoad) /\ Len(loads) \in Nat /\ Len(more) = Len(loads) + 1
      /\ more[Len(loads) + 1] = load /\ \A i \in 1..Len(loads) : more[i] = loads[i]
  BY <1>1, AppendProperties
<1>3. \A i \in 1..Len(loads) : loads[i].of = {loads[i].date} /\ loads[i].date < d /\ loads[i].date \in Nat
  <2>1. \A i \in 1..Len(loads) : loads[i] \in DayLoad
    BY <1>1, ElementOfSeq
  <2> QED
    BY <2>1 DEF LoadsTrue, DayLoad
<1>4. load.date \in Nat
  BY DEF DayLoad
<1> HIDE DEF more
<1>5. \A i \in 1..Len(more) : more[i].of = {more[i].date} /\ more[i].date < e
  BY <1>2, <1>3, <1>4
<1>6. ASSUME NEW i \in 1..Len(more), NEW j \in 1..Len(more), i < j
      PROVE  more[i].date < more[j].date
  <2>1. i \in 1..Len(loads) /\ more[i] = loads[i]
    BY <1>2, <1>6
  <2>2. CASE j \in 1..Len(loads)
    BY <1>2, <1>6, <2>1, <2>2 DEF LoadsTrue
  <2>3. CASE j = Len(loads) + 1
    BY <1>2, <1>3, <1>4, <2>1, <2>3
  <2> QED
    BY <1>2, <2>2, <2>3
<1> QED
  BY <1>2, <1>5, <1>6 DEF LoadsTrue, more

\* What is true of the days before a day is true of those before a later one.
LEMMA DaysGoOn ==
  ASSUME NEW d \in Nat, NEW e \in Nat, d <= e
  PROVE  /\ \A ratios, sun, records : RatiosTrue(ratios, d, sun, records) => RatiosTrue(ratios, e, sun, records)
         /\ \A loads : LoadsTrue(loads, d) => LoadsTrue(loads, e)
<1>1. ASSUME NEW ratios, NEW sun, NEW records, RatiosTrue(ratios, d, sun, records)
      PROVE  RatiosTrue(ratios, e, sun, records)
  <2>1. ratios \in Seq(Ratio)
    BY <1>1 DEF RatiosTrue
  <2>2. \A i \in 1..Len(ratios) : ratios[i] \in Ratio
    BY <2>1, ElementOfSeq
  <2>3. \A i \in 1..Len(ratios) : ratios[i].day \in Nat
    BY <2>2 DEF Ratio
  <2>4. \A i \in 1..Len(ratios) : ratios[i].day < e
    <3>1. \A x \in Nat : x < d => x < e
      OBVIOUS
    <3>2. \A i \in 1..Len(ratios) : ratios[i].day < d
      BY <1>1 DEF RatiosTrue
    <3> QED
      BY <2>3, <3>1, <3>2
  <2> QED
    BY <1>1, <2>4 DEF RatiosTrue
<1>2. ASSUME NEW loads, LoadsTrue(loads, d)
      PROVE  LoadsTrue(loads, e)
  <2>1. loads \in Seq(DayLoad)
    BY <1>2 DEF LoadsTrue
  <2>2. \A i \in 1..Len(loads) : loads[i] \in DayLoad
    BY <2>1, ElementOfSeq
  <2>3. \A i \in 1..Len(loads) : loads[i].date \in Nat
    BY <2>2 DEF DayLoad
  <2>4. \A i \in 1..Len(loads) : loads[i].date < e
    <3>1. \A x \in Nat : x < d => x < e
      OBVIOUS
    <3>2. \A i \in 1..Len(loads) : loads[i].date < d
      BY <1>2 DEF LoadsTrue
    <3> QED
      BY <2>3, <3>1, <3>2
  <2> QED
    BY <1>2, <2>4 DEF LoadsTrue
<1> QED
  BY <1>1, <1>2

\* What is learned stays true as time goes on.
LEMMA StaysTrue ==
  ASSUME NEW a, NEW h \in Nat, NEW n \in Nat, NEW sun \in Suns, NEW sun2 \in Suns, NEW records, NEW records2,
         h <= n, n <= 3 * LearnDays + 2, LearnedTrue(a, h, sun, records),
         \A y \in LearnedDays :
           /\ sun[y] <= sun2[y] /\ (3 * y + 1 <= h => sun2[y] = sun[y])
           /\ y < LearnDate(h) => records2[y].forecast = records[y].forecast
  PROVE  LearnedTrue(a, n, sun2, records2)
<1>1. /\ a \in Learned /\ a.reset <= LearnDate(h) /\ OfDay(a.pending, a.reset + 1) /\ OfDay(a.today, a.reset)
      /\ a.solar <= sun[a.reset] /\ (a.whole => a.solar = sun[a.reset] /\ 3 * a.reset + 2 <= h)
      /\ RatiosTrue(a.ratios, a.reset, sun, records) /\ LoadsTrue(a.loads, a.reset) /\ LoadOf(a.load, a.reset)
  BY DEF LearnedTrue
<1>2. /\ LearnDate(h) \in Nat /\ LearnDate(n) \in Nat /\ LearnDate(h) <= LearnDate(n)
      /\ LearnDate(h) \in LearnedDays /\ 3 * LearnDate(h) <= h
  <2>1. LearnDays \in Nat
    BY LearningAssumption
  <2>2. h <= 3 * LearnDays + 2
    BY <2>1
  <2> QED
    BY <2>2, LearnDateIs
<1>3. a.reset \in Nat /\ a.solar \in Nat
  BY <1>1 DEF Learned
<1>4. LearnDays \in Nat
  BY LearningAssumption
<1>5. a.reset \in LearnedDays /\ \A y \in Nat : y < a.reset => y \in LearnedDays /\ 3 * y + 1 <= h /\ y < LearnDate(h)
  BY <1>1, <1>2, <1>3, <1>4 DEF LearnedDays
<1>6. sun[a.reset] \in Nat /\ sun2[a.reset] \in Nat
  BY <1>5 DEF Suns
<1>7. /\ a.solar <= sun2[a.reset]
      /\ a.whole => a.solar = sun2[a.reset] /\ 3 * a.reset + 2 <= n
  BY <1>1, <1>3, <1>5, <1>6
<1>8. RatiosTrue(a.ratios, a.reset, sun2, records2)
  <2>1. a.ratios \in Seq(Ratio)
    BY <1>1 DEF RatiosTrue
  <2>2. ASSUME NEW i \in 1..Len(a.ratios)
        PROVE  RatioTrue(a.ratios[i], sun2, records2)
    <3> DEFINE r == a.ratios[i]
    <3>1. r \in Ratio
      BY <2>1, ElementOfSeq
    <3>2. RatioTrue(r, sun, records) /\ r.day < a.reset
      BY <1>1 DEF RatiosTrue
    <3> HIDE DEF r
    <3>3. r.day \in Nat /\ r.actual \in Nat
      BY <3>1 DEF Ratio
    <3>4. sun2[r.day] = sun[r.day]
      BY <1>5, <3>2, <3>3
    <3>5. r.day >= 1 => records2[r.day - 1].forecast = records[r.day - 1].forecast
      <4>1. r.day >= 1 => r.day - 1 \in Nat /\ r.day - 1 < a.reset
        BY <1>3, <3>2, <3>3
      <4> QED
        BY <1>5, <4>1
    <3>6. RatioTrue(r, sun2, records2)
      BY <3>2, <3>4, <3>5 DEF RatioTrue
    <3> QED
      BY <3>6 DEF r
  <2> QED
    BY <1>1, <2>1, <2>2 DEF RatiosTrue
<1>9. a.reset <= LearnDate(n)
  BY <1>1, <1>2, <1>3
<1> QED
  BY <1>1, <1>7, <1>8, <1>9 DEF LearnedTrue

LEMMA UnsaidIs == Unsaid \in Sayings /\ \A d : OfDay(Unsaid, d)
BY DEF Unsaid, Sayings, OfDay

LEMMA NoLoadIs == NoLoad \in [date: Nat \cup {NoFigure}, covered: SUBSET Nat, of: SUBSET Nat] /\ \A d : LoadOf(NoLoad, d)
BY DEF NoLoad, LoadOf

\* A day of load goes to the others with its own load.
LEMMA LoadArchived ==
  ASSUME NEW a \in Learned, NEW d \in Nat, LoadsTrue(a.loads, a.reset), LoadOf(a.load, a.reset), a.reset < d
  PROVE  /\ ArchiveLoad(a) = [a EXCEPT !.load = NoLoad, !.loads = ArchiveLoad(a).loads]
         /\ LoadsTrue(ArchiveLoad(a).loads, d)
<1>1. a.reset \in Nat /\ a.load \in [date: Nat \cup {NoFigure}, covered: SUBSET Nat, of: SUBSET Nat]
  BY DEF Learned
<1>2. CASE a.load.date = NoFigure \/ a.load.covered = {}
  <2>1. ArchiveLoad(a).loads = a.loads
    BY <1>2 DEF ArchiveLoad, Learned
  <2>2. LoadsTrue(a.loads, d)
    BY <1>1, DaysGoOn
  <2>3. ArchiveLoad(a) = [a EXCEPT !.load = NoLoad, !.loads = a.loads]
    BY <1>2 DEF ArchiveLoad
  <2> QED
    BY <2>1, <2>2, <2>3
<1>3. CASE ~(a.load.date = NoFigure \/ a.load.covered = {})
  <2> DEFINE load == [date |-> a.load.date, covered |-> a.load.covered, of |-> a.load.of]
  <2>1. load \in DayLoad /\ load.date = a.reset /\ load.of = {load.date}
    BY <1>1, <1>3 DEF LoadOf, DayLoad
  <2>2. ArchiveLoad(a) = [a EXCEPT !.load = NoLoad, !.loads = Append(a.loads, load)]
    BY <1>3 DEF ArchiveLoad
  <2>3. ArchiveLoad(a).loads = Append(a.loads, load)
    BY <2>2 DEF Learned
  <2> HIDE DEF load
  <2>4. LoadsTrue(Append(a.loads, load), d)
    BY <1>1, <2>1, LoadAdded
  <2> QED
    BY <2>2, <2>3, <2>4
<1> QED
  BY <1>2, <1>3

LEMMA RatioRecorded ==
  ASSUME NEW a, NEW h, NEW sun, NEW records, LearnedTrue(a, h, sun, records)
  PROVE  RatiosTrue(RecordRatio(a, a.reset), a.reset + 1, sun, records)
<1>1. /\ a \in Learned /\ OfDay(a.today, a.reset) /\ RatiosTrue(a.ratios, a.reset, sun, records)
      /\ a.solar <= sun[a.reset] /\ (a.whole => a.solar = sun[a.reset])
  BY DEF LearnedTrue
<1>2. /\ a.reset \in Nat /\ a.solar \in Nat /\ a.clipped \in BOOLEAN /\ a.whole \in BOOLEAN
      /\ a.today.p50 \in Figure \cup {NoFigure}
  BY <1>1 DEF Learned, Sayings
<1>3. CASE a.today.p50 = NoFigure
  BY <1>1, <1>2, <1>3, DaysGoOn DEF RecordRatio
<1>4. CASE a.today.p50 # NoFigure
  <2> DEFINE r == [day |-> a.reset, forecast |-> a.today.p50, actual |-> a.solar, clipped |-> a.clipped,
                   whole |-> a.whole, seeded |-> FALSE]
             all == Append(a.ratios, r)
  <2>1. r \in Ratio /\ r.day = a.reset
    BY <1>2, <1>4 DEF Ratio
  <2>2. RatioTrue(r, sun, records)
    BY <1>1, <1>4 DEF RatioTrue, OfDay
  <2>3. RecordRatio(a, a.reset) = IF Len(all) > RatioDays THEN Tail(all) ELSE all
    BY <1>4 DEF RecordRatio
  <2> HIDE DEF r
  <2>4. RatiosTrue(all, a.reset + 1, sun, records)
    BY <1>1, <1>2, <2>1, <2>2, RatioAdded
  <2>5. all # <<>>
    BY <1>1, <2>1, AppendProperties DEF RatiosTrue
  <2> HIDE DEF all
  <2>6. RatiosTrue(Tail(all), a.reset + 1, sun, records)
    BY <2>4, <2>5, RatioDropped
  <2> QED
    BY <2>3, <2>4, <2>6
<1> QED
  BY <1>3, <1>4

\* The midnight of the next day.
LEMMA MidnightLearns ==
  ASSUME NEW a, NEW h \in Nat, NEW sun \in Suns, NEW records, LearnedTrue(a, h, sun, records),
         NEW d \in LearnedDays, d = a.reset + 1, d <= LearnDate(h)
  PROVE  /\ LearnedTrue(LearnMidnight(a, d), h, sun, records)
         /\ LearnMidnight(a, d).reset = d /\ LearnMidnight(a, d).today = a.pending
<1>1. /\ a \in Learned /\ OfDay(a.pending, a.reset + 1) /\ LoadsTrue(a.loads, a.reset) /\ LoadOf(a.load, a.reset)
  BY DEF LearnedTrue
<1>2. a.reset \in Nat /\ d \in Nat /\ a.reset < d /\ d - 1 = a.reset
  BY <1>1 DEF Learned, LearnedDays
<1> DEFINE old == a.load.date # NoFigure /\ a.load.date < d
           archived == IF old THEN ArchiveLoad(a) ELSE a
           ratios == RecordRatio(a, a.reset)
           b == LearnMidnight(a, d)
<1>3. old <=> a.load.date # NoFigure
  BY <1>1, <1>2 DEF LoadOf
<1>4. /\ archived = [a EXCEPT !.load = NoLoad, !.loads = archived.loads]
      /\ LoadsTrue(archived.loads, d)
  <2>1. CASE old
    BY <1>1, <1>2, <2>1, LoadArchived
  <2>2. CASE ~old
    <3>1. a.load = NoLoad
      <4>1. a.load \in [date: Nat \cup {NoFigure}, covered: SUBSET Nat, of: SUBSET Nat]
        BY <1>1 DEF Learned
      <4> QED
        BY <1>1, <1>3, <2>2, <4>1 DEF LoadOf, NoLoad
    <3>2. a = [a EXCEPT !.load = NoLoad, !.loads = a.loads]
      BY <1>1, <3>1 DEF Learned
    <3>3. LoadsTrue(a.loads, d)
      BY <1>1, <1>2, DaysGoOn
    <3> QED
      BY <2>2, <3>2, <3>3
  <2> QED
    BY <2>1, <2>2
<1>5. RatiosTrue(ratios, d, sun, records) /\ ratios \in Seq(Ratio)
  BY <1>2, RatioRecorded DEF RatiosTrue
<1>6. b = [[archived EXCEPT !.ratios = ratios]
             EXCEPT !.today = a.pending, !.pending = Unsaid, !.solar = 0, !.whole = FALSE, !.clipped = FALSE, !.reset = d]
  <2>1. b = ResetDay([archived EXCEPT !.ratios = RecordRatio(a, d - 1)], d)
    BY DEF LearnMidnight
  <2>2. [archived EXCEPT !.ratios = ratios].pending = a.pending
    BY <1>1, <1>4 DEF Learned
  <2> HIDE DEF archived, ratios
  <2> QED
    BY <1>2, <2>1, <2>2 DEF ResetDay, ratios
<1> HIDE DEF archived, ratios, old, b
<1>7. archived.loads \in Seq(DayLoad)
  BY <1>4 DEF LoadsTrue
<1>8. /\ b.today = a.pending /\ b.pending = Unsaid /\ b.solar = 0 /\ b.whole = FALSE /\ b.clipped = FALSE
      /\ b.reset = d /\ b.ratios = ratios /\ b.load = NoLoad /\ b.loads = archived.loads /\ b \in Learned
  BY <1>1, <1>2, <1>4, <1>5, <1>6, <1>7, UnsaidIs, NoLoadIs DEF Learned
<1>9. 0 <= sun[d]
  BY DEF Suns
<1>10. LearnedTrue(b, h, sun, records)
  BY <1>1, <1>2, <1>4, <1>5, <1>8, <1>9, UnsaidIs, NoLoadIs DEF LearnedTrue
<1> QED
  BY <1>8, <1>10 DEF b

\* What is learned from midnight to midnight, to the day d.
LearnedTo(a, d, rolled) ==
  rolled = [k \in a.reset..d |-> IF k = a.reset THEN a ELSE LearnMidnight(rolled[k - 1], k)]

LEMMA LearnedToIsThere ==
  ASSUME NEW a, a.reset \in Nat, NEW n \in Nat
  PROVE  \E rolled : LearnedTo(a, a.reset + n, rolled)
<1> DEFINE first == a.reset
           S == {j \in Nat : \E rolled : LearnedTo(a, first + j, rolled)}
<1>1. 0 \in S
  <2> DEFINE alone == [k \in first..(first + 0) |-> a]
  <2>1. alone = [k \in first..(first + 0) |-> IF k = first THEN a ELSE LearnMidnight(alone[k - 1], k)]
    <3>1. \A k \in first..(first + 0) : k = first
      OBVIOUS
    <3> QED
      BY <3>1
  <2>2. LearnedTo(a, first + 0, alone)
    BY <2>1 DEF LearnedTo
  <2> QED
    BY <2>2
<1>2. ASSUME NEW j \in Nat, j \in S
      PROVE  j + 1 \in S
  <2>1. PICK rolled : LearnedTo(a, first + j, rolled)
    BY <1>2
  <2> DEFINE end == first + (j + 1)
             more == [k \in first..end |-> IF k = end THEN LearnMidnight(rolled[end - 1], end) ELSE rolled[k]]
  <2>2. rolled = [k \in first..(first + j) |-> IF k = first THEN a ELSE LearnMidnight(rolled[k - 1], k)]
    BY <2>1 DEF LearnedTo
  <2>3. \A k \in first..end : k = end \/ (k \in first..(first + j) /\ k # end)
    OBVIOUS
  <2>4. end - 1 = first + j /\ end - 1 \in first..end /\ end - 1 # end /\ end # first
    OBVIOUS
  <2>5. \A k \in first..(first + j) : more[k] = rolled[k]
    OBVIOUS
  <2>6. ASSUME NEW k \in first..end
        PROVE  more[k] = IF k = first THEN a ELSE LearnMidnight(more[k - 1], k)
    <3>1. CASE k = end
      <4>1. more[k] = LearnMidnight(rolled[k - 1], k)
        BY <3>1
      <4>2. more[k - 1] = rolled[k - 1]
        BY <2>4, <2>5, <3>1
      <4> HIDE DEF more
      <4> QED
        BY <2>4, <3>1, <4>1, <4>2
    <3>2. CASE k # end
      <4>1. k \in first..(first + j)
        BY <2>3, <3>2
      <4>2. more[k] = rolled[k]
        BY <2>5, <4>1
      <4>3. rolled[k] = IF k = first THEN a ELSE LearnMidnight(rolled[k - 1], k)
        BY <2>2, <4>1
      <4>4. k # first => more[k - 1] = rolled[k - 1]
        <5>1. k # first => k - 1 \in first..(first + j)
          BY <4>1
        <5> QED
          BY <2>5, <5>1
      <4> HIDE DEF more
      <4> QED
        BY <4>2, <4>3, <4>4
    <3> QED
      BY <3>1, <3>2
  <2>7. more = [k \in first..end |-> more[k]]
    OBVIOUS
  <2> HIDE DEF more
  <2>8. more = [k \in first..end |-> IF k = first THEN a ELSE LearnMidnight(more[k - 1], k)]
    BY <2>6, <2>7
  <2>9. LearnedTo(a, end, more)
    BY <2>8 DEF LearnedTo
  <2> QED
    BY <2>9
<1>3. S \in SUBSET Nat
  OBVIOUS
<1> HIDE DEF S
<1>4. n \in S
  BY <1>1, <1>2, <1>3, LeastOut
<1> QED
  BY <1>4 DEF S

LEMMA CatchUpIs ==
  ASSUME NEW a, NEW d
  PROVE  CatchUp(a, d) = (CHOOSE rolled : LearnedTo(a, d, rolled))[d]
BY DEF CatchUp, LearnedTo

\* A start after midnights that were missed.
LEMMA CatchUpLearns ==
  ASSUME NEW a, NEW h \in Nat, NEW sun \in Suns, NEW records, LearnedTrue(a, h, sun, records),
         h <= 3 * LearnDays + 2
  PROVE  LearnedTrue(CatchUp(a, LearnDate(h)), h, sun, records) /\ CatchUp(a, LearnDate(h)).reset = LearnDate(h)
<1> DEFINE first == a.reset
           n == LearnDate(h) - first
           rolled == CHOOSE r : LearnedTo(a, LearnDate(h), r)
           S == {j \in Nat : j <= n => LearnedTrue(rolled[first + j], h, sun, records)
                                       /\ rolled[first + j].reset = first + j}
<1>1. first \in Nat /\ first <= LearnDate(h)
  BY DEF LearnedTrue, Learned
<1>2. n \in Nat /\ first + n = LearnDate(h)
  <2>1. LearnDate(h) \in Nat
    BY LearnDateIs
  <2> HIDE DEF first
  <2> QED
    BY <1>1, <2>1
<1>3. LearnDate(h) \in LearnedDays /\ LearnDate(h) \in Nat /\ LearnDays \in Nat
  BY LearnDateIs, LearningAssumption
<1>4. LearnedTo(a, LearnDate(h), rolled)
  <2>1. \E r : LearnedTo(a, LearnDate(h), r)
    BY <1>1, <1>2, LearnedToIsThere
  <2> QED
    BY <2>1
<1> HIDE DEF n, rolled
<1>5. rolled = [k \in first..LearnDate(h) |-> IF k = first THEN a ELSE LearnMidnight(rolled[k - 1], k)]
  BY <1>4 DEF LearnedTo
<1>6. 0 \in S
  <2>1. first \in first..LearnDate(h) /\ first + 0 = first
    BY <1>1, <1>3
  <2>2. rolled[first] = a
    BY <1>5, <2>1
  <2> QED
    BY <2>1, <2>2
<1>7. ASSUME NEW j \in Nat, j \in S
      PROVE  j + 1 \in S
  <2>1. SUFFICES ASSUME j + 1 <= n
                 PROVE  /\ LearnedTrue(rolled[first + (j + 1)], h, sun, records)
                        /\ rolled[first + (j + 1)].reset = first + (j + 1)
    OBVIOUS
  <2> DEFINE k == first + (j + 1)
             b == rolled[first + j]
  <2>2. k \in first..LearnDate(h) /\ k # first /\ k - 1 = first + j /\ k = (first + j) + 1 /\ j <= n
    BY <1>1, <1>2, <1>3, <2>1
  <2>3. k \in LearnedDays /\ k <= LearnDate(h)
    BY <1>1, <1>3, <2>2 DEF LearnedDays
  <2>4. LearnedTrue(b, h, sun, records) /\ b.reset = first + j
    BY <1>7, <2>2
  <2>5. rolled[k] = LearnMidnight(b, k)
    BY <1>5, <2>2
  <2> HIDE DEF k, first, S, b
  <2>6. k = b.reset + 1
    BY <2>2, <2>4
  <2>7. LearnedTrue(rolled[k], h, sun, records) /\ rolled[k].reset = k
    BY <2>3, <2>4, <2>5, <2>6, MidnightLearns
  <2> QED
    BY <2>7 DEF k
<1>8. S \in SUBSET Nat
  OBVIOUS
<1> HIDE DEF S
<1>9. n \in S
  BY <1>2, <1>6, <1>7, <1>8, LeastOut
<1>10. LearnedTrue(rolled[LearnDate(h)], h, sun, records) /\ rolled[LearnDate(h)].reset = LearnDate(h)
  BY <1>2, <1>9 DEF S
<1> QED
  BY <1>10, CatchUpIs DEF rolled

\* Some days before a day have a last one.
LEMMA LastOfSome ==
  ASSUME NEW n \in Nat, NEW B \in SUBSET (0..(n - 1)), B # {}
  PROVE  \E y \in B : \A z \in B : z <= y
<1> DEFINE S == {j \in Nat : \A z \in B : z < n - j}
<1>1. 0 \in S
  OBVIOUS
<1>2. n \notin S
  <2>1. PICK z \in B : TRUE
    OBVIOUS
  <2>2. z \in Int /\ ~(z < n - n)
    BY <2>1
  <2> QED
    BY <2>2
<1>3. S \in SUBSET Nat
  OBVIOUS
<1>4. PICK k \in Nat : k \in S /\ k + 1 \notin S
  <2> HIDE DEF S
  <2> QED
    BY <1>1, <1>2, <1>3, LeastOut
<1>5. PICK y \in B : ~(y < n - (k + 1))
  BY <1>4
<1>6. \A z \in B : z \in Int /\ z < n - k
  BY <1>4
<1>7. y \in Int
  OBVIOUS
<1> QED
  BY <1>5, <1>6, <1>7

\* The recorder's forecast before a day is the one of that day, unless it has none of the day before.
LEMMA ForecastBeforeIs ==
  ASSUME recorder \in Recorders, RecorderTrue(recorder, sunGiven), NEW y \in LearnedDays, y >= 1,
         ForecastBefore(y) # NoFigure
  PROVE  /\ ForecastBefore(y) \in Figure
         /\ ForecastBefore(y).day = y \/ recorder[y - 1].forecast = NoFigure
<1> DEFINE before == {z \in 0..(y - 1) : recorder[z].forecast # NoFigure}
           latest == CHOOSE z \in before : \A x \in before : x <= z
<1>1. y \in Nat /\ LearnDays \in Nat /\ y <= LearnDays
  BY LearningAssumption DEF LearnedDays
<1>2. before # {} /\ ForecastBefore(y) = recorder[latest].forecast
  BY DEF ForecastBefore
<1>3. latest \in before /\ \A x \in before : x <= latest
  <2>1. before \in SUBSET (0..(y - 1))
    OBVIOUS
  <2> HIDE DEF before
  <2>2. \E z \in before : \A x \in before : x <= z
    BY <1>1, <1>2, <2>1, LastOfSome
  <2> QED
    BY <2>2
<1> HIDE DEF latest
<1>4. latest \in LearnedDays /\ latest \in 0..(y - 1) /\ recorder[latest].forecast # NoFigure
  BY <1>1, <1>3 DEF LearnedDays
<1>5. recorder[latest].forecast \in Figure \cup {NoFigure}
  BY <1>4 DEF Recorders
<1>6. recorder[latest].forecast.day = latest + 1
  BY <1>4 DEF RecorderTrue
<1>7. CASE latest = y - 1
  BY <1>1, <1>2, <1>4, <1>5, <1>6, <1>7
<1>8. CASE latest # y - 1
  <2>1. y - 1 \in 0..(y - 1) /\ ~(y - 1 <= latest)
    BY <1>1, <1>4, <1>8
  <2>2. y - 1 \notin before
    BY <1>3, <2>1
  <2> QED
    BY <1>2, <1>4, <1>5, <2>1, <2>2
<1> QED
  BY <1>7, <1>8

LEMMA SeedIs ==
  ASSUME recorder \in Recorders, RecorderTrue(recorder, sunGiven), sunGiven \in Suns, NEW y \in LearnedDays,
         IsRecorded(y)
  PROVE  SeedOf(y) \in Ratio /\ SeedOf(y).day = y /\ RatioTrue(SeedOf(y), sunGiven, recorder)
<1>1. y \in Nat /\ y >= 1 /\ ForecastBefore(y) # NoFigure /\ recorder[y].solar # NoFigure
  BY DEF IsRecorded, LearnedDays
<1>2. /\ ForecastBefore(y) \in Figure
      /\ ForecastBefore(y).day = y \/ recorder[y - 1].forecast = NoFigure
  BY <1>1, ForecastBeforeIs
<1>3. recorder[y].solar \in Nat
  BY <1>1 DEF Recorders
<1>4. recorder[y].solar <= sunGiven[y]
  BY <1>1 DEF RecorderTrue
<1>5. SeedOf(y) \in Ratio /\ SeedOf(y).day = y /\ SeedOf(y).forecast = ForecastBefore(y) /\ SeedOf(y).seeded
      /\ ~SeedOf(y).whole /\ SeedOf(y).actual = recorder[y].solar
  BY <1>1, <1>2, <1>3 DEF SeedOf, Ratio
<1> HIDE DEF SeedOf
<1> QED
  BY <1>1, <1>2, <1>4, <1>5 DEF RatioTrue

\* The days from the recorder, one by one, to the n-th.
Seeded(d, n, records) ==
  records = [k \in 0..n |->
               IF k = 0 THEN <<>>
               ELSE IF IsRecorded(d - RatioDays - 1 + k) THEN Append(records[k - 1], SeedOf(d - RatioDays - 1 + k))
               ELSE records[k - 1]]

LEMMA SeedRecordsAre ==
  ASSUME NEW d
  PROVE  SeedRecords(d) = (CHOOSE records : Seeded(d, RatioDays, records))[RatioDays]
BY DEF SeedRecords, Seeded

LEMMA SeededIsThere ==
  ASSUME NEW d, NEW n \in Nat
  PROVE  \E records : Seeded(d, n, records)
<1> DEFINE S == {j \in Nat : \E records : Seeded(d, j, records)}
           next(records, k) == IF IsRecorded(d - RatioDays - 1 + k)
                               THEN Append(records, SeedOf(d - RatioDays - 1 + k)) ELSE records
<1>1. 0 \in S
  <2> DEFINE none == [k \in 0..0 |-> <<>>]
  <2>1. none = [k \in 0..0 |-> IF k = 0 THEN <<>> ELSE next(none[k - 1], k)]
    <3>1. \A k \in 0..0 : k = 0
      OBVIOUS
    <3> QED
      BY <3>1
  <2>2. Seeded(d, 0, none)
    BY <2>1 DEF Seeded
  <2> QED
    BY <2>2
<1>2. ASSUME NEW j \in Nat, j \in S
      PROVE  j + 1 \in S
  <2>1. PICK records : Seeded(d, j, records)
    BY <1>2
  <2> DEFINE more == [k \in 0..(j + 1) |-> IF k = j + 1 THEN next(records[j], j + 1) ELSE records[k]]
  <2>2. records = [k \in 0..j |-> IF k = 0 THEN <<>> ELSE next(records[k - 1], k)]
    BY <2>1 DEF Seeded
  <2> HIDE DEF next
  <2>3. \A k \in 0..(j + 1) : k = j + 1 \/ (k \in 0..j /\ k # j + 1)
    OBVIOUS
  <2>4. \A k \in 0..j : more[k] = records[k]
    OBVIOUS
  <2>5. ASSUME NEW k \in 0..(j + 1)
        PROVE  more[k] = IF k = 0 THEN <<>> ELSE next(more[k - 1], k)
    <3>1. CASE k = j + 1
      <4>1. more[k] = next(records[j], j + 1)
        BY <3>1
      <4>2. more[j] = records[j] /\ k - 1 = j /\ k # 0
        BY <2>4, <3>1
      <4> HIDE DEF more
      <4> QED
        BY <3>1, <4>1, <4>2
    <3>2. CASE k # j + 1
      <4>1. k \in 0..j
        BY <2>3, <3>2
      <4>2. more[k] = records[k] /\ records[k] = IF k = 0 THEN <<>> ELSE next(records[k - 1], k)
        BY <2>2, <2>4, <4>1
      <4>3. k # 0 => more[k - 1] = records[k - 1]
        <5>1. k # 0 => k - 1 \in 0..j
          BY <4>1
        <5> QED
          BY <2>4, <5>1
      <4> HIDE DEF more
      <4> QED
        BY <4>2, <4>3
    <3> QED
      BY <3>1, <3>2
  <2>6. more = [k \in 0..(j + 1) |-> more[k]]
    OBVIOUS
  <2> HIDE DEF more
  <2>7. more = [k \in 0..(j + 1) |-> IF k = 0 THEN <<>> ELSE next(more[k - 1], k)]
    BY <2>5, <2>6
  <2>8. Seeded(d, j + 1, more)
    BY <2>7 DEF Seeded, next
  <2> QED
    BY <2>8
<1>3. S \in SUBSET Nat
  OBVIOUS
<1> HIDE DEF S
<1>4. n \in S
  BY <1>1, <1>2, <1>3, LeastOut
<1> QED
  BY <1>4 DEF S

\* The records before a day are of the days before it, each with its sun.
LEMMA SeedsTrue ==
  ASSUME recorder \in Recorders, RecorderTrue(recorder, sunGiven), sunGiven \in Suns, NEW d \in LearnedDays
  PROVE  RatiosTrue(SeedRecords(d), d, sunGiven, recorder)
<1> DEFINE records == CHOOSE r : Seeded(d, RatioDays, r)
           first == d - RatioDays
           S == {j \in Nat : j <= RatioDays =>
                   IF first + j \in Nat THEN RatiosTrue(records[j], first + j, sunGiven, recorder)
                   ELSE records[j] = <<>>}
<1>1. RatioDays \in Nat /\ RatioDays >= 1 /\ d \in Nat /\ d <= LearnDays /\ LearnDays \in Nat
  BY LearningAssumption DEF LearnedDays
<1>2. Seeded(d, RatioDays, records)
  <2>1. \E r : Seeded(d, RatioDays, r)
    BY <1>1, SeededIsThere
  <2> QED
    BY <2>1
<1> HIDE DEF records
<1>3. records = [k \in 0..RatioDays |->
                   IF k = 0 THEN <<>>
                   ELSE IF IsRecorded(d - RatioDays - 1 + k) THEN Append(records[k - 1], SeedOf(d - RatioDays - 1 + k))
                   ELSE records[k - 1]]
  BY <1>2 DEF Seeded
<1>4. \A e : RatiosTrue(<<>>, e, sunGiven, recorder)
  BY DEF RatiosTrue
<1>5. 0 \in S
  <2>1. records[0] = <<>>
    BY <1>1, <1>3
  <2> QED
    BY <1>4, <2>1
<1>6. ASSUME NEW j \in Nat, j \in S
      PROVE  j + 1 \in S
  <2> DEFINE y == first + j
  <2>1. SUFFICES ASSUME j + 1 <= RatioDays
                 PROVE  IF y + 1 \in Nat THEN RatiosTrue(records[j + 1], y + 1, sunGiven, recorder)
                        ELSE records[j + 1] = <<>>
    BY <1>1
  <2>2. j + 1 \in 0..RatioDays /\ j + 1 # 0 /\ (j + 1) - 1 = j /\ d - RatioDays - 1 + (j + 1) = y /\ y < d /\ y \in Int
    BY <1>1, <2>1
  <2>3. records[j + 1] = IF IsRecorded(y) THEN Append(records[j], SeedOf(y)) ELSE records[j]
    BY <1>3, <2>2
  <2>4. IF y \in Nat THEN RatiosTrue(records[j], y, sunGiven, recorder) ELSE records[j] = <<>>
    BY <1>1, <1>6, <2>1
  <2> HIDE DEF y, S
  <2>5. CASE y \in Nat
    <3>1. y \in LearnedDays /\ y + 1 \in Nat /\ y < y + 1 /\ y <= y + 1
      BY <1>1, <2>2, <2>5 DEF LearnedDays
    <3>2. CASE IsRecorded(y)
      <4>1. SeedOf(y) \in Ratio /\ SeedOf(y).day = y /\ RatioTrue(SeedOf(y), sunGiven, recorder)
        BY <3>1, <3>2, SeedIs
      <4>2. y <= y
        BY <2>2
      <4> QED
        BY <2>3, <2>4, <2>5, <3>1, <3>2, <4>1, <4>2, RatioAdded
    <3>3. CASE ~IsRecorded(y)
      BY <2>3, <2>4, <2>5, <3>1, <3>3, DaysGoOn
    <3> QED
      BY <3>2, <3>3
  <2>6. CASE y \notin Nat
    <3>1. ~IsRecorded(y)
      BY <2>2, <2>6 DEF IsRecorded
    <3> QED
      BY <1>4, <2>3, <2>4, <2>6, <3>1
  <2> QED
    BY <2>5, <2>6
<1>7. S \in SUBSET Nat
  OBVIOUS
<1> HIDE DEF S
<1>8. RatioDays \in S
  BY <1>1, <1>5, <1>6, <1>7, LeastOut
<1>9. RatiosTrue(records[RatioDays], d, sunGiven, recorder)
  BY <1>1, <1>8 DEF S
<1> QED
  BY <1>9, SeedRecordsAre DEF records

LoadToday == [date: Nat \cup {NoFigure}, covered: SUBSET Nat, of: SUBSET Nat]

\* The interval since the last cycle goes to the load of the day.
LEMMA LoadRecorded ==
  ASSUME NEW a \in Learned, NEW d \in Nat, NEW third \in Nat, LoadOf(a.load, d),
         since # NoFigure => since \in Nat /\ LearnDate(since) = d
  PROVE  /\ RecordLoad(a, d, third) = [a EXCEPT !.load = RecordLoad(a, d, third).load]
         /\ RecordLoad(a, d, third).load \in LoadToday /\ LoadOf(RecordLoad(a, d, third).load, d)
<1>1. a.load \in LoadToday /\ d # NoFigure /\ a = [a EXCEPT !.load = a.load]
  BY NoFigureIsNone DEF Learned, LoadToday
<1>2. CASE since = NoFigure \/ hour - since > 1
  <2>1. RecordLoad(a, d, third) = a
    BY <1>2 DEF RecordLoad
  <2> QED
    BY <1>1, <2>1
<1>3. CASE ~(since = NoFigure \/ hour - since > 1)
  <2> DEFINE begun == IF a.load.date = d THEN a ELSE [ArchiveLoad(a) EXCEPT !.load.date = d]
             load == [date |-> d, covered |-> a.load.covered \cup {third}, of |-> {d}]
  <2>1. /\ begun = [a EXCEPT !.load = begun.load]
        /\ begun.load = [date |-> d, covered |-> a.load.covered, of |-> a.load.of]
    <3>1. CASE a.load.date = d
      BY <1>1, <3>1 DEF LoadToday
    <3>2. CASE a.load.date # d
      <4>1. a.load.date = NoFigure /\ a.load.covered = {} /\ a.load.of = {}
        BY <3>2 DEF LoadOf
      <4>2. ArchiveLoad(a) = [a EXCEPT !.load = NoLoad, !.loads = a.loads]
        BY <4>1 DEF ArchiveLoad
      <4>3. ArchiveLoad(a) = [a EXCEPT !.load = NoLoad]
        BY <4>2 DEF Learned
      <4>4. begun = [a EXCEPT !.load = [NoLoad EXCEPT !.date = d]]
        BY <3>2, <4>3 DEF Learned
      <4>5. [NoLoad EXCEPT !.date = d] = [date |-> d, covered |-> {}, of |-> {}]
        BY DEF NoLoad
      <4>6. begun.load = [date |-> d, covered |-> {}, of |-> {}]
        BY <4>4, <4>5 DEF Learned
      <4> HIDE DEF begun
      <4> QED
        BY <4>1, <4>4, <4>5, <4>6
    <3> QED
      BY <3>1, <3>2
  <2>2. RecordLoad(a, d, third) = [begun EXCEPT !.load.covered = begun.load.covered \cup {third},
                                                !.load.of = begun.load.of \cup {d}]
    BY <1>3 DEF RecordLoad
  <2> HIDE DEF begun
  <2>3. begun \in Learned
    BY <1>1, <2>1 DEF Learned, LoadToday
  <2>4. a.load.of \cup {d} = {d}
    BY DEF LoadOf
  <2>5. RecordLoad(a, d, third) = [begun EXCEPT !.load = load]
    <3> DEFINE once == [begun EXCEPT !.load = [begun.load EXCEPT !.covered = begun.load.covered \cup {third}]]
    <3>1. RecordLoad(a, d, third) = [once EXCEPT !.load = [once.load EXCEPT !.of = begun.load.of \cup {d}]]
      BY <2>2, <2>3 DEF Learned
    <3>2. once.load = [date |-> d, covered |-> a.load.covered \cup {third}, of |-> a.load.of]
      <4> DEFINE more == [begun.load EXCEPT !.covered = begun.load.covered \cup {third}]
      <4>1. more = [date |-> d, covered |-> a.load.covered \cup {third}, of |-> a.load.of]
        BY <2>1
      <4> HIDE DEF more
      <4>2. [begun EXCEPT !.load = more].load = more
        BY <2>3 DEF Learned
      <4> QED
        BY <4>1, <4>2 DEF more
    <3>3. [once.load EXCEPT !.of = begun.load.of \cup {d}] = load
      <4> HIDE DEF once
      <4>1. begun.load.of = a.load.of
        BY <2>1
      <4> QED
        BY <2>4, <3>2, <4>1
    <3> HIDE DEF load
    <3>4. RecordLoad(a, d, third) = [once EXCEPT !.load = load]
      BY <3>1, <3>3
    <3> QED
      BY <2>3, <3>4 DEF Learned
  <2>6. RecordLoad(a, d, third) = [a EXCEPT !.load = load]
    BY <2>1, <2>5
  <2>7. RecordLoad(a, d, third).load = load
    BY <2>6 DEF Learned
  <2>8. load \in LoadToday /\ LoadOf(load, d)
    BY <1>1 DEF LoadToday, LoadOf
  <2> QED
    BY <2>6, <2>7, <2>8
<1> QED
  BY <1>2, <1>3

\* A forecast read is remembered as the one of the day it is of.
LEMMA ForecastRemembered ==
  ASSUME NEW a \in Learned, NEW read \in Sayings, NEW d, OfDay(a.pending, d), OfDay(read, d)
  PROVE  /\ Remember(a, read) = [a EXCEPT !.pending = Remember(a, read).pending]
         /\ Remember(a, read).pending \in Sayings /\ OfDay(Remember(a, read).pending, d)
         /\ read.p50 # NoFigure /\ read.p50.kwh > 0 =>
              Remember(a, read).pending.p50 = read.p50 /\ Remember(a, read).pending.shape = read.shape
<1> DEFINE positive(f) == f # NoFigure /\ f.kwh > 0
           said == [p50 |-> IF positive(read.p50) THEN read.p50 ELSE a.pending.p50,
                    shape |-> IF positive(read.p50) THEN read.shape ELSE a.pending.shape,
                    p10 |-> IF positive(read.p10) THEN read.p10 ELSE a.pending.p10]
<1>1. Remember(a, read) = [a EXCEPT !.pending = said]
  BY DEF Remember
<1>2. a.pending \in Sayings
  BY DEF Learned
<1>3. said \in Sayings /\ OfDay(said, d)
  BY <1>2 DEF Sayings, OfDay
<1>4. Remember(a, read).pending = said
  BY <1>1 DEF Learned
<1>5. positive(read.p50) => said.p50 = read.p50 /\ said.shape = read.shape
  OBVIOUS
<1> HIDE DEF said
<1> QED
  BY <1>1, <1>3, <1>4, <1>5

LEMMA CycleLearns == LearnInv /\ LearnCycle => LearnInv'
<1> SUFFICES ASSUME LearnInv, LearnCycle
             PROVE  LearnInv'
  OBVIOUS
<1> DEFINE d == LearnToday
           counted == [learned EXCEPT !.solar = sunGiven[d], !.whole = hour % 3 = 2]
           loaded == RecordLoad(counted, d, hour % 3)
           remembered == Remember(loaded, shown)
<1>1. LearnTypeOK /\ InStep /\ haRuns /\ LearnedTrue(learned, hour, sunGiven, recorder)
  BY DEF LearnInv, LearnCycle
<1>2. /\ hour \in Nat /\ d \in Nat /\ d \in LearnedDays /\ 3 * d <= hour /\ hour < 3 * d + 3
      /\ hour % 3 = hour - 3 * d /\ hour % 3 \in Nat /\ learned.reset = d
  <2>1. LearnDays \in Nat
    BY LearningAssumption
  <2>2. hour \in Nat /\ hour <= 3 * LearnDays + 2
    BY <1>1, <2>1 DEF LearnTypeOK
  <2>3. learned.reset = d
    BY <1>1 DEF InStep
  <2>4. /\ d \in Nat /\ d \in LearnedDays /\ 3 * d <= hour /\ hour < 3 * d + 3 /\ hour % 3 = hour - 3 * d
    BY <2>2, LearnDateIs DEF LearnToday
  <2> HIDE DEF d
  <2>5. hour % 3 \in Nat
    BY <2>2
  <2> QED
    BY <2>2, <2>3, <2>4, <2>5
<1>3. /\ learned \in Learned /\ OfDay(learned.pending, d + 1) /\ OfDay(learned.today, d)
      /\ RatiosTrue(learned.ratios, d, sunGiven, recorder)
      /\ LoadsTrue(learned.loads, d) /\ LoadOf(learned.load, d)
  BY <1>1, <1>2 DEF LearnedTrue
<1>4. sunGiven[d] \in Nat /\ shown \in Sayings /\ OfDay(shown, d + 1)
  BY <1>1, <1>2 DEF LearnTypeOK, Suns, InStep
<1>5. since # NoFigure => since \in Nat /\ LearnDate(since) = d
  BY <1>1 DEF InStep, LearnTypeOK
<1>6. PICK clips \in Clips : learned' = [remembered EXCEPT !.clipped = remembered.clipped \/ (clips /\ hour % 3 = 1)]
  BY DEF LearnCycle
<1>7. UNCHANGED <<hour, sunGiven, shown, haRuns, kept, seeding, recorder>> /\ since' = hour
  BY DEF LearnCycle
<1> HIDE DEF d
<1>8. counted \in Learned /\ counted.load = learned.load
  BY <1>3, <1>4 DEF Learned
<1>9. loaded = [counted EXCEPT !.load = loaded.load] /\ loaded.load \in LoadToday /\ LoadOf(loaded.load, d)
  <2> HIDE DEF counted
  <2> QED
    BY <1>2, <1>3, <1>5, <1>8, LoadRecorded
<1>10. loaded \in Learned /\ loaded.pending = learned.pending
  <2> HIDE DEF loaded
  <2> QED
    BY <1>3, <1>8, <1>9 DEF Learned, LoadToday
<1>11. /\ remembered = [loaded EXCEPT !.pending = remembered.pending]
       /\ remembered.pending \in Sayings /\ OfDay(remembered.pending, d + 1)
       /\ shown.p50 # NoFigure /\ shown.p50.kwh > 0 =>
            remembered.pending.p50 = shown.p50 /\ remembered.pending.shape = shown.shape
  <2> HIDE DEF loaded
  <2> QED
    BY <1>3, <1>4, <1>10, ForecastRemembered
<1> DEFINE clipped == remembered.clipped \/ (clips /\ hour % 3 = 1)
<1>12. /\ remembered.clipped = learned.clipped /\ remembered \in Learned
       /\ remembered.today = learned.today /\ remembered.solar = sunGiven[d] /\ remembered.whole = (hour % 3 = 2)
       /\ remembered.ratios = learned.ratios /\ remembered.loads = learned.loads /\ remembered.reset = d
       /\ remembered.load = loaded.load
  <2>1. /\ counted.clipped = learned.clipped /\ counted.today = learned.today /\ counted.solar = sunGiven[d]
        /\ counted.whole = (hour % 3 = 2) /\ counted.ratios = learned.ratios /\ counted.loads = learned.loads
        /\ counted.reset = d
    BY <1>2, <1>3 DEF Learned
  <2> HIDE DEF counted, loaded, remembered
  <2>2. /\ loaded.clipped = learned.clipped /\ loaded.today = learned.today /\ loaded.solar = sunGiven[d]
        /\ loaded.whole = (hour % 3 = 2) /\ loaded.ratios = learned.ratios /\ loaded.loads = learned.loads
        /\ loaded.reset = d
    BY <1>8, <1>9, <2>1 DEF Learned
  <2> QED
    BY <1>10, <1>11, <2>2 DEF Learned
<1> HIDE DEF counted, loaded, remembered
<1>13. clipped \in BOOLEAN
  OBVIOUS
<1>14. learned' = [remembered EXCEPT !.clipped = clipped]
  BY <1>6
<1> HIDE DEF clipped
<1>15. /\ learned' \in Learned /\ learned'.pending = remembered.pending
       /\ learned'.today = learned.today /\ learned'.solar = sunGiven[d] /\ learned'.whole = (hour % 3 = 2)
       /\ learned'.ratios = learned.ratios /\ learned'.loads = learned.loads /\ learned'.reset = d
       /\ learned'.load = loaded.load
  BY <1>12, <1>13, <1>14 DEF Learned
<1>16. LearnedTrue(learned', hour, sunGiven, recorder)
  <2>1. d <= LearnDate(hour)
    BY <1>2 DEF d, LearnToday
  <2>2. sunGiven[d] <= sunGiven[d] /\ (learned'.whole => 3 * d + 2 <= hour)
    <3>1. \A x \in Nat : x <= x
      OBVIOUS
    <3>2. hour % 3 = 2 => 3 * d + 2 <= hour
      BY <1>2
    <3> QED
      BY <1>4, <1>15, <3>1, <3>2
  <2> QED
    BY <1>3, <1>9, <1>11, <1>15, <2>1, <2>2 DEF LearnedTrue
<1>17. LearnTypeOK'
  BY <1>1, <1>2, <1>7 DEF LearnTypeOK
<1>18. InStep'
  <2>1. LearnToday' = d
    BY <1>7 DEF LearnToday, d
  <2>2. LearnDate(hour) = d /\ hour <= hour
    BY <1>2 DEF LearnToday, d
  <2> QED
    BY <1>1, <1>4, <1>7, <1>11, <1>15, <2>1, <2>2 DEF InStep, d
<1> QED
  BY <1>7, <1>16, <1>17, <1>18 DEF LearnInv

\* Whether a tick is a midnight.
LEMMA NextTick ==
  ASSUME LearnTypeOK, LearnTick
  PROVE  /\ hour \in Nat /\ hour + 1 \in Nat /\ hour' = hour + 1 /\ hour + 1 <= 3 * LearnDays + 2
         /\ LearnToday \in Nat /\ LearnToday \in LearnedDays /\ LearnDate(hour + 1) \in LearnedDays
         /\ 3 * LearnToday <= hour /\ hour < 3 * LearnToday + 3
         /\ \/ hour - 3 * LearnToday \in 0..1 /\ LearnDate(hour + 1) = LearnToday
               /\ (hour + 1) % 3 = hour - 3 * LearnToday + 1
            \/ hour - 3 * LearnToday = 2 /\ LearnDate(hour + 1) = LearnToday + 1 /\ (hour + 1) % 3 = 0
<1> DEFINE d == LearnToday
           e == LearnDate(hour + 1)
<1>1. LearnDays \in Nat
  BY LearningAssumption
<1>2. hour \in Nat /\ hour + 1 \in Nat /\ hour' = hour + 1 /\ hour + 1 <= 3 * LearnDays + 2 /\ hour <= 3 * LearnDays + 2
  <2>1. hour \in Nat /\ hour < 3 * LearnDays + 2 /\ hour' = hour + 1
    BY <1>1 DEF LearnTypeOK, LearnTick
  <2> QED
    BY <1>1, <2>1
<1>3. d \in Nat /\ d \in LearnedDays /\ 3 * d <= hour /\ hour < 3 * d + 3
  BY <1>2, LearnDateIs DEF LearnToday
<1>4. e \in Nat /\ e \in LearnedDays /\ 3 * e <= hour + 1 /\ hour + 1 < 3 * e + 3 /\ (hour + 1) % 3 = (hour + 1) - 3 * e
  BY <1>2, LearnDateIs
<1> HIDE DEF d, e
<1>5. \/ hour - 3 * d \in 0..1 /\ e = d /\ (hour + 1) % 3 = hour - 3 * d + 1
      \/ hour - 3 * d = 2 /\ e = d + 1 /\ (hour + 1) % 3 = 0
  BY <1>2, <1>3, <1>4
<1> QED
  BY <1>2, <1>3, <1>4, <1>5 DEF d, e

\* The sun gives what it gives on a day in the day, and nothing is taken back.
LEMMA SunTicks ==
  ASSUME LearnTypeOK, SunNow(hour, sunGiven), LearnTick
  PROVE  /\ sunGiven' \in Suns /\ SunNow(hour', sunGiven')
         /\ \A y \in LearnedDays : sunGiven[y] <= sunGiven'[y] /\ (3 * y + 1 <= hour => sunGiven'[y] = sunGiven[y])
<1> DEFINE d == LearnToday
<1>1. /\ hour \in Nat /\ hour' = hour + 1 /\ d \in Nat /\ d \in LearnedDays /\ 3 * d <= hour /\ hour < 3 * d + 3
      /\ ((hour + 1) % 3 = 1 <=> hour = 3 * d)
  <2>1. /\ hour \in Nat /\ hour' = hour + 1 /\ d \in Nat /\ d \in LearnedDays /\ 3 * d <= hour /\ hour < 3 * d + 3
        /\ \/ hour - 3 * d \in 0..1 /\ (hour + 1) % 3 = hour - 3 * d + 1
           \/ hour - 3 * d = 2 /\ (hour + 1) % 3 = 0
    BY NextTick
  <2> HIDE DEF d
  <2>2. (hour + 1) % 3 = 1 <=> hour = 3 * d
    BY <2>1
  <2> QED
    BY <2>1, <2>2
<1>2. sunGiven \in Suns
  BY DEF LearnTypeOK
<1>3. sunGiven' = IF (hour + 1) % 3 = 1 THEN [sunGiven EXCEPT ![d] = SunOf(d)] ELSE sunGiven
  BY <1>1 DEF LearnTick
<1> HIDE DEF d
<1>4. \A y \in LearnedDays : y \in Nat /\ SunOf(y) \in Nat /\ SunOf(y) >= 0
  BY DEF LearnedDays, SunOf
<1>5. sunGiven' \in Suns
  BY <1>1, <1>2, <1>3, <1>4 DEF Suns
<1>6. ASSUME NEW y \in LearnedDays
      PROVE  /\ sunGiven'[y] = IF 3 * y + 1 <= hour + 1 THEN SunOf(y) ELSE 0
             /\ sunGiven[y] <= sunGiven'[y] /\ (3 * y + 1 <= hour => sunGiven'[y] = sunGiven[y])
  <2>1. y \in Nat /\ SunOf(y) \in Nat
    BY <1>4
  <2>2. sunGiven[y] = IF 3 * y + 1 <= hour THEN SunOf(y) ELSE 0
    BY DEF SunNow
  <2>3. CASE hour = 3 * d
    <3>1. 3 * y + 1 <= hour + 1 <=> y = d \/ 3 * y + 1 <= hour
      BY <1>1, <2>1, <2>3
    <3>2. sunGiven'[y] = IF y = d THEN SunOf(y) ELSE sunGiven[y]
      BY <1>1, <1>2, <1>3, <2>3 DEF Suns
    <3>3. y = d => ~(3 * y + 1 <= hour)
      BY <1>1, <2>1, <2>3
    <3>4. \A n \in Nat : n <= n /\ 0 <= n
      OBVIOUS
    <3> QED
      BY <2>1, <2>2, <3>1, <3>2, <3>3, <3>4
  <2>4. CASE hour # 3 * d
    <3>1. 3 * y + 1 <= hour + 1 <=> 3 * y + 1 <= hour
      BY <1>1, <2>1, <2>4
    <3>2. sunGiven'[y] = sunGiven[y]
      BY <1>1, <1>3, <2>4
    <3>3. \A n \in Nat : n <= n /\ 0 <= 0
      OBVIOUS
    <3> QED
      BY <2>1, <2>2, <3>1, <3>2, <3>3
  <2> QED
    BY <2>3, <2>4
<1>7. SunNow(hour', sunGiven')
  BY <1>1, <1>6 DEF SunNow
<1> QED
  BY <1>5, <1>6, <1>7

\* The recorder writes the day that runs, and no other.
LEMMA RecorderTicks ==
  ASSUME LearnTypeOK, OfDay(shown, LearnToday + 1), RecorderTrue(recorder, sunGiven), SunNow(hour, sunGiven), LearnTick
  PROVE  /\ recorder' \in Recorders /\ RecorderTrue(recorder', sunGiven')
         /\ \A y \in LearnedDays : y < LearnToday => recorder'[y].forecast = recorder[y].forecast
<1> DEFINE d == LearnToday
           read == IF shown.p50 # NoFigure /\ shown.p50.kwh > 0 THEN shown.p50 ELSE recorder[d].forecast
<1>1. d \in LearnedDays /\ d \in Nat
  BY NextTick
<1>2. recorder \in Recorders /\ sunGiven \in Suns /\ shown.p50 \in Figure \cup {NoFigure}
  BY DEF LearnTypeOK, Sayings
<1>3. sunGiven' \in Suns /\ \A y \in LearnedDays : sunGiven[y] <= sunGiven'[y]
  BY SunTicks
<1>4. recorder' = recorder \/ recorder' = [recorder EXCEPT ![d].forecast = read, ![d].solar = sunGiven[d]]
  BY DEF LearnTick, RecorderSees
<1>5. sunGiven[d] \in Nat /\ read \in Figure \cup {NoFigure} /\ (read # NoFigure => read.day = d + 1)
  <2>1. recorder[d].forecast \in Figure \cup {NoFigure} /\ (recorder[d].forecast # NoFigure => recorder[d].forecast.day = d + 1)
    BY <1>1, <1>2 DEF Recorders, RecorderTrue
  <2>2. shown.p50 # NoFigure => shown.p50.day = d + 1
    BY DEF OfDay
  <2> QED
    BY <1>1, <1>2, <2>1, <2>2 DEF Suns
<1> HIDE DEF d, read
<1>6. ASSUME NEW y \in LearnedDays
      PROVE  recorder[y] \in [forecast: Figure \cup {NoFigure}, solar: Nat \cup {NoFigure}] /\ y \in Nat
             /\ sunGiven[y] \in Nat /\ sunGiven'[y] \in Nat
  BY <1>2, <1>3 DEF Recorders, Suns, LearnedDays
<1>7. recorder' = recorder \/ recorder' = [recorder EXCEPT ![d] = [forecast |-> read, solar |-> sunGiven[d]]]
  <2>1. recorder[d] \in [forecast: Figure \cup {NoFigure}, solar: Nat \cup {NoFigure}]
    BY <1>1, <1>6
  <2> QED
    BY <1>1, <1>2, <1>4, <2>1 DEF Recorders
<1>8. \A y \in LearnedDays : recorder'[y] = recorder[y] \/ (y = d /\ recorder'[y] = [forecast |-> read, solar |-> sunGiven[d]])
  BY <1>1, <1>2, <1>7 DEF Recorders
<1>9. recorder' \in Recorders
  BY <1>1, <1>2, <1>5, <1>7 DEF Recorders
<1>10. RecorderTrue(recorder', sunGiven')
  <2>1. \A y \in LearnedDays : recorder'[y].forecast # NoFigure => recorder'[y].forecast.day = y + 1
    BY <1>5, <1>8 DEF RecorderTrue
  <2>2. ASSUME NEW y \in LearnedDays, recorder'[y].solar # NoFigure
        PROVE  recorder'[y].solar <= sunGiven'[y]
    <3>1. CASE recorder'[y] = recorder[y]
      <4>1. recorder[y].solar \in Nat /\ recorder[y].solar <= sunGiven[y]
        BY <1>6, <2>2, <3>1 DEF RecorderTrue
      <4>2. \A i, j, k \in Nat : i <= j /\ j <= k => i <= k
        OBVIOUS
      <4> QED
        BY <1>3, <1>6, <3>1, <4>1, <4>2
    <3>2. CASE y = d /\ recorder'[y] = [forecast |-> read, solar |-> sunGiven[d]]
      BY <1>3, <3>2
    <3> QED
      BY <1>8, <3>1, <3>2
  <2> QED
    BY <2>1, <2>2 DEF RecorderTrue
<1>11. \A y \in LearnedDays : y < d => recorder'[y].forecast = recorder[y].forecast
  <2>1. \A y \in LearnedDays : y < d => y # d
    BY <1>1, <1>6
  <2> QED
    BY <1>8, <2>1
<1> QED
  BY <1>9, <1>10, <1>11 DEF d

\* What the provider may say is of the next day.
LEMMA SaidIs ==
  ASSUME NEW f \in Forecasts, NEW d \in Nat
  PROVE  Said(f, d) \in Sayings /\ OfDay(Said(f, d), d)
<1>1. f \in [kwh: Nat, p10: Nat \cup {NoFigure}, shaped: BOOLEAN]
  BY LearningAssumption
<1> QED
  BY <1>1 DEF Said, Sayings, OfDay, Figure

LEMMA TickLearns == LearnInv /\ LearnTick => LearnInv'
<1> SUFFICES ASSUME LearnInv, LearnTick
             PROVE  LearnInv'
  OBVIOUS
<1> DEFINE d == LearnToday
           e == LearnDate(hour + 1)
<1>1. /\ LearnTypeOK /\ InStep /\ SunNow(hour, sunGiven) /\ RecorderTrue(recorder, sunGiven)
      /\ LearnedTrue(learned, hour, sunGiven, recorder) /\ LearnedTrue(kept, hour, sunGiven, recorder)
  BY DEF LearnInv
<1>2. /\ hour \in Nat /\ hour + 1 \in Nat /\ hour' = hour + 1 /\ hour + 1 <= 3 * LearnDays + 2
      /\ d \in Nat /\ d \in LearnedDays /\ e \in LearnedDays /\ (e = d \/ e = d + 1)
      /\ (e # d <=> (hour + 1) % 3 = 0) /\ LearnToday' = e
  <2>1. /\ hour \in Nat /\ hour + 1 \in Nat /\ hour' = hour + 1 /\ hour + 1 <= 3 * LearnDays + 2
        /\ d \in Nat /\ d \in LearnedDays /\ e \in LearnedDays
        /\ \/ hour - 3 * d \in 0..1 /\ e = d /\ (hour + 1) % 3 = hour - 3 * d + 1
           \/ hour - 3 * d = 2 /\ e = d + 1 /\ (hour + 1) % 3 = 0
    BY <1>1, NextTick
  <2>2. LearnToday' = e
    BY <2>1 DEF LearnToday
  <2> HIDE DEF d, e
  <2> QED
    BY <2>1, <2>2
<1>3. e \in Nat /\ sunGiven \in Suns /\ shown \in Sayings /\ OfDay(shown, d + 1)
  BY <1>1, <1>2 DEF LearnTypeOK, InStep, LearnedDays
<1>4. /\ sunGiven' \in Suns /\ SunNow(hour', sunGiven')
      /\ \A y \in LearnedDays : sunGiven[y] <= sunGiven'[y] /\ (3 * y + 1 <= hour => sunGiven'[y] = sunGiven[y])
  BY <1>1, SunTicks
<1>5. /\ recorder' \in Recorders /\ RecorderTrue(recorder', sunGiven')
      /\ \A y \in LearnedDays : y < d => recorder'[y].forecast = recorder[y].forecast
  BY <1>1, <1>3, RecorderTicks
<1>6. \A a : LearnedTrue(a, hour, sunGiven, recorder) => LearnedTrue(a, hour', sunGiven', recorder')
  <2>1. d = LearnDate(hour) /\ hour <= hour + 1
    BY <1>2 DEF LearnToday
  <2> HIDE DEF d, e
  <2> QED
    BY <1>2, <1>3, <1>4, <1>5, <2>1, StaysTrue
<1>7. /\ LearnedTrue(learned, hour', sunGiven', recorder')
      /\ LearnedTrue(kept, hour', sunGiven', recorder')
  BY <1>1, <1>6
<1>8. haRuns' = haRuns /\ seeding' = seeding
  BY DEF LearnTick
<1>9. /\ LearnedTrue(learned', hour', sunGiven', recorder')
      /\ LearnedTrue(kept', hour', sunGiven', recorder')
      /\ haRuns => learned'.reset = e
      /\ since' = NoFigure \/ (since' = since /\ (haRuns => e = d))
  <2>1. CASE haRuns /\ e # d
    <3>1. learned.reset = d /\ e = d + 1
      BY <1>1, <1>2, <2>1 DEF InStep
    <3>2. learned' = LearnMidnight(learned, e) /\ kept' \in {kept, learned'} /\ since' = NoFigure
      BY <1>2, <2>1 DEF LearnTick
    <3>3. e <= LearnDate(hour')
      BY <1>2, <1>3
    <3> HIDE DEF d, e
    <3>4. LearnedTrue(LearnMidnight(learned, e), hour', sunGiven', recorder') /\ LearnMidnight(learned, e).reset = e
      BY <1>2, <1>4, <1>7, <3>1, <3>3, MidnightLearns
    <3> QED
      BY <1>7, <3>2, <3>4
  <2>2. CASE ~(haRuns /\ e # d)
    <3>1. UNCHANGED <<learned, kept, since>>
      BY <1>2, <2>2 DEF LearnTick
    <3>2. haRuns => learned.reset = e
      BY <1>1, <2>2 DEF InStep
    <3> QED
      BY <1>7, <2>2, <3>1, <3>2
  <2> QED
    BY <2>1, <2>2
<1>10. shown' \in Sayings /\ OfDay(shown', e + 1)
  <2>1. \/ (hour + 1) % 3 # 0 /\ shown' = shown
        \/ shown' = Unsaid
        \/ \E f \in Forecasts : shown' = Said(f, e + 1)
    BY <1>2 DEF LearnTick
  <2>2. CASE (hour + 1) % 3 # 0 /\ shown' = shown
    <3>1. e = d
      BY <1>2, <2>2
    <3> QED
      BY <1>3, <2>2, <3>1
  <2>3. CASE shown' = Unsaid
    BY <2>3, UnsaidIs
  <2>4. CASE \E f \in Forecasts : shown' = Said(f, e + 1)
    <3>1. e + 1 \in Nat
      BY <1>3
    <3> QED
      BY <2>4, <3>1, SaidIs
  <2> QED
    BY <2>1, <2>2, <2>3, <2>4
<1> HIDE DEF d, e
<1>11. /\ since \in Nat \cup {NoFigure} /\ seeding \in Nat \cup {NoFigure} /\ haRuns \in BOOLEAN
       /\ since # NoFigure => haRuns /\ since <= hour /\ LearnDate(since) = d
       /\ seeding # NoFigure => seeding <= d
  BY <1>1 DEF LearnTypeOK, InStep, d
<1>12. LearnTypeOK'
  <2>1. hour' \in 0..(3 * LearnDays + 2)
    BY <1>2, LearningAssumption
  <2> QED
    BY <1>4, <1>5, <1>8, <1>9, <1>10, <1>11, <2>1 DEF LearnTypeOK
<1>13. InStep'
  <2>1. since' # NoFigure => haRuns /\ since' <= hour' /\ LearnDate(since') = e /\ since' # hour'
    <3>1. since # NoFigure => since <= hour + 1 /\ since # hour + 1
      BY <1>2, <1>11
    <3> QED
      BY <1>2, <1>9, <1>11, <3>1
  <2>2. seeding' # NoFigure => seeding' <= e
    <3>1. \A n \in Nat : n <= d => n <= e
      BY <1>2, <1>3
    <3> QED
      BY <1>8, <1>11, <3>1
  <2>3. hour' # NoFigure
    BY <1>2, NoFigureIsNone
  <2> QED
    BY <1>2, <1>8, <1>9, <1>10, <2>1, <2>2, <2>3 DEF InStep
<1> QED
  BY <1>4, <1>5, <1>9, <1>12, <1>13 DEF LearnInv

LEMMA SeedLearns == LearnInv /\ Seed => LearnInv'
<1> SUFFICES ASSUME LearnInv, Seed
             PROVE  LearnInv'
  OBVIOUS
<1>1. /\ LearnTypeOK /\ InStep /\ RecorderTrue(recorder, sunGiven) /\ haRuns /\ seeding # NoFigure
      /\ LearnedTrue(learned, hour, sunGiven, recorder) /\ LearnedTrue(kept, hour, sunGiven, recorder)
  BY DEF LearnInv, Seed
<1>2. UNCHANGED <<hour, sunGiven, shown, haRuns, since, recorder>> /\ seeding' = NoFigure
  BY DEF Seed
<1>3. LearnToday \in LearnedDays /\ learned.reset = LearnToday /\ seeding \in LearnedDays /\ seeding <= LearnToday
      /\ seeding \in Nat /\ LearnToday \in Nat
  <2>1. LearnDays \in Nat
    BY LearningAssumption
  <2>2. hour \in Nat /\ hour <= 3 * LearnDays + 2 /\ seeding \in Nat /\ seeding <= LearnToday /\ learned.reset = LearnToday
    BY <1>1, <2>1 DEF LearnTypeOK, InStep
  <2>3. LearnToday \in LearnedDays /\ LearnToday \in Nat
    BY <2>2, LearnDateIs DEF LearnToday
  <2> QED
    BY <2>1, <2>2, <2>3 DEF LearnedDays
<1>4. RatiosTrue(SeedRecords(seeding), learned.reset, sunGiven, recorder)
  <2>1. RatiosTrue(SeedRecords(seeding), seeding, sunGiven, recorder)
    BY <1>1, <1>3, SeedsTrue DEF LearnTypeOK
  <2> QED
    BY <1>3, <2>1, DaysGoOn
<1> DEFINE b == [learned EXCEPT !.ratios = SeedRecords(seeding)]
<1>5. learned \in Learned
  BY <1>1 DEF LearnedTrue
<1>6. /\ b \in Learned /\ b.ratios = SeedRecords(seeding) /\ b.pending = learned.pending /\ b.today = learned.today
      /\ b.solar = learned.solar /\ b.whole = learned.whole /\ b.load = learned.load /\ b.loads = learned.loads
      /\ b.reset = learned.reset
  BY <1>4, <1>5 DEF Learned, RatiosTrue
<1>7. learned' \in {learned, b} /\ kept' \in {kept, learned'}
  BY DEF Seed
<1> HIDE DEF b
<1>8. LearnedTrue(b, hour, sunGiven, recorder)
  BY <1>1, <1>4, <1>6 DEF LearnedTrue
<1>9. LearnedTrue(learned', hour, sunGiven, recorder) /\ LearnedTrue(kept', hour, sunGiven, recorder)
  BY <1>1, <1>7, <1>8
<1>10. learned'.reset = learned.reset /\ learned'.pending = learned.pending
  BY <1>6, <1>7
<1>11. LearnTypeOK' /\ InStep'
  BY <1>1, <1>2, <1>10 DEF LearnTypeOK, InStep, LearnToday
<1> QED
  BY <1>2, <1>9, <1>11 DEF LearnInv

LEMMA StopLearns == LearnInv /\ StopLearning => LearnInv'
<1> SUFFICES ASSUME LearnInv, StopLearning
             PROVE  LearnInv'
  OBVIOUS
<1>1. /\ LearnTypeOK /\ InStep
      /\ LearnedTrue(learned, hour, sunGiven, recorder) /\ LearnedTrue(kept, hour, sunGiven, recorder)
  BY DEF LearnInv
<1>2. /\ UNCHANGED <<hour, sunGiven, shown, recorder>> /\ haRuns' = FALSE /\ since' = NoFigure /\ seeding' = NoFigure
      /\ kept' \in {kept, learned} /\ learned' = kept'
  BY DEF StopLearning
<1>3. LearnTypeOK' /\ InStep'
  BY <1>1, <1>2 DEF LearnTypeOK, InStep, LearnToday
<1> QED
  BY <1>1, <1>2, <1>3 DEF LearnInv

LEMMA StartLearns == LearnInv /\ StartLearning => LearnInv'
<1> SUFFICES ASSUME LearnInv, StartLearning
             PROVE  LearnInv'
  OBVIOUS
<1>1. /\ LearnTypeOK /\ InStep /\ LearnedTrue(kept, hour, sunGiven, recorder) /\ ~haRuns
  BY DEF LearnInv, StartLearning
<1>2. /\ UNCHANGED <<hour, sunGiven, shown, since, recorder>> /\ haRuns' = TRUE
      /\ learned' = CatchUp(kept, LearnToday) /\ kept' = learned' /\ seeding' \in {LearnToday, NoFigure}
  BY DEF StartLearning, SeedingFrom
<1>3. hour \in Nat /\ hour <= 3 * LearnDays + 2 /\ sunGiven \in Suns /\ LearnToday \in Nat
  <2>1. LearnDays \in Nat
    BY LearningAssumption
  <2>2. hour \in Nat /\ hour <= 3 * LearnDays + 2
    BY <1>1, <2>1 DEF LearnTypeOK
  <2> QED
    BY <1>1, <2>2, LearnDateIs DEF LearnTypeOK, LearnToday
<1>4. LearnedTrue(learned', hour, sunGiven, recorder) /\ learned'.reset = LearnToday
  BY <1>1, <1>2, <1>3, CatchUpLearns DEF LearnToday
<1>5. since = NoFigure /\ since' = NoFigure /\ hour # NoFigure /\ LearnToday' = LearnToday
  BY <1>1, <1>2, <1>3, NoFigureIsNone DEF InStep, LearnToday
<1>6. LearnTypeOK' /\ InStep'
  <2>1. LearnToday <= LearnToday
    BY <1>3
  <2> QED
    BY <1>1, <1>2, <1>3, <1>4, <1>5, <2>1 DEF LearnTypeOK, InStep
<1> QED
  BY <1>2, <1>4, <1>6 DEF LearnInv

LEMMA LearnStarts == LearnInit => LearnInv
<1> SUFFICES ASSUME LearnInit
             PROVE  LearnInv
  OBVIOUS
<1>1. LearnDays \in Nat
  BY LearningAssumption
<1>2. PICK remembered \in {Unsaid} \cup {Said(f, 0) : f \in {g \in Forecasts : g.shaped}} :
        learned = [NothingLearned EXCEPT !.today = remembered]
  BY DEF LearnInit
<1>3. remembered \in Sayings /\ OfDay(remembered, 0)
  BY SaidIs, UnsaidIs
<1>4. /\ learned \in Learned /\ learned.pending = Unsaid /\ learned.today = remembered /\ learned.solar = 0
      /\ learned.whole = FALSE /\ learned.ratios = <<>> /\ learned.load = NoLoad /\ learned.loads = <<>>
      /\ learned.reset = 0
  <2>1. learned = [pending |-> Unsaid, today |-> remembered, solar |-> 0, whole |-> FALSE, clipped |-> FALSE,
                   ratios |-> <<>>, load |-> NoLoad, loads |-> <<>>, reset |-> 0]
    BY <1>2 DEF NothingLearned
  <2>2. Unsaid \in Sayings /\ NoLoad \in LoadToday
    BY UnsaidIs, NoLoadIs DEF LoadToday
  <2>3. <<>> \in Seq(Ratio) /\ <<>> \in Seq(DayLoad) /\ 0 \in Nat /\ FALSE \in BOOLEAN
    OBVIOUS
  <2>4. learned \in [pending: Sayings, today: Sayings, solar: Nat, whole: BOOLEAN, clipped: BOOLEAN,
                     ratios: Seq(Ratio), load: LoadToday, loads: Seq(DayLoad), reset: Nat]
    BY <1>3, <2>1, <2>2, <2>3
  <2>5. learned \in Learned
    BY <2>4 DEF Learned, LoadToday
  <2> QED
    BY <2>1, <2>5
<1>5. hour = 0 /\ sunGiven \in Suns /\ sunGiven[0] = 0 /\ SunNow(hour, sunGiven) /\ 0 <= LearnDate(hour) /\ LearnToday = 0
  <2>1. hour = 0 /\ sunGiven = [d \in LearnedDays |-> 0] /\ 0 \in LearnedDays
    BY <1>1 DEF LearnInit, LearnedDays
  <2>2. \A d \in LearnedDays : ~(3 * d + 1 <= 0)
    BY DEF LearnedDays
  <2>3. LearnDate(0) = 0
    BY DEF LearnDate
  <2> QED
    BY <2>1, <2>2, <2>3 DEF Suns, SunNow, LearnToday
<1>6. LearnedTrue(learned, hour, sunGiven, recorder)
  <2>1. RatiosTrue(<<>>, 0, sunGiven, recorder) /\ LoadsTrue(<<>>, 0)
    BY DEF RatiosTrue, LoadsTrue
  <2>2. OfDay(Unsaid, 0 + 1) /\ LoadOf(NoLoad, 0) /\ 0 <= 0
    BY UnsaidIs, NoLoadIs
  <2> QED
    BY <1>3, <1>4, <1>5, <2>1, <2>2 DEF LearnedTrue
<1>7. kept = learned /\ recorder \in Recorders /\ RecorderTrue(recorder, sunGiven)
  BY DEF LearnInit, Recorders, RecorderTrue, LearnedDays
<1>8. LearnTypeOK
  BY <1>1, <1>5, <1>7, UnsaidIs DEF LearnInit, LearnTypeOK
<1>9. InStep
  BY <1>4, <1>5, <1>8, UnsaidIs, NoFigureIsNone DEF LearnInit, InStep
<1> QED
  BY <1>5, <1>6, <1>7, <1>8, <1>9 DEF LearnInv

LEMMA LearnKeeps == LearnInv /\ [LearnNext]_learnVars => LearnInv'
<1> SUFFICES ASSUME LearnInv, [LearnNext]_learnVars
             PROVE  LearnInv'
  OBVIOUS
<1>1. CASE UNCHANGED learnVars
  BY <1>1 DEF learnVars, LearnInv, LearnTypeOK, InStep, LearnToday
<1>2. CASE LearnNext
  BY <1>2, CycleLearns, TickLearns, SeedLearns, StopLearns, StartLearns DEF LearnNext
<1> QED
  BY <1>1, <1>2

LEMMA LearnedIsSound == LearnInv => FiguresOfTheirDay /\ PairsAreOfOneDay /\ LoadsOfTheirDay /\ PlanOfItsDay
<1> SUFFICES ASSUME LearnInv
             PROVE  FiguresOfTheirDay /\ PairsAreOfOneDay /\ LoadsOfTheirDay /\ PlanOfItsDay
  OBVIOUS
<1>1. LearnTypeOK /\ InStep /\ LearnedTrue(learned, hour, sunGiven, recorder)
  BY DEF LearnInv
<1>2. /\ learned \in Learned /\ learned.reset \in Nat /\ learned.reset <= LearnToday /\ LearnToday \in Nat
      /\ haRuns => learned.reset = LearnToday
      /\ OfDay(learned.pending, learned.reset + 1) /\ OfDay(learned.today, learned.reset)
      /\ RatiosTrue(learned.ratios, learned.reset, sunGiven, recorder) /\ LoadsTrue(learned.loads, learned.reset)
      /\ shown \in Sayings /\ OfDay(shown, LearnToday + 1)
  <2>1. hour \in Nat
    BY <1>1, LearningAssumption DEF LearnTypeOK
  <2>2. LearnToday \in Nat
    BY <2>1, LearnDateIs DEF LearnToday
  <2> QED
    BY <1>1, <2>2 DEF LearnTypeOK, InStep, LearnedTrue, Learned, LearnToday
<1>3. FiguresOfTheirDay
  <2>1. haRuns => OfDay(learned.pending, LearnToday + 1) /\ OfDay(learned.today, LearnToday)
    BY <1>2
  <2> QED
    BY <2>1 DEF FiguresOfTheirDay, OfDay
<1>4. PairsAreOfOneDay
  <2> DEFINE ratios == learned.ratios
  <2>1. /\ ratios \in Seq(Ratio) /\ DOMAIN ratios = 1..Len(ratios)
        /\ \A i \in 1..Len(ratios) : RatioTrue(ratios[i], sunGiven, recorder) /\ ratios[i].day < learned.reset
        /\ \A i, j \in 1..Len(ratios) : i < j => ratios[i].day < ratios[j].day
    <3>1. RatiosTrue(ratios, learned.reset, sunGiven, recorder)
      BY <1>2
    <3> HIDE DEF ratios
    <3>2. ratios \in Seq(Ratio)
      BY <3>1 DEF RatiosTrue
    <3>3. DOMAIN ratios = 1..Len(ratios)
      BY <3>2
    <3> QED
      BY <3>1, <3>2, <3>3 DEF RatiosTrue
  <2>2. \A i \in 1..Len(ratios) : ratios[i] \in Ratio
    BY <2>1, ElementOfSeq
  <2> HIDE DEF ratios
  <2>3. \A i \in 1..Len(ratios) : ratios[i].day < LearnToday
    <3>1. \A i \in 1..Len(ratios) : ratios[i].day \in Nat
      BY <2>2 DEF Ratio
    <3>2. \A x, y, z \in Nat : x < y /\ y <= z => x < z
      OBVIOUS
    <3> QED
      BY <1>2, <2>1, <3>1, <3>2
  <2> QED
    BY <2>1, <2>3 DEF PairsAreOfOneDay, RatioTrue, ratios
<1>5. LoadsOfTheirDay
  BY <1>2 DEF LoadsTrue, LoadsOfTheirDay
<1>6. PlanOfItsDay
  <2>1. SUFFICES ASSUME haRuns
                 PROVE  LET forecast == SolarForecast(hour, shown, learned)
                        IN /\ forecast.said.p50 # NoFigure => forecast.said.p50.day = PlanDayAt(hour)
                           /\ forecast.d2 # NoFigure => forecast.d2 = PlanDayAt(hour) + 1
    BY DEF PlanOfItsDay
  <2>2. /\ learned.today.p50 # NoFigure => learned.today.p50.day = LearnToday
        /\ shown.p50 # NoFigure => shown.p50.day = LearnToday + 1
    BY <1>2, <2>1 DEF OfDay
  <2>3. CASE SmallHours(hour)
    BY <2>2, <2>3 DEF SolarForecast, PlanDayAt, LearnToday
  <2>4. CASE ~SmallHours(hour)
    BY <2>2, <2>4 DEF SolarForecast, PlanDayAt, LearnToday
  <2> QED
    BY <2>3, <2>4
<1> QED
  BY <1>3, <1>4, <1>5, <1>6

LEMMA MidnightKeepsSaid ==
  ASSUME LearnInv, LearnTick, haRuns, since = hour, LearnDate(hour') # LearnToday,
         shown.p50 # NoFigure, shown.p50.kwh > 0, learned.pending.p10 = shown.p10
  PROVE  LET before == SolarForecast(hour, shown, learned)
             after == SolarForecast(hour', shown', learned')
         IN /\ after.said = before.said
            /\ CorrectionOf(learned'.ratios) = CorrectionOf(learned.ratios)
                 => ResolvedKwh(after, learned') = ResolvedKwh(before, learned)
<1> DEFINE before == SolarForecast(hour, shown, learned)
           after == SolarForecast(hour', shown', learned')
<1>1. /\ LearnTypeOK /\ InStep /\ LearnedTrue(learned, hour, sunGiven, recorder)
  BY DEF LearnInv
<1>2. hour' = hour + 1 /\ hour \in Nat /\ (hour + 1) % 3 = 0 /\ hour % 3 # 0
  <2>1. /\ hour \in Nat /\ hour' = hour + 1
        /\ \/ LearnDate(hour + 1) = LearnToday
           \/ hour - 3 * LearnToday = 2 /\ (hour + 1) % 3 = 0
    BY <1>1, NextTick
  <2>2. (hour + 1) % 3 = 0
    BY <2>1
  <2>3. hour % 3 # 0
    BY <2>1, <2>2
  <2> QED
    BY <2>1, <2>2, <2>3
<1>3. learned.pending = shown
  <2>1. learned.pending \in Sayings /\ shown \in Sayings
    BY <1>1 DEF LearnedTrue, Learned, LearnTypeOK
  <2>2. learned.pending.p50 = shown.p50 /\ learned.pending.shape = shown.shape
    BY <1>1 DEF InStep
  <2> QED
    BY <2>1, <2>2 DEF Sayings
<1>4. learned'.today = learned.pending
  <2>1. learned' = LearnMidnight(learned, LearnDate(hour'))
    BY DEF LearnTick
  <2>2. /\ LearnDate(hour + 1) \in LearnedDays /\ LearnDate(hour + 1) = LearnToday + 1 /\ learned.reset = LearnToday
        /\ hour + 1 \in Nat /\ hour + 1 <= 3 * LearnDays + 2
    BY <1>1, <1>2, NextTick DEF InStep
  <2>3. sunGiven \in Suns /\ LearnedTrue(learned, hour + 1, sunGiven, recorder)
    <3>1. sunGiven \in Suns /\ hour <= hour + 1
      BY <1>1, <1>2 DEF LearnTypeOK
    <3>2. \A y \in LearnedDays : sunGiven[y] <= sunGiven[y]
      BY <3>1 DEF Suns
    <3> QED
      BY <1>1, <1>2, <2>2, <3>1, <3>2, StaysTrue
  <2>4. LearnDate(hour + 1) <= LearnDate(hour + 1)
    BY <2>2 DEF LearnedDays
  <2>5. LearnMidnight(learned, LearnDate(hour + 1)).today = learned.pending
    BY <2>2, <2>3, <2>4, MidnightLearns
  <2> QED
    BY <1>2, <2>1, <2>5
<1>5. before.said = shown
  BY <1>2 DEF SolarForecast, SmallHours
<1>6. after.said = learned'.today
  BY <1>2 DEF SolarForecast, SmallHours
<1>7. after.said = before.said
  BY <1>3, <1>4, <1>5, <1>6
<1> HIDE DEF before, after
<1>8. CorrectionOf(learned'.ratios) = CorrectionOf(learned.ratios)
        => ResolvedKwh(after, learned') = ResolvedKwh(before, learned)
  BY <1>7 DEF ResolvedKwh
<1> QED
  BY <1>7, <1>8 DEF before, after

\* A midnight is a tick.
LEMMA OnlyTicksPass == LearnInv /\ [LearnNext]_learnVars /\ LearnDate(hour') # LearnToday => LearnTick
BY DEF LearnNext, learnVars, LearnCycle, Seed, StopLearning, StartLearning, LearnToday

\* LearningIsSound for every number of days, forecast and constant: what is learned belongs to the
\* day since the last midnight that was seen, also in the store and while midnights are missed.
THEOREM LearningHolds == LearnSpec => LearningIsSound
<1> DEFINE KeepsSaid == (haRuns /\ since = hour /\ LearnDate(hour') # LearnToday
                    /\ shown.p50 # NoFigure /\ shown.p50.kwh > 0 /\ learned.pending.p10 = shown.p10)
                   => LET before == SolarForecast(hour, shown, learned)
                          after == SolarForecast(hour', shown', learned')
                      IN /\ after.said = before.said
                         /\ CorrectionOf(learned'.ratios) = CorrectionOf(learned.ratios)
                              => ResolvedKwh(after, learned') = ResolvedKwh(before, learned)
           Sound == FiguresOfTheirDay /\ PairsAreOfOneDay /\ LoadsOfTheirDay /\ PlanOfItsDay
<1>1. LearnInit => LearnInv
  BY LearnStarts
<1>2. LearnInv /\ [LearnNext]_learnVars => LearnInv'
  BY LearnKeeps
<1>3. LearnInv => Sound
  BY LearnedIsSound
<1>4. LearnInv /\ [LearnNext]_learnVars => [KeepsSaid]_learnVars
  BY OnlyTicksPass, MidnightKeepsSaid
<1>5. LearningIsSound <=> []Sound /\ [][KeepsSaid]_learnVars
  BY DEF LearningIsSound, MidnightKeepsForecast
<1> HIDE DEF KeepsSaid, Sound
<1> QED
  BY <1>1, <1>2, <1>3, <1>4, <1>5, PTL DEF LearnSpec

-----------------------------------------------------------------------------
(* The half-hourly history. First what is added up over a finite set. *)
Drawn(s) == CHOOSE x \in s : TRUE
SumsUp(T, g, r) == r = [s \in SUBSET T |-> IF s = {} THEN 0 ELSE g[Drawn(s)] + r[s \ {Drawn(s)}]]
SumOver(g, T) == (CHOOSE r : SumsUp(T, g, r))[T]

LEMMA DrawnIs == \A s : s # {} => Drawn(s) \in s
BY DEF Drawn

\* The sums of all that is in a finite set are there.
LEMMA SumsExist ==
  ASSUME NEW T, IsFiniteSet(T), NEW g, \A x \in T : g[x] \in Int
  PROVE  \E r \in [SUBSET T -> Int] : SumsUp(T, g, r)
<1> DEFINE UpTo(n, r) ==
             \A s \in SUBSET T : Cardinality(s) <= n =>
                r[s] = IF s = {} THEN 0 ELSE g[Drawn(s)] + r[s \ {Drawn(s)}]
           S == {n \in Nat : \E r \in [SUBSET T -> Int] : UpTo(n, r)}
<1>1. \A s \in SUBSET T : IsFiniteSet(s) /\ Cardinality(s) \in Nat /\ Cardinality(s) <= Cardinality(T)
  BY FS_Subset, FS_CardinalityType
<1>2. \A s \in SUBSET T : s # {} =>
        /\ Drawn(s) \in T
        /\ s \ {Drawn(s)} \in SUBSET T
        /\ Cardinality(s \ {Drawn(s)}) = Cardinality(s) - 1
  BY <1>1, DrawnIs, FS_RemoveElement
<1>3. \A s \in SUBSET T : Cardinality(s) = 0 => s = {}
  BY <1>1, FS_EmptySet
<1>4. 0 \in S
  <2>1. [s \in SUBSET T |-> 0] \in [SUBSET T -> Int]
    OBVIOUS
  <2>2. UpTo(0, [s \in SUBSET T |-> 0])
    BY <1>1, <1>3
  <2> QED
    BY <2>1, <2>2
<1>5. ASSUME NEW n \in Nat, n \in S
      PROVE  n + 1 \in S
  <2>1. PICK r \in [SUBSET T -> Int] : UpTo(n, r)
    BY <1>5
  <2> DEFINE Next1(s) == IF s = {} THEN 0 ELSE g[Drawn(s)] + r[s \ {Drawn(s)}]
             more == [s \in SUBSET T |-> Next1(s)]
  <2>2. ASSUME NEW s \in SUBSET T
        PROVE  Next1(s) \in Int
    <3>1. CASE s = {}
      BY <3>1
    <3>2. CASE s # {}
      <4>1. g[Drawn(s)] \in Int /\ r[s \ {Drawn(s)}] \in Int
        BY <1>2, <3>2
      <4> QED
        BY <3>2, <4>1
    <3> QED
      BY <3>1, <3>2
  <2>3. more \in [SUBSET T -> Int]
    BY <2>2
  <2>4. \A s \in SUBSET T : Cardinality(s) <= n => more[s] = r[s]
    BY <2>1
  <2>5. ASSUME NEW s \in SUBSET T, Cardinality(s) <= n + 1
        PROVE  more[s] = IF s = {} THEN 0 ELSE g[Drawn(s)] + more[s \ {Drawn(s)}]
    <3>1. CASE s = {}
      BY <3>1
    <3>2. CASE s # {}
      <4>1. Cardinality(s \ {Drawn(s)}) <= n /\ s \ {Drawn(s)} \in SUBSET T
        BY <1>1, <1>2, <2>5, <3>2
      <4>2. more[s \ {Drawn(s)}] = r[s \ {Drawn(s)}]
        BY <2>4, <4>1
      <4> QED
        BY <3>2, <4>2
    <3> QED
      BY <3>1, <3>2
  <2>6. UpTo(n + 1, more)
    BY <2>5
  <2> HIDE DEF more
  <2>7. \E q \in [SUBSET T -> Int] : UpTo(n + 1, q)
    BY <2>3, <2>6, Zenon
  <2> HIDE DEF UpTo
  <2> QED
    BY <2>7
<1>6. S \in SUBSET Nat
  OBVIOUS
<1>7. Cardinality(T) \in Nat
  BY FS_CardinalityType
<1> HIDE DEF S
<1>8. Cardinality(T) \in S
  BY <1>4, <1>5, <1>6, <1>7, LeastOut
<1>9. PICK r \in [SUBSET T -> Int] : UpTo(Cardinality(T), r)
  BY <1>8 DEF S
<1>10. \A s \in SUBSET T : r[s] = IF s = {} THEN 0 ELSE g[Drawn(s)] + r[s \ {Drawn(s)}]
  BY <1>1, <1>9
<1>11. SumsUp(T, g, r)
  BY <1>10 DEF SumsUp
<1> QED
  BY <1>11

\* Sums of the same over sets of which one is in the other agree.
LEMMA SumsAlike ==
  ASSUME NEW T, IsFiniteSet(T), NEW U, T \subseteq U, NEW g, NEW h, NEW r, NEW q,
         SumsUp(T, g, r), SumsUp(U, h, q), \A x \in T : g[x] = h[x]
  PROVE  r[T] = q[T]
<1> DEFINE S == {n \in Nat : \A s \in SUBSET T : Cardinality(s) <= n => r[s] = q[s]}
<1>1. \A s \in SUBSET T : IsFiniteSet(s) /\ Cardinality(s) \in Nat /\ Cardinality(s) <= Cardinality(T)
  BY FS_Subset, FS_CardinalityType
<1>2. \A s \in SUBSET T : s # {} =>
        /\ Drawn(s) \in T
        /\ s \ {Drawn(s)} \in SUBSET T
        /\ Cardinality(s \ {Drawn(s)}) = Cardinality(s) - 1
  BY <1>1, DrawnIs, FS_RemoveElement
<1>3. \A s \in SUBSET T : Cardinality(s) = 0 => s = {}
  BY <1>1, FS_EmptySet
<1>4. \A s \in SUBSET T : r[s] = IF s = {} THEN 0 ELSE g[Drawn(s)] + r[s \ {Drawn(s)}]
  BY DEF SumsUp
<1>5. \A s \in SUBSET T : q[s] = IF s = {} THEN 0 ELSE h[Drawn(s)] + q[s \ {Drawn(s)}]
  BY DEF SumsUp
<1>6. 0 \in S
  <2>1. ASSUME NEW s \in SUBSET T, Cardinality(s) <= 0
        PROVE  r[s] = q[s]
    <3>1. s = {}
      BY <1>1, <1>3, <2>1
    <3>2. r[s] = 0
      BY <1>4, <3>1
    <3>3. q[s] = 0
      BY <1>5, <3>1
    <3> QED
      BY <3>2, <3>3
  <2> QED
    BY <2>1
<1>7. ASSUME NEW n \in Nat, n \in S
      PROVE  n + 1 \in S
  <2>1. ASSUME NEW s \in SUBSET T, Cardinality(s) <= n + 1
        PROVE  r[s] = q[s]
    <3>1. CASE s = {}
      BY <1>4, <1>5, <3>1
    <3>2. CASE s # {}
      <4>1. Cardinality(s \ {Drawn(s)}) <= n /\ s \ {Drawn(s)} \in SUBSET T
        BY <1>1, <1>2, <2>1, <3>2
      <4>2. r[s \ {Drawn(s)}] = q[s \ {Drawn(s)}]
        BY <1>7, <4>1
      <4>3. g[Drawn(s)] = h[Drawn(s)]
        BY <1>2, <3>2
      <4> QED
        BY <1>4, <1>5, <3>2, <4>2, <4>3
    <3> QED
      BY <3>1, <3>2
  <2> QED
    BY <2>1
<1>8. S \in SUBSET Nat
  OBVIOUS
<1>9. Cardinality(T) \in Nat
  BY FS_CardinalityType
<1> HIDE DEF S
<1>10. Cardinality(T) \in S
  BY <1>6, <1>7, <1>8, <1>9, LeastOut
<1> QED
  BY <1>1, <1>10 DEF S

Figured(T, g) == IsFiniteSet(T) /\ \A x \in T : g[x] \in Int

\* A total is the sums' over any set around.
LEMMA TotalIn ==
  ASSUME NEW T, NEW U, NEW g, NEW h, Figured(T, g), Figured(U, h), T \subseteq U, \A x \in T : g[x] = h[x]
  PROVE  \A r : SumsUp(U, h, r) => SumOver(g, T) = r[T]
<1>1. \E r : SumsUp(T, g, r)
  BY SumsExist DEF Figured
<1>2. SumsUp(T, g, CHOOSE r : SumsUp(T, g, r))
  BY <1>1
<1> DEFINE mine == CHOOSE r : SumsUp(T, g, r)
<1>3. SumOver(g, T) = mine[T]
  BY DEF SumOver
<1>4. SumsUp(T, g, mine)
  BY <1>2
<1> HIDE DEF mine
<1>5. ASSUME NEW r, SumsUp(U, h, r)
      PROVE  mine[T] = r[T]
  BY <1>4, <1>5, SumsAlike DEF Figured
<1> QED
  BY <1>3, <1>5

\* It takes what is counted out one by one.
LEMMA TotalIs ==
  ASSUME NEW T, NEW g, Figured(T, g)
  PROVE  /\ SumOver(g, T) \in Int
         /\ T = {} => SumOver(g, T) = 0
         /\ T # {} => /\ Drawn(T) \in T
                      /\ Figured(T \ {Drawn(T)}, g)
                      /\ SumOver(g, T) = g[Drawn(T)] + SumOver(g, T \ {Drawn(T)})
<1>1. PICK r \in [SUBSET T -> Int] : SumsUp(T, g, r)
  BY SumsExist DEF Figured
<1>2. SumOver(g, T) = r[T]
  BY <1>1, TotalIn
<1>3. r[T] = IF T = {} THEN 0 ELSE g[Drawn(T)] + r[T \ {Drawn(T)}]
  BY <1>1 DEF SumsUp
<1>4. ASSUME T # {}
      PROVE  /\ Drawn(T) \in T
             /\ Figured(T \ {Drawn(T)}, g)
             /\ SumOver(g, T) = g[Drawn(T)] + SumOver(g, T \ {Drawn(T)})
  <2>1. Drawn(T) \in T
    BY <1>4, DrawnIs
  <2>2. Figured(T \ {Drawn(T)}, g)
    BY FS_RemoveElement DEF Figured
  <2>3. SumOver(g, T \ {Drawn(T)}) = r[T \ {Drawn(T)}]
    BY <1>1, <2>2, TotalIn
  <2> QED
    BY <1>2, <1>3, <1>4, <2>1, <2>2, <2>3
<1> QED
  BY <1>1, <1>2, <1>3, <1>4

\* The same figures have the same total.
LEMMA TotalSame ==
  ASSUME NEW T, NEW g, NEW h, Figured(T, g), \A x \in T : g[x] = h[x]
  PROVE  SumOver(g, T) = SumOver(h, T)
<1>1. Figured(T, h)
  BY DEF Figured
<1>2. PICK r \in [SUBSET T -> Int] : SumsUp(T, h, r)
  BY <1>1, SumsExist DEF Figured
<1>3. SumOver(g, T) = r[T]
  BY <1>1, <1>2, TotalIn
<1>4. SumOver(h, T) = r[T]
  BY <1>1, <1>2, TotalIn
<1> QED
  BY <1>3, <1>4

LEMMA FiguredParts ==
  ASSUME NEW T, NEW g, Figured(T, g), NEW U \in SUBSET T
  PROVE  Figured(U, g) /\ Cardinality(U) \in Nat
BY FS_Subset, FS_CardinalityType DEF Figured

\* One more figure is one more to the total, whichever comes first.
LEMMA OneMoreIn ==
  ASSUME NEW W, NEW g, Figured(W, g), NEW s \in SUBSET W, NEW x \in W, x \notin s
  PROVE  SumOver(g, s \cup {x}) = SumOver(g, s) + g[x]
<1> DEFINE Adds(t, y) == SumOver(g, t \cup {y}) = SumOver(g, t) + g[y]
           S == {n \in Nat : \A t \in SUBSET W : Cardinality(t) <= n => \A y \in W : y \notin t => Adds(t, y)}
<1>1. \A t \in SUBSET W : Figured(t, g) /\ Cardinality(t) \in Nat /\ IsFiniteSet(t) /\ SumOver(g, t) \in Int
  <2>1. ASSUME NEW t \in SUBSET W
        PROVE  Figured(t, g) /\ Cardinality(t) \in Nat /\ IsFiniteSet(t) /\ SumOver(g, t) \in Int
    <3>1. Figured(t, g) /\ Cardinality(t) \in Nat
      BY FiguredParts
    <3> QED
      BY <3>1, TotalIs DEF Figured
  <2> QED
    BY <2>1
<1>2. \A y \in W : g[y] \in Int
  BY DEF Figured
<1>3. ASSUME NEW t \in SUBSET W, NEW y \in W, y \notin t, Drawn(t \cup {y}) = y
      PROVE  Adds(t, y)
  <2>1. (t \cup {y}) \ {y} = t
    BY <1>3
  <2>2. Figured(t \cup {y}, g)
    BY <1>1
  <2>3. SumOver(g, t \cup {y}) = g[y] + SumOver(g, (t \cup {y}) \ {y})
    BY <1>3, <2>2, TotalIs
  <2>4. SumOver(g, t \cup {y}) = g[y] + SumOver(g, t)
    BY <2>1, <2>3
  <2>5. g[y] \in Int /\ SumOver(g, t) \in Int
    BY <1>1, <1>2
  <2>6. g[y] + SumOver(g, t) = SumOver(g, t) + g[y]
    BY <2>5
  <2> QED
    BY <2>4, <2>6
<1>4. 0 \in S
  <2>1. ASSUME NEW t \in SUBSET W, Cardinality(t) <= 0, NEW y \in W, y \notin t
        PROVE  Adds(t, y)
    <3>1. t = {}
      <4>1. Cardinality(t) = 0 /\ IsFiniteSet(t)
        BY <1>1, <2>1
      <4> QED
        BY <4>1, FS_EmptySet
    <3>2. Drawn(t \cup {y}) = y
      BY <3>1, DrawnIs
    <3> HIDE DEF Adds
    <3> QED
      BY <1>3, <2>1, <3>2
  <2> QED
    BY <2>1
<1>5. ASSUME NEW n \in Nat, n \in S
      PROVE  n + 1 \in S
  <2>1. ASSUME NEW t \in SUBSET W, Cardinality(t) <= n + 1, NEW y \in W, y \notin t
        PROVE  Adds(t, y)
    <3> DEFINE c == Drawn(t \cup {y})
    <3>1. CASE c = y
      BY <1>3, <2>1, <3>1
    <3>2. CASE c # y
      <4>1. c \in t /\ c \in W
        BY <3>2, DrawnIs
      <4>2. Figured(t \cup {y}, g) /\ t \cup {y} # {}
        BY <1>1
      <4>3. SumOver(g, t \cup {y}) = g[c] + SumOver(g, (t \cup {y}) \ {c})
        BY <4>2, TotalIs
      <4> HIDE DEF c
      <4>4. t \ {c} \in SUBSET W /\ Cardinality(t \ {c}) <= n
        <5>1. Cardinality(t \ {c}) = Cardinality(t) - 1
          BY <1>1, <4>1, FS_RemoveElement
        <5> QED
          BY <1>1, <2>1, <5>1
      <4>5. Adds(t \ {c}, y) /\ Adds(t \ {c}, c)
        BY <1>5, <2>1, <4>1, <4>4
      <4>6. (t \cup {y}) \ {c} = (t \ {c}) \cup {y} /\ (t \ {c}) \cup {c} = t
        BY <3>2, <4>1
      <4>7. g[c] \in Int /\ g[y] \in Int /\ SumOver(g, t \ {c}) \in Int
        BY <1>1, <1>2, <4>1, <4>4
      <4>8. SumOver(g, (t \ {c}) \cup {y}) = SumOver(g, t \ {c}) + g[y]
        BY <4>5
      <4>9. SumOver(g, t) = SumOver(g, t \ {c}) + g[c]
        BY <4>5, <4>6
      <4>10. SumOver(g, t \cup {y}) = g[c] + (SumOver(g, t \ {c}) + g[y])
        BY <4>3, <4>6, <4>8
      <4>11. \A a, b, k \in Int : a + (b + k) = (b + a) + k
        OBVIOUS
      <4>12. g[c] + (SumOver(g, t \ {c}) + g[y]) = (SumOver(g, t \ {c}) + g[c]) + g[y]
        BY <4>7, <4>11
      <4> QED
        BY <4>9, <4>10, <4>12
    <3> QED
      BY <3>1, <3>2
  <2> QED
    BY <2>1
<1>6. S \in SUBSET Nat
  OBVIOUS
<1>7. Cardinality(s) \in Nat
  BY <1>1
<1> HIDE DEF S
<1>8. Cardinality(s) \in S
  BY <1>4, <1>5, <1>6, <1>7, LeastOut
<1> QED
  BY <1>7, <1>8 DEF S

LEMMA OneMore ==
  ASSUME NEW T, NEW g, Figured(T, g), NEW x, x \notin T, g[x] \in Int
  PROVE  Figured(T \cup {x}, g) /\ SumOver(g, T \cup {x}) = SumOver(g, T) + g[x]
<1>1. Figured(T \cup {x}, g)
  BY FS_AddElement DEF Figured
<1> QED
  BY <1>1, OneMoreIn

\* Nothing is the total of nothings, and a total goes part by part.
LEMMA NothingAtAll ==
  ASSUME NEW T, NEW g, IsFiniteSet(T), \A x \in T : g[x] = 0
  PROVE  SumOver(g, T) = 0
<1> DEFINE S == {n \in Nat : \A t \in SUBSET T : Cardinality(t) <= n => SumOver(g, t) = 0}
<1>1. Figured(T, g)
  BY DEF Figured
<1>2. \A t \in SUBSET T : Figured(t, g) /\ Cardinality(t) \in Nat /\ IsFiniteSet(t)
  BY <1>1, FiguredParts DEF Figured
<1>3. 0 \in S
  <2>1. ASSUME NEW t \in SUBSET T, Cardinality(t) <= 0
        PROVE  SumOver(g, t) = 0
    <3>1. Cardinality(t) = 0 /\ IsFiniteSet(t)
      BY <1>2, <2>1
    <3>2. t = {}
      BY <3>1, FS_EmptySet
    <3> QED
      BY <1>2, <3>2, TotalIs
  <2> QED
    BY <2>1
<1>4. ASSUME NEW n \in Nat, n \in S
      PROVE  n + 1 \in S
  <2>1. ASSUME NEW t \in SUBSET T, Cardinality(t) <= n + 1
        PROVE  SumOver(g, t) = 0
    <3>1. CASE t = {}
      BY <1>2, <3>1, TotalIs
    <3>2. CASE t # {}
      <4>1. Drawn(t) \in t /\ SumOver(g, t) = g[Drawn(t)] + SumOver(g, t \ {Drawn(t)})
        BY <1>2, <3>2, TotalIs
      <4>2. Cardinality(t \ {Drawn(t)}) = Cardinality(t) - 1
        BY <1>2, <4>1, FS_RemoveElement
      <4>3. Cardinality(t \ {Drawn(t)}) <= n
        BY <1>2, <2>1, <4>2
      <4>4. SumOver(g, t \ {Drawn(t)}) = 0
        BY <1>4, <4>3
      <4> QED
        BY <4>1, <4>4
    <3> QED
      BY <3>1, <3>2
  <2> QED
    BY <2>1
<1>5. S \in SUBSET Nat
  OBVIOUS
<1>6. Cardinality(T) \in Nat
  BY <1>2
<1> HIDE DEF S
<1>7. Cardinality(T) \in S
  BY <1>3, <1>4, <1>5, <1>6, LeastOut
<1> QED
  BY <1>6, <1>7 DEF S

LEMMA PartByPart ==
  ASSUME NEW A, NEW B, NEW g, Figured(A, g), Figured(B, g), A \cap B = {}
  PROVE  Figured(A \cup B, g) /\ SumOver(g, A \cup B) = SumOver(g, A) + SumOver(g, B)
<1> DEFINE S == {n \in Nat : \A t \in SUBSET B : Cardinality(t) <= n => SumOver(g, A \cup t) = SumOver(g, A) + SumOver(g, t)}
<1>1. \A t \in SUBSET B : Figured(t, g) /\ Cardinality(t) \in Nat /\ IsFiniteSet(t) /\ SumOver(g, t) \in Int
  <2>1. ASSUME NEW t \in SUBSET B
        PROVE  Figured(t, g) /\ Cardinality(t) \in Nat /\ IsFiniteSet(t) /\ SumOver(g, t) \in Int
    <3>1. Figured(t, g) /\ Cardinality(t) \in Nat
      BY FiguredParts
    <3> QED
      BY <3>1, TotalIs DEF Figured
  <2> QED
    BY <2>1
<1>2. Figured(A \cup B, g)
  BY FS_Union DEF Figured
<1>3. SumOver(g, A) \in Int
  BY TotalIs
<1>4. 0 \in S
  <2>1. ASSUME NEW t \in SUBSET B, Cardinality(t) <= 0
        PROVE  SumOver(g, A \cup t) = SumOver(g, A) + SumOver(g, t)
    <3>1. Cardinality(t) = 0 /\ IsFiniteSet(t)
      BY <1>1, <2>1
    <3>2. t = {}
      BY <3>1, FS_EmptySet
    <3>3. SumOver(g, t) = 0 /\ SumOver(g, A \cup t) = SumOver(g, A)
      <4>1. A \cup t = A
        BY <3>2
      <4> QED
        BY <1>1, <3>2, <4>1, TotalIs
    <3> QED
      BY <1>3, <3>3
  <2> QED
    BY <2>1
<1>5. ASSUME NEW n \in Nat, n \in S
      PROVE  n + 1 \in S
  <2>1. ASSUME NEW t \in SUBSET B, Cardinality(t) <= n + 1
        PROVE  SumOver(g, A \cup t) = SumOver(g, A) + SumOver(g, t)
    <3>1. CASE t = {}
      <4>1. A \cup t = A
        BY <3>1
      <4>2. SumOver(g, t) = 0 /\ SumOver(g, A \cup t) = SumOver(g, A)
        BY <1>1, <3>1, <4>1, TotalIs
      <4> QED
        BY <1>3, <4>2
    <3>2. CASE t # {}
      <4> DEFINE c == Drawn(t)
                 u == t \ {c}
      <4>1. c \in t /\ c \in B /\ c \notin A /\ SumOver(g, t) = g[c] + SumOver(g, u)
        BY <1>1, <3>2, TotalIs
      <4>2. Cardinality(u) = Cardinality(t) - 1 /\ u \in SUBSET B
        BY <1>1, <4>1, FS_RemoveElement
      <4>3. Cardinality(u) <= n
        BY <1>1, <2>1, <4>2
      <4>4. SumOver(g, A \cup u) = SumOver(g, A) + SumOver(g, u)
        BY <1>5, <4>2, <4>3
      <4>5. A \cup t = (A \cup u) \cup {c} /\ c \notin A \cup u /\ A \cup u \in SUBSET (A \cup B) /\ c \in A \cup B
        BY <4>1
      <4>6. SumOver(g, (A \cup u) \cup {c}) = SumOver(g, A \cup u) + g[c]
        BY <1>2, <4>5, OneMoreIn
      <4>7. g[c] \in Int /\ SumOver(g, u) \in Int
        BY <1>1, <4>1, <4>2 DEF Figured
      <4> HIDE DEF c, u
      <4>8. SumOver(g, A \cup t) = (SumOver(g, A) + SumOver(g, u)) + g[c]
        BY <4>4, <4>5, <4>6
      <4>9. \A a, b, k \in Int : (a + b) + k = a + (k + b)
        OBVIOUS
      <4>10. (SumOver(g, A) + SumOver(g, u)) + g[c] = SumOver(g, A) + (g[c] + SumOver(g, u))
        BY <1>3, <4>7, <4>9
      <4> QED
        BY <4>1, <4>8, <4>10
    <3> QED
      BY <3>1, <3>2
  <2> QED
    BY <2>1
<1>6. S \in SUBSET Nat
  OBVIOUS
<1>7. Cardinality(B) \in Nat
  BY <1>1
<1> HIDE DEF S
<1>8. Cardinality(B) \in S
  BY <1>4, <1>5, <1>6, <1>7, LeastOut
<1> QED
  BY <1>2, <1>7, <1>8 DEF S

-----------------------------------------------------------------------------
(* The days and their half hours. *)
DaysThere == {m \in SlotMidnights : \E n \in SlotMidnights : m < n}
SlotTime == FirstDay..LastTick

LEMMA LargestIs ==
  ASSUME NEW M, M \subseteq Nat, NEW a \in M, NEW b \in Nat, \A m \in M : m <= b
  PROVE  Max(M) \in M /\ Max(M) \in Nat /\ \A m \in M : m <= Max(M)
<1> DEFINE S == {k \in Nat : \E m \in M : k <= m}
<1>1. 0 \in S /\ S \in SUBSET Nat /\ b + 1 \notin S /\ b + 1 \in Nat
  OBVIOUS
<1> HIDE DEF S
<1>2. PICK k \in Nat : k \in S /\ k + 1 \notin S
  BY <1>1, LeastOut
<1>3. k \in M /\ \A m \in M : k >= m
  BY <1>2 DEF S
<1>4. \E x \in M : \A y \in M : x >= y
  BY <1>3
<1>5. Max(M) \in M /\ \A y \in M : Max(M) >= y
  BY <1>4 DEF Max
<1> QED
  BY <1>5

LEMMA SmallestIs ==
  ASSUME NEW M, M \subseteq Nat, NEW a \in M
  PROVE  Min(M) \in M /\ Min(M) \in Nat /\ \A m \in M : Min(M) <= m
<1> DEFINE S == {k \in Nat : \A m \in M : k <= m}
<1>1. 0 \in S /\ S \in SUBSET Nat /\ a + 1 \notin S /\ a + 1 \in Nat
  OBVIOUS
<1> HIDE DEF S
<1>2. PICK k \in Nat : k \in S /\ k + 1 \notin S
  BY <1>1, LeastOut
<1>3. PICK m \in M : ~(k + 1 <= m)
  BY <1>2 DEF S
<1>4. k <= m
  BY <1>2 DEF S
<1>5. m = k
  BY <1>3, <1>4
<1>6. \E x \in M : \A y \in M : x <= y
  BY <1>2, <1>5 DEF S
<1>7. Min(M) \in M /\ \A y \in M : Min(M) <= y
  BY <1>6 DEF Min
<1> QED
  BY <1>7

\* The first day starts the time there is and the last midnight ends it.
LEMMA TimeIs ==
  /\ FirstDay \in SlotMidnights /\ FirstDay \in Nat /\ \A m \in SlotMidnights : FirstDay <= m
  /\ LastTick + 1 \in SlotMidnights /\ LastTick \in Nat /\ \A m \in SlotMidnights : m <= LastTick + 1
  /\ FirstDay <= LastTick
<1>1. PICK ending \in SlotMidnights : (\A m \in SlotMidnights : m <= ending) /\ (\E m \in SlotMidnights : m < ending)
  BY SlotAssumption
<1>2. SlotMidnights \subseteq Nat /\ ending \in Nat
  BY SlotAssumption
<1>3. FirstDay \in SlotMidnights /\ FirstDay \in Nat /\ \A m \in SlotMidnights : FirstDay <= m
  BY <1>2, SmallestIs DEF FirstDay
<1>4. Max(SlotMidnights) \in SlotMidnights /\ \A m \in SlotMidnights : m <= Max(SlotMidnights)
  BY <1>1, <1>2, LargestIs
<1>5. Max(SlotMidnights) = ending
  <2>1. Max(SlotMidnights) \in Nat /\ ending <= Max(SlotMidnights) /\ Max(SlotMidnights) <= ending
    BY <1>1, <1>2, <1>4
  <2> QED
    BY <1>2, <2>1
<1>6. LastTick = ending - 1
  BY <1>5 DEF LastTick
<1>7. FirstDay < ending
  BY <1>1, <1>2, <1>3
<1> QED
  BY <1>1, <1>2, <1>3, <1>6, <1>7

LEMMA DayEndIs ==
  ASSUME NEW d \in DaysThere
  PROVE  /\ d \in Nat /\ DayEnd(d) \in Nat /\ DayEnd(d) \in SlotMidnights /\ d < DayEnd(d)
         /\ \A m \in SlotMidnights : d < m => DayEnd(d) <= m
<1>1. SlotMidnights \subseteq Nat
  BY SlotAssumption
<1>2. PICK n \in SlotMidnights : d < n
  BY DEF DaysThere
<1> DEFINE later == {m \in SlotMidnights : m > d}
<1>3. d \in SlotMidnights /\ d \in Nat
  BY <1>1 DEF DaysThere
<1>4. later \subseteq Nat /\ n \in later
  BY <1>1, <1>2, <1>3
<1>5. Min(later) \in later /\ Min(later) \in Nat /\ \A m \in later : Min(later) <= m
  BY <1>4, SmallestIs
<1>6. DayEnd(d) = Min(later)
  BY DEF DayEnd
<1> QED
  BY <1>1, <1>3, <1>5, <1>6

\* The day of a tick is the one it lies in.
LEMMA DayOfTick ==
  ASSUME NEW t \in SlotTime
  PROVE  /\ t \in Nat /\ SlotDayOf(t) \in DaysThere
         /\ SlotDayOf(t) <= t /\ t < DayEnd(SlotDayOf(t))
         /\ FirstDay <= SlotDayOf(t)
<1>1. SlotMidnights \subseteq Nat
  BY SlotAssumption
<1>2. t \in Nat /\ FirstDay <= t /\ t < LastTick + 1
  BY TimeIs DEF SlotTime
<1> DEFINE sooner == {m \in SlotMidnights : m <= t}
           d == Max(sooner)
<1>3. sooner \subseteq Nat /\ FirstDay \in sooner /\ \A m \in sooner : m <= t
  BY <1>1, <1>2, TimeIs
<1>4. d \in sooner /\ d \in Nat /\ \A m \in sooner : m <= d
  BY <1>2, <1>3, LargestIs
<1>5. SlotDayOf(t) = d
  BY DEF SlotDayOf
<1>6. d \in SlotMidnights /\ d <= t /\ \A m \in SlotMidnights : m <= t => m <= d
  BY <1>4
<1> HIDE DEF d, sooner
<1>7. d \in DaysThere
  BY <1>2, <1>4, <1>6, TimeIs DEF DaysThere
<1>8. t < DayEnd(d)
  BY <1>1, <1>2, <1>6, <1>7, DayEndIs
<1>9. FirstDay <= d
  BY <1>6, TimeIs
<1> QED
  BY <1>2, <1>5, <1>6, <1>7, <1>8, <1>9

LEMMA DayOfIsThat ==
  ASSUME NEW d \in DaysThere, NEW t \in SlotTime, d <= t, t < DayEnd(d)
  PROVE  SlotDayOf(t) = d
<1>1. SlotDayOf(t) \in DaysThere /\ SlotDayOf(t) <= t /\ t < DayEnd(SlotDayOf(t)) /\ t \in Nat
  BY DayOfTick
<1>2. d \in SlotMidnights /\ SlotDayOf(t) \in SlotMidnights
  BY <1>1 DEF DaysThere
<1>3. SlotDayOf(t) \in Nat /\ d \in Nat /\ DayEnd(d) \in Nat /\ DayEnd(SlotDayOf(t)) \in Nat
  BY <1>1, DayEndIs
<1>4. ~(d < SlotDayOf(t))
  BY <1>1, <1>2, <1>3, DayEndIs
<1>5. ~(SlotDayOf(t) < d)
  BY <1>1, <1>2, <1>3, DayEndIs
<1> QED
  BY <1>3, <1>4, <1>5

\* A day is made of its half hours.
SlotCount(d) == (DayEnd(d) - d) \div SlotLen

LEMMA HalfHoursOf ==
  ASSUME NEW d \in DaysThere
  PROVE  /\ SlotCount(d) \in Nat /\ d + SlotCount(d) * SlotLen = DayEnd(d)
         /\ SlotsOf(d) = 0..(SlotCount(d) - 1)
<1>1. d \in Nat /\ DayEnd(d) \in Nat /\ d < DayEnd(d) /\ d \in SlotMidnights /\ DayEnd(d) \in SlotMidnights
  BY DayEndIs DEF DaysThere
<1>2. SlotLen \in Nat \ {0} /\ (DayEnd(d) - d) % SlotLen = 0
  BY <1>1, SlotAssumption
<1>3. DayEnd(d) - d \in Nat
  BY <1>1
<1>4. \A x \in Nat, n \in Nat \ {0} : x % n = 0 => x \div n \in Nat /\ (x \div n) * n = x
  BY SMT
<1>5. SlotCount(d) \in Nat /\ SlotCount(d) * SlotLen = DayEnd(d) - d
  BY <1>2, <1>3, <1>4 DEF SlotCount
<1>6. \A a, b, c \in Int : c = b - a => a + c = b
  OBVIOUS
<1>7. SlotCount(d) * SlotLen \in Int
  BY <1>1, <1>5
<1> QED
  BY <1>1, <1>5, <1>6, <1>7 DEF SlotsOf, SlotCount

-----------------------------------------------------------------------------
(* What is used in some ticks. *)
Uses == [t \in Nat |-> Use(t)]

LEMMA UseTyped == Grain \in Nat /\ \A t \in Nat : Use(t) \in Nat /\ Uses[t] = Use(t) /\ t % 3 \in Nat
<1>1. Grain \in Nat
  BY SlotAssumption
<1>2. \A t \in Nat : t % 3 \in Nat
  OBVIOUS
<1>3. \A a, b \in Nat : a * (1 + b) \in Nat
  OBVIOUS
<1>4. \A t \in Nat : Use(t) \in Nat
  BY <1>1, <1>2, <1>3 DEF Use
<1> QED
  BY <1>1, <1>2, <1>4 DEF Uses

UseUpTo(T, r) == r = [s \in SUBSET T |-> IF s = {} THEN 0 ELSE Use(Drawn(s)) + r[s \ {Drawn(s)}]]

LEMMA UsedIsATotal ==
  ASSUME NEW T \in SUBSET Nat
  PROVE  UsedIn(T) = SumOver(Uses, T)
<1>1. UsedIn(T) = (CHOOSE r : UseUpTo(T, r))[T]
  BY DEF UsedIn, MapThenSumSet, MapThenFoldSet, UseUpTo, Drawn
<1>2. ASSUME NEW r
      PROVE  UseUpTo(T, r) <=> SumsUp(T, Uses, r)
  <2>1. ASSUME NEW s \in SUBSET T
        PROVE  (IF s = {} THEN 0 ELSE Use(Drawn(s)) + r[s \ {Drawn(s)}])
             = (IF s = {} THEN 0 ELSE Uses[Drawn(s)] + r[s \ {Drawn(s)}])
    <3>1. s # {} => Drawn(s) \in Nat
      BY DrawnIs
    <3>2. s # {} => Uses[Drawn(s)] = Use(Drawn(s))
      BY <3>1, UseTyped
    <3> QED
      BY <3>2
  <2>2. [s \in SUBSET T |-> IF s = {} THEN 0 ELSE Use(Drawn(s)) + r[s \ {Drawn(s)}]]
      = [s \in SUBSET T |-> IF s = {} THEN 0 ELSE Uses[Drawn(s)] + r[s \ {Drawn(s)}]]
    BY <2>1
  <2> QED
    BY <2>2 DEF UseUpTo, SumsUp
<1>3. (CHOOSE r : UseUpTo(T, r)) = (CHOOSE r : SumsUp(T, Uses, r))
  BY <1>2
<1> QED
  BY <1>1, <1>3 DEF SumOver

LEMMA DayTotalIs ==
  ASSUME NEW day
  PROVE  DayTotal(day) = SumOver(day.kwh, DOMAIN day.kwh)
BY DEF DayTotal, MapThenSumSet, MapThenFoldSet, SumOver, SumsUp, Drawn

LEMMA UsedParts ==
  ASSUME NEW A \in SUBSET Nat, NEW B \in SUBSET Nat, IsFiniteSet(A), IsFiniteSet(B), A \cap B = {}
  PROVE  UsedIn(A) \in Int /\ UsedIn(B) \in Int /\ UsedIn(A \cup B) = UsedIn(A) + UsedIn(B)
<1>1. Figured(A, Uses) /\ Figured(B, Uses)
  BY UseTyped DEF Figured
<1>2. UsedIn(A) = SumOver(Uses, A) /\ UsedIn(B) = SumOver(Uses, B) /\ UsedIn(A \cup B) = SumOver(Uses, A \cup B)
  BY UsedIsATotal
<1>3. SumOver(Uses, A) \in Int /\ SumOver(Uses, B) \in Int
  BY <1>1, TotalIs
<1>4. SumOver(Uses, A \cup B) = SumOver(Uses, A) + SumOver(Uses, B)
  BY <1>1, PartByPart
<1> QED
  BY <1>2, <1>3, <1>4

LEMMA NothingUsed == UsedIn({}) = 0
<1>1. Figured({}, Uses)
  BY FS_EmptySet DEF Figured
<1> QED
  BY <1>1, UsedIsATotal, TotalIs

\* It is a whole number of units.
LEMMA WholeUnits ==
  ASSUME NEW T \in SUBSET Nat, IsFiniteSet(T)
  PROVE  \E u \in Int : UsedIn(T) = Grain * u
<1> DEFINE S == {n \in Nat : \A t \in SUBSET T : Cardinality(t) <= n => \E u \in Int : SumOver(Uses, t) = Grain * u}
<1>1. Figured(T, Uses)
  BY UseTyped DEF Figured
<1>2. \A t \in SUBSET T : Figured(t, Uses) /\ Cardinality(t) \in Nat /\ IsFiniteSet(t)
  BY <1>1, FiguredParts DEF Figured
<1>3. Grain \in Int
  BY UseTyped
<1>4. 0 \in S
  <2>1. ASSUME NEW t \in SUBSET T, Cardinality(t) <= 0
        PROVE  \E u \in Int : SumOver(Uses, t) = Grain * u
    <3>1. Cardinality(t) = 0 /\ IsFiniteSet(t)
      BY <1>2, <2>1
    <3>2. t = {}
      BY <3>1, FS_EmptySet
    <3>3. SumOver(Uses, t) = 0
      BY <1>2, <3>2, TotalIs
    <3>4. Grain * 0 = 0
      BY <1>3
    <3> QED
      BY <3>3, <3>4
  <2> QED
    BY <2>1
<1>5. ASSUME NEW n \in Nat, n \in S
      PROVE  n + 1 \in S
  <2>1. ASSUME NEW t \in SUBSET T, Cardinality(t) <= n + 1
        PROVE  \E u \in Int : SumOver(Uses, t) = Grain * u
    <3>1. CASE t = {}
      <4>1. Cardinality(t) <= n
        BY <3>1, FS_EmptySet
      <4> QED
        BY <1>5, <4>1
    <3>2. CASE t # {}
      <4> DEFINE c == Drawn(t)
      <4>1. c \in t /\ SumOver(Uses, t) = Uses[c] + SumOver(Uses, t \ {c})
        BY <1>2, <3>2, TotalIs
      <4>2. Cardinality(t \ {c}) = Cardinality(t) - 1
        BY <1>2, <4>1, FS_RemoveElement
      <4>3. Cardinality(t \ {c}) <= n
        BY <1>2, <2>1, <4>2
      <4>4. PICK u \in Int : SumOver(Uses, t \ {c}) = Grain * u
        BY <1>5, <4>3
      <4>5. Uses[c] = Grain * (1 + (c % 3)) /\ c % 3 \in Nat
        BY <4>1, UseTyped DEF Use
      <4> HIDE DEF c
      <4>6. \A g, a, b \in Int : g * (1 + a) + g * b = g * (1 + a + b)
        BY SMT
      <4>7. SumOver(Uses, t) = Grain * (1 + (c % 3) + u)
        BY <1>3, <4>1, <4>4, <4>5, <4>6
      <4>8. 1 + (c % 3) + u \in Int
        BY <4>4, <4>5
      <4> QED
        BY <4>7, <4>8
    <3> QED
      BY <3>1, <3>2
  <2> QED
    BY <2>1
<1>6. S \in SUBSET Nat
  OBVIOUS
<1>7. Cardinality(T) \in Nat
  BY <1>2
<1> HIDE DEF S
<1>8. Cardinality(T) \in S
  BY <1>4, <1>5, <1>6, <1>7, LeastOut
<1> QED
  BY <1>7, <1>8, UsedIsATotal DEF S

\* A share of an interval divides it.
LEMMA EvenShares ==
  ASSUME NEW n \in 1..MaxInterval, NEW u \in Int
  PROVE  (Grain * u) \div n \in Int /\ ((Grain * u) \div n) * n = Grain * u
<1>1. n \in Nat \ {0} /\ Grain \in Nat /\ Grain % n = 0
  BY SlotAssumption
<1>2. \A x \in Nat, m \in Nat \ {0} : x % m = 0 => x \div m \in Nat /\ (x \div m) * m = x
  BY SMT
<1> DEFINE q == Grain \div n
<1>3. q \in Nat /\ q * n = Grain
  BY <1>1, <1>2
<1> HIDE DEF q
<1>4. \A a, b, c \in Int : (a * b) * c = (a * c) * b
  BY SMT
<1>5. Grain * u = (q * u) * n
  BY <1>1, <1>3, <1>4
<1>6. q * u \in Int
  BY <1>3
<1>7. \A a \in Int, m \in Nat \ {0} : (a * m) \div m = a
  BY SMT
<1>8. (Grain * u) \div n = q * u
  BY <1>1, <1>5, <1>6, <1>7
<1> QED
  BY <1>5, <1>6, <1>8

-----------------------------------------------------------------------------
(* What an interval adds to a day. *)
DayRecord(d) ==
  [kwh: [SlotsOf(d) -> Int], observed: [SlotsOf(d) -> Nat], soc: [SlotsOf(d) -> Int \cup {Never}],
   counter: Int \cup {Never}, metered: SUBSET Nat, guess: Int, seen: SUBSET Nat]
OfDayTicks(d) == d..(DayEnd(d) - 1)
PieceOf(d, piece) == d \in DaysThere /\ piece \subseteq OfDayTicks(d)

LEMMA PieceTyped ==
  ASSUME NEW d, NEW piece, PieceOf(d, piece)
  PROVE  /\ piece \in SUBSET Nat /\ IsFiniteSet(piece) /\ Cardinality(piece) \in Nat
         /\ \A X : IsFiniteSet(piece \cap X) /\ Cardinality(piece \cap X) \in Nat
<1>1. d \in Nat /\ DayEnd(d) \in Nat
  BY DayEndIs DEF PieceOf
<1>2. IsFiniteSet(OfDayTicks(d)) /\ OfDayTicks(d) \subseteq Nat
  <2>1. \A a, b \in Int : IsFiniteSet(a..b)
    BY FS_Interval
  <2>2. DayEnd(d) - 1 \in Int /\ d \in Int
    BY <1>1
  <2> QED
    BY <1>1, <2>1, <2>2 DEF OfDayTicks
<1>3. piece \in SUBSET OfDayTicks(d)
  BY DEF PieceOf
<1>4. IsFiniteSet(piece)
  BY <1>2, <1>3, FS_Subset
<1>5. \A X : piece \cap X \in SUBSET piece
  OBVIOUS
<1> QED
  BY <1>2, <1>3, <1>4, <1>5, FS_Subset, FS_CardinalityType

LEMMA SharedTyped ==
  ASSUME NEW d, NEW piece, PieceOf(d, piece), NEW i
  PROVE  Shared(piece, d, i) \in Nat
BY PieceTyped DEF Shared

\* The first k half hours of a day add up to what the interval gives to their ticks.
LEMMA SlotsAddUp ==
  ASSUME NEW d, NEW piece, PieceOf(d, piece), NEW each \in Int,
         NEW f, NEW g, \A i \in SlotsOf(d) : f[i] \in Int,
         \A i \in SlotsOf(d) : g[i] = f[i] + each * Shared(piece, d, i)
  PROVE  /\ SumOver(f, SlotsOf(d)) \in Int
         /\ SumOver(g, SlotsOf(d)) = SumOver(f, SlotsOf(d)) + each * Cardinality(piece)
<1> DEFINE n == SlotCount(d)
           First(k) == 0..(k - 1)
           Until(k) == piece \cap (d..(d + k * SlotLen - 1))
           S == {k \in Nat : k <= n => SumOver(g, First(k)) = SumOver(f, First(k)) + each * Cardinality(Until(k))}
<1>1. d \in DaysThere /\ n \in Nat /\ SlotsOf(d) = First(n) /\ d + n * SlotLen = DayEnd(d) /\ d \in Nat
  BY HalfHoursOf, DayEndIs DEF PieceOf
<1>2. SlotLen \in Nat \ {0}
  BY SlotAssumption
<1>3. \A i \in SlotsOf(d) : f[i] \in Int /\ g[i] \in Int /\ Shared(piece, d, i) \in Nat
  <2>1. ASSUME NEW i \in SlotsOf(d)
        PROVE  f[i] \in Int /\ g[i] \in Int /\ Shared(piece, d, i) \in Nat
    <3>1. Shared(piece, d, i) \in Nat
      BY SharedTyped
    <3>2. each * Shared(piece, d, i) \in Int
      BY <3>1
    <3> QED
      BY <3>1, <3>2
  <2> QED
    BY <2>1
<1>4. \A k \in Nat : k <= n => Figured(First(k), f) /\ Figured(First(k), g) /\ SumOver(f, First(k)) \in Int
  <2>1. ASSUME NEW k \in Nat, k <= n
        PROVE  Figured(First(k), f) /\ Figured(First(k), g) /\ SumOver(f, First(k)) \in Int
    <3>1. IsFiniteSet(First(k))
      <4>1. 0 \in Int /\ k - 1 \in Int
        BY <2>1
      <4> QED
        BY <4>1, FS_Interval
    <3>2. First(k) \subseteq SlotsOf(d)
      BY <1>1, <2>1
    <3> HIDE DEF First
    <3>3. Figured(First(k), f) /\ Figured(First(k), g)
      BY <1>3, <3>1, <3>2 DEF Figured
    <3> QED
      BY <3>3, TotalIs
  <2> QED
    BY <2>1
<1>5. 0 \in S
  <2>1. First(0) = {} /\ Until(0) = {}
    BY <1>1, <1>2
  <2>2. SumOver(g, {}) = 0 /\ SumOver(f, {}) = 0 /\ Cardinality({}) = 0
    <3>1. Figured({}, f) /\ Figured({}, g)
      BY FS_EmptySet DEF Figured
    <3> QED
      BY <3>1, TotalIs, FS_EmptySet
  <2>3. each * 0 = 0
    OBVIOUS
  <2> HIDE DEF First, Until
  <2>4. SumOver(g, First(0)) = SumOver(f, First(0)) + each * Cardinality(Until(0))
    <3>1. SumOver(g, First(0)) = 0 /\ SumOver(f, First(0)) = 0 /\ Cardinality(Until(0)) = 0
      BY <2>1, <2>2, Zenon
    <3>2. 0 = 0 + each * 0
      BY <2>3
    <3> QED
      BY <3>1, <3>2, Zenon
  <2> QED
    BY <2>4
<1>6. ASSUME NEW k \in Nat, k \in S
      PROVE  k + 1 \in S
  <2>1. SUFFICES ASSUME k + 1 <= n
                 PROVE  SumOver(g, First(k + 1)) = SumOver(f, First(k + 1)) + each * Cardinality(Until(k + 1))
    OBVIOUS
  <2>2. k <= n /\ k \in SlotsOf(d) /\ First(k + 1) = First(k) \cup {k} /\ k \notin First(k)
    BY <1>1, <2>1
  <2>3. SumOver(g, First(k)) = SumOver(f, First(k)) + each * Cardinality(Until(k))
    BY <1>6, <2>2
  <2>4. Cardinality(Until(k + 1)) = Cardinality(Until(k)) + Shared(piece, d, k)
    <3>1. k * SlotLen \in Nat /\ (k + 1) * SlotLen = k * SlotLen + SlotLen
      <4>1. \A a, b \in Nat : a * b \in Nat /\ (a + 1) * b = a * b + b
        BY SMT
      <4> QED
        BY <1>2, <4>1
    <3>2. SlotTicks(d, k) = (d + k * SlotLen)..(d + (k * SlotLen + SlotLen) - 1)
      BY <3>1 DEF SlotTicks
    <3>3. Until(k + 1) = piece \cap (d..(d + (k * SlotLen + SlotLen) - 1))
      BY <3>1
    <3>4. \A a \in Nat, l \in Nat :
             /\ d..(d + (a + l) - 1) = (d..(d + a - 1)) \cup ((d + a)..(d + (a + l) - 1))
             /\ (d..(d + a - 1)) \cap ((d + a)..(d + (a + l) - 1)) = {}
      BY <1>1
    <3>5. /\ d..(d + (k * SlotLen + SlotLen) - 1) = (d..(d + k * SlotLen - 1)) \cup SlotTicks(d, k)
          /\ (d..(d + k * SlotLen - 1)) \cap SlotTicks(d, k) = {}
      BY <1>2, <3>1, <3>2, <3>4
    <3> DEFINE before == piece \cap (d..(d + k * SlotLen - 1))
               there == piece \cap SlotTicks(d, k)
    <3>6. Until(k + 1) = before \cup there /\ before \cap there = {} /\ Until(k) = before
      BY <3>3, <3>5
    <3>7. IsFiniteSet(before) /\ IsFiniteSet(there) /\ Cardinality(before) \in Nat /\ Cardinality(there) \in Nat
      BY PieceTyped
    <3>8. Shared(piece, d, k) = Cardinality(there)
      BY DEF Shared
    <3> HIDE DEF before, there, Until
    <3>9. Cardinality(before \cup there) = Cardinality(before) + Cardinality(there) - Cardinality(before \cap there)
      BY <3>7, FS_Union
    <3>10. Cardinality(before \cap there) = 0
      BY <3>6, FS_EmptySet
    <3>11. Cardinality(before \cup there) = Cardinality(before) + Cardinality(there)
      BY <3>7, <3>9, <3>10
    <3> QED
      BY <3>6, <3>8, <3>11, Zenon
  <2>5. SumOver(f, First(k) \cup {k}) = SumOver(f, First(k)) + f[k]
    <3>1. Figured(First(k), f) /\ f[k] \in Int
      BY <1>3, <1>4, <2>2
    <3> HIDE DEF First
    <3> QED
      BY <2>2, <3>1, OneMore
  <2>6. SumOver(g, First(k) \cup {k}) = SumOver(g, First(k)) + g[k]
    <3>1. Figured(First(k), g) /\ g[k] \in Int
      BY <1>3, <1>4, <2>2
    <3> HIDE DEF First
    <3> QED
      BY <2>2, <3>1, OneMore
  <2>7. Cardinality(Until(k)) \in Nat /\ Shared(piece, d, k) \in Nat /\ f[k] \in Int /\ SumOver(f, First(k)) \in Int
    BY <1>3, <1>4, <2>2, PieceTyped
  <2>8. g[k] = f[k] + each * Shared(piece, d, k)
    BY <2>2
  <2> HIDE DEF First, Until
  <2>9. \A a, b, e, x, y \in Int : (a + e * x) + (b + e * y) = (a + b) + e * (x + y)
    BY SMT
  <2>10. SumOver(g, First(k + 1)) = (SumOver(f, First(k)) + each * Cardinality(Until(k))) + (f[k] + each * Shared(piece, d, k))
    BY <2>2, <2>3, <2>6, <2>8
  <2>11. SumOver(g, First(k + 1)) = (SumOver(f, First(k)) + f[k]) + each * (Cardinality(Until(k)) + Shared(piece, d, k))
    BY <2>7, <2>9, <2>10
  <2> QED
    BY <2>2, <2>4, <2>5, <2>11
<1>7. S \in SUBSET Nat
  OBVIOUS
<1> HIDE DEF S
<1>8. n \in S
  BY <1>1, <1>5, <1>6, <1>7, LeastOut
<1>9. Until(n) = piece
  <2>1. piece \subseteq d..(DayEnd(d) - 1)
    BY DEF PieceOf, OfDayTicks
  <2>2. d + n * SlotLen - 1 = DayEnd(d) - 1
    <3>1. n * SlotLen \in Int
      BY <1>1, <1>2
    <3> HIDE DEF n
    <3> QED
      BY <1>1, <3>1
  <2> QED
    BY <2>1, <2>2
<1>10. SumOver(g, First(n)) = SumOver(f, First(n)) + each * Cardinality(Until(n))
  BY <1>1, <1>8 DEF S
<1> HIDE DEF n, First, Until
<1> QED
  BY <1>1, <1>4, <1>9, <1>10

\* What is known of a day, and of the days, that hold nothing of a tick from upTo on.
DayTrue(day, d, upTo) ==
  /\ day \in DayRecord(d)
  /\ DayTotal(day) = UsedIn(day.metered) + day.guess
  /\ \A i \in SlotsOf(d) : day.observed[i] = Shared(day.seen, d, i)
  /\ day.metered \subseteq day.seen
  /\ day.seen \subseteq OfDayTicks(d)
  /\ \A t \in day.seen : t < upTo
DaysTrue(days, upTo) ==
  /\ DOMAIN days \subseteq DaysThere
  /\ \A d \in DOMAIN days : DayTrue(days[d], d, upTo)

LEMMA DayTotalOf ==
  ASSUME NEW d, NEW day \in DayRecord(d)
  PROVE  DayTotal(day) = SumOver(day.kwh, SlotsOf(d))
<1>1. DOMAIN day.kwh = SlotsOf(d)
  BY DEF DayRecord
<1> QED
  BY <1>1, DayTotalIs

Fuller(f, d, piece, each) == [i \in SlotsOf(d) |-> f[i] + each * Shared(piece, d, i)]
Longer(f, d, piece) == [i \in SlotsOf(d) |-> f[i] + Shared(piece, d, i)]

Added(new, day, d, piece, each, counted) ==
  /\ new \in DayRecord(d)
  /\ new.kwh = Fuller(day.kwh, d, piece, each)
  /\ new.observed = Longer(day.observed, d, piece)
  /\ new.metered = IF counted THEN day.metered \cup piece ELSE day.metered
  /\ new.guess = IF counted THEN day.guess ELSE day.guess + each * Cardinality(piece)
  /\ new.seen = day.seen \cup piece

LEMMA AddToIs ==
  ASSUME NEW d, NEW day \in DayRecord(d), NEW piece, PieceOf(d, piece), NEW each \in Int, NEW counted
  PROVE  Added(AddTo(day, d, piece, each, counted), day, d, piece, each, counted)
<1> DEFINE kwh == Fuller(day.kwh, d, piece, each)
           observed == Longer(day.observed, d, piece)
           metered == IF counted THEN day.metered \cup piece ELSE day.metered
           guess == IF counted THEN day.guess ELSE day.guess + each * Cardinality(piece)
           new == [day EXCEPT !.kwh = kwh, !.observed = observed, !.metered = metered, !.guess = guess,
                              !.seen = day.seen \cup piece]
<1>1. AddTo(day, d, piece, each, counted) = new
  BY DEF AddTo, Fuller, Longer
<1>2. \A i \in SlotsOf(d) : day.kwh[i] \in Int /\ day.observed[i] \in Nat /\ Shared(piece, d, i) \in Nat
  BY SharedTyped DEF DayRecord
<1>3. \A i \in SlotsOf(d) : day.kwh[i] + each * Shared(piece, d, i) \in Int /\ day.observed[i] + Shared(piece, d, i) \in Nat
  <2>1. \A a, b \in Int, n \in Nat : a + b * n \in Int
    OBVIOUS
  <2>2. \A a, b \in Nat : a + b \in Nat
    OBVIOUS
  <2> QED
    BY <1>2, <2>1, <2>2
<1>4. kwh \in [SlotsOf(d) -> Int] /\ observed \in [SlotsOf(d) -> Nat]
  BY <1>3 DEF Fuller, Longer
<1>5. piece \in SUBSET Nat /\ Cardinality(piece) \in Nat
  BY PieceTyped
<1>6. metered \in SUBSET Nat /\ guess \in Int /\ day.seen \cup piece \in SUBSET Nat
  <2>1. day.metered \in SUBSET Nat /\ day.guess \in Int /\ day.seen \in SUBSET Nat
    BY DEF DayRecord
  <2>2. each * Cardinality(piece) \in Int
    BY <1>5
  <2>3. metered \in SUBSET Nat /\ day.seen \cup piece \in SUBSET Nat
    BY <1>5, <2>1
  <2>4. day.guess + each * Cardinality(piece) \in Int
    BY <2>1, <2>2
  <2>5. guess \in Int
    BY <2>1, <2>4, Zenon
  <2> QED
    BY <2>3, <2>5
<1> HIDE DEF kwh, observed, metered, guess
<1>7. new \in DayRecord(d)
  BY <1>4, <1>6 DEF DayRecord
<1>8. new.kwh = kwh /\ new.observed = observed /\ new.metered = metered /\ new.guess = guess /\ new.seen = day.seen \cup piece
  BY DEF DayRecord
<1> HIDE DEF new
<1> QED
  BY <1>1, <1>7, <1>8 DEF Added, kwh, observed, metered, guess

LEMMA SharedAdds ==
  ASSUME NEW d, NEW A, NEW B, PieceOf(d, A), PieceOf(d, B), A \cap B = {}, NEW i
  PROVE  Shared(A \cup B, d, i) = Shared(A, d, i) + Shared(B, d, i)
<1> DEFINE X == SlotTicks(d, i)
<1>1. IsFiniteSet(A \cap X) /\ Cardinality(A \cap X) \in Nat /\ IsFiniteSet(B \cap X) /\ Cardinality(B \cap X) \in Nat
  BY PieceTyped
<1>2. (A \cup B) \cap X = (A \cap X) \cup (B \cap X) /\ (A \cap X) \cap (B \cap X) = {}
  OBVIOUS
<1>3. Cardinality((A \cap X) \cup (B \cap X)) =
        Cardinality(A \cap X) + Cardinality(B \cap X) - Cardinality((A \cap X) \cap (B \cap X))
  BY <1>1, FS_Union
<1>4. Cardinality((A \cap X) \cap (B \cap X)) = 0
  BY <1>2, FS_EmptySet
<1>5. Cardinality((A \cap X) \cup (B \cap X)) = Cardinality(A \cap X) + Cardinality(B \cap X)
  BY <1>1, <1>3, <1>4
<1> QED
  BY <1>2, <1>5 DEF Shared

\* An interval that was not booked before leaves the day true.
Bookable(day, piece, each, counted) ==
  /\ piece \cap day.seen = {}
  /\ counted => each * Cardinality(piece) = UsedIn(piece)

LEMMA AddToKeeps ==
  ASSUME NEW d, NEW day, NEW upTo \in Int, DayTrue(day, d, upTo), NEW piece, PieceOf(d, piece),
         NEW each \in Int, NEW counted, Bookable(day, piece, each, counted),
         NEW later \in Int, upTo <= later, \A t \in piece : t < later
  PROVE  DayTrue(AddTo(day, d, piece, each, counted), d, later)
<1> DEFINE new == AddTo(day, d, piece, each, counted)
<1>1. day \in DayRecord(d) /\ day.metered \subseteq day.seen /\ day.seen \subseteq OfDayTicks(d) /\ \A t \in day.seen : t < upTo
  BY DEF DayTrue
<1>0. Added(new, day, d, piece, each, counted)
  BY <1>1, AddToIs
<1> HIDE DEF new
<1>2. /\ new \in DayRecord(d)
      /\ new.kwh = Fuller(day.kwh, d, piece, each)
      /\ new.observed = Longer(day.observed, d, piece)
      /\ new.metered = IF counted THEN day.metered \cup piece ELSE day.metered
      /\ new.guess = IF counted THEN day.guess ELSE day.guess + each * Cardinality(piece)
      /\ new.seen = day.seen \cup piece
  BY <1>0 DEF Added
<1>3. PieceOf(d, day.seen) /\ PieceOf(d, day.metered) /\ piece \cap day.seen = {} /\ piece \subseteq OfDayTicks(d)
  BY <1>1 DEF PieceOf, Bookable
<1>4. new.metered \subseteq new.seen /\ new.seen \subseteq OfDayTicks(d)
  BY <1>1, <1>2, <1>3
<1>5. ASSUME NEW t \in new.seen
      PROVE  t < later
  <2>1. CASE t \in piece
    BY <2>1
  <2>2. CASE t \in day.seen
    <3>1. t \in Int /\ t < upTo
      BY <1>1, <2>2 DEF DayRecord
    <3> QED
      BY <3>1
  <2> QED
    BY <1>2, <2>1, <2>2
<1>6. ASSUME NEW i \in SlotsOf(d)
      PROVE  new.observed[i] = Shared(new.seen, d, i)
  <2>1. new.observed[i] = day.observed[i] + Shared(piece, d, i)
    BY <1>2 DEF Longer
  <2>2. day.observed[i] = Shared(day.seen, d, i)
    BY DEF DayTrue
  <2>3. day.seen \cap piece = {}
    BY <1>3
  <2>4. Shared(day.seen \cup piece, d, i) = Shared(day.seen, d, i) + Shared(piece, d, i)
    BY <1>3, <2>3, SharedAdds
  <2> QED
    BY <1>2, <2>1, <2>2, <2>4, Zenon
<1>7. DayTotal(new) = UsedIn(new.metered) + new.guess
  <2>1. \A i \in SlotsOf(d) : day.kwh[i] \in Int /\ new.kwh[i] = day.kwh[i] + each * Shared(piece, d, i)
    BY <1>1, <1>2 DEF DayRecord, Fuller
  <2>2. /\ SumOver(day.kwh, SlotsOf(d)) \in Int
        /\ SumOver(new.kwh, SlotsOf(d)) = SumOver(day.kwh, SlotsOf(d)) + each * Cardinality(piece)
    BY <2>1, SlotsAddUp
  <2>3. DayTotal(new) = DayTotal(day) + each * Cardinality(piece) /\ DayTotal(day) \in Int
    BY <1>1, <1>2, <2>2, DayTotalOf
  <2>4. DayTotal(day) = UsedIn(day.metered) + day.guess /\ day.guess \in Int
    BY <1>1 DEF DayTrue, DayRecord
  <2>5. Cardinality(piece) \in Nat /\ IsFiniteSet(piece) /\ piece \in SUBSET Nat
    BY PieceTyped
  <2>6. IsFiniteSet(day.metered) /\ day.metered \in SUBSET Nat /\ day.metered \cap piece = {}
    BY <1>1, <1>3, PieceTyped
  <2>7. UsedIn(day.metered) \in Int /\ UsedIn(piece) \in Int /\ UsedIn(day.metered \cup piece) = UsedIn(day.metered) + UsedIn(piece)
    BY <2>5, <2>6, UsedParts
  <2>8. each * Cardinality(piece) \in Int
    BY <2>5
  <2>9. \A a, b, c \in Int : (a + b) + c = (a + c) + b /\ (a + b) + c = a + (b + c)
    OBVIOUS
  <2>10. CASE counted
    <3>1. new.metered = day.metered \cup piece /\ new.guess = day.guess /\ each * Cardinality(piece) = UsedIn(piece)
      BY <1>2, <2>10 DEF Bookable
    <3>2. (UsedIn(day.metered) + day.guess) + UsedIn(piece) = (UsedIn(day.metered) + UsedIn(piece)) + day.guess
      BY <2>4, <2>7, <2>9
    <3> QED
      BY <2>3, <2>4, <2>7, <3>1, <3>2, Zenon
  <2>11. CASE ~counted
    <3>1. new.metered = day.metered /\ new.guess = day.guess + each * Cardinality(piece)
      BY <1>2, <2>11
    <3>2. (UsedIn(day.metered) + day.guess) + each * Cardinality(piece) = UsedIn(day.metered) + (day.guess + each * Cardinality(piece))
      BY <2>4, <2>7, <2>8, <2>9
    <3> QED
      BY <2>3, <2>4, <3>1, <3>2, Zenon
  <2> QED
    BY <2>10, <2>11
<1> QED
  BY <1>2, <1>4, <1>5, <1>6, <1>7 DEF DayTrue, new

\* A day that is true up to a tick is true up to a later one.
LEMMA TrueStill ==
  ASSUME NEW d, NEW day, NEW upTo \in Int, DayTrue(day, d, upTo), NEW later \in Int, upTo <= later
  PROVE  DayTrue(day, d, later)
<1>1. \A t \in day.seen : t \in Int /\ t < upTo
  BY DEF DayTrue, DayRecord
<1>2. \A t \in day.seen : t < later
  BY <1>1
<1> QED
  BY <1>2 DEF DayTrue

LEMMA DaysTrueStill ==
  ASSUME NEW days, NEW upTo \in Int, DaysTrue(days, upTo), NEW later \in Int, upTo <= later
  PROVE  DaysTrue(days, later)
BY TrueStill DEF DaysTrue

LEMMA BlankDayTrue ==
  ASSUME NEW d \in DaysThere, NEW upTo
  PROVE  DayTrue(BlankDay(d), d, upTo) /\ \A i \in SlotsOf(d) : BlankDay(d).observed[i] = 0
<1> DEFINE blank == BlankDay(d)
<1>1. blank \in DayRecord(d) /\ blank.metered = {} /\ blank.guess = 0 /\ blank.seen = {}
  BY DEF BlankDay, DayRecord
<1>2. \A i \in SlotsOf(d) : blank.kwh[i] = 0 /\ blank.observed[i] = 0
  BY DEF BlankDay
<1>3. IsFiniteSet(SlotsOf(d))
  <2>1. SlotsOf(d) = 0..(SlotCount(d) - 1) /\ SlotCount(d) - 1 \in Int
    BY HalfHoursOf
  <2> QED
    BY <2>1, FS_Interval
<1> HIDE DEF blank
<1>4. DayTotal(blank) = 0
  BY <1>1, <1>2, <1>3, DayTotalOf, NothingAtAll
<1>5. \A i : Shared({}, d, i) = 0
  BY FS_EmptySet DEF Shared
<1>6. UsedIn({}) + 0 = 0
  BY NothingUsed
<1>7. DayTotal(blank) = UsedIn(blank.metered) + blank.guess
  BY <1>1, <1>4, <1>6
<1>8. \A i \in SlotsOf(d) : blank.observed[i] = Shared(blank.seen, d, i)
  BY <1>1, <1>2, <1>5
<1> QED
  BY <1>1, <1>2, <1>7, <1>8 DEF DayTrue, blank

-----------------------------------------------------------------------------
(* What a cycle does to the days. *)
DayOr(days, d) == IF d \in DOMAIN days THEN days[d] ELSE BlankDay(d)

LEMMA WithDayIs ==
  ASSUME NEW days, NEW d
  PROVE  /\ DOMAIN WithDay(days, d) = DOMAIN days \cup {d}
         /\ WithDay(days, d)[d] = DayOr(days, d)
         /\ \A x \in DOMAIN days : WithDay(days, d)[x] = days[x]
BY DEF WithDay, DayOr

LEMMA DayOrTrue ==
  ASSUME NEW days, NEW upTo, DaysTrue(days, upTo), NEW d \in DaysThere
  PROVE  /\ DayTrue(DayOr(days, d), d, upTo)
         /\ d \notin DOMAIN days => \A i \in SlotsOf(d) : DayOr(days, d).observed[i] = 0
BY BlankDayTrue DEF DayOr, DaysTrue

PieceOn(from, to, d) == {t \in Pieces(from, to) : SlotDayOf(t) = d}
Touched(from, to) == {SlotDayOf(t) : t \in Pieces(from, to)}

Filled(new, days, from, to, each, counted) ==
  /\ DOMAIN new \subseteq DOMAIN days \cup Touched(from, to)
  /\ \A d \in DOMAIN new :
       /\ d \in Touched(from, to) =>
            new[d] = AddTo(DayOr(days, d), d, PieceOn(from, to, d), each, counted)
       /\ d \notin Touched(from, to) => d \in DOMAIN days /\ new[d] = days[d]

LEMMA RecordedIs ==
  ASSUME NEW days, NEW from, NEW to, NEW each, NEW counted
  PROVE  Filled(Recorded(days, from, to, each, counted), days, from, to, each, counted)
<1> DEFINE touched == Touched(from, to)
           all == DOMAIN days \cup touched
           Grown(d) == IF d \in touched THEN AddTo(WithDay(days, d)[d], d, PieceOn(from, to, d), each, counted)
                       ELSE WithDay(days, d)[d]
           grown == [d \in all |-> Grown(d)]
           left == {d \in all : Cardinality({m \in SlotMidnights : d < m /\ m <= SlotDayOf(to)}) < KeptDays}
<1>1. Recorded(days, from, to, each, counted) = KeptOf(grown, SlotDayOf(to))
  BY DEF Recorded, Touched, PieceOn
<1>2. DOMAIN grown = all
  OBVIOUS
<1>3. KeptOf(grown, SlotDayOf(to)) = [d \in left |-> grown[d]]
  BY <1>2 DEF KeptOf, Restrict
<1>4. left \subseteq all
  OBVIOUS
<1>5. \A d \in left : grown[d] = Grown(d)
  BY <1>4
<1> HIDE DEF left, grown
<1>6. \A d \in all : Grown(d) = IF d \in touched THEN AddTo(DayOr(days, d), d, PieceOn(from, to, d), each, counted)
                               ELSE DayOr(days, d)
  BY WithDayIs
<1>7. \A d \in all : d \notin touched => d \in DOMAIN days /\ DayOr(days, d) = days[d]
  BY DEF DayOr
<1> HIDE DEF Grown, touched
<1>8. DOMAIN KeptOf(grown, SlotDayOf(to)) = left /\ \A d \in left : KeptOf(grown, SlotDayOf(to))[d] = Grown(d)
  BY <1>3, <1>5
<1>9. \A d \in left : Grown(d) = IF d \in touched THEN AddTo(DayOr(days, d), d, PieceOn(from, to, d), each, counted)
                                ELSE DayOr(days, d)
  BY <1>4, <1>6
<1>10. \A d \in left : d \notin touched => d \in DOMAIN days /\ DayOr(days, d) = days[d]
  BY <1>4, <1>7
<1> QED
  BY <1>1, <1>4, <1>8, <1>9, <1>10 DEF Filled, touched

\* A piece of an interval is of one day and of the ticks of the interval.
LEMMA PieceIs ==
  ASSUME NEW from \in SlotTime, NEW to \in SlotTime, NEW d \in Touched(from, to)
  PROVE  /\ d \in DaysThere
         /\ PieceOf(d, PieceOn(from, to, d))
         /\ \A t \in PieceOn(from, to, d) : t \in Int /\ from <= t /\ t < to
<1>1. from \in Nat /\ to \in Nat /\ FirstDay <= from /\ to <= LastTick
  BY DayOfTick, TimeIs DEF SlotTime
<1>2. Pieces(from, to) \subseteq from..(to - 1)
  BY DEF Pieces
<1>3. Pieces(from, to) \subseteq SlotTime
  BY <1>1, <1>2, TimeIs DEF SlotTime
<1>4. PICK t \in Pieces(from, to) : d = SlotDayOf(t)
  BY DEF Touched
<1>5. d \in DaysThere
  BY <1>3, <1>4, DayOfTick
<1>6. \A s \in PieceOn(from, to, d) : s \in SlotTime /\ SlotDayOf(s) = d /\ s \in from..(to - 1)
  BY <1>2, <1>3 DEF PieceOn
<1>7. \A s \in PieceOn(from, to, d) : s \in Nat /\ d <= s /\ s < DayEnd(d)
  BY <1>6, DayOfTick
<1>8. d \in Nat /\ DayEnd(d) \in Nat
  BY <1>5, DayEndIs
<1>9. PieceOn(from, to, d) \subseteq OfDayTicks(d)
  BY <1>7, <1>8 DEF OfDayTicks
<1> QED
  BY <1>1, <1>5, <1>6, <1>9 DEF PieceOf

\* What an interval is booked with is what was used in it, when it is from the counter.
Booking(from, to, each, counted) ==
  \A d \in Touched(from, to) : counted => each * Cardinality(PieceOn(from, to, d)) = UsedIn(PieceOn(from, to, d))

LEMMA RecordedTrue ==
  ASSUME NEW days, NEW from \in SlotTime, NEW to \in SlotTime, from <= to, DaysTrue(days, from),
         NEW each \in Int, NEW counted, Booking(from, to, each, counted)
  PROVE  DaysTrue(Recorded(days, from, to, each, counted), to)
<1> DEFINE new == Recorded(days, from, to, each, counted)
<1>1. /\ DOMAIN new \subseteq DOMAIN days \cup Touched(from, to)
      /\ \A d \in DOMAIN new :
           /\ d \in Touched(from, to) => new[d] = AddTo(DayOr(days, d), d, PieceOn(from, to, d), each, counted)
           /\ d \notin Touched(from, to) => d \in DOMAIN days /\ new[d] = days[d]
  <2>1. Filled(new, days, from, to, each, counted)
    BY RecordedIs
  <2> HIDE DEF new
  <2> QED
    BY <2>1 DEF Filled
<1> HIDE DEF new
<1>2. from \in Int /\ to \in Int
  BY DayOfTick
<1>3. DOMAIN new \subseteq DaysThere
  BY <1>1, PieceIs DEF DaysTrue
<1>4. ASSUME NEW d \in DOMAIN new
      PROVE  DayTrue(new[d], d, to)
  <2>1. CASE d \in Touched(from, to)
    <3> DEFINE piece == PieceOn(from, to, d)
               day == DayOr(days, d)
    <3>1. d \in DaysThere /\ PieceOf(d, piece) /\ \A t \in piece : t \in Int /\ from <= t /\ t < to
      BY <2>1, PieceIs
    <3>2. DayTrue(day, d, from)
      BY <3>1, DayOrTrue
    <3>3. \A t \in day.seen : t \in Int /\ t < from
      BY <3>2 DEF DayTrue, DayRecord
    <3>4. piece \cap day.seen = {}
      BY <1>2, <3>1, <3>3
    <3>5. counted => each * Cardinality(piece) = UsedIn(piece)
      BY <2>1 DEF Booking
    <3>6. new[d] = AddTo(day, d, piece, each, counted)
      BY <1>1, <2>1
    <3>7. \A t \in piece : t < to
      BY <3>1
    <3> HIDE DEF piece, day
    <3>8. Bookable(day, piece, each, counted)
      BY <3>4, <3>5 DEF Bookable
    <3>9. DayTrue(AddTo(day, d, piece, each, counted), d, to)
      BY <1>2, <3>1, <3>2, <3>7, <3>8, AddToKeeps
    <3> QED
      BY <3>6, <3>9
  <2>2. CASE d \notin Touched(from, to)
    <3>1. d \in DOMAIN days /\ new[d] = days[d]
      BY <1>1, <2>2
    <3>2. DayTrue(days[d], d, from)
      BY <3>1 DEF DaysTrue
    <3> QED
      BY <1>2, <3>1, <3>2, TrueStill
  <2> QED
    BY <2>1, <2>2
<1>5. DaysTrue(new, to)
  BY <1>3, <1>4 DEF DaysTrue
<1> QED
  BY <1>5 DEF new

\* Noting the counter and the charge touches no energy.
SameEnergy(a, b) ==
  /\ a.kwh = b.kwh /\ a.observed = b.observed /\ a.metered = b.metered /\ a.guess = b.guess /\ a.seen = b.seen

LEMMA NotedIs ==
  ASSUME NEW days, NEW t \in SlotTime, NEW reading \in Int \cup {Never}, NEW upTo, DaysTrue(days, upTo)
  PROVE  LET new == Noted(days, t, reading)
             d == SlotDayOf(t)
         IN /\ DOMAIN new = DOMAIN days \cup {d}
            /\ \A x \in DOMAIN days : x # d => new[x] = days[x]
            /\ new[d] \in DayRecord(d) /\ SameEnergy(new[d], DayOr(days, d))
<1> DEFINE d == SlotDayOf(t)
           with == WithDay(days, d)
           day == DayOr(days, d)
           reached == IF reading = Never THEN day.counter ELSE reading
           soc == [day.soc EXCEPT ![SlotAt(t)] = t]
           noted == [day EXCEPT !.counter = reached, !.soc = soc]
           new == [with EXCEPT ![d] = noted]
<1>1. DOMAIN with = DOMAIN days \cup {d} /\ with[d] = day /\ \A x \in DOMAIN days : with[x] = days[x]
  BY WithDayIs, Zenon
<1>2. day \in DayRecord(d)
  BY DayOfTick, DayOrTrue DEF DayTrue
<1>3. [with[d] EXCEPT !.counter = IF reading = Never THEN with[d].counter ELSE reading, !.soc[SlotAt(t)] = t] = noted
  <2>1. [day EXCEPT !.counter = reached, !.soc[SlotAt(t)] = t] = noted
    BY <1>2 DEF DayRecord
  <2> QED
    BY <1>1, <2>1
<1>4. Noted(days, t, reading) = new
  BY <1>3 DEF Noted
<1>5. reached \in Int \cup {Never}
  BY <1>2 DEF DayRecord
<1>6. soc \in [SlotsOf(d) -> Int \cup {Never}]
  <2>1. t \in Int
    BY DayOfTick
  <2>2. day.soc \in [SlotsOf(d) -> Int \cup {Never}]
    BY <1>2 DEF DayRecord
  <2> HIDE DEF day, d
  <2> QED
    BY <2>1, <2>2
<1> HIDE DEF reached, soc, day, with
<1>7. noted \in DayRecord(d) /\ SameEnergy(noted, day)
  BY <1>2, <1>5, <1>6 DEF DayRecord, SameEnergy
<1> HIDE DEF noted
<1>8. DOMAIN new = DOMAIN days \cup {d} /\ new[d] = noted /\ \A x \in DOMAIN days : x # d => new[x] = days[x]
  BY <1>1
<1> HIDE DEF new
<1> QED
  BY <1>4, <1>7, <1>8 DEF day

LEMMA SameTrue ==
  ASSUME NEW d, NEW a \in DayRecord(d), NEW b, SameEnergy(a, b), NEW upTo, DayTrue(b, d, upTo)
  PROVE  DayTrue(a, d, upTo)
<1>1. DayTotal(a) = SumOver(a.kwh, SlotsOf(d)) /\ DayTotal(b) = SumOver(b.kwh, SlotsOf(d))
  BY DayTotalOf DEF DayTrue
<1>2. DayTotal(a) = DayTotal(b)
  BY <1>1 DEF SameEnergy
<1> QED
  BY <1>2 DEF DayTrue, SameEnergy

LEMMA NotedTrue ==
  ASSUME NEW days, NEW t \in SlotTime, NEW reading \in Int \cup {Never}, NEW upTo, DaysTrue(days, upTo)
  PROVE  DaysTrue(Noted(days, t, reading), upTo)
<1> DEFINE d == SlotDayOf(t)
           new == Noted(days, t, reading)
<1>1. /\ DOMAIN new = DOMAIN days \cup {d}
      /\ \A x \in DOMAIN days : x # d => new[x] = days[x]
      /\ new[d] \in DayRecord(d) /\ SameEnergy(new[d], DayOr(days, d))
  BY NotedIs, Zenon
<1>2. d \in DaysThere
  BY DayOfTick
<1> HIDE DEF d, new
<1>3. DayTrue(DayOr(days, d), d, upTo)
  BY <1>2, DayOrTrue
<1>4. DayTrue(new[d], d, upTo)
  BY <1>1, <1>3, SameTrue
<1>5. \A x \in DOMAIN new : DayTrue(new[x], x, upTo)
  BY <1>1, <1>4 DEF DaysTrue
<1>6. DaysTrue(new, upTo)
  BY <1>1, <1>2, <1>5 DEF DaysTrue
<1> QED
  BY <1>6 DEF new

-----------------------------------------------------------------------------
(* The half hours that are in the file. *)
OnTheHalfHour(s) ==
  /\ s \in Int
  /\ \E d \in DaysThere, k \in Nat : s = d + k * SlotLen /\ s < DayEnd(d)

LEMMA HalfHourIs ==
  ASSUME NEW t \in SlotTime
  PROVE  /\ OnTheHalfHour(SlotDayOf(t) + SlotAt(t) * SlotLen)
         /\ SlotDayOf(t) + SlotAt(t) * SlotLen <= t
<1> DEFINE d == SlotDayOf(t)
           k == SlotAt(t)
<1>1. t \in Nat /\ d \in DaysThere /\ d <= t /\ t < DayEnd(d)
  BY DayOfTick
<1>2. d \in Nat /\ DayEnd(d) \in Nat
  BY <1>1, DayEndIs
<1>3. SlotLen \in Nat \ {0} /\ t - d \in Nat
  BY <1>1, <1>2, SlotAssumption
<1>4. \A x \in Nat, n \in Nat \ {0} : x \div n \in Nat /\ (x \div n) * n \in Nat /\ (x \div n) * n <= x
  BY SMT
<1>5. k \in Nat /\ k * SlotLen \in Nat /\ k * SlotLen <= t - d
  BY <1>3, <1>4 DEF SlotAt
<1> HIDE DEF d, k
<1>6. d + k * SlotLen <= t /\ d + k * SlotLen < DayEnd(d) /\ d + k * SlotLen \in Int
  BY <1>1, <1>2, <1>5
<1>7. OnTheHalfHour(d + k * SlotLen)
  BY <1>1, <1>5, <1>6 DEF OnTheHalfHour
<1> QED
  BY <1>6, <1>7 DEF d, k

\* A half hour that starts before one has ended by then.
LEMMA HalfHoursBefore ==
  ASSUME NEW s, OnTheHalfHour(s), NEW d \in DaysThere, NEW i \in SlotsOf(d), d + i * SlotLen < s
  PROVE  d + (i + 1) * SlotLen <= s
<1>1. PICK b \in DaysThere, k \in Nat : s = b + k * SlotLen /\ s < DayEnd(b)
  BY DEF OnTheHalfHour
<1>2. SlotLen \in Nat \ {0}
  BY SlotAssumption
<1>3. /\ d \in Nat /\ DayEnd(d) \in Nat /\ b \in Nat /\ DayEnd(b) \in Nat
      /\ d < DayEnd(d) /\ b < DayEnd(b) /\ d \in SlotMidnights /\ b \in SlotMidnights
      /\ (d < b => DayEnd(d) <= b) /\ (b < d => DayEnd(b) <= d)
  BY DayEndIs DEF DaysThere
<1>4. i \in Nat /\ i + 1 <= SlotCount(d) /\ SlotCount(d) \in Nat /\ d + SlotCount(d) * SlotLen = DayEnd(d)
  BY HalfHoursOf
<1>5. \A a, c \in Nat : a * SlotLen \in Nat /\ (a <= c => a * SlotLen <= c * SlotLen)
  <2>1. \A a, c, l \in Nat : a * l \in Nat /\ (a <= c => a * l <= c * l)
    BY SMTT(30)
  <2> QED
    BY <1>2, <2>1
<1>6. (i + 1) * SlotLen <= SlotCount(d) * SlotLen /\ i * SlotLen \in Nat /\ (i + 1) * SlotLen \in Nat /\ k * SlotLen \in Nat /\ SlotCount(d) * SlotLen \in Nat
  BY <1>1, <1>4, <1>5
<1>7. d + (i + 1) * SlotLen <= DayEnd(d)
  BY <1>3, <1>4, <1>6
<1>8. CASE d < b
  <2>1. DayEnd(d) <= b /\ b <= s
    BY <1>1, <1>3, <1>6, <1>8
  <2> QED
    BY <1>1, <1>3, <1>6, <1>7, <2>1
<1>9. CASE b < d
  <2>1. s < d
    BY <1>1, <1>3, <1>6, <1>9
  <2> QED
    BY <1>1, <1>3, <1>6, <2>1
<1>10. CASE b = d
  <2>1. i * SlotLen < k * SlotLen
    BY <1>1, <1>3, <1>6, <1>10
  <2>2. ~(k <= i)
    BY <1>1, <1>4, <1>5, <1>6, <2>1
  <2>3. i + 1 <= k
    BY <1>1, <1>4, <2>2
  <2>4. (i + 1) * SlotLen <= k * SlotLen
    BY <1>1, <1>4, <1>5, <2>3
  <2> QED
    BY <1>1, <1>3, <1>6, <1>10, <2>4
<1> QED
  BY <1>3, <1>8, <1>9, <1>10

\* The half hours before one stay what they are.
HalvesStay(days, new, s) ==
  \A d \in DOMAIN new : \A i \in SlotsOf(d) :
    d + i * SlotLen < s /\ new[d].observed[i] > 0 =>
      d \in DOMAIN days /\ new[d].kwh[i] = days[d].kwh[i] /\ new[d].observed[i] = days[d].observed[i]

LEMMA RecordedStays ==
  ASSUME NEW days, NEW from \in SlotTime, NEW to \in SlotTime, DaysTrue(days, from), NEW each \in Int, NEW counted,
         NEW s, OnTheHalfHour(s), s <= from
  PROVE  HalvesStay(days, Recorded(days, from, to, each, counted), s)
<1> DEFINE new == Recorded(days, from, to, each, counted)
<1>1. /\ DOMAIN new \subseteq DOMAIN days \cup Touched(from, to)
      /\ \A d \in DOMAIN new :
           /\ d \in Touched(from, to) => new[d] = AddTo(DayOr(days, d), d, PieceOn(from, to, d), each, counted)
           /\ d \notin Touched(from, to) => d \in DOMAIN days /\ new[d] = days[d]
  <2>1. Filled(new, days, from, to, each, counted)
    BY RecordedIs
  <2> HIDE DEF new
  <2> QED
    BY <2>1 DEF Filled
<1> HIDE DEF new
<1>2. ASSUME NEW d \in DOMAIN new, NEW i \in SlotsOf(d), d + i * SlotLen < s, new[d].observed[i] > 0
      PROVE  d \in DOMAIN days /\ new[d].kwh[i] = days[d].kwh[i] /\ new[d].observed[i] = days[d].observed[i]
  <2>1. CASE d \in Touched(from, to)
    <3> DEFINE piece == PieceOn(from, to, d)
               day == DayOr(days, d)
    <3>1. d \in DaysThere /\ PieceOf(d, piece) /\ \A t \in piece : t \in Int /\ from <= t
      BY <2>1, PieceIs
    <3>2. DayTrue(day, d, from) /\ (d \notin DOMAIN days => \A j \in SlotsOf(d) : day.observed[j] = 0)
      BY <3>1, DayOrTrue
    <3>3. day \in DayRecord(d)
      BY <3>2 DEF DayTrue
    <3>4. new[d] = AddTo(day, d, piece, each, counted)
      BY <1>1, <2>1
    <3>5. d \in DOMAIN days => day = days[d]
      BY DEF DayOr
    <3> HIDE DEF piece, day
    <3>6. d + (i + 1) * SlotLen <= s
      BY <1>2, <3>1, HalfHoursBefore
    <3>7. piece \cap SlotTicks(d, i) = {}
      <4>1. d \in Nat /\ s \in Int /\ from \in Nat
        BY <3>1, DayEndIs, DayOfTick DEF OnTheHalfHour
      <4>2. (i + 1) * SlotLen \in Int
        <5>1. i \in Nat
          BY <3>1, HalfHoursOf
        <5> QED
          BY <5>1, SlotAssumption
      <4>3. \A t \in SlotTicks(d, i) : t \in Int /\ t <= d + (i + 1) * SlotLen - 1
        BY DEF SlotTicks
      <4>4. \A t \in SlotTicks(d, i) : t < from
        BY <3>6, <4>1, <4>2, <4>3
      <4> QED
        BY <3>1, <4>1, <4>3, <4>4
    <3>8. Shared(piece, d, i) = 0
      BY <3>7, FS_EmptySet DEF Shared
    <3>9. Added(new[d], day, d, piece, each, counted)
      BY <3>1, <3>3, <3>4, AddToIs
    <3>10. new[d].kwh[i] = day.kwh[i] + each * Shared(piece, d, i) /\ new[d].observed[i] = day.observed[i] + Shared(piece, d, i)
      BY <3>9 DEF Added, Fuller, Longer
    <3>11. day.kwh[i] \in Int /\ day.observed[i] \in Nat
      BY <3>3 DEF DayRecord
    <3>12. new[d].kwh[i] = day.kwh[i] /\ new[d].observed[i] = day.observed[i]
      BY <3>8, <3>10, <3>11
    <3>13. d \in DOMAIN days
      BY <1>2, <3>2, <3>12
    <3> QED
      BY <3>5, <3>12, <3>13
  <2>2. CASE d \notin Touched(from, to)
    BY <1>1, <2>2
  <2> QED
    BY <2>1, <2>2
<1>3. HalvesStay(days, new, s)
  BY <1>2 DEF HalvesStay
<1> QED
  BY <1>3 DEF new

LEMMA NotedStays ==
  ASSUME NEW days, NEW t \in SlotTime, NEW reading \in Int \cup {Never}, NEW upTo, DaysTrue(days, upTo), NEW s
  PROVE  HalvesStay(days, Noted(days, t, reading), s)
<1> DEFINE d == SlotDayOf(t)
           new == Noted(days, t, reading)
<1>1. /\ DOMAIN new = DOMAIN days \cup {d}
      /\ \A x \in DOMAIN days : x # d => new[x] = days[x]
      /\ new[d] \in DayRecord(d) /\ SameEnergy(new[d], DayOr(days, d))
  BY NotedIs, Zenon
<1>2. d \in DaysThere
  BY DayOfTick
<1> HIDE DEF d, new
<1>3. d \notin DOMAIN days => \A i \in SlotsOf(d) : new[d].observed[i] = 0
  BY <1>1, <1>2, DayOrTrue DEF SameEnergy
<1>4. d \in DOMAIN days => new[d].kwh = days[d].kwh /\ new[d].observed = days[d].observed
  BY <1>1 DEF SameEnergy, DayOr
<1>5. ASSUME NEW x \in DOMAIN new, NEW i \in SlotsOf(x), new[x].observed[i] > 0
      PROVE  x \in DOMAIN days /\ new[x].kwh[i] = days[x].kwh[i] /\ new[x].observed[i] = days[x].observed[i]
  <2>1. CASE x = d
    BY <1>3, <1>4, <1>5, <2>1
  <2>2. CASE x # d
    BY <1>1, <2>2
  <2> QED
    BY <2>1, <2>2
<1>6. HalvesStay(days, new, s)
  BY <1>5 DEF HalvesStay
<1> QED
  BY <1>6 DEF new

\* The file still has what it had.
HalvesIn(days, file, s) ==
  \A d \in DOMAIN days : \A i \in SlotsOf(d) :
    d + i * SlotLen < s /\ days[d].observed[i] > 0 => d \in DOMAIN file /\ file[d].kwh[i] = days[d].kwh[i]

LEMMA StillInFile ==
  ASSUME NEW days, NEW mid, NEW new, NEW file, NEW s, HalvesIn(days, file, s), HalvesStay(days, mid, s), HalvesStay(mid, new, s)
  PROVE  HalvesIn(new, file, s)
<1>1. ASSUME NEW d \in DOMAIN new, NEW i \in SlotsOf(d), d + i * SlotLen < s, new[d].observed[i] > 0
      PROVE  d \in DOMAIN file /\ file[d].kwh[i] = new[d].kwh[i]
  <2>1. d \in DOMAIN mid /\ new[d].kwh[i] = mid[d].kwh[i] /\ new[d].observed[i] = mid[d].observed[i]
    BY <1>1 DEF HalvesStay
  <2>2. mid[d].observed[i] > 0
    BY <1>1, <2>1
  <2>3. d \in DOMAIN days /\ mid[d].kwh[i] = days[d].kwh[i] /\ mid[d].observed[i] = days[d].observed[i]
    BY <1>1, <2>1, <2>2 DEF HalvesStay
  <2>4. days[d].observed[i] > 0
    BY <2>2, <2>3
  <2>5. d \in DOMAIN file /\ file[d].kwh[i] = days[d].kwh[i]
    BY <1>1, <2>3, <2>4 DEF HalvesIn
  <2> QED
    BY <2>1, <2>3, <2>5
<1> QED
  BY <1>1 DEF HalvesIn

-----------------------------------------------------------------------------
(* The invariant. *)
SeenBy == IF updated = Never THEN tick ELSE updated
SlotInv ==
  /\ tick \in SlotTime /\ running \in BOOLEAN /\ saveWaits \in BOOLEAN
  /\ updated \in SlotTime \cup {Never} /\ (updated # Never => updated <= tick)
  /\ DaysTrue(slotDays, SeenBy)
  /\ DaysTrue(disk, tick)
  /\ updated # Never /\ sampled # Never => sampled.day = SlotDayOf(updated) /\ sampled.value = MeterAt(updated)
  /\ savedSlot # Never => OnTheHalfHour(savedSlot) /\ savedSlot <= SeenBy
  /\ ~running => slotDays = <<>> /\ updated = Never /\ savedSlot = Never
  /\ running /\ ~saveWaits /\ savedSlot # Never => HalvesIn(slotDays, disk, savedSlot)

LEMMA NeverIsNoTick == Never \notin Int /\ Never \notin SlotTime /\ SlotTime \subseteq Nat
<1>1. SlotTime \subseteq Nat
  BY DayOfTick
<1>2. Never \notin Int
  BY SlotAssumption
<1>3. \A t \in SlotTime : t \in Int
  BY <1>1
<1> QED
  BY <1>1, <1>2, <1>3, Zenon

LEMMA NoDaysTrue ==
  ASSUME NEW upTo
  PROVE  DaysTrue(<<>>, upTo)
BY DEF DaysTrue

LEMMA SlotsBegin == SlotInit => SlotInv
<1> SUFFICES ASSUME SlotInit
             PROVE  SlotInv
  OBVIOUS
<1>1. tick \in SlotTime
  BY TimeIs DEF SlotInit, SlotTime
<1>2. DaysTrue(slotDays, SeenBy) /\ DaysTrue(disk, tick)
  BY NoDaysTrue DEF SlotInit
<1> QED
  BY <1>1, <1>2 DEF SlotInit, SlotInv

\* The meter goes up by what was used since.
LEMMA MeterRises ==
  ASSUME NEW from \in SlotTime, NEW to \in SlotTime, from < to, SlotDayOf(from) = SlotDayOf(to)
  PROVE  /\ MeterAt(from) \in Int /\ MeterAt(to) \in Int
         /\ MeterAt(to) - MeterAt(from) = UsedIn(from..(to - 1))
         /\ from..(to - 1) \in SUBSET Nat /\ IsFiniteSet(from..(to - 1))
         /\ Cardinality(from..(to - 1)) = to - from
<1> DEFINE d == SlotDayOf(from)
           before == d..(from - 1)
           between == from..(to - 1)
<1>1. from \in Nat /\ to \in Nat /\ d \in DaysThere /\ d <= from /\ d \in Nat
  BY DayOfTick, DayEndIs
<1>2. \A a, b \in Int : IsFiniteSet(a..b) /\ Cardinality(a..b) = IF a > b THEN 0 ELSE b - a + 1
  BY FS_Interval
<1>3. IsFiniteSet(before) /\ IsFiniteSet(between) /\ Cardinality(between) = to - from
  <2>1. from - 1 \in Int /\ to - 1 \in Int /\ ~(from > to - 1) /\ (to - 1) - from + 1 = to - from
    BY <1>1
  <2>2. d \in Int /\ from \in Int
    BY <1>1
  <2> HIDE DEF d
  <2>4. IsFiniteSet(before)
    BY <1>2, <2>1, <2>2
  <2>5. IsFiniteSet(between)
    BY <1>2, <2>1, <2>2
  <2>3. Cardinality(between) = (to - 1) - from + 1
    BY <1>1, <1>2, <2>1
  <2> QED
    BY <2>1, <2>3, <2>4, <2>5
<1>4. MeterAt(from) = UsedIn(before) /\ MeterAt(to) = UsedIn(d..(to - 1))
  BY DEF MeterAt
<1> HIDE DEF d
<1>5. before \in SUBSET Nat /\ between \in SUBSET Nat /\ before \cap between = {} /\ d..(to - 1) = before \cup between
  BY <1>1
<1>6. UsedIn(before) \in Int /\ UsedIn(between) \in Int /\ UsedIn(before \cup between) = UsedIn(before) + UsedIn(between)
  BY <1>3, <1>5, UsedParts
<1>7. \A a, b, c \in Int : c = a + b => c - a = b
  OBVIOUS
<1>8. MeterAt(to) \in Int /\ MeterAt(to) = MeterAt(from) + UsedIn(between) /\ MeterAt(from) \in Int
  <2>1. MeterAt(to) = MeterAt(from) + UsedIn(between) /\ MeterAt(from) \in Int
    BY <1>4, <1>5, <1>6, Zenon
  <2> QED
    BY <1>6, <2>1
<1> QED
  BY <1>3, <1>5, <1>6, <1>7, <1>8

LEMMA MeterTyped ==
  ASSUME NEW t \in SlotTime
  PROVE  MeterAt(t) \in Int
<1>1. t \in Nat /\ SlotDayOf(t) \in Nat
  BY DayOfTick, DayEndIs
<1> DEFINE T == SlotDayOf(t)..(t - 1)
<1>2. \A a, b \in Int : IsFiniteSet(a..b)
  BY FS_Interval
<1>3. T \in SUBSET Nat /\ IsFiniteSet(T)
  BY <1>1, <1>2
<1>4. {} \in SUBSET Nat /\ IsFiniteSet({}) /\ T \cap {} = {}
  BY FS_EmptySet
<1> HIDE DEF T
<1>5. UsedIn(T) \in Int
  BY <1>3, <1>4, UsedParts
<1> QED
  BY <1>5 DEF MeterAt, T

\* What each tick of an interval is booked with.
LEMMA EachTickIs ==
  ASSUME SlotInv, NEW reading \in {MeterAt(tick), Never}, IsInterval(updated, tick)
  PROVE  EachTick(reading) \in Int /\ Booking(updated, tick, EachTick(reading), Rises(reading))
<1>1. updated \in SlotTime /\ tick \in SlotTime /\ updated \in Nat /\ tick \in Nat /\ updated < tick /\ tick - updated \in 1..MaxInterval
  <2>1. updated \in SlotTime /\ tick \in SlotTime
    BY DEF SlotInv, IsInterval
  <2>2. updated \in Nat /\ tick \in Nat
    BY <2>1, DayOfTick
  <2>3. 0 < tick - updated /\ tick - updated <= MaxInterval
    BY DEF IsInterval
  <2> QED
    BY <2>1, <2>2, <2>3, SlotAssumption
<1>2. CASE Rises(reading)
  <2> DEFINE n == tick - updated
             between == updated..(tick - 1)
  <2>1. /\ reading = MeterAt(tick) /\ sampled.day = SlotDayOf(tick)
        /\ sampled.day = SlotDayOf(updated) /\ sampled.value = MeterAt(updated)
    BY <1>1, <1>2, NeverIsNoTick DEF Rises, SlotInv
  <2>2. SlotDayOf(updated) = SlotDayOf(tick)
    BY <2>1
  <2>3. /\ MeterAt(tick) - MeterAt(updated) = UsedIn(between)
        /\ between \in SUBSET Nat /\ IsFiniteSet(between) /\ Cardinality(between) = n
    BY <1>1, <2>2, MeterRises
  <2>4. PICK u \in Int : UsedIn(between) = Grain * u
    BY <2>3, WholeUnits
  <2>5. (Grain * u) \div n \in Int /\ ((Grain * u) \div n) * n = Grain * u
    BY <1>1, EvenShares
  <2>6. EachTick(reading) = (Grain * u) \div n
    BY <1>2, <2>1, <2>3, <2>4 DEF EachTick
  <2>7. EachTick(reading) \in Int /\ EachTick(reading) * Cardinality(between) = UsedIn(between)
    BY <2>3, <2>4, <2>5, <2>6
  <2>8. ASSUME NEW d \in Touched(updated, tick)
        PROVE  PieceOn(updated, tick, d) = between
    <3>1. Pieces(updated, tick) = between
      BY <2>8 DEF Touched, Pieces
    <3>2. \A t \in between : t \in SlotTime /\ updated <= t /\ t < tick
      BY <1>1, TimeIs DEF SlotTime
    <3>3. \A t \in between : SlotDayOf(t) = SlotDayOf(updated)
      <4>1. SlotDayOf(updated) \in DaysThere /\ SlotDayOf(updated) <= updated /\ tick < DayEnd(SlotDayOf(updated))
        BY <1>1, <2>2, DayOfTick
      <4>2. SlotDayOf(updated) \in Nat /\ DayEnd(SlotDayOf(updated)) \in Nat
        BY <4>1, DayEndIs
      <4>3. ASSUME NEW t \in between
            PROVE  SlotDayOf(t) = SlotDayOf(updated)
        <5>1. t \in SlotTime /\ t \in Nat /\ updated <= t /\ t < tick
          BY <3>2, <4>3, DayOfTick
        <5>2. SlotDayOf(updated) <= t /\ t < DayEnd(SlotDayOf(updated))
          BY <1>1, <4>1, <4>2, <5>1
        <5> QED
          BY <4>1, <5>1, <5>2, DayOfIsThat
      <4> QED
        BY <4>3
    <3>4. d = SlotDayOf(updated)
      BY <3>1, <3>3 DEF Touched
    <3> HIDE DEF between
    <3> QED
      BY <3>1, <3>3, <3>4 DEF PieceOn
  <2> HIDE DEF between
  <2>9. Booking(updated, tick, EachTick(reading), Rises(reading))
    BY <2>7, <2>8 DEF Booking
  <2> QED
    BY <2>7, <2>9
<1>3. CASE ~Rises(reading)
  <2>1. EachTick(reading) = Use(tick - 1)
    BY <1>3 DEF EachTick
  <2>2. tick - 1 \in Nat
    BY <1>1
  <2>3. EachTick(reading) \in Int
    BY <2>1, <2>2, UseTyped
  <2>4. Booking(updated, tick, EachTick(reading), Rises(reading))
    BY <1>3 DEF Booking
  <2> QED
    BY <2>3, <2>4
<1> QED
  BY <1>2, <1>3

DaysBooked(reading) ==
  IF updated = Never \/ updated = tick THEN slotDays
  ELSE RecordedInto(slotDays, updated, tick, EachTick(reading), Rises(reading))

LEMMA BookedIs ==
  ASSUME SlotInv, NEW reading \in {MeterAt(tick), Never}
  PROVE  /\ DaysTrue(DaysBooked(reading), tick)
         /\ ~IsInterval(updated, tick) => DaysBooked(reading) = slotDays
         /\ savedSlot # Never => HalvesStay(slotDays, DaysBooked(reading), savedSlot)
<1>1. tick \in SlotTime /\ tick \in Nat /\ DaysTrue(slotDays, SeenBy)
  BY DayOfTick DEF SlotInv
<1>2. SeenBy \in Int /\ SeenBy <= tick
  BY <1>1, NeverIsNoTick DEF SlotInv, SeenBy
<1>3. CASE DaysBooked(reading) = slotDays
  <2>1. DaysTrue(slotDays, tick)
    BY <1>1, <1>2, DaysTrueStill
  <2>2. HalvesStay(slotDays, slotDays, savedSlot)
    BY DEF HalvesStay
  <2> QED
    BY <1>3, <2>1, <2>2
<1>4. CASE DaysBooked(reading) # slotDays
  <2>1. updated # Never /\ IsInterval(updated, tick)
    BY <1>4 DEF DaysBooked, RecordedInto
  <2>2. DaysBooked(reading) = Recorded(slotDays, updated, tick, EachTick(reading), Rises(reading))
    BY <1>4, <2>1 DEF DaysBooked, RecordedInto
  <2>3. updated \in SlotTime /\ updated <= tick /\ SeenBy = updated
    BY <2>1 DEF SlotInv, SeenBy
  <2>4. EachTick(reading) \in Int /\ Booking(updated, tick, EachTick(reading), Rises(reading))
    BY <2>1, EachTickIs
  <2>5. DaysTrue(slotDays, updated)
    BY <1>1, <2>3
  <2> DEFINE each == EachTick(reading)
             counted == Rises(reading)
  <2>6. each \in Int /\ Booking(updated, tick, each, counted)
    BY <2>4
  <2>7. DaysBooked(reading) = Recorded(slotDays, updated, tick, each, counted)
    BY <2>2
  <2> HIDE DEF each, counted
  <2>8. DaysTrue(Recorded(slotDays, updated, tick, each, counted), tick)
    BY <1>1, <2>3, <2>5, <2>6, RecordedTrue
  <2>9. ASSUME savedSlot # Never
        PROVE  HalvesStay(slotDays, Recorded(slotDays, updated, tick, each, counted), savedSlot)
    <3>1. OnTheHalfHour(savedSlot) /\ savedSlot <= updated
      BY <2>3, <2>9 DEF SlotInv
    <3> QED
      BY <1>1, <2>3, <2>5, <2>6, <3>1, RecordedStays
  <2> QED
    BY <2>1, <2>7, <2>8, <2>9
<1> QED
  BY <1>3, <1>4

LEMMA SlotCycleKeeps == SlotInv /\ SlotCycle => SlotInv'
<1> SUFFICES ASSUME SlotInv, SlotCycle
             PROVE  SlotInv'
  OBVIOUS
<1> DEFINE half == SlotDayOf(tick) + SlotAt(tick) * SlotLen
<1>1. PICK reading \in {MeterAt(tick), Never} :
        /\ running /\ updated # tick
        /\ slotDays' = Noted(DaysBooked(reading), tick, reading)
        /\ sampled' = IF reading = Never THEN Never ELSE [day |-> SlotDayOf(tick), value |-> reading]
        /\ savedSlot' = IF IsInterval(updated, tick) THEN half ELSE savedSlot
        /\ saveWaits' = (saveWaits \/ (IsInterval(updated, tick) /\ half # savedSlot))
        /\ updated' = tick
        /\ tick' = tick /\ running' = running /\ disk' = disk
  BY Zenon DEF SlotCycle, DaysBooked
<1>2. tick \in SlotTime /\ tick \in Nat /\ tick # Never
  BY DayOfTick, NeverIsNoTick DEF SlotInv
<1>3. reading \in Int \cup {Never}
  BY <1>2, MeterTyped
<1>4. /\ DaysTrue(DaysBooked(reading), tick)
      /\ ~IsInterval(updated, tick) => DaysBooked(reading) = slotDays
      /\ savedSlot # Never => HalvesStay(slotDays, DaysBooked(reading), savedSlot)
  BY BookedIs
<1>5. DaysTrue(slotDays', tick)
  BY <1>1, <1>2, <1>3, <1>4, NotedTrue
<1>6. SeenBy' = tick
  BY <1>1, <1>2 DEF SeenBy
<1>7. OnTheHalfHour(half) /\ half <= tick
  BY <1>2, HalfHourIs
<1> HIDE DEF half
<1>8. savedSlot' # Never => OnTheHalfHour(savedSlot') /\ savedSlot' <= tick
  <2>1. CASE IsInterval(updated, tick)
    BY <1>1, <1>7, <2>1
  <2>2. CASE ~IsInterval(updated, tick)
    <3>1. savedSlot' = savedSlot
      BY <1>1, <2>2
    <3>2. savedSlot # Never => OnTheHalfHour(savedSlot) /\ savedSlot <= SeenBy
      BY DEF SlotInv
    <3>3. SeenBy \in Int /\ SeenBy <= tick
      BY <1>2, NeverIsNoTick DEF SlotInv, SeenBy
    <3>4. OnTheHalfHour(savedSlot) => savedSlot \in Int
      BY DEF OnTheHalfHour
    <3> QED
      BY <1>2, <3>1, <3>2, <3>3, <3>4
  <2> QED
    BY <2>1, <2>2
<1>9. ASSUME ~saveWaits', savedSlot' # Never
      PROVE  HalvesIn(slotDays', disk', savedSlot')
  <2>1. ~saveWaits /\ savedSlot' = savedSlot
    <3>1. ~saveWaits /\ ~(IsInterval(updated, tick) /\ half # savedSlot)
      BY <1>1, <1>9
    <3> QED
      BY <1>1, <3>1
  <2>2. HalvesIn(slotDays, disk, savedSlot)
    BY <1>1, <1>9, <2>1 DEF SlotInv
  <2>3. HalvesStay(slotDays, DaysBooked(reading), savedSlot)
    BY <1>4, <1>9, <2>1
  <2>4. HalvesStay(DaysBooked(reading), Noted(DaysBooked(reading), tick, reading), savedSlot)
    BY <1>2, <1>3, <1>4, NotedStays
  <2>5. HalvesIn(Noted(DaysBooked(reading), tick, reading), disk, savedSlot)
    BY <2>2, <2>3, <2>4, StillInFile
  <2> QED
    BY <1>1, <2>1, <2>5
<1>10. sampled' # Never => sampled'.day = SlotDayOf(tick) /\ sampled'.value = MeterAt(tick)
  BY <1>1
<1>11. saveWaits' \in BOOLEAN
  BY <1>1
<1>12. DaysTrue(disk, tick) /\ running \in BOOLEAN
  BY DEF SlotInv
<1>13. tick <= tick
  BY <1>2
<1> QED
  BY <1>1, <1>2, <1>5, <1>6, <1>8, <1>9, <1>10, <1>11, <1>12, <1>13 DEF SlotInv

LEMMA SlotTickKeeps == SlotInv /\ SlotTick => SlotInv'
<1> SUFFICES ASSUME SlotInv, SlotTick
             PROVE  SlotInv'
  OBVIOUS
<1>1. /\ tick < LastTick /\ tick' = tick + 1 /\ updated' \in {Never, updated}
      /\ running' = running /\ slotDays' = slotDays /\ disk' = disk /\ saveWaits' = saveWaits
      /\ sampled' = sampled /\ savedSlot' = savedSlot
  BY DEF SlotTick
<1>2. tick \in SlotTime /\ tick \in Nat
  BY DayOfTick DEF SlotInv
<1>3. tick' \in SlotTime /\ tick' \in Nat /\ tick <= tick'
  BY <1>1, <1>2, TimeIs DEF SlotTime
<1>4. updated' \in SlotTime \cup {Never} /\ (updated' # Never => updated' = updated /\ updated \in SlotTime /\ updated' <= tick')
  BY <1>1, <1>2, NeverIsNoTick DEF SlotInv
<1>5. SeenBy \in Int /\ SeenBy' \in Int /\ SeenBy <= SeenBy'
  BY <1>1, <1>2, <1>3, <1>4, NeverIsNoTick DEF SlotInv, SeenBy
<1>6. DaysTrue(slotDays', SeenBy') /\ DaysTrue(disk', tick')
  <2>1. DaysTrue(slotDays, SeenBy) /\ DaysTrue(disk, tick)
    BY DEF SlotInv
  <2> QED
    BY <1>1, <1>2, <1>3, <1>5, <2>1, DaysTrueStill
<1>7. savedSlot' # Never => OnTheHalfHour(savedSlot') /\ savedSlot' <= SeenBy'
  <2>1. savedSlot # Never => OnTheHalfHour(savedSlot) /\ savedSlot <= SeenBy
    BY DEF SlotInv
  <2>2. OnTheHalfHour(savedSlot) => savedSlot \in Int
    BY DEF OnTheHalfHour
  <2> QED
    BY <1>1, <1>5, <2>1, <2>2
<1>8. ~running' => slotDays' = <<>> /\ updated' = Never /\ savedSlot' = Never
  BY <1>1 DEF SlotInv
<1>9. /\ running' \in BOOLEAN /\ saveWaits' \in BOOLEAN
      /\ running' /\ ~saveWaits' /\ savedSlot' # Never => HalvesIn(slotDays', disk', savedSlot')
  BY <1>1 DEF SlotInv
<1>10. updated' # Never /\ sampled' # Never => sampled'.day = SlotDayOf(updated') /\ sampled'.value = MeterAt(updated')
  BY <1>1, <1>4 DEF SlotInv
<1> QED
  BY <1>3, <1>4, <1>6, <1>7, <1>8, <1>9, <1>10 DEF SlotInv

LEMMA OthersKeepSlots == SlotInv /\ (FeedStops \/ WriteSlots \/ StopSlots \/ LoadSlots \/ UNCHANGED slotVars) => SlotInv'
<1> SUFFICES ASSUME SlotInv
             PROVE  FeedStops \/ WriteSlots \/ StopSlots \/ LoadSlots \/ UNCHANGED slotVars => SlotInv'
  OBVIOUS
<1>1. tick \in SlotTime /\ tick \in Int
  BY DayOfTick DEF SlotInv
<1>2. SeenBy \in Int /\ SeenBy <= tick /\ (updated = Never => SeenBy = tick)
  BY <1>1, NeverIsNoTick DEF SlotInv, SeenBy
<1>3. DaysTrue(slotDays, SeenBy) /\ DaysTrue(disk, tick)
  BY DEF SlotInv
<1>4. DaysTrue(slotDays, tick)
  BY <1>1, <1>2, <1>3, DaysTrueStill
<1>5. savedSlot # Never => OnTheHalfHour(savedSlot) /\ savedSlot <= SeenBy /\ savedSlot \in Int
  BY DEF SlotInv, OnTheHalfHour
<1>6. ASSUME FeedStops
      PROVE  SlotInv'
  <2>1. /\ running /\ updated' = Never /\ tick' = tick /\ running' = running /\ slotDays' = slotDays /\ disk' = disk
        /\ saveWaits' = saveWaits /\ sampled' = sampled /\ savedSlot' = savedSlot
    BY <1>6 DEF FeedStops
  <2>2. SeenBy' = tick
    BY <2>1 DEF SeenBy
  <2>3. savedSlot # Never => savedSlot <= tick
    BY <1>1, <1>2, <1>5
  <2> QED
    BY <1>1, <1>3, <1>4, <1>5, <2>1, <2>2, <2>3 DEF SlotInv
<1>7. ASSUME WriteSlots
      PROVE  SlotInv'
  <2>1. /\ running /\ updated' = updated /\ tick' = tick /\ running' = running /\ slotDays' = slotDays /\ disk' = slotDays
        /\ saveWaits' = FALSE /\ sampled' = sampled /\ savedSlot' = savedSlot
    BY <1>7 DEF WriteSlots
  <2>2. SeenBy' = SeenBy
    BY <2>1 DEF SeenBy
  <2>3. HalvesIn(slotDays, slotDays, savedSlot)
    BY DEF HalvesIn
  <2> QED
    BY <1>3, <1>4, <2>1, <2>2, <2>3 DEF SlotInv
<1>8. ASSUME StopSlots
      PROVE  SlotInv'
  <2>1. /\ running' = FALSE /\ disk' \in {disk, slotDays} /\ slotDays' = <<>> /\ saveWaits' = FALSE
        /\ sampled' = Never /\ updated' = Never /\ savedSlot' = Never /\ tick' = tick
    BY <1>8 DEF StopSlots
  <2>2. DaysTrue(disk', tick)
    BY <1>3, <1>4, <2>1
  <2>3. DaysTrue(slotDays', SeenBy')
    BY <2>1, NoDaysTrue
  <2> QED
    BY <1>1, <2>1, <2>2, <2>3 DEF SlotInv
<1>9. ASSUME LoadSlots
      PROVE  SlotInv'
  <2>1. /\ ~running /\ running' = TRUE /\ tick' = tick /\ disk' = disk /\ saveWaits' = saveWaits /\ sampled' = sampled
        /\ updated' = updated /\ savedSlot' = savedSlot
        /\ \E good \in SUBSET DOMAIN disk : slotDays' = ReadBack(good)
    BY <1>9 DEF LoadSlots
  <2>2. updated = Never /\ savedSlot = Never
    BY <2>1 DEF SlotInv
  <2>3. DaysTrue(slotDays', tick)
    <3>1. PICK good \in SUBSET DOMAIN disk : slotDays' = [d \in good |-> disk[d]]
      BY <2>1 DEF ReadBack, Restrict
    <3> QED
      BY <1>3, <3>1 DEF DaysTrue
  <2>4. SeenBy' = tick
    BY <2>1, <2>2 DEF SeenBy
  <2> QED
    BY <1>1, <1>3, <2>1, <2>2, <2>3, <2>4 DEF SlotInv
<1>10. ASSUME UNCHANGED slotVars
       PROVE  SlotInv'
  <2>1. SeenBy' = SeenBy
    BY <1>10 DEF slotVars, SeenBy
  <2> QED
    BY <1>10, <2>1 DEF slotVars, SlotInv
<1> QED
  BY <1>6, <1>7, <1>8, <1>9, <1>10

LEMMA SlotsKeep == SlotInv /\ [SlotNext]_slotVars => SlotInv'
BY SlotCycleKeeps, SlotTickKeeps, OthersKeepSlots DEF SlotNext

LEMMA SlotsFollow == SlotInv => SlotsAreSound
<1> SUFFICES ASSUME SlotInv
             PROVE  SlotsAreSound
  OBVIOUS
<1>1. \A d \in DOMAIN slotDays : DayTrue(slotDays[d], d, SeenBy)
  BY DEF SlotInv, DaysTrue
<1>2. SlotsAreTrue
  BY <1>1 DEF SlotsAreTrue, DayTrue, OfDayTicks
<1>3. HalfHoursAreSaved
  BY DEF SlotInv, HalvesIn, HalfHoursAreSaved
<1> QED
  BY <1>2, <1>3 DEF SlotsAreSound

\* The half-hourly history is sound, whatever the days, the half hours, the time
\* between two cycles and the days kept are: a day holds what the meter counted in
\* the ticks it was booked for and the estimates of the others, each tick once and in
\* its half hour, and what is before the half hour last booked is in the file when no
\* save waits (SlotSampler, SlotHistory, SlotStore).
THEOREM SlotsHold == SlotSpec => []SlotsAreSound
<1>1. SlotInv /\ [SlotNext]_slotVars => SlotInv'
  BY SlotsKeep
<1> QED
  BY <1>1, SlotsBegin, SlotsFollow, PTL DEF SlotSpec
=============================================================================
