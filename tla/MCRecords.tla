------------------------------ MODULE MCRecords ------------------------------
(***************************************************************************)
(* What is written down, read back and priced, side by side: the totals,   *)
(* the half-hourly history, the tariffs, Configure, the set-up and what is *)
(* learned of the sun.  A behaviour takes the steps of one of them while   *)
(* the others stay as they began.                                          *)
(***************************************************************************)
EXTENDS PeriodTotals, OptionsWizard, SlotHistory, TariffBill, ShadowTariffs,
        EnergyStep, SetupWizard, SolarLearning

VARIABLE record

vars == <<record, totalsVars, wizardVars, slotVars, documentVars, billVars, indexVars, shadowVars,
          energyVars, setupVars, learnVars>>

\* A week that starts on day 1 and a bill period that starts on day 2.
WeekAndMonth == {"week", "month"}
MCStarts == [p \in WeekAndMonth |-> IF p = "week" THEN {1} ELSE {2}]

\* Up to two timed rates, as dear as each other or not, over each other or not, and
\* options no document can be written for.
Timed(names, rates) ==
  {p \in [name : names, rate : rates, start : 0..2, end : 0..2] : p.start # p.end}
SomeOptions ==
  [periods : {<<>>} \cup {<<p>> : p \in Timed({"a", Base}, {15})}
               \cup {<<p, q>> : p \in Timed({"a"}, {15, 25}), q \in Timed({"a", "b"}, {15})},
   base : {25}, exportRate : {15}, standing : {35}, levy : {40},
   vat : {0, 20}, saving : {0, 20, 100}, startDay : {1, 31}]

\* Two zones, over midnight or not, of some days and as a holiday has it.
ZoneOf(name, priority, days) ==
  {z \in [name : {name}, priority : {priority}, price : {15}, start : 0..2, end : 0..2,
          days : days, holidays : BOOLEAN] : z.start # z.end}
SomeDocuments == {{y, z} : y \in ZoneOf("a", 1, {{}, {0}, {2}}), z \in ZoneOf("b", 2, {{2}})}
SomeUsages == {[import |-> (0 :> 1 @@ 1 :> 3 @@ 2 :> 2), export |-> 1, days |-> d, periodDays |-> 4] :
                 d \in {1, 2}}

\* What an author writes in each section of a document, the first of each a good text.
Energy(exact) == Node("energy_by_band") @@ [roundBands |-> exact]
Reduced(percent, inner) == Node("adjust") @@ [percent |-> percent, of |-> inner]
WithTax(percent, mode, inner) == Node("tax") @@ [percent |-> percent, mode |-> mode, of |-> inner]
Charge(amount) == Node("per_day") @@ [amount |-> amount]
Levy(share) == Node("per_period") @@ [amount |-> 40, share |-> share]
Both(a, b) == Node("sum") @@ [of |-> <<a, b>>]
RatesFor(name, priority, from, to, days) ==
  [name |-> name, priority |-> priority, price |-> 15, start |-> from, end |-> to, days |-> days,
   holidays |-> FALSE]
SomeVariants ==
  [plain |-> <<{}, {"schema"}, {"id"}, {"timezone"}>>,
   number |-> <<[revision |-> 1, supersedes |-> 0], [revision |-> 1, supersedes |-> 1],
                [revision |-> 2, supersedes |-> 1]>>,
   dates |-> <<[from |-> 1, to |-> Open], [from |-> 1, to |-> 2], [from |-> 1, to |-> 1]>>,
   place |-> <<[country |-> "IE", region |-> "IE"], [country |-> "GB", region |-> "none"],
               [country |-> "GB", region |-> "IE"]>>,
   inputs |-> <<[day |-> [min |-> 1, max |-> 28, default |-> 1]],
                [day |-> [min |-> 1, max |-> 31, default |-> 1]],
                [day |-> [min |-> 0, max |-> 3, default |-> 4]], <<>>>>,
   base |-> <<[name |-> Base, price |-> 25], [name |-> "a", price |-> 25], [name |-> Base, price |-> -5]>>,
   zones |-> <<<<RatesFor("a", 1, 0, 1, {}), RatesFor("b", 2, 2, 1, {2})>>, <<>>,
               <<RatesFor("a", 1, 0, 2, {}), RatesFor("b", 1, 1, 0, {0})>>,
               <<RatesFor("a", 1, 0, 1, {}), RatesFor("a", 2, 0, 2, {})>>,
               <<RatesFor("a", 1, 1, 1, {})>>, <<[RatesFor("a", 1, 0, 1, {}) EXCEPT !.price = -5]>>>>,
   start |-> <<[input |-> "day"], [input |-> "other"], [fixed |-> 28], [fixed |-> 29], [fixed |-> 0]>>,
   total |-> <<Both(WithTax(20, "added", Both(Reduced(-20, Energy(TRUE)), Both(Charge(35), Levy("days_in_period")))),
                    Node("export_credit")),
               WithTax(20, "included", Reduced(-99, Both(Energy(FALSE), Levy("whole")))),
               Reduced(-101, Energy(TRUE)), WithTax(-200, "added", Energy(TRUE)), Both(Charge(-35), Energy(TRUE)),
               Node("sum") @@ [of |-> <<>>], Node("gas"),
               Reduced(0, Reduced(0, Reduced(0, Reduced(0, Reduced(0, Energy(TRUE))))))>>,
   checks |-> <<{}, {{Base}}, {{"a", Base}, {"b"}}>>,
   complete |-> <<FALSE, TRUE>>]

\* Names that are the same but for capitals, that make the same word, and that make
\* the word another is numbered to.
Named(word, fold, text) == [word |-> word, fold |-> fold, text |-> text]
SomeNames == {Named(<<"ab">>, "a b", "A b"), Named(<<"ab">>, "a b", "a B"),
              Named(<<"ab">>, "a-b", "a-b"), Named(<<"ab", 2>>, "a b 2", "a b 2"),
              Named(<<"tariff">>, "", "")}

\* A charge from the grid, the car and the heater beside one and on the battery, the sun
\* on everything, and the battery on its own.
Flow(solar, house, ev, heat, charging) ==
  [solar |-> solar, house |-> house, ev |-> ev, heat |-> heat, battery |-> charging]
SomeFlows == {Flow(0, 1, 0, 0, 2), Flow(0, 2, 2, 1, -1), Flow(4, 1, 0, 1, 1), Flow(0, 1, 0, 0, -2),
              Flow(0, 2, 2, 1, 1)}
SomeReadings == {{"soc", "ac", "bms"}, {"soc", "ac"}, {"bms"}}

\* One inverter, the same while GivTCP is only half there, two of which one has a prefix of its own and
\* no capacity to read, a Gateway over one, and one that lacks its solar power beside another.
Hybrid(n) ==
  [id |-> n, serial |-> "shown", prefixed |-> n # 2, version |-> TRUE, marks |-> {}, text |-> "hybrid",
   power |-> PowerRoles, awake |-> PowerRoles, charge |-> TRUE, limit |-> TRUE, units |-> 0, modules |-> 2]
HalfThere == [Hybrid(1) EXCEPT !.serial = "silent", !.awake = {}, !.text = "none", !.limit = FALSE]
Gateway(units) ==
  [Hybrid(3) EXCEPT !.serial = "none", !.marks = {"gateway"}, !.text = "none", !.units = units, !.limit = FALSE]
SomeLayouts == {{HalfThere}, {[Hybrid(1) EXCEPT !.limit = FALSE], Hybrid(2)}, {Hybrid(1), Gateway(2)},
                {[Hybrid(1) EXCEPT !.power = {"battery"}], Hybrid(2)}}
SomeTicks == {{"tariff", "hot_water"}, {"forecast"}}
SomeWarnings == {{}, {"unit"}, {"sensor"}}

\* A provider with a low estimate and a shape, and one that has no more than a total.
Forecast(kwh, p10, shaped) == [kwh |-> kwh, p10 |-> p10, shaped |-> shaped]
SomeForecasts == {Forecast(4, 2, TRUE), Forecast(2, NoFigure, FALSE)}

\* The tariffs accepted, priced, dated and compared (core/shadow_pricing.py, lib/tariff).
TariffsAreSound == DocumentsCanBeBilled /\ BillsAgree /\ IndexIsSound /\ ShadowsAreSound

BillParked == household = NoTariff /\ zones = {} /\ usage = NoTariff /\ bill = NoTariff
IndexParked == files = <<>> /\ index = NoIndex /\ asked = 0 /\ loaded = NoIndex

Init ==
  /\ record \in {"totals", "wizard", "slots", "document", "bill", "index", "shadows", "energy",
                "setup", "learning"}
  /\ TotalsInit
  /\ WizardInit
  /\ SlotInit
  /\ DocumentInit
  /\ IF record = "bill" THEN BillInit ELSE BillParked
  /\ IF record = "index" THEN IndexInit ELSE IndexParked
  /\ ShadowInit
  /\ IF record = "energy" THEN TRUE ELSE pack = [soc |-> EmptyAt, ac |-> 0, fallen |-> 0]
  /\ EnergyInit
  /\ IF record = "setup" THEN TRUE ELSE layout = CHOOSE devices \in Layouts : TRUE
  /\ SetupInit
  /\ IF record = "learning" THEN TRUE ELSE learned = NothingLearned
  /\ LearnInit

\* What the other parts keep.
Only(r) ==
  /\ record = r /\ record' = r
  /\ IF r = "totals" THEN TRUE ELSE UNCHANGED totalsVars
  /\ IF r = "wizard" THEN TRUE ELSE UNCHANGED wizardVars
  /\ IF r = "slots" THEN TRUE ELSE UNCHANGED slotVars
  /\ IF r = "document" THEN TRUE ELSE UNCHANGED documentVars
  /\ IF r = "bill" THEN TRUE ELSE UNCHANGED billVars
  /\ IF r = "index" THEN TRUE ELSE UNCHANGED indexVars
  /\ IF r = "shadows" THEN TRUE ELSE UNCHANGED shadowVars
  /\ IF r = "energy" THEN TRUE ELSE UNCHANGED energyVars
  /\ IF r = "setup" THEN TRUE ELSE UNCHANGED setupVars
  /\ IF r = "learning" THEN TRUE ELSE UNCHANGED learnVars

Next ==
  \/ Only("totals") /\ TotalsNext
  \/ Only("wizard") /\ WizardNext
  \/ Only("slots") /\ SlotNext
  \/ Only("document") /\ DocumentNext
  \/ Only("bill") /\ BillNext
  \/ Only("index") /\ IndexNext
  \/ Only("shadows") /\ ShadowNext
  \/ Only("energy") /\ EnergyNext
  \/ Only("setup") /\ SetupNext
  \/ Only("learning") /\ LearnNext

Spec == Init /\ [][Next]_vars
=============================================================================
