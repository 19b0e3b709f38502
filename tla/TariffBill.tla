------------------------------- MODULE TariffBill -------------------------------
(***************************************************************************)
(* Tariff documents: what is refused of one (definition_parse.py), the     *)
(* household's tariff written as one (lib/tariff/compile.py), which hours  *)
(* a document puts in which band (bands.py), and the bill its tree prices  *)
(* (engine.py), beside the bill the options give (reprice.py,              *)
(* TariffConfig.calculate_bill).                                           *)
(* Then the index of the documents (index.py): the revisions of one        *)
(* tariff, what build_index refuses of them, and the document that prices  *)
(* a day, read through the index from files that may have changed since.   *)
(* A revision is in force from its first day until its last, which it does *)
(* not include, or for good; a checksum is what it was taken of.           *)
(*                                                                         *)
(* An amount is a number of mills, Cent of them to the smallest unit of    *)
(* the currency; prices, percentages and the days of a bill are such that  *)
(* a product is a whole number of mills.  The hours of a day are the slots *)
(* 0..Hours-1.                                                             *)
(***************************************************************************)
EXTENDS Integers, Sequences, FiniteSets, SequencesExt

CONSTANTS
  Cent,          \* mills in the smallest unit
  Hours,         \* slots in a day
  WeekDays,      \* days of the week, from 0
  Weekend,       \* those of the weekend
  Holiday,       \* a public holiday among the others
  TariffOptions,    \* the options a household may hold
  TariffDocuments,  \* the zones of documents of other tariffs
  Usages,        \* what is imported in each slot of a day, and exported
  MaxDepth,      \* MAX_TARIFF_TREE_DEPTH
  Variants,      \* what an author may write in each section of a document, the good text first
  MaxRewrites,   \* bound on the sections an author writes
  IndexDays,     \* the days, from 0
  Numbers,       \* the numbers of revisions
  Open,          \* the end of a revision that has none
  NoTariff

VARIABLES
  document,      \* what an author has written
  verdict,       \* the field its error names, Accepted, or NoTariff before it is read
  rewrites,      \* history: the sections written
  household,     \* a TariffConfig, or NoTariff
  zones,         \* the zones of the definition, or NoTariff when it is refused
  usage,         \* the slots' energy
  bill           \* the amounts worked out, or NoTariff

documentVars == <<document, verdict, rewrites>>
billVars == <<household, zones, usage, bill>>

Base == "base"

(* ------------------------- the options' own rules ----------------------- *)

\* The cheapest of the timed rates under way, the first of equal ones.
ActiveAt(p, h) == IF p.start <= p.end THEN p.start <= h /\ h < p.end ELSE h >= p.start \/ h < p.end
Active(config, h) == {i \in DOMAIN config.periods : ActiveAt(config.periods[i], h)}
Cheapest(config, S) ==
  CHOOSE i \in S : \A j \in S :
    \/ config.periods[i].rate < config.periods[j].rate
    \/ config.periods[i].rate = config.periods[j].rate /\ i <= j
CurrentRate(config, h) ==
  IF Active(config, h) = {} THEN [name |-> Base, rate |-> config.base]
  ELSE LET p == config.periods[Cheapest(config, Active(config, h))]
       IN [name |-> p.name, rate |-> p.rate]

(* --------------------------- writing a document ------------------------- *)

\* What PriorityOf would be with equal rates in the order they are listed.
PriorityInOrder(config, i) ==
  1 + Cardinality({j \in DOMAIN config.periods :
        \/ config.periods[j].rate > config.periods[i].rate
        \/ config.periods[j].rate = config.periods[i].rate /\ j < i})

\* The dearest timed rate has priority 1; of equal ones the first listed outranks.
PriorityOf(config, i) ==
  1 + Cardinality({j \in DOMAIN config.periods :
        \/ config.periods[j].rate > config.periods[i].rate
        \/ config.periods[j].rate = config.periods[i].rate /\ j > i})
ZonesOf(config) ==
  {[name |-> config.periods[i].name, priority |-> PriorityOf(config, i),
    price |-> config.periods[i].rate, start |-> config.periods[i].start,
    end |-> config.periods[i].end, days |-> {}, holidays |-> FALSE] :
   i \in DOMAIN config.periods}

\* The tree: the saving on the energy, the charges with it, VAT on them, and the credit.
Node(kind) == [kind |-> kind, exact |-> FALSE]
TotalOf(config) ==
  LET energy == Node("energy_by_band") @@ [roundBands |-> TRUE]
      saved == Node("adjust") @@ [percent |-> -config.saving, of |-> energy]
      standing == Node("per_day") @@ [amount |-> config.standing]
      levy == Node("per_period") @@ [amount |-> config.levy, share |-> "days_in_period"]
      charges == Node("sum") @@ [of |-> <<saved, standing, levy>>]
      taxed == Node("tax") @@ [percent |-> config.vat, mode |-> "added", of |-> charges]
  IN Node("sum") @@ [of |-> <<taxed, Node("export_credit")>>]

DocumentOf(config) ==
  [plain |-> {}, number |-> [revision |-> 1, supersedes |-> 0], dates |-> [from |-> 0, to |-> Open],
   place |-> [country |-> "IE", region |-> "none"], inputs |-> <<>>,
   base |-> [name |-> Base, price |-> config.base], zones |-> SetToSeq(ZonesOf(config)),
   start |-> [fixed |-> config.startDay], total |-> TotalOf(config), checks |-> {}, complete |-> FALSE]

(* -------------------------- reading a document -------------------------- *)

\* A section of a document that is read, what is read there, and whether it is accepted.  What is
\* missing, unknown or of another type is in `plain`, at the field.
Reading(section, what, accepted) == [at |-> section, what |-> what, ok |-> accepted]
Of(section, what, S, Accepted(_)) == Reading(section, what, \A x \in S : Accepted(x))

IdentityRead(d) ==
  <<Reading("plain", "schema", "schema" \notin d.plain),
    Reading("dates", "effective_to", d.dates.to = Open \/ d.dates.from < d.dates.to),
    Reading("plain", "id", "id" \notin d.plain),
    Reading("number", "supersedes", d.number.supersedes < d.number.revision),
    Reading("place", "region", d.place.region \in {"none", d.place.country})>>

InputsRead(d) ==
  <<Of("inputs", "min", DOMAIN d.inputs, LAMBDA n : d.inputs[n].min <= d.inputs[n].max),
    Of("inputs", "default", DOMAIN d.inputs,
       LAMBDA n : d.inputs[n].min <= d.inputs[n].default /\ d.inputs[n].default <= d.inputs[n].max)>>

Unique(zs, what) ==
  \A i, j \in DOMAIN zs : i = j \/ IF what = "name" THEN zs[i].name # zs[j].name
                                   ELSE zs[i].priority # zs[j].priority
PricesRead(d) ==
  <<Of("zones", "hours", DOMAIN d.zones, LAMBDA i : d.zones[i].start # d.zones[i].end),
    Of("zones", "price", DOMAIN d.zones, LAMBDA i : d.zones[i].price >= 0),
    Reading("zones", "name", Unique(d.zones, "name")),
    Reading("zones", "priority", Unique(d.zones, "priority")),
    Reading("base", "price", d.base.price >= 0),
    Of("zones", "base", DOMAIN d.zones, LAMBDA i : d.zones[i].name # d.base.name)>>

\* The day a bill starts is one that every month has, whatever the customer's own is.
PeriodRead(d) ==
  IF "fixed" \in DOMAIN d.start THEN <<Reading("start", "start_day", d.start.fixed \in 1..28)>>
  ELSE LET declared == d.start.input \in DOMAIN d.inputs
       IN <<Reading("start", "input", declared),
            Reading("start", "range", declared => /\ d.inputs[d.start.input].min >= 1
                                                  /\ d.inputs[d.start.input].max <= 28)>>

\* What is inside a node.
Inside(n) == IF n.kind \in {"adjust", "tax"} THEN <<n.of>> ELSE IF n.kind = "sum" THEN n.of ELSE <<>>
NodeKinds == {"energy_by_band", "export_credit", "per_day", "per_period", "adjust", "tax", "sum"}

\* _node: the parser of its kind reads what it owns, then its children.
RECURSIVE NodeRead(_, _)
NodeRead(n, depth) ==
  <<Reading("total", "depth", depth <= MaxDepth),
    Reading("total", "kind", n.kind \in NodeKinds),
    Reading("total", "amount", n.kind \in {"per_day", "per_period"} => n.amount >= 0),
    Reading("total", "percent", /\ n.kind = "adjust" => n.percent > -100
                                /\ n.kind = "tax" => n.percent >= 0),
    Reading("total", "of", n.kind = "sum" => n.of # <<>>)>>
  \o FlattenSeq([i \in DOMAIN Inside(n) |-> NodeRead(Inside(n)[i], depth + 1)])

\* A check is the bands it has energy in.
BandNames(d) == {d.base.name} \cup {d.zones[i].name : i \in DOMAIN d.zones}
ChecksRead(d) ==
  <<Of("checks", "import_kwh_by_band", d.checks, LAMBDA bands : bands \subseteq BandNames(d)),
    Reading("complete", "completeness", d.complete => d.checks # {}),
    Reading("plain", "timezone", "timezone" \notin d.plain)>>

\* parse_definition: the first that is refused is the field the error names.
WholeReading(d) ==
  IdentityRead(d) \o InputsRead(d) \o PricesRead(d) \o PeriodRead(d) \o NodeRead(d.total, 1)
    \o ChecksRead(d)
Faults(d) == SelectSeq(WholeReading(d), LAMBDA r : ~r.ok)
Refused(d) == Faults(d) # <<>>

Compiled(config) ==
  IF Refused(DocumentOf(config)) THEN NoTariff ELSE Range(DocumentOf(config).zones)

(* ------------------------------- the bands ------------------------------ *)

InHours(z, h) == IF z.start < z.end THEN z.start <= h /\ h < z.end ELSE h >= z.start \/ h < z.end

\* A zone past midnight belongs to the day it began.
Began(z, d, h) == IF z.start > z.end /\ h < z.end THEN (d - 1) % Cardinality(WeekDays) ELSE d
OnDay(z, d) ==
  \/ z.days = {}
  \/ IF z.holidays /\ d = Holiday THEN z.days \cap Weekend # {} ELSE d \in z.days
Applies(z, d, h) == InHours(z, h) /\ OnDay(z, Began(z, d, h))
BandAt(zs, d, h) ==
  LET S == {z \in zs : Applies(z, d, h)} IN
  IF S = {} THEN Base ELSE (CHOOSE z \in S : \A y \in S : y.priority <= z.priority).name

(* -------------------------------- rounding ------------------------------ *)

Whole(x) == IF x >= 0 THEN Cent * ((2 * x + Cent) \div (2 * Cent))
            ELSE -(Cent * ((2 * (-x) + Cent) \div (2 * Cent)))
Rounded(x, exact) == IF exact THEN x ELSE Whole(x)
Percent(x, p) == (x * p) \div 100

(* ------------------------- the bill of a document ----------------------- *)

\* An amount on every node of the tree, each worked out after what is inside it, and rounded.
\* What is billed: the kWh in each band and their prices, what is exported, and the days.
EnergyByBand(n, billed) ==
  LET cost(b) == billed.kwh[b] * billed.prices[b] IN
  MapThenSumSet(LAMBDA b : Rounded(cost(b), n.exact \/ ~n.roundBands), DOMAIN billed.kwh)
Adjusted(n, inner) == inner + Rounded(Percent(inner, n.percent), n.exact)
Taxed(n, inner) == inner + IF n.mode = "added" THEN Rounded(Percent(inner, n.percent), n.exact) ELSE 0
PerPeriod(n, billed) ==
  IF n.share = "whole" THEN n.amount ELSE (n.amount * billed.days) \div billed.periodDays

\* A tax that is included leaves the amount as it is.
AsItIs(n) == n.exact \/ (n.kind = "tax" /\ n.mode = "included")
RECURSIVE Amount(_, _)
Amount(n, billed) ==
  Rounded(CASE n.kind = "energy_by_band" -> EnergyByBand(n, billed)
            [] n.kind = "export_credit" -> -(billed.export * billed.exportRate)
            [] n.kind = "per_day" -> n.amount * billed.days
            [] n.kind = "per_period" -> PerPeriod(n, billed)
            [] n.kind = "adjust" -> Adjusted(n, Amount(n.of, billed))
            [] n.kind = "tax" -> Taxed(n, Amount(n.of, billed))
            [] n.kind = "sum" -> MapThenSumSet(LAMBDA i : Amount(n.of[i], billed), DOMAIN n.of),
          AsItIs(n))

\* import_by_band, with the band of each slot.
KwhByBand(u, band) ==
  LET met == {band[h] : h \in {g \in DOMAIN u.import : u.import[g] > 0}} IN
  [b \in met |-> u.days * MapThenSumSet(LAMBDA h : u.import[h], {h \in DOMAIN u.import : band[h] = b})]

PriceIn(zs, base) == [b \in {z.name : z \in zs} \cup {Base} |->
                        IF b = Base THEN base ELSE (CHOOSE z \in zs : z.name = b).price]

PricedBill(config, zs, u) ==
  Amount(TotalOf(config),
         [kwh |-> KwhByBand(u, [h \in DOMAIN u.import |-> BandAt(zs, 0, h)]), prices |-> PriceIn(zs, config.base),
          export |-> u.export * u.days, exportRate |-> config.exportRate,
          days |-> u.days, periodDays |-> u.periodDays])

(* ------------------------- the bill of the options ---------------------- *)

LeastOf(a, b) == IF a < b THEN a ELSE b

CalculateBill(config, energyCost, u) ==
  LET saving == Whole(Percent(energyCost, config.saving))
      levy == Whole((config.levy * LeastOf(u.days, u.periodDays)) \div u.periodDays)
      beforeVat == Whole(Whole(energyCost) - saving + Whole(config.standing * u.days) + levy)
  IN Whole(beforeVat + Whole(Percent(beforeVat, config.vat))
             - Whole(u.export * u.days * config.exportRate))

RatesByName(config) ==
  [n \in {config.periods[i].name : i \in DOMAIN config.periods} \cup {Base} |->
     IF n = Base THEN config.base
     ELSE config.periods[Max({i \in DOMAIN config.periods : config.periods[i].name = n})].rate]

\* perBand is how a supplier rounds; without it, it is how the cost sensors add up.
Reprice(config, u, perBand) ==
  LET kwh == KwhByBand(u, [h \in DOMAIN u.import |-> CurrentRate(config, h).name])
      rates == RatesByName(config)
      cost == MapThenSumSet(LAMBDA b : Rounded(kwh[b] * rates[b], ~perBand), DOMAIN kwh)
  IN CalculateBill(config, cost, u)

(* -------------------- a tariff that is all one rate --------------------- *)

\* compare_tariff: what the call does not name is as the household has it, but for these two.
Offered(config, offer) == offer @@ [config EXCEPT !.standing = 0, !.exportRate = 0]
EnergyCost(config, u) ==
  MapThenSumSet(LAMBDA h : u.days * u.import[h] * CurrentRate(config, h).rate, DOMAIN u.import)
FlatCost(offer, u) == offer.rate * u.days * MapThenSumSet(LAMBDA h : u.import[h], DOMAIN u.import)

\* _bill_side: the energy with its tax, and the charges, which are the rest.
BillSide(config, energyCost, u) ==
  LET net == CalculateBill(config, energyCost, u)
      import == LET line == Whole(energyCost) - Whole(Percent(energyCost, config.saving))
                IN line + Percent(line, config.vat)
      export == Whole(u.export * u.days * config.exportRate)
  IN [import |-> import, charges |-> net + export - import, export |-> export, net |-> net]
Compared(config, offer, u) ==
  LET own == BillSide(config, EnergyCost(config, u), u)
      other == BillSide(Offered(config, offer), FlatCost(offer, u), u)
  IN [own |-> own, other |-> other, saving |-> own.net - other.net]

(* --------------------------------- steps -------------------------------- *)

Accepted == [at |-> "accepted", what |-> "accepted", ok |-> TRUE]

DocumentInit ==
  /\ document = [section \in DOMAIN Variants |-> Variants[section][1]]
  /\ verdict = NoTariff
  /\ rewrites = 0

RewriteSection ==
  /\ rewrites < MaxRewrites
  /\ \E section \in DOMAIN Variants : \E i \in DOMAIN Variants[section] :
       document' = [document EXCEPT ![section] = Variants[section][i]]
  /\ verdict' = NoTariff
  /\ rewrites' = rewrites + 1

ReadDocument ==
  /\ verdict = NoTariff
  /\ verdict' = IF Refused(document) THEN Head(Faults(document)) ELSE Accepted
  /\ UNCHANGED <<document, rewrites>>

DocumentNext == RewriteSection \/ ReadDocument
DocumentSpec == DocumentInit /\ [][DocumentNext]_documentVars

BillInit ==
  /\ \/ household \in TariffOptions /\ zones = Compiled(household)
     \/ household = NoTariff /\ zones \in TariffDocuments
  /\ usage \in Usages
  /\ bill = NoTariff

PriceBill ==
  /\ household # NoTariff /\ zones # NoTariff /\ bill = NoTariff
  /\ bill' = [document |-> PricedBill(household, zones, usage),
              supplier |-> Reprice(household, usage, TRUE),
              sensors |-> Reprice(household, usage, FALSE)]
  /\ UNCHANGED <<household, zones, usage>>

BillNext == PriceBill

BillSpec == BillInit /\ [][BillNext]_billVars

(* ------------------------------ properties ------------------------------ *)

\* The document prices the household's use as the options do, rounding as a
\* supplier does, and the cost sensors' bill is within half a unit a band of it
\* before the percentages (compile.py, reprice.Rounding).
SameBill ==
  bill # NoTariff =>
    /\ bill.document = bill.supplier
    /\ LET apart == bill.sensors - bill.supplier
       IN apart \in -(Cent * (Len(household.periods) + 2))..(Cent * (Len(household.periods) + 2))

\* In every hour the document's band is the one the options charge.
SameBand ==
  household # NoTariff /\ zones # NoTariff =>
    \A h \in 0..(Hours - 1), d \in WeekDays : BandAt(zones, d, h) = CurrentRate(household, h).name

\* A zone is in force from its start on each of its days until its end, in the next
\* day when that is not later, and in no other hour; the one of highest priority
\* has the hour (bands.band_at).
Covered(z) ==
  UNION {{<<IF s < Hours THEN d ELSE (d + 1) % Cardinality(WeekDays), s % Hours>> :
            s \in z.start..((IF z.end > z.start THEN z.end ELSE z.end + Hours) - 1)} :
         d \in {e \in WeekDays : OnDay(z, e)}}
ZonesCoverTheirHours ==
  zones # NoTariff =>
    \A d \in WeekDays, h \in 0..(Hours - 1) :
      LET S == {z \in zones : <<d, h>> \in Covered(z)}
      IN BandAt(zones, d, h) =
           IF S = {} THEN Base ELSE (CHOOSE z \in S : \A y \in S : y.priority <= z.priority).name

\* A document that is accepted can be billed, whatever is used and whatever the customer's own
\* inputs are: each hour has one band, each band one price, a bill starts on a day every month has,
\* its checks name bands it has, and what is charged is never turned into a credit.
HourIsDecided(zs, d, h) ==
  LET S == {z \in zs : Applies(z, d, h)}
  IN Cardinality({z \in S : \A y \in S : y.priority <= z.priority}) <= 1
StartDays(d) == IF "fixed" \in DOMAIN d.start THEN {d.start.fixed}
                ELSE d.inputs[d.start.input].min..d.inputs[d.start.input].max
PriceOf(d, band) == IF band = d.base.name THEN d.base.price
                    ELSE (CHOOSE z \in Range(d.zones) : z.name = band).price
CanBeBilled(d) ==
  /\ \A day \in WeekDays, h \in 0..(Hours - 1) : HourIsDecided(Range(d.zones), day, h)
  /\ Cardinality(BandNames(d)) = Len(d.zones) + 1
  /\ StartDays(d) \subseteq 1..28
  /\ UNION d.checks \subseteq BandNames(d)
  /\ \A met \in SUBSET BandNames(d), exported \in {0, 1} :
       LET total == Amount(d.total, [kwh |-> [b \in met |-> 1],
                                     prices |-> [b \in BandNames(d) |-> PriceOf(d, b)],
                                     export |-> exported, exportRate |-> 15,
                                     days |-> 2, periodDays |-> 4])
       IN exported = 0 => total >= 0
DocumentsCanBeBilled == verdict = Accepted => CanBeBilled(document)

\* "Both tariffs are billed the same way" (docs/actions.md:69): a flat tariff on the household's own
\* terms charges what they charge, costs no less at its dearest rate and no more at its cheapest,
\* but for the rounding, and nothing is saved by changing to the very same one.
OwnTerms(config, rate) == [rate |-> rate, standing |-> config.standing, exportRate |-> config.exportRate]
ComparisonIsFair ==
  household # NoTariff /\ bill = NoTariff =>
    LET rates == {CurrentRate(household, h).rate : h \in DOMAIN usage.import}
        with(rate) == Compared(household, OwnTerms(household, rate), usage)
        least == with(Min(rates))
        most == with(Max(rates))
    IN /\ \A c \in {least, most} :
            /\ c.own.charges - c.other.charges \in (-2 * Cent)..(2 * Cent)
            /\ c.own.export = c.other.export
       /\ least.saving >= -2 * Cent /\ most.saving <= 2 * Cent
       /\ Cardinality(rates) = 1 => least.saving = 0

BillsAgree == SameBill /\ SameBand /\ ZonesCoverTheirHours /\ ComparisonIsFair

(* ------------------- the revisions and their index ---------------------- *)

CONSTANT NoIndex

VARIABLES
  files,         \* the document of each revision there is
  index,         \* the entries and the latest revision, NoIndex before it is built
  asked,         \* the day a reader asked for
  loaded         \* the document the reader got, or NoIndex

indexVars == <<files, index, asked, loaded>>

Documents ==
  {d \in [from : IndexDays, to : IndexDays \cup {Open}, supersedes : Numbers \cup {0}, text : {"a"}] :
     d.to # Open => d.from < d.to}
InForceOn(d, day) == d.from <= day /\ (d.to = Open \/ day < d.to)

\* Sorted by their dates, each ends before the next begins.
Overlapping(fs) ==
  LET ordered == SetToSortSeq(DOMAIN fs, LAMBDA a, b :
                   \/ fs[a].from < fs[b].from
                   \/ fs[a].from = fs[b].from /\ a < b)
  IN \E i \in 1..(Len(ordered) - 1) :
       fs[ordered[i]].to = Open \/ fs[ordered[i]].to > fs[ordered[i + 1]].from
SupersedesUnknown(fs) == \E n \in DOMAIN fs : fs[n].supersedes \notin DOMAIN fs \cup {0}
SupersedesLater(fs) == \E n \in DOMAIN fs : fs[n].supersedes >= n

Entry(d) == [from |-> d.from, to |-> d.to, checksum |-> d]
Latest(fs, day) ==
  LET S == {n \in DOMAIN fs : InForceOn(fs[n], day)} IN
  IF S = {} THEN 0 ELSE CHOOSE n \in S : \A m \in S : m <= n

IndexInit ==
  /\ \E N \in SUBSET Numbers : files \in [N -> Documents]
  /\ index = NoIndex
  /\ asked = 0
  /\ loaded = NoIndex

\* _tariff and _revision: what a reader refuses of an index.
IndexRefused(ix) ==
  \/ ix.entries = <<>>
  \/ \E n \in DOMAIN ix.entries : LET e == ix.entries[n] IN e.to # Open /\ e.to <= e.from
  \/ ix.latest \notin DOMAIN ix.entries \cup {0}

\* Two revisions from the same day are refused, or cannot be put in order.
BuildIndex ==
  /\ index = NoIndex
  /\ ~(Overlapping(files) \/ SupersedesUnknown(files) \/ SupersedesLater(files))
  /\ \E generated \in IndexDays :
       index' = [entries |-> [n \in DOMAIN files |-> Entry(files[n])],
                 latest |-> Latest(files, generated), generated |-> generated]
  /\ UNCHANGED <<files, asked, loaded>>

\* A file is edited after the index was built.
EditFile ==
  /\ index # NoIndex
  /\ \E n \in DOMAIN files :
       files' = [files EXCEPT ![n] = [@ EXCEPT !.text = "b"]]
  /\ UNCHANGED <<index, asked, loaded>>

RevisionInForce(day) ==
  LET S == {n \in DOMAIN index.entries : InForceOn(index.entries[n], day)} IN
  IF S = {} THEN 0 ELSE CHOOSE n \in S : TRUE

\* A file that is not the one the index describes is refused.
LoadRevision ==
  /\ index # NoIndex /\ ~IndexRefused(index)
  /\ \E day \in IndexDays :
       LET n == RevisionInForce(day) IN
       /\ asked' = day
       /\ loaded' = IF n = 0 \/ index.entries[n].checksum # files[n] THEN NoIndex ELSE files[n]
  /\ UNCHANGED <<files, index>>

IndexNext == BuildIndex \/ EditFile \/ LoadRevision

IndexSpec == IndexInit /\ [][IndexNext]_indexVars

(* ------------------------------ properties ------------------------------ *)

\* However the revisions lie to each other, an index that is built has at most one
\* for a day, a reader accepts it, its latest is that of the day it was generated, each replaces one
\* that is there, and what is loaded for a day is the document it was built from.
IndexIsSound ==
  index # NoIndex =>
    /\ \A day \in IndexDays : \A m, n \in DOMAIN index.entries :
         InForceOn(index.entries[m], day) /\ InForceOn(index.entries[n], day) => m = n
    /\ index.latest = RevisionInForce(index.generated)
    /\ files # <<>> => ~IndexRefused(index)
    /\ loaded # NoIndex => loaded.text = "a" /\ InForceOn(loaded, asked)
=============================================================================
