----------------------------- MODULE ShadowTariffs -----------------------------
(***************************************************************************)
(* The tariffs a household compares its own with: the list kept in the     *)
(* options and edited in Configure (core/shadow_tariffs.py, the shadow     *)
(* pages of wizard/options_flow.py), the sensors each has (shadow_sensor), *)
(* and the report the coordinator prices now and then (shadow_pricing.py,  *)
(* coordinator._shadow_report).                                            *)
(*                                                                         *)
(* A name is a record of its word (a sequence, to which a number is        *)
(* appended when the word is taken), what is left of it without capitals,  *)
(* and its text.  What a bill amounts to is TariffBill's: here a report is *)
(* what it was priced from.                                                *)
(***************************************************************************)
EXTENDS Integers, Sequences, SequencesExt, FiniteSetsExt

CONSTANTS
  ShadowNames,   \* the names a user enters; one with the text "" is no name
  MaxShadows,    \* MAX_SHADOW_TARIFFS
  PriceEvery,    \* SHADOW_PRICING_INTERVAL_SECONDS, in ticks
  PriceDay,      \* ticks in a day
  LastPricing,   \* bounds the ticks
  LastRates,     \* bounds the changes of the active tariff's rates
  MaxEdits,      \* bounds the tariffs added and removed
  NoShadow

VARIABLES
  shadowList,    \* the shadow tariffs of the options
  activeRates,   \* how often the active tariff's rates have changed
  edited,        \* Configure: _shadow, the list as edited, or NoShadow
  draft,         \* Configure: _shadow_draft, the name being added, or NoShadow
  edits,         \* how many edits have been made
  entities,      \* the sensors: the name and the key of each tariff
  reloading,     \* the options are saved and the entry is not loaded again yet
  priceCache,    \* _shadow_cache, or NoShadow
  report,        \* data.shadow_report, or NoShadow
  moment         \* now

shadowVars == <<shadowList, activeRates, edited, draft, edits, entities, reloading,
                priceCache, report, moment>>

Today == moment \div PriceDay

(* -------------------------------- the list ------------------------------ *)

\* Why a name cannot be added.
NameError(l, name) ==
  \/ Len(l) >= MaxShadows
  \/ name.text = ""
  \/ \E i \in DOMAIN l : l[i].fold = name.fold

WithShadow(l, name) == Append(l, name)
WithoutShadow(l, text) == SelectSeq(l, LAMBDA e : e.text # text)

\* The key of each tariff: the word of its name, numbered when it is taken.
Numbered(word, taken) ==
  IF word \notin taken THEN word
  ELSE Append(word, Min({n \in 2..(MaxShadows + 1) : Append(word, n) \notin taken}))
ShadowKeys(l) ==
  LET key[i \in 1..Len(l)] == Numbered(l[i].word, {key[j] : j \in 1..(i - 1)}) IN key

Sensors(l) == {[name |-> l[i], key |-> ShadowKeys(l)[i]] : i \in DOMAIN l}

ShadowInit ==
  /\ shadowList = <<>>
  /\ activeRates = 0
  /\ edited = NoShadow
  /\ draft = NoShadow
  /\ edits = 0
  /\ entities = {}
  /\ reloading = FALSE
  /\ priceCache = NoShadow
  /\ report = NoShadow
  /\ moment = 0

(* ------------------------------- Configure ------------------------------ *)

ListShown == IF edited = NoShadow THEN shadowList ELSE edited

\* The first form: a name that is free. A tariff with timed rates waits for its rows.
AddShadow ==
  /\ edits < MaxEdits
  /\ draft = NoShadow
  /\ Len(ListShown) < MaxShadows
  /\ \E name \in ShadowNames :
       /\ ~NameError(ListShown, name)
       /\ \/ edited' = WithShadow(ListShown, name) /\ draft' = NoShadow
          \/ draft' = name /\ UNCHANGED edited
  /\ edits' = edits + 1
  /\ UNCHANGED <<shadowList, activeRates, entities, reloading, priceCache, report, moment>>

EnterRows ==
  /\ draft # NoShadow
  /\ edited' = WithShadow(ListShown, draft)
  /\ draft' = NoShadow
  /\ UNCHANGED <<shadowList, activeRates, edits, entities, reloading, priceCache, report, moment>>

RemoveShadow ==
  /\ edits < MaxEdits
  /\ draft = NoShadow
  /\ \E i \in DOMAIN ListShown : edited' = WithoutShadow(ListShown, ListShown[i].text)
  /\ edits' = edits + 1
  /\ UNCHANGED <<shadowList, activeRates, draft, entities, reloading, priceCache, report, moment>>

\* Save changes shows once something has changed; the list makes the entry reload.
SaveShadows ==
  /\ draft = NoShadow
  /\ edited # NoShadow /\ edited # shadowList
  /\ ~reloading
  /\ shadowList' = edited
  /\ edited' = NoShadow
  /\ reloading' = TRUE
  /\ UNCHANGED <<activeRates, draft, edits, entities, priceCache, report, moment>>

CloseShadows ==
  /\ edited # NoShadow \/ draft # NoShadow
  /\ edited' = NoShadow
  /\ draft' = NoShadow
  /\ UNCHANGED <<shadowList, activeRates, edits, entities, reloading, priceCache, report, moment>>

\* The new coordinator has priced nothing, and the sensors are made from the list.
ReloadShadows ==
  /\ reloading
  /\ reloading' = FALSE
  /\ entities' = Sensors(shadowList)
  /\ priceCache' = NoShadow
  /\ report' = NoShadow
  /\ UNCHANGED <<shadowList, activeRates, edited, draft, edits, moment>>

(* ------------------------------ the coordinator ------------------------- *)

\* New rates of the active tariff apply at once, without a reload.
ChangeRates ==
  /\ activeRates < LastRates
  /\ activeRates' = activeRates + 1
  /\ UNCHANGED <<shadowList, edited, draft, edits, entities, reloading, priceCache, report, moment>>

PriceShadows == [bills |-> Sensors(shadowList), rates |-> activeRates, through |-> Today, at |-> moment]

\* What CachedReport would be without today in its key.
CachedForTheList ==
  IF priceCache # NoShadow /\ priceCache.list = shadowList /\ moment - priceCache.at < PriceEvery
  THEN priceCache
  ELSE [at |-> moment, day |-> Today, list |-> shadowList, priced |-> PriceShadows]

CachedReport ==
  IF /\ priceCache # NoShadow
     /\ priceCache.list = shadowList /\ priceCache.day = Today
     /\ moment - priceCache.at < PriceEvery
  THEN priceCache
  ELSE [at |-> moment, day |-> Today, list |-> shadowList, priced |-> PriceShadows]

ShadowCycle ==
  /\ IF shadowList = <<>>
     THEN priceCache' = NoShadow /\ report' = NoShadow
     ELSE priceCache' = CachedReport /\ report' = CachedReport.priced
  /\ UNCHANGED <<shadowList, activeRates, edited, draft, edits, entities, reloading, moment>>

\* Only the report of a cycle of this tick is looked at.
ShadowTick ==
  /\ moment < LastPricing
  /\ moment' = moment + 1
  /\ report' = NoShadow
  /\ UNCHANGED <<shadowList, activeRates, edited, draft, edits, entities, reloading, priceCache>>

ShadowNext ==
  \/ AddShadow
  \/ EnterRows
  \/ RemoveShadow
  \/ SaveShadows
  \/ CloseShadows
  \/ ReloadShadows
  \/ ChangeRates
  \/ ShadowCycle
  \/ ShadowTick

ShadowSpec == ShadowInit /\ [][ShadowNext]_shadowVars

(* ------------------------------ properties ------------------------------ *)

\* A sensor shows the bill of its own tariff, whatever was added, removed or saved
\* before and however long the report is kept: the report of a cycle has one bill for
\* each sensor, of that name, through today, and no older than the interval
\* (ShadowEntity._bill, coordinator._shadow_report).
SensorsShowTheirTariff ==
  /\ report # NoShadow /\ ~reloading =>
       /\ report.bills = entities
       /\ report.through = Today
       /\ moment - report.at < PriceEvery
  /\ \A e, f \in entities : e.key = f.key => e = f

\* The list holds no name twice and no more than the limit, and the rows of a tariff
\* being added are for a name that is still free (with_shadow raises otherwise).
ListIsSound ==
  /\ Len(shadowList) <= MaxShadows
  /\ \A i, j \in DOMAIN shadowList : shadowList[i].fold = shadowList[j].fold => i = j
  /\ draft # NoShadow => ~NameError(ListShown, draft)

ShadowsAreSound == SensorsShowTheirTariff /\ ListIsSound
=============================================================================
