---------------------------- MODULE SettingsPages ----------------------------
(***************************************************************************)
(* The pages of Configure that are not the tariff's: the battery, charge   *)
(* planning with the forecast, hot water and the car.  A form is filled in *)
(* from what is in force (wizard/schemas.py), a submission is checked and  *)
(* cleaned (core/wizard_pages.py), the values wait while other pages are   *)
(* opened (wizard/flow_base.py), and one save writes what differs from     *)
(* what is in force by then (wizard/options_flow.py).  Meanwhile the       *)
(* inverter's sensors and the controls write options of their own.         *)
(*                                                                         *)
(* The value of a setting is the set of what is chosen: one element for a  *)
(* number, an entity or a switch that is on or off, months or times for a  *)
(* list, {} for what is stored as empty, NotSet for what is not stored.    *)
(***************************************************************************)
EXTENDS Integers

CONSTANTS
    SetupData,      \* what set-up may have stored: functions from the settings
    MaxSubmits,     \* bound: pages submitted
    MaxMoves,       \* bound: settings moved elsewhere, and restarts
    NotSet

ASSUME SettingsAssumption ==
    MaxSubmits \in Nat /\ MaxMoves \in Nat /\ \A v \in SUBSET (0..9) : v # NotSet

VARIABLES
    setup, stored,  \* the data and the options of the entry
    page,           \* closed, menu, confirm or the page that is shown
    entered,        \* what the pages collected, cleaned
    warned,         \* the warnings each page was last shown with
    ticked,         \* history: what the forms held when they were submitted
    believed,       \* history: what the owner takes to be in force
    altered,        \* history: a field was edited since Configure was opened, or a setting moved elsewhere
    submits, moves

settingsVars == <<setup, stored, page, entered, warned, ticked, believed, altered, submits, moves>>

PageKeys ==
    [battery         |-> {"capacity", "capacity_entity", "battery_cost"},
     charge_planning |-> {"min_soc", "winter", "shoulder"},
     forecast        |-> {"forecast_entity"},
     hot_water       |-> {"temp_sensor", "lower_sensor", "ready_times", "alt_enabled", "alt_label", "alt_cost"},
     ev              |-> {"efficiency", "car"}]
Pages == DOMAIN PageKeys
PageSettings == (UNION {PageKeys[p] : p \in Pages}) \cup {"floor"}

AltHeatSection == {"alt_enabled", "alt_label", "alt_cost"}
\* A field with no default: emptied, it is left out of the submission.
Optional == {"capacity_entity", "forecast_entity", "temp_sensor", "lower_sensor", "ready_times",
             "alt_cost", "car"}

Odd == 2        \* a sensor that reads no number, as a forecast
Typo == 0       \* a time that does not read as one
Blank == 0
TooLong == 3

\* What a field may be changed to; no list of months is kept apart from another page's.
FieldChoices ==
    [k \in PageSettings |->
       CASE k \in {"capacity", "efficiency", "min_soc"} -> {{1}, {2}}
         [] k \in {"battery_cost", "alt_enabled"} -> {{0}, {1}}
         [] k = "winter" -> {{}, {1}, {2}}
         [] k = "shoulder" -> {{}, {2}, {1, 3}}
         [] k = "forecast_entity" -> {NotSet, {1}, {Odd}}
         [] k = "ready_times" -> {NotSet, {Typo}, {7}}
         [] k = "alt_label" -> {{Blank}, {1}, {TooLong}}
         [] k = "floor" -> {{0}, {1}}
         [] OTHER -> {NotSet, {1}}]

NothingTicked == [k \in PageSettings |-> NotSet]
NoWarnings == [p \in Pages |-> {}]

-----------------------------------------------------------------------------
(* What is in force                                                        *)

\* KEY_DEFAULTS, and the seasons at the latitude of the house.
KeyDefaults ==
    [k \in PageSettings |->
       CASE k \in Optional -> NotSet
         [] k \in {"battery_cost", "alt_enabled", "floor"} -> {0}
         [] k = "shoulder" -> {2}
         [] OTHER -> {1}]

\* merge_config: a stored option wins, an empty one too.
InForceNow(opts) == [k \in PageSettings |-> IF opts[k] = NotSet THEN setup[k] ELSE opts[k]]
OrDefault(values) == [k \in PageSettings |-> IF values[k] = NotSet THEN KeyDefaults[k] ELSE values[k]]

\* What may be stored as empty: no value, or no month.
MayBeEmpty == Optional \cup {"winter", "shoulder"}
Agrees(values) ==
    /\ values.winter \cap values.shoulder = {}
    /\ values.alt_label \notin {{Blank}, {TooLong}}
ASSUME SetupAssumption ==
    \A s \in SetupData :
       /\ DOMAIN s = PageSettings /\ Agrees(OrDefault(s))
       /\ \A k \in PageSettings \ MayBeEmpty : s[k] # {}

Effective(opts) == OrDefault(InForceNow(opts))

IsUnset(value) == value \in {NotSet, {}}
SameValue(left, right) == left = right \/ (IsUnset(left) /\ IsUnset(right))

\* changed_values
ChangedValues(values, inForce) ==
    [k \in PageSettings |-> IF values[k] = NotSet \/ SameValue(values[k], inForce[k]) THEN NotSet ELSE values[k]]

SavedOptions ==
    LET changed == ChangedValues(entered, Effective(stored))
    IN [k \in PageSettings |-> IF changed[k] = NotSet THEN stored[k] ELSE changed[k]]

\* changed_keys, of the merged options: an empty list is not the same as none here, an empty text is.
\* The seasons that were never set are filled in before and after.
Lists == {"winter", "shoulder", "ready_times", "car"}
Merged(opts) ==
    [k \in PageSettings |->
       LET value == InForceNow(opts)[k]
       IN IF value = {} /\ k \notin Lists THEN NotSet
          ELSE IF value = NotSet /\ k \in {"winter", "shoulder"} THEN KeyDefaults[k] ELSE value]
Described == {k \in PageSettings : Merged(stored)[k] # Merged(SavedOptions)[k]}

-----------------------------------------------------------------------------
(* A page                                                                  *)

\* A form starts at what is in force, not at what was entered earlier and waits.  An empty optional
\* field has nothing to suggest.
StartsAt(k) == Effective(stored)[k]
Suggested(k) == IF IsUnset(StartsAt(k)) THEN NotSet ELSE StartsAt(k)

BatteryForm ==
    [capacity |-> StartsAt("capacity"), capacity_entity |-> Suggested("capacity_entity"),
     battery_cost |-> StartsAt("battery_cost")]
ChargePlanningForm ==
    [min_soc |-> StartsAt("min_soc"), winter |-> StartsAt("winter"), shoulder |-> StartsAt("shoulder")]
ForecastForm == [forecast_entity |-> Suggested("forecast_entity")]
HotWaterForm ==
    [temp_sensor |-> Suggested("temp_sensor"), lower_sensor |-> Suggested("lower_sensor"),
     ready_times |-> Suggested("ready_times"), alt_enabled |-> StartsAt("alt_enabled"),
     alt_label |-> StartsAt("alt_label"), alt_cost |-> Suggested("alt_cost")]
\* A car that Home Assistant knows is suggested while none is stored: to take it is an edit here.
EVForm == [efficiency |-> StartsAt("efficiency"), car |-> Suggested("car")]

Forms ==
    [battery |-> BatteryForm, charge_planning |-> ChargePlanningForm, forecast |-> ForecastForm,
     hot_water |-> HotWaterForm, ev |-> EVForm]
Shown(p) ==
    LET form == Forms[p]
    IN [k \in PageSettings |-> IF k \in PageKeys[p] THEN form[k] ELSE NotSet]

\* Submitted as it is shown, with one field changed, or without the section of the alternative heating.
Submissions(p) ==
    LET shownAs == Shown(p)
    IN {shownAs}
       \cup (UNION {{[shownAs EXCEPT ![k] = v] : v \in FieldChoices[k]} : k \in PageKeys[p]})
       \cup IF p # "hot_water" THEN {}
            ELSE {[k \in PageSettings |-> IF k \in AltHeatSection THEN NotSet ELSE shownAs[k]]}

OverlappingMonths(form) == form.winter \cap form.shoulder
ReadyTimeErrors(form) == form.ready_times = {Typo}
\* Checked only while the setting is on and the section is there.
LabelErrors(form) == form.alt_enabled = {1} /\ form.alt_label \in {{Blank}, {TooLong}}

Errors(p, form) ==
    \/ p = "charge_planning" /\ OverlappingMonths(form) # {}
    \/ p = "hot_water" /\ (ReadyTimeErrors(form) \/ LabelErrors(form))

\* The floor is the one in force, a control of its own.
FloorWarnings(form) ==
    IF \E floor \in Effective(stored).floor, minimum \in form.min_soc : floor # 0 /\ floor < minimum
    THEN {"floor"} ELSE {}
ForecastWarnings(form) == IF form.forecast_entity = {Odd} THEN {"odd"} ELSE {}
HotWaterWarnings(form) ==
    {w \in {"ready", "lower", "cost"} :
       \/ w = "ready" /\ form.ready_times # NotSet /\ form.temp_sensor = NotSet
       \/ w = "lower" /\ form.lower_sensor # NotSet /\ form.temp_sensor = NotSet
       \/ w = "cost" /\ form.alt_enabled = {1} /\ form.alt_cost = NotSet}
Warnings(p, form) ==
    CASE p = "charge_planning" -> FloorWarnings(form)
      [] p = "forecast" -> ForecastWarnings(form)
      [] p = "hot_water" -> HotWaterWarnings(form)
      [] OTHER -> {}

OrEmpty(form, keys) == [k \in PageSettings |-> IF k \in keys /\ form[k] = NotSet THEN {} ELSE form[k]]

\* The limits are sent always; a sensor that is left out was cleared.
\* Mutant: a sensor that is left out stays as it was.
KeepBattery(form) == form
CleanBattery(form) == OrEmpty(form, {"capacity_entity"})
CleanChargePlanning(form) == form
CleanForecast(form) == OrEmpty(form, PageKeys.forecast)
\* clean_label puts the default back when nothing is left, and cuts.
CleanLabel(label) == IF label \in {{Blank}, {TooLong}} THEN {1} ELSE label
CleanAltHeat(form) ==
    IF \A k \in AltHeatSection : form[k] = NotSet THEN form
    ELSE [OrEmpty(form, {"alt_cost"}) EXCEPT !.alt_label = CleanLabel(@)]
CleanHotWater(form) == OrEmpty(CleanAltHeat(form), {"temp_sensor", "lower_sensor", "ready_times"})
\* The car holds the fields that have a value, and no value at all is no car.
CleanEV(form) == OrEmpty(form, {"car"})
Clean(p, form) ==
    CASE p = "battery" -> CleanBattery(form)
      [] p = "charge_planning" -> CleanChargePlanning(form)
      [] p = "forecast" -> CleanForecast(form)
      [] p = "hot_water" -> CleanHotWater(form)
      [] p = "ev" -> CleanEV(form)

-----------------------------------------------------------------------------
(* Configure                                                               *)

SettingsInit ==
    /\ setup \in SetupData /\ stored = NothingTicked /\ page = "closed"
    /\ entered = NothingTicked /\ warned = NoWarnings /\ ticked = NothingTicked
    /\ believed = Effective(stored) /\ altered = FALSE /\ submits = 0 /\ moves = 0

OpenPages ==
    /\ page = "closed" /\ submits < MaxSubmits /\ page' = "menu"
    /\ entered' = NothingTicked /\ warned' = NoWarnings /\ ticked' = NothingTicked /\ altered' = FALSE
    /\ UNCHANGED <<setup, stored, believed, submits, moves>>

ShowPage(p) ==
    /\ page = "menu" /\ submits < MaxSubmits /\ p # "forecast" /\ page' = p
    /\ UNCHANGED <<setup, stored, entered, warned, ticked, believed, altered, submits, moves>>

\* Charge planning has the forecast as its second screen.
AfterPage(p) == IF p = "charge_planning" THEN "forecast" ELSE "menu"

\* An error shows the form again, and so does a warning, once.
SubmitSettings ==
    /\ page \in Pages /\ submits < MaxSubmits /\ submits' = submits + 1
    /\ \E form \in Submissions(page) :
         IF Errors(page, form) THEN UNCHANGED <<page, entered, warned, ticked, altered>>
         ELSE LET warnings == Warnings(page, form)
              IN IF warnings # {} /\ warned[page] # warnings
                 THEN /\ warned' = [warned EXCEPT ![page] = warnings]
                      /\ UNCHANGED <<page, entered, ticked, altered>>
                 ELSE LET cleaned == Clean(page, form)
                      IN /\ entered' = [k \in PageSettings |-> IF cleaned[k] = NotSet THEN entered[k] ELSE cleaned[k]]
                         /\ ticked' =
                              [k \in PageSettings |->
                                 IF k \notin PageKeys[page] \/ (k \in AltHeatSection /\ form.alt_enabled = NotSet)
                                 THEN ticked[k]
                                 ELSE IF form[k] = NotSet THEN {}
                                 ELSE IF k = "alt_label" THEN CleanLabel(form[k]) ELSE form[k]]
                         /\ altered' = (altered \/ form # Shown(page))
                         /\ page' = AfterPage(page) /\ UNCHANGED warned
    /\ UNCHANGED <<setup, stored, believed, moves>>

\* Save changes is in the menu while something would change.
AskToSave ==
    /\ page = "menu" /\ SavedOptions # stored /\ page' = "confirm"
    /\ UNCHANGED <<setup, stored, entered, warned, ticked, believed, altered, submits, moves>>

SaveSettings ==
    /\ page = "confirm" /\ page' = "closed" /\ stored' = SavedOptions
    /\ believed' = [k \in PageSettings |-> IF ticked[k] = NotSet THEN believed[k] ELSE ticked[k]]
    /\ UNCHANGED <<setup, entered, warned, ticked, altered, submits, moves>>

ClosePages ==
    /\ page # "closed" /\ page' = "closed"
    /\ UNCHANGED <<setup, stored, entered, warned, ticked, believed, altered, submits, moves>>

\* A control, or the repair that asks for the battery's cost, sets one option.
MoveElsewhere(k) ==
    /\ moves < MaxMoves /\ moves' = moves + 1
    /\ \E v \in FieldChoices[k] : stored' = [stored EXCEPT ![k] = v] /\ believed' = [believed EXCEPT ![k] = v]
    /\ altered' = TRUE
    /\ UNCHANGED <<setup, page, entered, warned, ticked, submits>>

\* _adopt_limit_sensors, at a start: only a sensor that was never saved.
AdoptSensor ==
    /\ moves < MaxMoves /\ moves' = moves + 1 /\ altered' = TRUE
    /\ InForceNow(stored).capacity_entity = NotSet
    /\ stored' = [stored EXCEPT !.capacity_entity = {1}]
    /\ believed' = [believed EXCEPT !.capacity_entity = {1}]
    /\ UNCHANGED <<setup, page, entered, warned, ticked, submits>>

SettingsNext ==
    \/ OpenPages \/ SubmitSettings \/ AskToSave \/ SaveSettings \/ ClosePages \/ AdoptSensor
    \/ \E p \in Pages : ShowPage(p)
    \/ \E k \in {"floor", "battery_cost"} : MoveElsewhere(k)

SettingsSpec == SettingsInit /\ [][SettingsNext]_settingsVars

-----------------------------------------------------------------------------
(* Properties                                                              *)

\* A setting is in force as it was last ticked and saved, or moved: a field that was emptied stays
\* empty over the value of the set-up, and a page that was not opened keeps its settings.
SettingsHold == \A k \in PageSettings : SameValue(Effective(stored)[k], believed[k])

\* With nothing edited there is nothing to save, whatever pages were submitted as they were shown.
UntouchedSavesNothing == page # "closed" /\ ~altered => SavedOptions = stored

\* No month is winter and shoulder, and an alternative heating that is on has a name.
SettingsAgree == Agrees(Effective(stored))

\* The confirm step lists what the save changes, and nothing else, though the two do not agree on what
\* counts as not set.
ConfirmTellsTheTruth ==
    page = "confirm" =>
      Described = {k \in PageSettings : ~SameValue(Effective(SavedOptions)[k], Effective(stored)[k])}

\* The settings pages of Configure (wizard/options_flow.py, core/wizard_pages.py) neither lose nor
\* invent a setting, over other pages, other writers and the defaults.
PagesAreSound == SettingsHold /\ UntouchedSavesNothing /\ SettingsAgree /\ ConfirmTellsTheTruth
=============================================================================
