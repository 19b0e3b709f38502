---------------------------- MODULE OptionsWizard ----------------------------
(***************************************************************************)
(* Configure: pages collect values and one confirmation writes them        *)
(* (wizard/options_flow.py, core/wizard_tariff.py, core/wizard_model.py),  *)
(* with rate changes that start on a date (core/tariff.py).                *)
(*                                                                         *)
(* The rates that a dated change carries are here the base rate and the    *)
(* number of timed rates, the charges the VAT, and the settings of every   *)
(* other page the battery's cost.                                          *)
(***************************************************************************)
EXTENDS Integers

CONSTANTS
    WizardDays,     \* the days of this instance are 1..WizardDays
    MaxPages,       \* bound: pages submitted in one Configure
    MaxConfigures   \* bound

ASSUME WizardAssumption == WizardDays \in Nat \ {0} /\ MaxPages \in Nat /\ MaxConfigures \in Nat

VARIABLES
    options,        \* the saved options: a value for each key, or Unset
    dated,          \* the stored dated changes: [effective, base, rows]
    reviewed,       \* the day the tariff was last confirmed, 0 for none
    today,
    configure,           \* closed, menu, rows (the timed rates must follow) or confirm
    values,         \* what the pages collected: a value for each key, or Unset
    rateCount,      \* the number of timed rates chosen on the rates page, or Unset
    tariffTouched, confirmCurrent,
    editDate,       \* the day the entered rates start, 0 for now
    cancelScheduled,
    pages, configures

collected == <<values, rateCount, tariffTouched, confirmCurrent, editDate, cancelScheduled>>
wizardVars == <<options, dated, reviewed, today, configure, collected, pages, configures>>

Unset == -1
RateKeys == {"base", "rows"}
TariffKeys == RateKeys \cup {"vat"}
OptionKeys == TariffKeys \cup {"battery"}
NothingEntered == [k \in OptionKeys |-> Unset]
Defaults == [base |-> 1, rows |-> 0, vat |-> 0, battery |-> 0]

StartCollecting ==
    /\ values' = NothingEntered /\ rateCount' = Unset /\ editDate' = 0
    /\ tariffTouched' = FALSE /\ confirmCurrent' = FALSE /\ cancelScheduled' = FALSE /\ pages' = 0

WizardInit ==
    /\ options = NothingEntered /\ dated = {} /\ reviewed = 0 /\ today = 1 /\ configure = "closed"
    /\ values = NothingEntered /\ rateCount = Unset /\ editDate = 0
    /\ tariffTouched = FALSE /\ confirmCurrent = FALSE /\ cancelScheduled = FALSE /\ pages = 0 /\ configures = 0

-----------------------------------------------------------------------------
(* core/tariff.py                                                          *)

Over(upper, lower) == [k \in DOMAIN lower |-> IF upper[k] = Unset THEN lower[k] ELSE upper[k]]
EffectiveOptions(opts) == Over(opts, Defaults)

Started(list, date) == {c \in list : c.effective <= date}
Ahead(list, date) == {c \in list : c.effective > date}

\* tariff_in_force: the latest change that is due applies, on its own.
InForce(opts, list, date) ==
    LET due == Started(list, date)
        latest == CHOOSE c \in due : \A d \in due : d.effective <= c.effective
    IN  IF due = {} THEN EffectiveOptions(opts)
        ELSE [EffectiveOptions(opts) EXCEPT !.base = latest.base, !.rows = latest.rows]

Now == InForce(options, dated, today)

\* changed_values, of the tariff's pages: what differs from the rates in force.
Updates == [k \in TariffKeys |-> IF values[k] = Now[k] THEN Unset ELSE values[k]]
IsUpdated == \E k \in TariffKeys : Updates[k] # Unset

\* Mutant: only a dated change takes the complete set of rates.
NeverSuperseding == FALSE

\* The saved rates would come back in force with the changes that started.
Superseding == editDate = 0 /\ \E k \in RateKeys : Now[k] # EffectiveOptions(options)[k]

\* tariff_submission
Submitted ==
    IF editDate # 0 \/ (IsUpdated /\ Superseding)
    THEN [k \in TariffKeys |-> IF k \in RateKeys THEN Over(values, Now)[k] ELSE Updates[k]]
    ELSE Updates

\* options_after_tariff_save: the changes that stay, and the options.
Kept == IF cancelScheduled THEN Started(dated, today) ELSE dated

DatedAfter ==
    IF editDate > today
    THEN {c \in Kept : c.effective # editDate}
         \cup {[effective |-> editDate, base |-> Submitted.base, rows |-> Submitted.rows]}
    ELSE Ahead(Kept, today)

OptionsAfter ==
    [k \in OptionKeys |->
       IF k \notin TariffKeys \/ (k \in RateKeys /\ editDate > today) \/ Submitted[k] = Unset
       THEN options[k] ELSE Submitted[k]]

TariffIsSaved == tariffTouched /\ (IsUpdated \/ editDate # 0 \/ cancelScheduled)

\* _new_options: of every other page, what differs from the values in force now.
NewOptions ==
    LET rates == IF TariffIsSaved THEN OptionsAfter ELSE options
        battery == IF values.battery \in {Unset, EffectiveOptions(options).battery} THEN rates.battery
                   ELSE values.battery
    IN  [rates EXCEPT !.battery = battery]
NewDated == IF TariffIsSaved THEN DatedAfter ELSE dated
NewReviewed ==
    IF confirmCurrent \/ (TariffIsSaved /\ (editDate > today \/ \E k \in TariffKeys : Submitted[k] \notin {Unset, Now[k]}))
    THEN today ELSE reviewed

-----------------------------------------------------------------------------
(* The pages                                                               *)

OpenConfigure ==
    /\ configure = "closed" /\ configures < MaxConfigures /\ configures' = configures + 1
    /\ configure' = "menu" /\ StartCollecting
    /\ UNCHANGED <<options, dated, reviewed, today>>

Submitting(step) ==
    /\ configure = step /\ pages < MaxPages /\ pages' = pages + 1
    /\ UNCHANGED <<options, dated, reviewed, today, configures>>

\* _current_rate_count
CurrentCount == IF rateCount # Unset THEN rateCount ELSE IF values.rows # Unset THEN values.rows ELSE Now.rows

\* The base rate may only be nothing when there are timed rates.  A count of zero clears the timed
\* rates that are saved; one that was only entered here stays among the values.
RatesPage(base, number) ==
    /\ Submitting("menu") /\ ~(base = 0 /\ number = 0)
    /\ rateCount' = number /\ tariffTouched' = TRUE
    /\ values' = [values EXCEPT !.base = base,
                                !.rows = IF number = 0 /\ Now.rows > 0 THEN 0 ELSE @]
    /\ configure' = IF number > 0 /\ number # CurrentCount THEN "rows" ELSE "menu"
    /\ UNCHANGED <<confirmCurrent, editDate, cancelScheduled>>

TimedRatesPage ==
    /\ Submitting(configure) /\ configure \in {"menu", "rows"} /\ CurrentCount > 0
    /\ values' = [values EXCEPT !.rows = CurrentCount] /\ tariffTouched' = TRUE /\ configure' = "menu"
    /\ UNCHANGED <<rateCount, confirmCurrent, editDate, cancelScheduled>>

BillPage(vat) ==
    /\ Submitting("menu") /\ values' = [values EXCEPT !.vat = vat] /\ tariffTouched' = TRUE
    /\ UNCHANGED <<configure, rateCount, confirmCurrent, editDate, cancelScheduled>>

\* The cancel switch is there while a change is ahead.
SchedulePage(date, cancel) ==
    /\ Submitting("menu") /\ (date = 0 \/ date >= today)
    /\ cancel => Ahead(dated, today) # {}
    /\ editDate' = date /\ cancelScheduled' = cancel /\ tariffTouched' = TRUE
    /\ UNCHANGED <<configure, values, rateCount, confirmCurrent>>

StillCurrentPage ==
    /\ Submitting("menu") /\ confirmCurrent' = TRUE /\ tariffTouched' = TRUE
    /\ UNCHANGED <<configure, values, rateCount, editDate, cancelScheduled>>

BatteryPage(cost) ==
    /\ Submitting("menu") /\ values' = [values EXCEPT !.battery = cost]
    /\ UNCHANGED <<configure, rateCount, tariffTouched, confirmCurrent, editDate, cancelScheduled>>

\* Save changes is in the menu while something differs.
ShowConfirm ==
    /\ configure = "menu" /\ <<NewOptions, NewDated, NewReviewed>> # <<options, dated, reviewed>>
    /\ configure' = "confirm" /\ UNCHANGED <<options, dated, reviewed, today, collected, pages, configures>>

\* The one write, from the options as they are now.
Confirm ==
    /\ configure = "confirm" /\ configure' = "closed"
    /\ options' = NewOptions /\ dated' = NewDated /\ reviewed' = NewReviewed
    /\ StartCollecting /\ UNCHANGED <<today, configures>>

CloseConfigure ==
    /\ configure # "closed" /\ configure' = "closed" /\ StartCollecting
    /\ UNCHANGED <<options, dated, reviewed, today, configures>>

-----------------------------------------------------------------------------
(* What else happens                                                       *)

\* async_set_option, or the flow of a repair: a control owns one key.
SetElsewhere(cost) ==
    /\ options' = [options EXCEPT !.battery = cost] /\ options' # options
    /\ UNCHANGED <<dated, reviewed, today, configure, collected, pages, configures>>

DayPasses ==
    /\ today < WizardDays /\ today' = today + 1
    /\ UNCHANGED <<options, dated, reviewed, configure, collected, pages, configures>>

WizardNext ==
    \/ OpenConfigure
    \/ \E base, number \in 0..1 : RatesPage(base, number)
    \/ TimedRatesPage
    \/ \E vat \in 0..1 : BillPage(vat)
    \/ \E date \in 0..WizardDays, cancel \in BOOLEAN : SchedulePage(date, cancel)
    \/ StillCurrentPage
    \/ \E cost \in 0..1 : BatteryPage(cost) \/ SetElsewhere(cost)
    \/ ShowConfirm \/ Confirm \/ CloseConfigure \/ DayPasses

-----------------------------------------------------------------------------
(* Properties                                                              *)

\* The rates of a day after the save, as who entered them reads the pages: the rates entered hold
\* from their date, or from now, until a change that is ahead; what was not entered stays.
Expected(date, k) ==
    LET entered == Over(values, Now)[k]
        later == {c \in Ahead(dated, today) : c.effective <= date /\ c.effective > editDate}
        sooner == {c \in Ahead(dated, today) : c.effective <= date /\ c.effective < editDate}
        lastOf(list) == (CHOOSE c \in list : \A d \in list : d.effective <= c.effective)[k]
    IN  IF later # {} THEN lastOf(later)
        ELSE IF editDate <= date THEN entered
        ELSE IF sooner # {} THEN lastOf(sooner) ELSE Now[k]

WizardSpec == WizardInit /\ [][WizardNext]_wizardVars

\* A save does to the tariff of this and every later day what was entered, and nothing else, though
\* a dated change may start while Configure is open; and a control moved meanwhile keeps its value.
SavedTariffHolds ==
    [][(configure = "confirm" /\ configure' = "closed" /\ <<options, dated>>' # <<options, dated>> /\ ~cancelScheduled)
       => /\ \A date \in today..WizardDays : \A k \in RateKeys :
               InForce(options', dated', date)[k] = Expected(date, k)
          /\ EffectiveOptions(options').vat = Over(values, EffectiveOptions(options)).vat
          /\ EffectiveOptions(options').battery = Over(values, EffectiveOptions(options)).battery]_wizardVars

\* docs/tariff.md: cancelling removes every change that has not started, not one that has.
CancelKeepsTheRates ==
    [][(configure = "confirm" /\ cancelScheduled)
       => \A k \in RateKeys : values[k] = Unset /\ configure' = "closed" =>
            InForce(options', dated', today)[k] = Now[k]]_wizardVars
=============================================================================
