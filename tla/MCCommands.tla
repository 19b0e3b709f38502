----------------------------- MODULE MCCommands -----------------------------
(***************************************************************************)
(* What is asked of the inverter and of the integration, side by side: the *)
(* night's charge with restarts, the slots of a schedule, the controls of  *)
(* a user and the pages of Configure; and the bills.  A behaviour takes    *)
(* the steps of one of them while the others stay as they began.           *)
(***************************************************************************)
EXTENDS MCChargeNight, ExportSchedule, UserControls, BillAudit, SettingsPages

VARIABLE command

commandVars == <<command, vars, exportVars, controlVars, auditVars, settingsVars>>

\* An eighth of a day is an hour here: a window after another, one over midnight, and one that
\* ends at an hour the select lacks.
SomeWindows == {<<1, 3>>, <<7, 2>>, <<4, 6>>}
\* Two years of two months, in which little happens, and two months in which more does.
SomeCourses == {[days |-> 11, events |-> 2], [days |-> 5, events |-> 3]}
SomePresets == {{}, {2, 3}}
\* A set-up that stored nothing, and one that stored sensors and the alternative heating.
SomeSetups ==
    {[k \in PageSettings |-> IF k \in chosen THEN {1} ELSE NotSet] :
       chosen \in {{}, {"capacity_entity", "forecast_entity", "temp_sensor", "alt_enabled", "alt_label"}}}

ExportParked ==
    /\ slot = "charge"
    /\ register = [target |-> CHOOSE t \in DischargeTargets : TRUE, start |-> 0, end |-> 0,
                   switch |-> "off"]

BooksParked ==
    books = Opened(CHOOSE cost \in Earlier : TRUE) /\ course = CHOOSE c \in Courses : TRUE
PagesParked == setup = CHOOSE s \in SetupData : TRUE

CommandInit ==
    /\ command \in {"night", "slots", "controls", "bills", "pages"}
    /\ Init
    /\ IF command = "slots" THEN TRUE ELSE ExportParked
    /\ ExportInit
    /\ ControlInit
    /\ IF command = "bills" THEN TRUE ELSE BooksParked
    /\ AuditInit
    /\ IF command = "pages" THEN TRUE ELSE PagesParked
    /\ SettingsInit

\* What the other parts keep.
Given(c) ==
    /\ command = c /\ command' = c
    /\ IF c = "night" THEN TRUE ELSE UNCHANGED vars
    /\ IF c = "slots" THEN TRUE ELSE UNCHANGED exportVars
    /\ IF c = "controls" THEN TRUE ELSE UNCHANGED controlVars
    /\ IF c = "bills" THEN TRUE ELSE UNCHANGED auditVars
    /\ IF c = "pages" THEN TRUE ELSE UNCHANGED settingsVars

CommandNext ==
    \/ Given("night") /\ Next
    \/ Given("slots") /\ ExportNext
    \/ Given("controls") /\ ControlNext
    \/ Given("bills") /\ AuditNext
    \/ Given("pages") /\ SettingsNext

CommandSpec == CommandInit /\ [][CommandNext]_commandVars

\* The days of a bill, as they are recorded, listed, charged for and compared (BillAudit).
AuditIsSound == command = "bills" => BooksAreSound

\* What the owner sets is kept, by the controls (switch.py, number.py) and by the pages of Configure
\* (wizard/options_flow.py).
OwnersSettingsKept == ControlsAreKept /\ [](command = "pages" => PagesAreSound)
=============================================================================
