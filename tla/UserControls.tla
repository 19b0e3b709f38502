---------------------------- MODULE UserControls ----------------------------
(***************************************************************************)
(* The switches and numbers a user turns, over restarts (switch.py,        *)
(* number.py): the manual charge target, the skip of tonight's charge, the *)
(* scheduled heating, auto divert and the temperatures of the water.       *)
(*                                                                         *)
(* A control lives in up to four places: what its entity shows, what the   *)
(* coordinator uses, the entry's data (the temperatures) and the store of  *)
(* last states that Home Assistant writes now and then and when it stops.  *)
(* A start builds the coordinator from the data, runs one cycle, and only  *)
(* then do the two platforms add their entities, each of which puts its    *)
(* last state back.                                                        *)
(***************************************************************************)
EXTENDS Integers, FiniteSets

CONSTANTS
    TargetRange, MinRange,          \* what the two temperature numbers take
    DefaultTarget, DefaultMin,
    ChargeLevels, DefaultLevel,     \* the levels of a manual charge target
    Unset,
    MaxAsks, MaxHalts

ASSUME UserControlsAssumption ==
    DefaultTarget \in TargetRange /\ DefaultMin \in MinRange /\ DefaultMin < DefaultTarget
    /\ DefaultLevel \in ChargeLevels
    /\ TargetRange \subseteq Int /\ MinRange \subseteq Int
    /\ Unset \notin Int \cup ChargeLevels \cup {"on", "off", "unavailable"}

VARIABLES
    running,        \* "down", "adding" (entities are being added), "up"
    added,          \* the entities added since the start
    used,           \* the coordinator: temperatures, overrides and opt-ins
    face,           \* the temperature numbers' own values, and auto divert's
    entryData,      \* entry.data
    store,          \* the last states as stored
    answering,      \* the inverter answers
    available,      \* last_update_success
    refresh,        \* a refresh was asked for and has not run
    acted,          \* what the last good cycle decided on
    wish,           \* history: what the user last asked for
    unsaved,        \* history: a change the store has not got
    blank,          \* history: the store was written while the entities were unavailable
    lost,           \* history: what the last start could not put back: "nothing", "switches", "all"
    asks, halts     \* bounds

controlVars == <<running, added, used, face, entryData, store, answering, available, refresh, acted,
                 wish, unsaved, blank, lost, asks, halts>>

Switches == {"enabled", "schedule", "auto"}
NumberKeys == {"level", "target", "min"}
Controls == Switches \cup NumberKeys

\* A control as it stands before anyone has touched it.
Factory == [enabled |-> "off", schedule |-> "off", auto |-> "on",
            level |-> DefaultLevel, target |-> DefaultTarget, min |-> DefaultMin]
NoData == [target |-> Unset, min |-> Unset]
NotStored == [e \in Controls |-> Unset]

\* What the coordinator has of a control before its entity is added.
Saved(key) == IF entryData[key] = Unset THEN Factory[key] ELSE entryData[key]
Fresh == [Factory EXCEPT !.target = Saved("target"), !.min = Saved("min")]

ManualTarget(u) == IF u.enabled = "on" THEN u.level ELSE Unset
Decided(u, skip) == [target |-> ManualTarget(u), skip |-> skip]

-----------------------------------------------------------------------------
ControlInit ==
    /\ running = "up" /\ added = Controls
    /\ used = [control |-> Factory, skip |-> FALSE] /\ face = Factory
    /\ entryData = NoData /\ store = NotStored
    /\ answering = TRUE /\ available = TRUE /\ refresh = FALSE
    /\ acted = Decided(Factory, FALSE)
    /\ wish = Factory /\ unsaved = FALSE /\ blank = FALSE /\ lost = "nothing"
    /\ asks = 0 /\ halts = 0

\* _apply of the two temperatures: the gap of a degree between them.
Clamped(e, v) ==
    CASE e = "target" -> IF v > used.control.min THEN v ELSE used.control.min + 1
      [] e = "min"    -> IF v < used.control.target THEN v ELSE used.control.target - 1
      [] OTHER        -> v

\* async_apply_config_change: the temperatures that are saved go to the coordinator, changed or not.
CopyTemps(u, d) == [u EXCEPT !.target = IF d.target = Unset THEN @ ELSE d.target,
                             !.min = IF d.min = Unset THEN @ ELSE d.min]

\* A number is set.  A temperature is saved in the data, and the listener copies it back.
SetNumber(e, v) ==
    LET w == Clamped(e, v)
        anew == [used.control EXCEPT ![e] = w]
        d == IF e = "level" THEN entryData ELSE [entryData EXCEPT ![e] = w]
    IN
    /\ entryData' = d /\ face' = [face EXCEPT ![e] = w]
    /\ used' = [used EXCEPT !.control = IF d = entryData THEN anew ELSE CopyTemps(anew, d)]
    /\ wish' = [wish EXCEPT ![e] = w]
    /\ refresh' = TRUE

\* A switch is turned.  Auto divert waits for the next cycle, the others ask for one.
TurnSwitch(e, s) ==
    /\ used' = [used EXCEPT !.control[e] = s] /\ face' = [face EXCEPT ![e] = s]
    /\ wish' = [wish EXCEPT ![e] = s]
    /\ refresh' = (refresh \/ e # "auto")
    /\ UNCHANGED entryData

\* Home Assistant calls no service of an entity that is unavailable.
UserAsks ==
    /\ running # "down" /\ available /\ asks < MaxAsks
    /\ \/ \E v \in TargetRange : "target" \in added /\ SetNumber("target", v)
       \/ \E v \in MinRange : "min" \in added /\ SetNumber("min", v)
       \/ \E v \in ChargeLevels : "level" \in added /\ SetNumber("level", v)
       \/ \E e \in Switches \cap added, s \in {"on", "off"} : TurnSwitch(e, s)
    /\ asks' = asks + 1 /\ unsaved' = TRUE
    /\ UNCHANGED <<running, added, store, answering, available, acted, blank, lost, halts>>

\* Force Skip, which is not restored.
TurnSkip ==
    /\ running = "up" /\ available /\ asks < MaxAsks
    /\ used' = [used EXCEPT !.skip = ~@] /\ refresh' = TRUE /\ asks' = asks + 1
    /\ UNCHANGED <<running, added, face, entryData, store, answering, available, acted, wish,
                   unsaved, blank, lost, halts>>

\* A cycle, of the timer or asked for.
ControlCycle ==
    /\ running # "down" /\ refresh' = FALSE
    /\ available' = answering
    /\ acted' = IF answering THEN Decided(used.control, used.skip) ELSE acted
    /\ UNCHANGED <<running, added, used, face, entryData, store, answering, wish, unsaved, blank,
                   lost, asks, halts>>

-----------------------------------------------------------------------------
\* What is stored of the entities there are: a switch by its state, a number by its value.
LastStates == [e \in Controls |->
    IF e \notin added THEN store[e]
    ELSE IF e \in Switches THEN IF available THEN face[e] ELSE "unavailable"
    ELSE face[e]]

Dump ==
    /\ running = "up" /\ unsaved
    /\ store' = LastStates /\ unsaved' = FALSE /\ blank' = ~available
    /\ UNCHANGED <<running, added, used, face, entryData, answering, available, refresh, acted, wish,
                   lost, asks, halts>>

\* Home Assistant stops in good order or the entry reloads (orderly), or it crashes.
Halt(orderly) ==
    LET gone == IF orderly THEN ~available ELSE blank
    IN
    /\ running # "down" /\ halts < MaxHalts
    /\ running' = "down" /\ added' = {} /\ halts' = halts + 1
    /\ store' = IF orderly THEN LastStates ELSE store
    /\ lost' = IF lost = "all" \/ (unsaved /\ ~orderly) THEN "all"
               ELSE IF lost = "switches" \/ gone THEN "switches" ELSE "nothing"
    /\ unsaved' = FALSE /\ blank' = gone /\ refresh' = FALSE
    /\ UNCHANGED <<used, face, entryData, answering, available, acted, wish, asks>>

\* The entry is set up: the coordinator is built and runs its first cycle, else it is tried later.
StartControls ==
    /\ running = "down" /\ answering
    /\ running' = "adding" /\ available' = TRUE
    /\ used' = [control |-> Fresh, skip |-> FALSE]
    /\ acted' = Decided(Fresh, FALSE)
    /\ face' = Factory
    /\ UNCHANGED <<added, entryData, store, answering, refresh, wish, unsaved, blank, lost, asks, halts>>

\* async_added_to_hass of a switch: any stored state but "on" is off.  Scheduled heating and auto
\* divert ask for no cycle, the next one of the timer finds them.
RestoreSwitch(e) ==
    LET back == IF store[e] = Unset THEN Factory[e] ELSE IF store[e] = "on" THEN "on" ELSE "off"
    IN
    /\ used' = [used EXCEPT !.control[e] = back] /\ face' = [face EXCEPT ![e] = back]
    /\ refresh' = (refresh \/ (e = "enabled" /\ back = "on"))

\* The slider asks for a cycle while the override is on.
RefreshAfter(e) == e = "level" /\ used.control.enabled = "on"
RestoreNumber(e) ==
    LET back == Clamped(e, store[e])
    IN  IF store[e] = Unset THEN UNCHANGED <<used, face, refresh>>
        ELSE /\ used' = [used EXCEPT !.control[e] = back] /\ face' = [face EXCEPT ![e] = back]
             /\ refresh' = (refresh \/ RefreshAfter(e))

\* The platforms add their entities side by side, each in the order it lists them.
AddEntity(e) ==
    /\ running = "adding" /\ e \notin added
    /\ e = "min" => "target" \in added
    /\ e = "schedule" => "auto" \in added
    /\ IF e \in Switches THEN RestoreSwitch(e) ELSE RestoreNumber(e)
    /\ added' = added \cup {e}
    /\ running' = IF added' = Controls THEN "up" ELSE "adding"
    /\ UNCHANGED <<entryData, store, answering, available, acted, wish, unsaved, blank, lost, asks, halts>>

InverterAnswers ==
    /\ answering' = ~answering
    /\ UNCHANGED <<running, added, used, face, entryData, store, available, refresh, acted, wish,
                   unsaved, blank, lost, asks, halts>>

\* Bound: after a loss of all the controls, nothing is looked at but their coming back, and the
\* inverter answers, or does not, before and after the controls are added.
ControlNext ==
    \/ lost # "all" /\ (UserAsks \/ TurnSkip \/ ControlCycle \/ Dump)
    \/ lost # "all" /\ \E orderly \in BOOLEAN : Halt(orderly)
    \/ StartControls
    \/ \E e \in Controls : AddEntity(e)
    \/ running # "adding" /\ (running = "up" => lost # "all") /\ InverterAnswers

ControlSpec == ControlInit /\ [][ControlNext]_controlVars

-----------------------------------------------------------------------------
ControlTypeOK ==
    /\ running \in {"down", "adding", "up"} /\ added \subseteq Controls
    /\ DOMAIN used.control = Controls /\ DOMAIN face = Controls /\ DOMAIN store = Controls
    /\ lost \in {"nothing", "switches", "all"}

\* A control that is back shows what the coordinator uses, and what its user asked for.
AsAsked ==
    \A e \in added :
        (lost = "nothing" \/ (lost = "switches" /\ e \in NumberKeys))
        => used.control[e] = wish[e] /\ face[e] = wish[e]

\* The water is heated to a target above its minimum.
GapKept == running = "up" /\ lost # "all" => used.control.min < used.control.target

\* Whatever was lost, a start ends with that gap too.
GapAfterStart ==
    running = "adding" /\ running' = "up" => used'.control.min < used'.control.target

\* A start turns nothing on that was not asked for.
NothingTurnsOn == \A e \in added \cap {"enabled", "schedule"} :
                      lost # "all" /\ used.control[e] = "on" => wish[e] = "on"

\* Once a refresh that was asked for has run, the plan is made of what the entities show.
Settled == running = "up" /\ available /\ ~refresh => acted = Decided(used.control, used.skip)

\* docs/entities.md:37: what the controls show after a restart is what the integration applies
\* (switch.py, number.py).  Left out: a crash within the quarter of an hour before the store is
\* written, and switches that were unavailable when it was.
ControlsAreKept ==
    /\ [](AsAsked /\ GapKept /\ NothingTurnsOn /\ Settled)
    /\ [][GapAfterStart]_controlVars
=============================================================================
