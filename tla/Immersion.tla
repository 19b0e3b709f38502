------------------------------ MODULE Immersion ------------------------------
(***************************************************************************)
(* The immersion heater: ImmersionActuator (immersion_actuator.py) between *)
(* the engine's decision and the real switch, with the coordinator's       *)
(* background commands, the managed switch, Immersion Auto Divert, and     *)
(* whoever else switches the heater.                                       *)
(*                                                                         *)
(* A cycle is two steps: it reads and decides (Read), waits for the writes *)
(* of other components, and acts on the decision.  Presses, hands and      *)
(* answers to commands fall in between.  A cycle, and a command, takes     *)
(* less than a tick.                                                       *)
(*                                                                         *)
(* "on" and "off" stand for True and False of override and of              *)
(* last_commanded_on, and for turn_on and turn_off; "none" is None.  Times *)
(* are ticks since an instant, with Never for None, or ticks still to go.  *)
(***************************************************************************)
EXTENDS Integers

CONSTANTS
    Cooldown,       \* IMMERSION_SWITCH_COOLDOWN_MINUTES
    OutageTicks,    \* SENSOR_OUTAGE_HOLD_LIMIT_S
    HasSensor,      \* a water temperature sensor is configured
    Changes,        \* what may happen around the actuator in this instance
    MaxChanges,     \* bound: how often, in all
    MaxCalls        \* bound: background calls of one service under way

ASSUME ImmersionAssumption ==
    /\ Cooldown \in Nat \ {0} /\ OutageTicks \in Nat
    /\ HasSensor \in BOOLEAN
    /\ Changes \subseteq {"press", "hand", "raised", "reach", "temp", "auto", "dry_run", "restart"}
    /\ MaxChanges \in Nat /\ MaxCalls \in Nat \ {0}

Services == {"on", "off"}
Never == -1
FailuresBeforeRepair == 2
NoPress == [service |-> "none", last |-> "none", cool |-> 0]

VARIABLES
    on,             \* the heater's real state
    reach,          \* the real switch can be reached; one that is unavailable reads off
    temp,           \* the water: below target, at it or above, or no reading
    auto,           \* Immersion Auto Divert
    dry_run,
    override,       \* ImmersionActuator.override
    run,            \* manual_run_to_target
    unread,         \* ticks since _temp_unreadable_since
    cool,           \* ticks to cooldown_until
    last,           \* last_commanded_on
    outage,         \* ticks since the coordinator's _inputs_unavailable_since
    first,          \* no cycle has finished yet: self.data is None
    cycle,          \* the decision of the cycle under way; "hot" is off with the water at target
    calls,          \* background commands under way, by service
    failures,       \* _immersion_commands: failed in a row, FAILURES_BEFORE_REPAIR raising the repair
    press,          \* the manual command under way, with what a failure restores
    changes,        \* the changes used up
    quiet,          \* history: ticks until an automatic command may follow the last one
    hands_off,      \* history: ticks for which someone's turning off is to be respected
    ignored         \* history: cycles in a row that left the heater on, seen on in hot water

settings == <<auto, dry_run>>
memory == <<override, run, unread, cool, last>>
history == <<quiet, hands_off, ignored>>
vars == <<on, reach, temp, settings, memory, outage, first, cycle, calls, failures, press, changes, history>>

PressType == [service: Services \cup {"none"}, last: Services \cup {"none"}, cool: 0..Cooldown]

TypeOK ==
    /\ on \in BOOLEAN /\ reach \in BOOLEAN /\ temp \in {"low", "hot", "none"}
    /\ auto \in BOOLEAN /\ dry_run \in BOOLEAN
    /\ override \in Services \cup {"none"} /\ run \in BOOLEAN
    /\ unread \in Never..OutageTicks /\ cool \in 0..Cooldown
    /\ last \in Services \cup {"none"}
    /\ outage \in Never..OutageTicks /\ first \in BOOLEAN
    /\ cycle \in {"idle", "on", "off", "hot"}
    /\ calls \in [Services -> 0..MaxCalls]
    /\ failures \in 0..FailuresBeforeRepair
    /\ press \in PressType
    /\ changes \in 0..MaxChanges
    /\ quiet \in 0..Cooldown /\ hands_off \in 0..Cooldown /\ ignored \in 0..2

\* A cooldown of the code starts anew, whatever is left of an older one.
StartCooldown(left) == Cooldown

Init ==
    /\ on \in BOOLEAN /\ reach = TRUE
    /\ temp \in IF HasSensor THEN {"low", "hot", "none"} ELSE {"none"}
    /\ auto = TRUE /\ dry_run = FALSE
    /\ override = "none" /\ run = FALSE /\ unread = Never /\ cool = 0 /\ last = "none"
    /\ outage = Never /\ first = TRUE /\ cycle = "idle"
    /\ calls = [s \in Services |-> 0] /\ failures = 0 /\ press = NoPress /\ changes = 0
    /\ quiet = 0 /\ hands_off = 0 /\ ignored = 0

\* What is read of the switch.
SeenOn == on /\ reach

-----------------------------------------------------------------------------
(* The cycle reads and decides                                             *)

Aged(since) == IF since = Never THEN 0 ELSE since

\* release_if_at_target: a manual run ends at the target, or after too long without a reading.
RunEnds ==
    /\ run
    /\ \/ temp = "hot"
       \/ temp = "none" /\ Aged(unread) >= OutageTicks

\* _missing_input_decision.  Mutant: the hold has no limit.
HeldForGood(missing_for) == SeenOn
HeldThroughOutage(missing_for) == SeenOn /\ missing_for < OutageTicks

\* should_divert_to_immersion.  `paid` is a rule that heats whatever the sun does: the minimum
\* temperature, the cheapest window or a ready time.  `sun` "slight" keeps a heater on that is
\* on: a surplus in the band, or water too warm for a fresh start.
Verdict(sun, paid, missing_for) ==
    /\ temp # "hot"
    /\ \/ paid /\ temp # "none"
       \/ missing_for # Never /\ HeldThroughOutage(missing_for)
       \/ missing_for = Never /\ (sun = "plenty" \/ (sun = "slight" /\ SeenOn))

\* _read_inputs and _set_immersion_decision.  An override decides alone.
Read ==
    /\ cycle = "idle"
    /\ run' = (run /\ ~RunEnds)
    /\ override' = IF RunEnds THEN "none" ELSE override
    /\ unread' = IF run' /\ temp = "none" THEN Aged(unread) ELSE Never
    /\ \E sun \in {"plenty", "slight", "none", "missing"}, paid \in BOOLEAN :
         LET missing == sun = "missing" \/ (HasSensor /\ temp = "none")
             decision == IF override' # "none" THEN override' = "on"
                         ELSE Verdict(sun, paid, outage')
         IN /\ outage' = IF missing THEN Aged(outage) ELSE Never
            /\ cycle' = IF decision THEN "on" ELSE IF temp = "hot" THEN "hot" ELSE "off"
    /\ UNCHANGED <<on, reach, temp, settings, cool, last, first, calls, failures, press, changes, history>>

-----------------------------------------------------------------------------
(* The cycle acts: ImmersionActuator.actuate                               *)

\* _toggled_externally, out of a cooldown only.
ToggledExternally == last # "none" /\ SeenOn # (last = "on") /\ cool = 0

\* The history of hot water after a cycle that sent no turn-off.
LeftOn == ignored' = IF cycle = "hot" /\ SeenOn /\ ~dry_run /\ ~first
                     THEN IF ignored = 2 THEN 2 ELSE ignored + 1 ELSE 0

EndOfCycle ==
    /\ cycle # "idle" /\ cycle' = "idle" /\ first' = FALSE
    /\ UNCHANGED <<on, reach, temp, settings, outage, press, changes>>

\* _adopt_external_turn_on.
AdoptTurnOn ==
    /\ EndOfCycle /\ LeftOn
    /\ ~first /\ ToggledExternally /\ SeenOn
    /\ override' = "on" /\ run' = TRUE /\ unread' = Never /\ cool' = 0 /\ last' = "on"
    /\ quiet' = 0 /\ hands_off' = 0
    /\ UNCHANGED <<calls, failures>>

\* _adopt_external_turn_off.  Mutant: automatic control is not held off.
NoHold == cool
ExternalHold == StartCooldown(cool)

AdoptTurnOff ==
    /\ EndOfCycle /\ LeftOn
    /\ ~first /\ ToggledExternally /\ ~SeenOn
    /\ override' = "none" /\ run' = FALSE /\ unread' = Never /\ cool' = ExternalHold /\ last' = "off"
    /\ UNCHANGED <<calls, failures, quiet, hands_off>>

\* _drive_switch: a cooldown holds back everything but a turn-off of hot water.  Mutant: that too.
HeldBackAlways == cool > 0
HeldBack == cool > 0 /\ cycle # "hot"

Drives == ~first /\ ~ToggledExternally /\ (cycle = "on") # SeenOn /\ ~HeldBack /\ ~dry_run

\* core/switch_commands.py, after_failure: from the second failure in a row the repair is up.
AfterFailure(n) == IF n = FailuresBeforeRepair THEN n ELSE n + 1

\* send_in_background starts the command at once, and runs it to its first await.  A switch that is
\* unavailable is skipped and a missing service refused before that, so command_failed comes
\* before the assignment of last_commanded_on, which undoes it.
Drive ==
    LET service == IF cycle = "on" THEN "on" ELSE "off" IN
    /\ EndOfCycle /\ ignored' = 0
    /\ Drives
    /\ \/ reach /\ calls[service] < MaxCalls /\ calls' = [calls EXCEPT ![service] = @ + 1]
          /\ UNCHANGED failures
       \/ ~reach /\ failures' = AfterFailure(failures) /\ UNCHANGED calls
    /\ cool' = StartCooldown(cool) /\ last' = service
    /\ quiet' = Cooldown
    /\ UNCHANGED <<override, run, unread, hands_off>>

\* Nothing to do, held back, dry run, or the first cycle, which only observes.
Leave ==
    /\ EndOfCycle /\ LeftOn
    /\ first \/ (~ToggledExternally /\ ~Drives)
    /\ UNCHANGED <<memory, calls, failures, quiet, hands_off>>

Act == AdoptTurnOn \/ AdoptTurnOff \/ Drive \/ Leave

-----------------------------------------------------------------------------
(* The answers to commands: _send_immersion_command and _send_manual       *)

Change(what) == what \in Changes /\ changes < MaxChanges /\ changes' = changes + 1

CallDone(service) ==
    /\ calls[service] > 0
    /\ calls' = [calls EXCEPT ![service] = @ - 1]
    /\ on' = (service = "on")
    /\ failures' = 0
    /\ UNCHANGED <<reach, temp, settings, memory, outage, first, cycle, press, changes, history>>

\* command_failed: <<last_commanded_on, cooldown>>.  Mutant: the cooldown goes too.
FailedAndFree(service) == <<IF last = service THEN "none" ELSE last, 0>>
CommandFailed(service) == <<IF last = service THEN "none" ELSE last, cool>>

CallRaised(service) ==
    /\ calls[service] > 0
    /\ Change("raised")
    /\ calls' = [calls EXCEPT ![service] = @ - 1]
    /\ failures' = AfterFailure(failures)
    /\ last' = CommandFailed(service)[1] /\ cool' = CommandFailed(service)[2]
    /\ UNCHANGED <<on, reach, temp, settings, override, run, unread, outage, first, cycle, press, history>>

\* manual_on and manual_off, up to the call's first await.
ManualOn ==
    /\ press = NoPress /\ Change("press")
    /\ override' = "on" /\ run' = TRUE /\ unread' = Never /\ cool' = 0
    /\ last' = IF dry_run THEN last ELSE "on"
    /\ press' = IF dry_run \/ ~reach THEN NoPress ELSE [service |-> "on", last |-> last, cool |-> 0]
    /\ quiet' = 0 /\ hands_off' = 0 /\ ignored' = 0
    /\ UNCHANGED <<on, reach, temp, settings, outage, first, cycle, calls, failures>>

ManualOff ==
    /\ press = NoPress /\ Change("press")
    /\ override' = "none" /\ run' = FALSE /\ unread' = Never
    /\ cool' = IF dry_run THEN cool ELSE StartCooldown(cool)
    /\ last' = IF dry_run THEN last ELSE "off"
    /\ press' = IF dry_run \/ ~reach THEN NoPress
                ELSE [service |-> "off", last |-> last, cool |-> cool]
    /\ quiet' = IF dry_run THEN quiet ELSE 0
    /\ hands_off' = IF dry_run THEN hands_off ELSE Cooldown
    /\ ignored' = 0
    /\ UNCHANGED <<on, reach, temp, settings, outage, first, cycle, calls, failures>>

PressDone ==
    /\ press # NoPress /\ press' = NoPress
    /\ on' = (press.service = "on")
    /\ UNCHANGED <<reach, temp, settings, memory, outage, first, cycle, calls, failures, changes, history>>

PressRaised ==
    /\ press # NoPress /\ press' = NoPress
    /\ Change("raised")
    /\ last' = press.last /\ cool' = press.cool
    /\ quiet' = 0 /\ hands_off' = 0 /\ ignored' = 0
    /\ UNCHANGED <<on, reach, temp, settings, override, run, unread, outage, first, cycle, calls, failures>>

NoCalls == \A s \in Services : calls[s] = 0

-----------------------------------------------------------------------------
(* Around the actuator                                                     *)

\* The wall button, an app or an automation.  Turning off what the integration turned on, with
\* no command under way, is to be respected.
Hand ==
    /\ Change("hand")
    /\ on' = ~on
    /\ hands_off' = IF on /\ last = "on" /\ press = NoPress /\ NoCalls
                    THEN Cooldown ELSE 0
    /\ ignored' = 0
    /\ UNCHANGED <<reach, temp, settings, memory, outage, first, cycle, calls, failures, press, quiet>>

Water ==
    /\ Change("temp") /\ HasSensor
    /\ temp' \in {"low", "hot", "none"} \ {temp}
    /\ UNCHANGED <<on, reach, settings, memory, outage, first, cycle, calls, failures, press, history>>

Reach ==
    /\ Change("reach")
    /\ reach' = ~reach
    /\ ignored' = 0
    /\ UNCHANGED <<on, temp, settings, memory, outage, first, cycle, calls, failures, press, quiet, hands_off>>

\* GivEnergyAutoImmersionSwitch turned on or off.
AutoOverride(enabled) == IF enabled THEN "none" ELSE "off"

ToggleAuto ==
    /\ Change("auto")
    /\ auto' = ~auto /\ override' = AutoOverride(auto')
    /\ UNCHANGED <<on, reach, temp, dry_run, run, unread, cool, last, outage, first, cycle, calls, failures, press, history>>

ToggleDryRun ==
    /\ Change("dry_run")
    /\ dry_run' = ~dry_run
    /\ UNCHANGED <<on, reach, temp, auto, memory, outage, first, cycle, calls, failures, press, history>>

\* A new coordinator; a command under way reaches the switch or not.
Restart ==
    /\ Change("restart")
    /\ on' \in {on} \cup {s = "on" : s \in {t \in Services : calls[t] > 0 \/ press.service = t}}
    /\ override' = AutoOverride(auto) /\ run' = FALSE /\ unread' = Never /\ cool' = 0 /\ last' = "none"
    /\ outage' = Never /\ first' = TRUE /\ cycle' = "idle"
    /\ calls' = [s \in Services |-> 0] /\ failures' = 0 /\ press' = NoPress
    /\ quiet' = 0 /\ hands_off' = 0 /\ ignored' = 0
    /\ UNCHANGED <<reach, temp, settings>>

Less(left) == IF left = 0 THEN 0 ELSE left - 1
More(since) == IF since \in {Never, OutageTicks} THEN since ELSE since + 1

Tick ==
    /\ cycle = "idle" /\ press = NoPress /\ NoCalls
    /\ cool' = Less(cool)
    /\ unread' = More(unread) /\ outage' = More(outage)
    /\ quiet' = Less(quiet) /\ hands_off' = Less(hands_off)
    /\ UNCHANGED <<on, reach, temp, settings, override, run, last, first, cycle, calls, failures, press, changes, ignored>>

Next ==
    \/ Read \/ Act \/ Tick
    \/ \E s \in Services : CallDone(s) \/ CallRaised(s)
    \/ ManualOn \/ ManualOff \/ PressDone \/ PressRaised
    \/ Hand \/ Water \/ Reach \/ ToggleAuto \/ ToggleDryRun \/ Restart

Spec == Init /\ [][Next]_vars

-----------------------------------------------------------------------------
(* Properties                                                              *)

\* An automatic command: the step of a cycle that sends one.
Sends == Drive

\* docs/concepts.md, Immersion divert: after an automatic on or off the next automatic change waits
\* for the cooldown, also when the command fails, unless the water is hot or someone pressed.
AutomaticChangesSpaced == [][Sends /\ cycle # "hot" => quiet = 0]_vars

\* docs/concepts.md: turning the heater off, with the managed switch or outside while the
\* integration has it on, holds off automatic turning on for the cooldown.
TurningOffRespected == [][Sends /\ cycle = "on" => hands_off = 0]_vars

\* Whatever turned the heater last, a cycle or someone's hand, has its time.
TurningsHaveTheirTime == AutomaticChangesSpaced /\ TurningOffRespected

\* The overheat bypass: no two cycles in a row see the heater on in water at its target and leave
\* it on, whatever cooldown runs and whoever turned it on, if nobody presses
\* or switches it in between and it stays within reach.
HotWaterStops == ignored < 2

\* With water at its target, or no reading of it, and a switch that takes commands, the heater ends
\* off: manual runs, external turn-ons, late answers and the outage hold included.
HeaterEndsOff ==
    <>[](reach /\ ~dry_run /\ (temp = "hot" \/ (temp = "none" /\ HasSensor))) => <>[](~on)

\* docs/concepts.md:331, "Immersion Auto Divert off still stops everything": a cycle that finds
\* it off decides on only for a manual run.
MasterOffStops == [][Read /\ ~auto /\ cycle' = "on" => run']_vars
=============================================================================
