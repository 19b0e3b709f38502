------------------------------ MODULE MCDevices ------------------------------
(***************************************************************************)
(* The heater and what is learned of it, the car and its charger, the      *)
(* repairs, the config entry and the battery hold, checked side by side:   *)
(* they share no state, so a behaviour takes the steps of one of them      *)
(* while the others stay as they began, or, the config entry, loaded.      *)
(***************************************************************************)
EXTENDS Immersion, EVCharger, EVSessions, Repairs, ConfigEntry, BatteryHold, HeatLearning

VARIABLE device

devVars == <<device, vars, evVars, sessionVars, repairVars, entryVars, batteryVars,
             recordVars, rateVars>>
learningVars == <<recordVars, rateVars>>

HeaterWorld == {"press", "hand", "raised", "reach", "temp", "auto", "dry_run", "restart"}

EvChargers == {[brand |-> "zappi", options |-> {"eco+", "fast", "stopped"}],
               [brand |-> "zappi", options |-> {"eco+", "fast"}],
               [brand |-> "zappi", options |-> {"eco", "fast", "stopped"}],
               [brand |-> "givenergy", options |-> {"solar", "grid"}],
               [brand |-> "other", options |-> {}]}
AroundCharger == {"plug", "link", "hand", "raised", "switch", "cheap", "dry", "load", "restart"}

\* What feeds and reloads do together with each other part of the world.
FeedEntryAndOne == {{"feed", "entry", x} : x \in Parts}

HeaterParked == Init /\ ~on /\ temp = "low"
EvParked == EvInit /\ charger.brand = "other" /\ ~plugged /\ offered = "full"
RepairParked == RepairInit /\ watch = {"feed", "entry"}
EntryParked ==
    /\ saved = Factory /\ phase = "loaded" /\ again = FALSE /\ previous = Factory
    /\ used = Factory /\ released = FALSE /\ added = {} /\ registry = {} /\ discovered = FALSE
    /\ chargerThere = FALSE /\ visible = FALSE /\ homeAssistant = "running"
    /\ missed = {} /\ savesMade = 0 /\ turns = 0

\* A pause at night, and a start whose writes raise.
Night == [mode |-> "DISCHARGE", start |-> 3, end |-> 1]
OnlyNight == {Night}
StartRaises == {<<"START", "raised">>}

\* A cheap hour, and the second of the two after noon is dear.
RatesOfHours == [h \in HoursOfDay |-> CASE h = 0 -> 1 [] h = 2 -> 4 [] OTHER -> 3]

HoldParked == BatteryInit /\ users = Night /\ time = 0

LearningParked == RecordInit /\ RateInit

DevInit ==
  \/ /\ device = "heater" /\ Init
     /\ EvParked /\ SessionInit /\ RepairParked /\ EntryParked /\ HoldParked /\ LearningParked
  \/ /\ device = "charger" /\ EvInit
     /\ HeaterParked /\ SessionInit /\ RepairParked /\ EntryParked /\ HoldParked /\ LearningParked
  \/ /\ device = "sessions" /\ SessionInit
     /\ HeaterParked /\ EvParked /\ RepairParked /\ EntryParked /\ HoldParked /\ LearningParked
  \/ /\ device = "repairs" /\ RepairInit
     /\ HeaterParked /\ EvParked /\ SessionInit /\ EntryParked /\ HoldParked /\ LearningParked
  \/ /\ device = "entry" /\ EntryInit
     /\ HeaterParked /\ EvParked /\ SessionInit /\ RepairParked /\ HoldParked /\ LearningParked
  \/ /\ device = "hold" /\ BatteryInit
     /\ HeaterParked /\ EvParked /\ SessionInit /\ RepairParked /\ EntryParked /\ LearningParked
  \/ /\ device \in {"record", "rate"} /\ LearningParked
     /\ HeaterParked /\ EvParked /\ SessionInit /\ RepairParked /\ EntryParked /\ HoldParked

DevNext ==
  \/ /\ device = "heater" /\ Next
     /\ UNCHANGED <<device, evVars, sessionVars, repairVars, entryVars, batteryVars, learningVars>>
  \/ /\ device = "charger" /\ EvNext
     /\ UNCHANGED <<device, vars, sessionVars, repairVars, entryVars, batteryVars, learningVars>>
  \/ /\ device = "sessions" /\ SessionNext
     /\ UNCHANGED <<device, vars, evVars, repairVars, entryVars, batteryVars, learningVars>>
  \/ /\ device = "repairs" /\ RepairNext
     /\ UNCHANGED <<device, vars, evVars, sessionVars, entryVars, batteryVars, learningVars>>
  \/ /\ device = "entry" /\ EntryNext
     /\ UNCHANGED <<device, vars, evVars, sessionVars, repairVars, batteryVars, learningVars>>
  \/ /\ device = "hold" /\ BatteryNext
     /\ UNCHANGED <<device, vars, evVars, sessionVars, repairVars, entryVars, learningVars>>
  \/ /\ device = "record" /\ RecordNext
     /\ UNCHANGED <<device, vars, evVars, sessionVars, repairVars, entryVars, batteryVars, rateVars>>
  \/ /\ device = "rate" /\ RateNext
     /\ UNCHANGED <<device, vars, evVars, sessionVars, repairVars, entryVars, batteryVars, recordVars>>

\* Cycles are run by the coordinator's timer, an awaited call is answered, the charger shows its
\* mode, and time passes; between the cycles of the heater (strong fairness: each interrupts it).
HeaterFairness ==
    /\ WF_vars(device = "heater" /\ Read)
    /\ WF_vars(device = "heater" /\ Act)
    /\ WF_vars(device = "heater" /\ PressDone)
    /\ SF_vars(device = "heater" /\ Tick)
    /\ \A s \in Services : WF_vars(device = "heater" /\ CallDone(s))

ChargerFairness ==
    /\ WF_evVars(device = "charger" /\ ReadCharger)
    /\ WF_evVars(device = "charger" /\ (SendMode \/ KeepMode))
    /\ WF_evVars(device = "charger" /\ ShowMode)
    /\ WF_evVars(device = "charger" /\ EvTick)
    /\ \A m \in Modes : WF_evVars(device = "charger" /\ Answered(m))

\* A setup that failed is tried again, and a task that was started runs.
RepairFairness ==
    /\ WF_repairVars(device = "repairs" /\ (GoodCycle \/ FailedCycle \/ FailedSetup))
    /\ WF_repairVars(device = "repairs" /\ RefreshRepairs)

\* A set-up goes on, cycles and midnights come.
EntryFairness ==
    /\ WF_entryVars(device = "entry" /\ (Build \/ FirstRefresh \/ FinishSetup \/ Unload))
    /\ WF_entryVars(device = "entry" /\ EntryCycle)
    /\ WF_entryVars(device = "entry" /\ EntryMidnight)

\* A hold's step goes on once it has begun.
HoldFairness ==
    /\ WF_batteryVars(device = "hold" /\ Run)
    /\ WF_batteryVars(device = "hold" /\ HoldStep)
    /\ WF_batteryVars(device = "hold" /\ BatteryTick)
    /\ WF_batteryVars(device = "hold" /\ CooldownEnds)

DevSpec ==
    /\ DevInit /\ [][DevNext]_devVars
    /\ HeaterFairness
    /\ ChargerFairness
    /\ WF_sessionVars(device = "sessions" /\ SessionCycle)
    /\ RepairFairness
    /\ EntryFairness
    /\ HoldFairness

\* The hold by itself, whatever becomes of its steps.
HoldOnly == DevInit /\ device = "hold" /\ [][DevNext]_devVars

\* What is recorded of the car's charges, and of the heater's work, holds what was there to record
\* and nothing else, and what is suggested and learned from it fits.
DeviceRecordsAreSound ==
    /\ SessionsAreSound
    /\ [](device = "record" => ScheduleIsSound)
    /\ [](device = "rate" => RateIsPlausible /\ RunsCountOnce)
=============================================================================
