----------------------------- MODULE ConfigEntry -----------------------------
(***************************************************************************)
(* The life of the config entry: set-ups, reloads and restarts             *)
(* (__init__.py), what a saved change does to the running coordinator      *)
(* (core/reload_policy.py, async_apply_config_change), and the entities of *)
(* the optional devices (optional_devices.py, core/devices.py).            *)
(*                                                                         *)
(* The keys of the config are one of each kind: the wiring, which is here  *)
(* the immersion switch, the group that decides the alternative heating,   *)
(* the tariff's periods, the immersion temperatures, and any other.        *)
(***************************************************************************)
EXTENDS Integers

CONSTANTS
    MaxSaves,       \* bound: how often a changed value is saved
    MaxTurns        \* bound: how often Home Assistant restarts, a refresh fails, or the charger comes or goes

ASSUME EntryAssumption == {MaxSaves, MaxTurns} \subseteq Nat

VARIABLES
    saved,          \* the merged config of the entry
    phase,          \* built and refreshed are the two stages of a set-up, retry a set-up that failed
    again,          \* a reload waits for the one that goes on
    previous,       \* the config that the update listener saw last
    used,           \* what the running coordinator goes by
    released,       \* the held charge was let go
    added,          \* the devices whose entities were added since the set-up
    registry,       \* the devices whose entities are registered
    discovered,     \* the coordinator has found the charger
    chargerThere,   \* the charger is there
    visible,        \* its integration has created its entities
    homeAssistant,  \* starting or running
    missed,         \* history: the keys that the last set-up missed a save of
    savesMade, turns

setupVars == <<again, previous, used, released, added, discovered, missed>>
outside == <<chargerThere, visible, homeAssistant, turns>>
entryVars == <<saved, phase, registry, savesMade, setupVars, outside>>

Values == [wiring |-> {0, 1}, alt |-> {0, 1, 2}, tariff |-> {0, 1}, temps |-> {0, 1}, plain |-> {0, 1}]
Keys == DOMAIN Values
Factory == [k \in Keys |-> 0]
\* An entry that has every device, so that two saves can take one away and bring it back.
Equipped == [Factory EXCEPT !.wiring = 1, !.alt = 1]

EntryInit ==
    /\ saved = Equipped /\ phase = "unloaded" /\ again = FALSE /\ previous = Equipped
    /\ used = Equipped /\ released = TRUE /\ added = {} /\ registry = {} /\ discovered = FALSE
    /\ chargerThere \in BOOLEAN /\ visible = FALSE /\ homeAssistant = "starting"
    /\ missed = {} /\ savesMade = 0 /\ turns = 0

\* installed_devices, but for the charger.
Installed(config) ==
    (IF config.wiring = 1 THEN {"immersion"} ELSE {})
    \cup (IF config.wiring = 1 /\ config.alt # 0 THEN {"alternative_heat"} ELSE {})

PresentDevices == Installed(saved) \cup (IF discovered THEN {"ev_charger"} ELSE {})

\* _charger_may_exist.  Mutant: it asks only whether one is to be discovered.
IsDiscovered == visible
ChargerMayExist == homeAssistant = "starting" \/ visible

-----------------------------------------------------------------------------
(* Reloads and set-ups                                                     *)

\* The coordinator is built from the config of this moment.
Build ==
    /\ phase \in {"unloaded", "retry"} /\ phase' = "built"
    /\ used' = [saved EXCEPT !.plain = used.plain] /\ released' = TRUE /\ discovered' = FALSE /\ added' = {}
    /\ UNCHANGED <<saved, again, previous, registry, missed, savesMade, outside>>

\* The first refresh, which may fail, computes from the config of its moment.
FirstRefresh ==
    /\ phase = "built"
    /\ \/ /\ turns < MaxTurns /\ turns' = turns + 1
          /\ phase' = "retry" /\ UNCHANGED <<used, released>>
       \/ /\ phase' = "refreshed" /\ used' = [used EXCEPT !.plain = saved.plain] /\ released' = FALSE
          /\ UNCHANGED turns
    /\ UNCHANGED <<saved, again, previous, added, registry, discovered, missed, savesMade,
                   chargerThere, visible, homeAssistant>>

\* The rest of async_setup_entry: entities and devices that are gone are removed, those present are
\* added, and from here on the update listener sees every save.
FinishSetup ==
    LET expected == PresentDevices \cup (IF ChargerMayExist THEN {"ev_charger"} ELSE {})
    IN  /\ phase = "refreshed" /\ phase' = IF again THEN "unloading" ELSE "loaded"
        /\ again' = FALSE /\ previous' = saved
        /\ added' = PresentDevices /\ registry' = (registry \cap expected) \cup PresentDevices
        /\ missed' = {k \in {"wiring", "temps", "plain"} : used[k] # saved[k]}
        /\ UNCHANGED <<saved, used, released, discovered, savesMade, outside>>

\* The unload of a reload ends: the listener and the coordinator are gone.
Unload ==
    /\ phase = "unloading" /\ phase' = "unloaded"
    /\ UNCHANGED <<saved, registry, savesMade, setupVars, outside>>

\* A cycle reads the saved config, but shows a charge that is still held.  The charger is discovered
\* by the second, and a device that appeared gets its entities.
EntryCycle ==
    /\ phase \in {"loaded", "unloading"}
    /\ \E seen \in IF released THEN {saved.plain} ELSE {saved.plain, used.plain} :
         used' = [used EXCEPT !.plain = seen, !.alt = saved.alt]
    /\ released' = FALSE /\ discovered' = (discovered \/ visible)
    /\ LET new == (Installed(saved) \cup IF discovered' THEN {"ev_charger"} ELSE {}) \ added
       IN  added' = added \cup new /\ registry' = registry \cup new
    /\ UNCHANGED <<saved, phase, again, previous, missed, savesMade, outside>>

\* _midnight_reset registers the trigger of the charge target anew.
EntryMidnight ==
    /\ phase \in {"loaded", "unloading"} /\ used' = [used EXCEPT !.tariff = saved.tariff]
    /\ UNCHANGED <<saved, phase, again, previous, released, added, registry, discovered, missed, savesMade, outside>>

-----------------------------------------------------------------------------
(* A saved change                                                          *)

ChangedKeys(old, new) == {k \in Keys : old[k] # new[k]}

\* The alternative heating reloads only when its device appears or goes.
NeedsReload(key, old, new) == key = "wiring" \/ (key = "alt" /\ (old.alt = 0) # (new.alt = 0))

\* async_apply_config_change.  The wiring is what the backend was made with.
Applied(changed, config) ==
    [k \in Keys |-> IF k \in changed \cap {"temps", "tariff"} THEN config[k] ELSE used[k]]

\* _on_entry_updated, run as the save is made.
UpdateListener(config) ==
    LET changed == ChangedKeys(previous, config)
    IN  /\ previous' = config
        /\ IF \E k \in changed : NeedsReload(k, previous, config)
           THEN /\ phase' = "unloading" /\ again' = (phase = "unloading")
                /\ UNCHANGED <<used, released, missed>>
           ELSE /\ used' = Applied(changed, config)
                /\ released' = (released \/ changed \ {"temps"} # {})
                /\ missed' = IF changed \ {"temps"} = {} THEN missed \ changed
                           ELSE missed \ (changed \cup {"plain"})
                /\ UNCHANGED <<phase, again>>

\* A control, a form, a service or a repair saves.  Before the set-up is done nobody listens.
SaveOption(key, value) ==
    /\ savesMade < MaxSaves /\ savesMade' = savesMade + 1
    /\ value \in Values[key] \ {saved[key]} /\ saved' = [saved EXCEPT ![key] = value]
    /\ IF phase \in {"loaded", "unloading"}
       THEN UpdateListener(saved')
       ELSE UNCHANGED <<phase, again, previous, used, released, missed>>
    /\ UNCHANGED <<added, registry, discovered, outside>>

-----------------------------------------------------------------------------
(* The world                                                               *)

RestartEntry ==
    /\ turns < MaxTurns /\ turns' = turns + 1
    /\ homeAssistant' = "starting" /\ visible' = FALSE
    /\ phase' = "unloaded" /\ again' = FALSE /\ added' = {}
    /\ UNCHANGED <<saved, previous, used, released, registry, discovered, chargerThere, missed, savesMade>>

\* The other integrations load; those that are there have, once Home Assistant is running.
OthersLoad ==
    /\ homeAssistant = "starting"
    /\ visible' = chargerThere /\ homeAssistant' \in {"starting", "running"}
    /\ UNCHANGED <<saved, phase, registry, savesMade, setupVars, chargerThere, turns>>

ChargerComesOrGoes ==
    /\ turns < MaxTurns /\ turns' = turns + 1
    /\ chargerThere' = ~chargerThere /\ visible' = (homeAssistant = "running" /\ chargerThere')
    /\ UNCHANGED <<saved, phase, registry, savesMade, setupVars, homeAssistant>>

\* can_remove_device: the user deletes what is not in use.
DeleteDevice ==
    /\ phase = "loaded" /\ registry' \in {registry \ {d} : d \in registry \ PresentDevices}
    /\ UNCHANGED <<saved, phase, savesMade, setupVars, outside>>

EntryNext ==
    \/ Build \/ FirstRefresh \/ FinishSetup \/ Unload \/ EntryCycle \/ EntryMidnight
    \/ \E k \in Keys : \E v \in Values[k] : SaveOption(k, v)
    \/ RestartEntry \/ OthersLoad \/ ChargerComesOrGoes \/ DeleteDevice

-----------------------------------------------------------------------------
(* Properties                                                              *)

\* A set-up never deletes the entities of a charger that is there, and with them what the user made
\* of them: optional_devices.py keeps them while it may only be late.
CustomisationsKept ==
    [][phase = "refreshed" /\ chargerThere => "ev_charger" \notin registry \ registry']_entryVars

\* The running coordinator ends in line with what is saved, whatever was saved during a reload or
\* the change before, except where the last set-up missed a save; and the devices have entities.
InLine ==
    /\ phase = "loaded"
    /\ \A k \in Keys \ missed : used[k] = saved[k]
    /\ added \ {"ev_charger"} = Installed(saved) /\ added \subseteq registry
    /\ registry \ {"ev_charger"} = Installed(saved)

EntryFollowsOptions == <>[]InLine

\* What a user did to the entry outlives set-ups, reloads, saves and late chargers (__init__.py,
\* optional_devices.py).
EntryIsOrderly == CustomisationsKept /\ EntryFollowsOptions
=============================================================================
