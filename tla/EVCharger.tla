------------------------------ MODULE EVCharger ------------------------------
(***************************************************************************)
(* The mode of an EV charger: discovery (lib/ev/discover.py), the reading  *)
(* of its state (lib/ev/state.py), the decision (core/rules.py), the       *)
(* owner's two switches, and the command in the background.                *)
(*                                                                         *)
(* A cycle is two steps: it reads and decides (ReadCharger), waits for the *)
(* writes of other components, and sends (SendMode or KeepMode).  A        *)
(* command is answered, and the charger shows a new mode, when it likes.   *)
(*                                                                         *)
(* A mode is one option of the charger's select; "none" is None.  The      *)
(* states in which a car is plugged in are one state.                      *)
(***************************************************************************)
EXTENDS Integers

CONSTANTS
    Chargers,       \* the chargers of the instance: a brand, and what its mode select offers
    EvCooldown,     \* the writer's cooldown, in ticks
    SearchEvery,    \* _REDISCOVER_EVERY_N_CYCLES
    EvWorld,        \* what may happen around the charger in this instance
    MaxEvChanges    \* bound: how often, in all

ASSUME EvAssumption ==
    /\ Chargers \subseteq [brand : {"zappi", "givenergy", "other"},
                           options : SUBSET {"eco+", "solar", "eco", "fast", "grid", "stopped"}]
    /\ {EvCooldown, SearchEvery} \subseteq Nat \ {0} /\ MaxEvChanges \in Nat
    /\ EvWorld \subseteq {"plug", "link", "hand", "raised", "switch", "cheap", "dry", "load", "restart"}

VARIABLES
    charger,        \* which charger this is
    plugged,        \* a car is plugged in
    link,           \* the status entity: up, down (or not reporting), unknown, or a fault
    offered,        \* the charger's entities that Home Assistant has: no, status, full
    found,          \* the charger's entities found so far: GivEnergyCoordinator._ev_charger
    evCycle,        \* _update_cycle, as far as it tells when to search
    evState,        \* EVCharger.state
    mode,           \* the real mode
    shown,          \* the select's state
    charge_mode,    \* EVCharger.charge_mode, with charge_mode_options: "none" until they are read
    charge_now, pause, mode_held,
    on_cheap_rate,  \* a cheaper rate, or the extra hours around one: _in_ev_charge_hours
    evDry,          \* dry run
    target,         \* the decision of the cycle under way, "idle" between cycles
    modeCool,       \* ticks to the end of each mode's cooldown
    modeCalls,      \* commands under way
    evChanges       \* the changes used up

evVars == <<charger, plugged, link, offered, found, evCycle, evState, mode, shown, charge_mode, charge_now, pause,
            mode_held, on_cheap_rate, evDry, target, modeCool, modeCalls, evChanges>>

Modes == UNION {c.options : c \in Chargers}

EvInit ==
    /\ charger \in Chargers
    /\ plugged \in BOOLEAN /\ link = "up" /\ offered \in {"status", "full"} /\ found = "no" /\ evCycle = 0
    /\ evState = "unknown"
    /\ mode \in charger.options \cup (IF charger.options = {} THEN {"none"} ELSE {})
    /\ shown = mode /\ charge_mode = "none"
    /\ charge_now = FALSE /\ pause = FALSE /\ mode_held = FALSE
    /\ on_cheap_rate = FALSE /\ evDry = FALSE
    /\ target = "idle" /\ modeCool = [m \in Modes |-> 0] /\ modeCalls = {} /\ evChanges = 0

-----------------------------------------------------------------------------
(* What the charger offers: EVCharger's modes                              *)

\* The names of the modes the rules choose or leave.
Named == [zappi     |-> [surplus |-> "eco+",  stop |-> "stopped", cheap |-> "fast", leave |-> "none"],
          givenergy |-> [surplus |-> "solar", stop |-> "none",    cheap |-> "none", leave |-> "grid"],
          other     |-> [surplus |-> "none",  stop |-> "none",    cheap |-> "none", leave |-> "none"]]

\* The brand's name for a mode, if the select offers it or has not been read.
Offers(role, read) ==
    LET name == Named[charger.brand][role]
    IN IF read = "none" \/ name \in charger.options THEN name ELSE "none"

surplus_mode(read) == Offers("surplus", read)
stop_mode(have, read) == IF have = "full" THEN Offers("stop", read) ELSE "none"
cheap_rate_mode(have, read) == IF have = "full" THEN Offers("cheap", read) ELSE "none"
grid_mode(have, read) ==
    IF cheap_rate_mode(have, read) # "none" \/ have # "full" THEN cheap_rate_mode(have, read)
    ELSE Offers("leave", read)

-----------------------------------------------------------------------------
(* The decision: decide_ev_charger_action.  c is what it looks at: what    *)
(* has been found, the mode read, the requests and the surplus.            *)

\* Nothing asks for the grid mode, whoever chose it: _leave_grid_mode, with the surplus rule that
\* takes over when the surplus can start a charge.  Mutant: a mode someone else chose is kept.
LeaveOwnOnly(c) == IF ~c.held THEN "none" ELSE IF c.stop # "none" THEN c.stop ELSE c.surplusMode
LeaveGrid(c) ==
    IF c.surplus /\ c.surplusMode # "none" THEN c.surplusMode
    ELSE IF c.stop # "none" THEN c.stop ELSE c.surplusMode

\* A car is plugged in: _owner_choice, then the surplus rule.
PluggedChoice(c) ==
    LET wanted == c.cheap \/ c.now
    IN  IF c.pause THEN c.stop
        ELSE IF c.now /\ c.cheapMode = "none" THEN "none"
        ELSE IF wanted /\ c.cheapMode # "none" THEN c.cheapMode
        ELSE IF ~wanted /\ c.grid # "none" /\ c.mode = c.grid THEN LeaveGrid(c)
        ELSE IF c.held /\ ~wanted /\ c.stop # "none" /\ c.mode = c.stop THEN c.surplusMode
        ELSE IF c.surplus THEN c.surplusMode ELSE "none"

\* _unplugged_choice.
UnpluggedChoice(c) == IF (c.cheap \/ c.now) /\ ~c.pause THEN "none" ELSE c.stop

\* A mode the charger is read to be in already is no change.
Decision(c, isPlugged) ==
    LET choice == IF isPlugged THEN PluggedChoice(c) ELSE UnpluggedChoice(c)
    IN IF choice = c.mode THEN "none" ELSE choice

-----------------------------------------------------------------------------
(* The cycle                                                               *)

\* What the brand's own words for its states come to.
Normalised == IF plugged THEN "plugged" ELSE "disconnected"

\* update_charger_state: a state that is unknown or missing leaves the last one.
StateRead ==
    CASE link = "up" -> Normalised
      [] link = "down" -> "offline"
      [] link = "fault" -> "unknown"
      [] link = "unknown" -> evState

\* The select is read with the status; when that is not up the select may be missing too.
ModesRead == IF found' # "full" THEN {charge_mode} ELSE IF link = "up" THEN {shown} ELSE {charge_mode, shown}

\* _maybe_rediscover_ev, until all is found, and _refresh_ev_charger, which turns the owner's
\* switches off without a car, then the engine's decision.
ReadCharger ==
    /\ target = "idle"
    /\ found' = IF evCycle = 0 /\ found # "full" THEN offered ELSE found
    /\ evCycle' = IF found' = "full" THEN 0 ELSE (evCycle + 1) % SearchEvery
    /\ IF found' = "no"
       THEN target' = "none" /\ UNCHANGED <<evState, charge_mode, charge_now, pause>>
       ELSE /\ evState' = StateRead
            /\ charge_mode' \in ModesRead
            /\ charge_now' = (charge_now /\ evState' = "plugged")
            /\ pause' = (pause /\ evState' = "plugged")
            /\ \E surplus \in BOOLEAN :
                 target' = Decision([mode |-> charge_mode', held |-> mode_held, surplus |-> surplus,
                                     cheap |-> on_cheap_rate, now |-> charge_now', pause |-> pause',
                                     surplusMode |-> surplus_mode(charge_mode'),
                                     stop |-> stop_mode(found', charge_mode'),
                                     cheapMode |-> cheap_rate_mode(found', charge_mode'),
                                     grid |-> grid_mode(found', charge_mode')],
                                    evState' = "plugged")
    /\ UNCHANGED <<charger, plugged, link, offered, mode, shown, mode_held, on_cheap_rate, evDry,
                   modeCool, modeCalls, evChanges>>

\* _apply_ev_action.  A dry run and a charger without a mode select change nothing, a cooldown
\* holds the command back but not what is remembered of it.
Applies == target # "none" /\ found = "full" /\ ~evDry
Holds == target \in {cheap_rate_mode(found, charge_mode), stop_mode(found, charge_mode)} \ {"none"}

SendMode ==
    /\ target # "idle" /\ target' = "idle"
    /\ Applies /\ modeCool[target] = 0
    /\ mode_held' = Holds
    /\ modeCool' = [m \in Modes |-> IF m = target THEN EvCooldown ELSE 0]
    /\ modeCalls' = modeCalls \cup {target}
    /\ UNCHANGED <<charger, plugged, link, offered, found, evCycle, evState, mode, shown, charge_mode, charge_now,
                   pause, on_cheap_rate, evDry, evChanges>>

KeepMode ==
    /\ target # "idle" /\ target' = "idle"
    /\ Applies => modeCool[target] > 0
    /\ mode_held' = IF Applies THEN Holds ELSE mode_held
    /\ UNCHANGED <<charger, plugged, link, offered, found, evCycle, evState, mode, shown, charge_mode, charge_now,
                   pause, on_cheap_rate, evDry, modeCool, modeCalls, evChanges>>

-----------------------------------------------------------------------------
(* Around the cycle                                                        *)

Around == UNCHANGED <<charger, found, evCycle, evState, charge_mode, mode_held, target, modeCool>>
World(what) == what \in EvWorld /\ evChanges < MaxEvChanges /\ evChanges' = evChanges + 1

\* A command is answered in any order; one that raises is logged, and its cooldown stays.
Answered(m) ==
    /\ m \in modeCalls /\ modeCalls' = modeCalls \ {m} /\ mode' = m
    /\ Around /\ UNCHANGED <<plugged, link, offered, shown, charge_now, pause, on_cheap_rate, evDry, evChanges>>

Failed(m) ==
    /\ World("raised") /\ m \in modeCalls /\ modeCalls' = modeCalls \ {m}
    /\ Around /\ UNCHANGED <<plugged, link, offered, mode, shown, charge_now, pause, on_cheap_rate, evDry>>

ShowMode ==
    /\ link = "up" /\ shown # mode /\ shown' = mode
    /\ Around /\ UNCHANGED <<plugged, link, offered, mode, charge_now, pause, on_cheap_rate, evDry, modeCalls, evChanges>>

\* The owner's switches: each turned on turns the other off.
PressChargeNow ==
    /\ World("switch") /\ charge_now' = ~charge_now /\ pause' = (pause /\ ~charge_now')
    /\ Around /\ UNCHANGED <<plugged, link, offered, mode, shown, on_cheap_rate, evDry, modeCalls>>

PressPause ==
    /\ World("switch") /\ pause' = ~pause /\ charge_now' = (charge_now /\ ~pause')
    /\ Around /\ UNCHANGED <<plugged, link, offered, mode, shown, on_cheap_rate, evDry, modeCalls>>

\* The car, the charger's app, the tariff and Home Assistant.
Outside ==
    /\ \/ World("plug") /\ plugged' = ~plugged /\ UNCHANGED <<link, offered, mode, on_cheap_rate, evDry>>
       \/ World("link") /\ link' \in {"up", "down", "fault", "unknown"} \ {link}
          /\ UNCHANGED <<plugged, offered, mode, on_cheap_rate, evDry>>
       \/ World("hand") /\ mode' \in charger.options \ {mode}
          /\ UNCHANGED <<plugged, link, offered, on_cheap_rate, evDry>>
       \/ World("cheap") /\ on_cheap_rate' = ~on_cheap_rate /\ UNCHANGED <<plugged, link, offered, mode, evDry>>
       \/ World("dry") /\ evDry' = ~evDry /\ UNCHANGED <<plugged, link, offered, mode, on_cheap_rate>>
       \/ World("load") /\ offered = "status" /\ offered' = "full"
          /\ UNCHANGED <<plugged, link, mode, on_cheap_rate, evDry>>
    /\ Around /\ UNCHANGED <<shown, charge_now, pause, modeCalls>>

\* A new coordinator: a command under way is carried out or not, the switches are not restored.
RestartCoordinator ==
    /\ World("restart")
    /\ mode' \in {mode} \cup modeCalls /\ modeCalls' = {} /\ modeCool' = [m \in Modes |-> 0]
    /\ found' = "no" /\ evCycle' = 0 /\ evState' = "unknown" /\ charge_mode' = "none" /\ target' = "idle"
    /\ charge_now' = FALSE /\ pause' = FALSE /\ mode_held' = FALSE
    /\ UNCHANGED <<charger, plugged, link, offered, shown, on_cheap_rate, evDry>>

EvTick ==
    /\ modeCool' = [m \in Modes |-> IF modeCool[m] = 0 THEN 0 ELSE modeCool[m] - 1]
    /\ UNCHANGED <<charger, plugged, link, offered, found, evCycle, evState, mode, shown, charge_mode, charge_now,
                   pause, mode_held, on_cheap_rate, evDry, target, modeCalls, evChanges>>

EvNext ==
    \/ ReadCharger \/ SendMode \/ KeepMode
    \/ \E m \in Modes : Answered(m) \/ Failed(m)
    \/ ShowMode \/ PressChargeNow \/ PressPause \/ Outside \/ RestartCoordinator \/ EvTick

-----------------------------------------------------------------------------
(* Properties                                                              *)

\* What the owner, the tariff and the plug ask for, as far as the charger offers it.
Obeyed ==
    LET stop == stop_mode("full", mode)
        cheap == cheap_rate_mode("full", mode)
        grid == grid_mode("full", mode)
        another == stop # "none" \/ surplus_mode(mode) # "none"
    IN  /\ ~plugged /\ ~on_cheap_rate /\ stop # "none" => mode = stop
        /\ plugged /\ pause /\ stop # "none" => mode = stop
        /\ plugged /\ ~pause /\ (charge_now \/ on_cheap_rate) /\ cheap # "none" => mode = cheap
        /\ plugged /\ ~pause /\ ~charge_now /\ ~on_cheap_rate /\ grid # "none" /\ another => mode # grid

\* docs/concepts.md, the car: whatever presses, hands, lost links, failed or late commands and
\* restarts came before, a charger that answers ends in the mode that is asked for.
ChargerObeys == <>[](link = "up" /\ offered = "full" /\ ~evDry) => <>[]Obeyed

\* And the commands cease, whatever the sun does: no two rules send the charger back and forth.
CommandsCease == <>[](link = "up") => <>[][~SendMode]_evVars

\* The charger ends as it is wanted, and is then left alone.
ChargerSettles == ChargerObeys /\ CommandsCease
=============================================================================
