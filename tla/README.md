# Verification of the GivEnergy Inverter Manager

TLA+ specifications of the Home Assistant integration `givenergy_inverter_manager`: what writes to an
inverter, a charger and a heater, what keeps money and energy, what plans a night's charge, and what
keeps the owner's settings; the TLC configurations that check them on small instances; and TLAPS proofs
of what matters most for every value of the constants.

All paths below are under `src/custom_components/givenergy_inverter_manager/` unless they say
otherwise. `PROJECT.json` names the source lines behind every definition (`map`), the question each
run asks (`runs`), a plausible bug that breaks each property (`mutants`), and what is hard to test
in this code (`hazards`).

1. [The system](#1-the-system)
2. [Inventory](#2-inventory)
3. [Modules](#3-modules)
4. [Runs and bounds](#4-runs-and-bounds)
5. [Fairness](#5-fairness)
6. [Proofs](#6-proofs)
7. [Where code and documentation disagree](#7-where-code-and-documentation-disagree)
8. [Not modelled, and what is left](#8-not-modelled-and-what-is-left)
9. [Running the checks](#9-running-the-checks)

## 1. The system

The integration is one asyncio program inside Home Assistant. GivTCP, an add-on, publishes the
inverter's registers as entities over MQTT and takes service calls that write them. There are no
threads: a step is what runs between two awaits, and every hazard of concurrency in this code is
something that happened during an await.

```
   every 30 s             at the trigger, at retries       at midnight
 update cycle             charge write tasks               totals roll over
   |  reads entities        |                                |
   |  engine: snapshot      |                                |
   |  floor, hold,          |                                |
   |  heater, car, totals   |                                |
   v                        v                                v
 battery hold ----> verified writer (one lock) ----> GivTCP ----> inverter
 immersion actuator, charger mode ----> background command ----> a switch, a select
 totals, write log, hold record ----> stores, saved 15 s after a change

 host (another program) ----> client: slots, plans, force ----> verified writer
 Configure, controls, repairs ----> options of the entry ----> reload, or the running coordinator
```

- The **update cycle** (`coordinator.py`, `_async_update_data`) reads the entities, has
  `core/engine.py` work out one snapshot (prices, energy, the charge plan, the immersion decision),
  awaits the cheap rate floor and the battery hold, drives the immersion heater and the car's charger,
  books the energy, and then looks at the night: re-plan, setting back, window guard.
- **Charge write tasks** are started by the trigger, by a retry timer, by a catch-up after a restart
  and by the cycle's own checks. They run beside later cycles and wait for the same lock.
- The **verified writer** (`lib/givtcp/writer.py`) is the only way to the inverter: it holds one
  lock over a whole write, sends, reads back, sends again, and answers with a status. Its cooldowns
  keep the inverter's flash memory from being worn by repeated writes.
- **Settings** live in the entry's data (from the set-up) and its options (from Configure, the
  controls and the repairs); the options win. A save is heard by the running coordinator, which takes
  the change up or is reloaded.
- **Restarts.** What survives a restart is what was saved: the totals, the write log, the battery
  hold's record, the history, the state of controls that restore. Everything else (the night
  remembered, retry timers, cooldowns, held plans) starts empty, and the code must cope.

What is hard here is the order of things: a value read before an await and used after it; a restart
between two writes of one plan; a write that was sent and never confirmed; a plan that changes while
it is being written; a clock that crosses midnight inside a cycle; someone using the GivEnergy app
or the wall switch at the same time; a form that was filled in from settings that have moved since.

## 2. Inventory

### Components in the models

| component | state it keeps | operations | how it meets the others | correct when |
|---|---|---|---|---|
| Verified writer (`lib/givtcp/writer.py`, `status.py`) | the lock, a cooldown per entity and value, the last value sent, lifetime writes | `write_verified` and its sends, read-backs and cooldowns | every other component that writes waits for its lock | a request costs a bounded number of register writes, never two at once; the status tells what happened; a cooldown never holds back a newer value |
| Unconfirmed-write repair (`unconfirmed_write_repair.py`, `lib/guards/write_confirmation.py`) | the settings that did not take | a step per answer of the writer, a recheck per cycle | listens to the writer | it lists what did not take, and a value taken late leaves the list |
| Battery hold (`battery_hold.py`, `core/ev_battery_hold.py`, `battery_hold_store.py`) | the record of the user's pause, in memory and in a store | start, renew, release, once per cycle | overwrites the pause the user set, through the writer | the user's pause is on record while the inverter does something else, and comes back |
| Inverter controls (`lib/givtcp/controls.py`, `windows.py`, `pause.py`) | none | `apply_battery_pause`: window end, start, mode, in an order that depends on both windows | three writes that can each fail | a failure after the first write leaves nothing that is not on the hold's record |
| Schedules, slots, force (`lib/givtcp/schedules.py`, `windows.py`, `force.py`) | none: it reads the entities, which trail the registers | slots, discharge plans, stop, timed force, each a chain of writes | a host calls it; a stop may fall between two writes | nothing runs in hours nobody asked for, or longer than asked; what was switched off stays off |
| Charge plan write-back (`coordinator.py` 965-1181, `core/charge_retry.py`, `lib/givtcp/sequence.py`) | the night remembered, the retry timer, the write log | trigger, attempt, retry, catch-up, `apply_charge_plan` | uses the engine's decision of the last cycle; shares the target register with the floor and re-plans | what it remembers is what the inverter holds; the plan is written if the inverter answers in time |
| Re-planning (`core/replan.py`), settling (`core/window_settle.py`), window guard (`core/window_guard.py`) | tries, times, counts, partly in the log | one decision per cycle each | all three write slot 1's window | bounded writes a night; slot 1 goes back to the cheapest period; a moved window is put back |
| Cheap rate floor (`coordinator.py` 1682-1735) | a flag until midnight | raises the target when a cheap period starts | awaited inside the cycle | it only raises |
| Write log (`core/write_log.py`, `write_audit.py`) | the last writes, saved | a note per write | the night reads back what it wrote before a restart | counts survive restarts |
| Overnight charge target (`core/rules.py` 388-804) | none | five ways to a decision, a search, adjustments | the engine writes it and shows it | the target carries the day, whatever was adjusted after the search |
| Simulated day (`core/rules.py` 270-371, `core/tomorrow_outlook.py`) | none | two simulations of the next day | under the search and the outlook | more charge is never worse; both simulations agree |
| Charge window (`core/charge_window.py`) | none | the size of the window, the car's joined window | written by the night, guarded by the guard | it lies in cheap hours and holds the charge |
| Held recommendation (`core/charge_hold.py`) | what the sensors show, and since when | a step per cycle, releases | sensors get the held copy, the inverter the fresh plan | the two are never far apart, nor apart for long |
| Sunrise estimate (`core/sunrise_hold.py`), night outlook (`core/battery.py`, `sunrise_charge.py`) | the last estimate | a step per cycle | sensors and the plan's reasons | the estimate follows the battery at a pace the battery has; the words agree with the levels |
| Totals (`accumulation.py`, `lib/tariff/accumulator.py`) | today, week, bill period, rows, archive | a step per cycle, the midnight callback, a roll forward at start, saves | fed by the cycle, saved by its tenth | the bill adds up day by day, no kWh twice, no day lost |
| Energy of a cycle (`core/engine.py`, `core/stored_energy.py`) | the day's flows, costs, savings, the cycles of the battery | what one cycle adds | between readings and totals | the shares add up; the saving is what the sun and the battery saved |
| Counter guard (`lib/guards/counter.py`) | the last reading, when, and whether it is trusted | judge, recover | between the entities and the totals | a spike, a late reset or a restart books nothing that did not flow |
| Half-hourly history (`core/slot_sampler.py`, `lib/tariff/slots.py`, `slot_store.py`) | the slots of each local day, saved | a cycle's interval shared out, midnights, saves | priced by bills and shadow tariffs | what is in a slot flowed in it, over clock changes and stops |
| Tariffs (`lib/tariff/`, `core/shadow_tariffs.py`, `shadow_pricing.py`) | documents and their index; the list of shadow tariffs and their report | parse, compile, price; add, edit, remove, report | the options are a tariff; Configure edits the list | a document that was accepted can be billed, both ways to a bill agree, the document of a day is that day's |
| Bill days and their audit (`lib/tariff/bill_days.py`, `core/bill_audit.py`, `services.py`) | the rows of the days, the archive | midnight, tables, exports, comparisons | read by the service actions | the tables add up, each day keeps the tariff it had |
| Forecasts learned (`accumulation.py`, `forecast_seeding.py`, `lib/solar/seeding.py`) | forecasts remembered, ratios, load by time of day | a step per cycle, midnight, seeding from the recorder | the plan reads the forecast and its correction | a figure belongs to the day it is used for |
| Immersion actuator (`immersion_actuator.py`, `core/switch_commands.py`) | override, manual run, cooldown, last command, failures | a cycle's drive, presses, adoption of outside changes | between the engine's decision and a real switch anyone can use | hot water stops the heater; people are respected; automatic changes keep their distance |
| Heating plan (`lib/heating/`, `core/scheduled_run.py`), alternative heating (`core/alt_heat_*.py`) | the run under way, held triggers, the record of the heat, the learned rate | a plan per cycle, triggers, suggestions | the actuator heats; an owner's automation follows the triggers | the water is hot by its time in the cheapest hours, or the advice said otherwise |
| EV charger and car (`lib/ev/`, `core/rules.py` 1298-1442) | the charger found, presses, cooldown; the session log, two repairs | a decision per cycle, a command in the background | a charger that can be away, a car that can be swapped | the charger ends as it is wanted and is left alone; no charge is lost or counted twice |
| Feed status and repairs (`lib/givtcp/reader.py`, `freshness.py`, `repairs.py`) | what was published and when; the issues | a judgement per cycle, raise and clear | fails the cycle, forgets the last update | what is wrong is told, what is over is cleared, a gap is not booked |
| Config entry (`__init__.py`, `core/reload_policy.py`, `optional_devices.py`) | data, options, the coordinator's copy, the registry | set-up, reload, restart, a save taken up | everything is built by it | the coordinator runs with what is saved; what a user did to an entity is kept |
| Set-up and discovery (`wizard/setup_flow.py`, `reconfigure_flow.py`, `lib/givtcp/discovery.py`) | the pages' values, the warnings shown | pages, choice of the inverter, rewiring | makes the entry | the entry is for the inverter that was picked, and stays so |
| Configure (`wizard/options_flow.py`, `flow_base.py`, `core/wizard_*.py`) | the values collected, until one save | pages, warnings, confirm, save | other writers of options write meanwhile | a save does what was entered, and nothing else |
| Controls (`switch.py`, `number.py`) | the entity's state, the coordinator's copy, the store of last states | press, set, restore | the plan and the heater read them | a wish survives restarts |
| Stored dashboard (`services.py`, `stored_dashboard_repair.py`, `dashboard_notice.py`) | the path kept, the repair, looks and updates that wait | look, update, fix, unload | Lovelace and users change dashboards | the repair tells the truth; nothing is forgotten that is there |

### Components left out

`PROJECT.json` lists all of them with the reason: the elapsed time over clock changes (`Real time`), the
inverter backend's vocabulary, sensors, the generated dashboard's views, constants, logging and
diagnostics, re-exports, the GivTCP mock, and the scripts. They translate or present what the models
already hold, or are not part of the running program.

## 3. Modules

A module models one part; its header comment says what its time and its values stand for. Parts that
share state in the program and whose interplay matters are one module or extend each other. Parts that
share none are checked side by side by an `MC` module: a behaviour takes the steps of one part while the
others stay as they began, so one run covers several parts without multiplying them.

| module | models | composed of |
|---|---|---|
| `WritePromise` | what a caller of the writer may rely on | |
| `Writer` | the writer, step by step, and the repair that listens to it | implements `WritePromise` |
| `PauseLoan` | what the hold owes the user: write only what is on record | |
| `BatteryHold` | the hold, its store, its three register writes, stops at every await | implements `PauseLoan`; a verified write is one step |
| `ChargeNight` | one night of the charge plan's writes and the cycle that drives them | a verified write is one step |
| `ExportSchedule` | slots, discharge plans, stop and timed force | a verified write is two steps: the send, the read-back |
| `SimulatedDay`, `ChargeTarget`, `HeldPlan`, `SunriseHold`, `ChargeWindow` | the computations of the plan | `Points` holds their arithmetic |
| `NightOutlook` | what the sensors say of the night ahead | |
| `PeriodTotals` | totals, counter guard, midnight, saves, stops and starts | |
| `EnergyStep` | what one cycle adds to the day's energy and money | |
| `SlotHistory` | the half-hourly history and its store | |
| `TariffBill` | tariff documents, their index, and both ways to a bill | |
| `ShadowTariffs` | the tariffs compared with, their sensors and report | |
| `BillAudit` | the rows of a bill period, its archive, tables and comparisons | |
| `SolarLearning` | forecasts remembered, their correction, the load by time of day | |
| `Immersion` | the actuator with its decision, the switch, hands and presses | |
| `HeatingPlan`, `AltHeating` | the ready-by plan; the alternative's advice and triggers | `AltHeating` extends `HeatingPlan` |
| `HeatLearning` | the record of heat, the suggested schedule, the heating rate | |
| `EVCharger`, `EVSessions` | the charger's mode; the session log and the charger's repairs | |
| `Repairs` | the feed and the repairs a cycle raises and clears | |
| `ConfigEntry` | set-ups, reloads, saves taken up, optional devices | |
| `SetupWizard` | discovery, set-up, reconfigure, the system check | |
| `OptionsWizard`, `SettingsPages` | Configure: the tariff's pages, and the others | |
| `UserControls` | switches and numbers that keep a state, over restarts | |
| `StoredDashboard` | the dashboard kept current, its repair, notice, script and actions | |
| `MCParts` | the plan's computations, heating, night, hold and dashboard side by side | |
| `MCDevices` | heater, learning, charger, sessions, repairs, entry and hold side by side | |
| `MCRecords` | totals, history, tariffs, Configure, set-up and learning side by side | |
| `MCCommands` | the night with restarts, slots, controls, bills and settings pages side by side | |
| `MCChargeNight` | values of `ChargeNight`'s constants | |
| `*_proof` | theorems and proofs, section 6 | `EXTENDS` the modules they are about |

### Writer

`register` is the inverter, `shown` the entity's state: they differ until GivTCP publishes. `lock`
is the queue of the asyncio lock. `Request` is `set_switch`, `set_number` and their siblings up to
the lock; `WriteVerified` is what runs when the lock is granted (skip, cooldown, or the first call);
`CallAccepted` and `CallRaised` are the two answers of the service call; `Poll` is one read-back
with what follows it: confirmed, another poll, another send, or giving up. `Finish` releases the lock
and steps the repair. `Publish`, `DropEntity`, `ExternalChange` and `Tick` are the world.
The four value kinds (switch, number, select, time) differ only in what a missing state means, which
`Matches` and `Selects` keep. Values are model values: comparing "80" with 80.0 (`writer.py:181-219`)
is equality here.

`WritePromise` has no lock and no polls: requests, register writes and answers. `KeepsPromise` is
the refinement: a request costs at most `MaxSends` register writes, two requests never write in turn,
`ALREADY_SET`, `COOLDOWN` and `REFUSED` cost none, and `WRITTEN` and `UNCONFIRMED` (after `MaxSends`)
cost at least one. `RepairIsRight` says that the repair lists exactly what
the answers left unconfirmed, and that a setting whose entity shows the value does not stay listed.

### BatteryHold

A tick is `EV_HOLD_STEP_MINUTES`. `Run` is a cycle's decision (`decide_hold`) and the first thing it
does; `Apply` and `Write` are the three writes of `apply_battery_pause` in the order `EndFirst`
gives; `Finish` is what the status leads to; `RestartHold` restores the record. `Crash` may fall between
any two. The fault of a write is one of the writer's statuses: `lost` (sent, never confirmed, counted as
done), `raised`, `vanished` and `gone` (the entity is missing). `PauseLoan` knows the inverter's pause, the
user's, and the note of it: what is written over the user's pause must be on the note. `OnLoan` is the
refinement. The user changes the pause in `UserSets` only while no hold is under way: what should happen
otherwise no document says.

### ChargeNight

A tick is a few minutes; a night is ticks `0..Last`. `Cycle` is one cycle's synchronous part, which
either ends at once (`EndCycle`) or awaits the floor. `EndCycle` is the order of the code: late check
and re-plan, settling, guard, each of which may start a task. `jobs` are the tasks under way;
`WriteWindow`, `WriteTarget` and `WriteLimit` are their writes, one per step, and `Finish` their ends
with what they remember. `retry` is the timer. `log` is kept as far as the night reads it back.
The window's start and the schedule switch never change in a night and are part of the window's step;
the tariff has timed periods; every entity is configured; the log never evicts what the night needs.
A decision is `[target, end, skip, basis]`, where `basis` stands for the forecast and the car, whose
change is one reason to re-plan.

### ExportSchedule

`call` is one call of the host and where in its chain of writes it is: schedule off, window (its two
registers in the order `EndFirst` gives), target, schedule on. Entities trail the registers (`Publish`);
a write the entity does not show makes the read-back fail, and one that relied on an entity that trails
its register is marked `doubt`, after which nothing is claimed until the owner sets the schedule in the app.
A stop (`AskStop`) can be written between two writes of a call. `StartForce` and `EndForce` are the timed
force with its longest preset that fits.

### The plan

`SimulatedDay` runs `_simulate_min_soc` from two levels and `_simulate_flows` beside them, one slot
per step, each slot bringing any net energy and any pause. `ChargeTarget` is a decision: the order of
the rules (`AskNoCapacity`, `AskWinter`, `AskSkip`, `AskSearch`), the binary search (`Halve`), what is
taken off and put on after it (`Adjust`), and the overrides and the cap. The day it searches is reduced to
`enough`, the least target that carries it: that such a point exists is `MoreChargeIsSafer`. `HeldPlan` is
one cycle's settle of the held charge and window with the four releases; the fresh plan is the world's.
`SunriseHold` is one reading of `published_sunrise_soc`. `ChargeWindow` is the cheap run grown period by
period, the window sized in it, and the car's window joined by a second algorithm that must agree with the
first. `NightOutlook` publishes a report each hour (the level at sunrise without and with a charge, and the
words for it) and then lets the night happen.

### Totals, energy and history

*PeriodTotals.* A tick is the time between two cycles. `cost` is integrated from live power in every
period; `kwh` is the energy stored in the battery, which the day takes from the inverter's counter and the
longer periods from its rise. `TotalsCycle` is the reading, the guard's judgement and the booking; a cycle
that awaits the floor is finished by `Resume`. `MidnightReset` is the callback, `OnMidnight` its work for
each period that starts, `RollForward` the same for the midnights missed. `StopTotals` (orderly or a crash)
and `Start` surround the store.

*EnergyStep.* One cycle is an hour of constant flows. It books grid, solar and battery energy, the shares
of the car and the heater, the value of what the battery gave, and the battery's own cycle count, which may
be adopted, estimated or lost.

*SlotHistory.* Real ticks, days named by their midnight; a clock that goes back makes a long day. An
interval is cut at slots and days (`Pieces`), one that is too long or spans a hole is not booked. Energy is counted in
a unit every share of an interval is a whole number of (`Grain`, 2 in the run).

### Tariffs and bills

*TariffBill* has three machines. `RewriteSection`/`ReadDocument`: an author changes sections of a document
and the parser accepts it or not, section by section. `PriceBill`: the options as a tariff, the same as a
document, and a month's usage billed both ways; `Compared` is the action that compares with another tariff.
`BuildIndex`/`EditFile`/`LoadRevision`: revisions in files that change after they were indexed.
*ShadowTariffs* edits the list in Configure (which works on a copy), makes the sensors by key, and caches a
report. *BillAudit* is the midnight's row, the close of a period, and every table the service actions make
of them, with the rates changed or scheduled, the bill's start day moved, and days without Home Assistant.

### Heat

*Immersion.* A cycle is `Read` (observe and decide) and `Act` (adopt what someone else did, then drive the
switch), with awaits of other components between them, in which `ManualOn`, `ManualOff`, `Hand`, `Reach`,
`CallDone` and `CallRaised` fall. The background command of a cycle starts eagerly, as the config entry
starts it: one that fails before its first await calls `command_failed` before `_drive_switch` has noted the
command, and the model has that order. Three history variables (`quiet`, `hands_off`, `ignored`) hold what
the properties say. *HeatingPlan* plans for the next ready time from the cheapest segments, counts the run
against its longest length, and decides with the rules; *AltHeating* adds the boiler, the two held triggers,
an owner who follows them, and the sentences. *HeatLearning* is the record of the heater's grid heat with the
schedule suggested from it, and the rate measured from runs.

### Car, feed, entry

*EVCharger* is discovery, reading, decision and a command in the background, over a charger that goes away
or offers other modes. *EVSessions* is the log of plug-ins with its store, and the two repairs.
*Repairs* is what is published and when, the judgement of a cycle with its counts, and the issue registry.
*ConfigEntry* runs set-ups, reloads and restarts with saves falling into them; a key of each kind stands for
the keys that are taken up live, rebuild a part, or reload.

### Settings

*SetupWizard* is discovery, the pages, the entry made, rewiring and the system check of a cycle.
*OptionsWizard* is the tariff's pages with dated changes, *SettingsPages* the others: forms filled in from
what is in force, submissions checked and cleaned, one save of what differs. `ticked` and `believed` are
history: what the forms held, and what the owner takes to be in force. *UserControls* keeps a control in up
to four places (its entity, the coordinator, the entry's data, the store of last states) over orderly stops,
crashes and lost stores. *StoredDashboard* has looks and updates that wait while users, unloads and removals
change what they read.

## 4. Runs and bounds

Each passing run asks several questions of parts that are checked side by side; each "violation" run shows
where the code does not do what a document or a comment of the repository says (section 7).

| run | question | properties |
|---|---|---|
| `writer` | Do two tasks share the lock, the cooldowns and the repair correctly, and is every write answered? | `CooldownIsLastSent`, `KeepsPromise`, `RepairIsRight`, `EveryWriteAnswered` |
| `night_plan` | Is what the coordinator remembers what the inverter holds; is the plan written, set back, and put back when moved? | `NightIsOnInverter`, `NightWritten`, `SettledBack`, `Repaired` |
| `devices` | Heater, charger, records, repairs, entry: is each left as it should be, and does the hold end? | `HotWaterStops`, `TurningsHaveTheirTime`, `HeaterEndsOff`, `ChargerSettles`, `DeviceRecordsAreSound`, `FeedIsAnswered`, `EntryIsOrderly`, `HoldEnds` |
| `commands` | One plan at a time over stops; does a chain of writes stay safe; does the owner's wish survive; do bills add up? | `NightIsOrderly`, `ExportIsSafe`, `OwnersSettingsKept`, `AuditIsSound` |
| `parts` | Are the plan's computations, the heating, the outlook, the loan and the dashboard right? | `DayIsSound`, `TargetIsSound`, `SearchShrinks`, `ShownFollowsPlan`, `DoneChargeStaysShown`, `WindowIsSound`, `CarWindowAgrees`, `EstimateFollows`, `NightForeseen`, `HotWaterIsSound`, `UsersPauseIsSafe`, `OnLoan`, `DashboardIsKept` |
| `records` | Does what is written down, read back and priced agree with what happened and was entered? | `TotalsAreSound`, `SlotsAreSound`, `TariffsAreSound`, `EnergyIsSound`, `SavedTariffHolds`, `SetupIsSound`, `LearningIsSound` |
| `hold_start_raises`, `night_floor_lowers`, `night_settles_early`, `immersion_master_off`, `tariff_cancel_reverts`, `plan_weekday` | violations | the smallest instance that shows each |

Several properties are conjunctions of named parts, defined just before them: `NightIsOrderly` is
`OnePlanAtATime` and `ReplansBounded`; `TotalsAreSound` is `BillAddsUp`, `DaysKeepTheirEnergy` and
`NothingRepeated`; `TariffsAreSound` is `DocumentsCanBeBilled`, `BillsAgree`, `IndexIsSound` and
`ShadowsAreSound`; `DeviceRecordsAreSound` is `SessionsAreSound`, `ScheduleIsSound`, `RateIsPlausible` and
`RunsCountOnce`; `FeedIsAnswered` is `RepairsFollow` and `GapsNotBooked`; `EntryIsOrderly` is
`CustomisationsKept` and `EntryFollowsOptions`; `ChargerSettles` is `ChargerObeys` and `CommandsCease`;
`OwnersSettingsKept` is `ControlsAreKept` and `PagesAreSound`; `AuditIsSound` is `BooksAreSound`, which has
eight parts; `EnergyIsSound` is `SharesAdd`, `SavingIsWhole` and `RateIsTrue`.

**Why the bounds are enough.**

*Writer.* Two callers are one that holds the lock and one that waits; a third waits behind the second
and changes nothing but the queue, and the proofs cover any number. Two values give A, B, A, the
sequence that a stale cooldown gets wrong. Two sends and two polls reach the retry, the last read-back
and giving up. One cooldown tick is enough for a cooldown to end between two requests. The entity is a
select; a switch, whose missing state reads as off, is covered by the proofs of the same properties.

*Hold* (`devices`, `parts`). Four ticks a day let a hold of two cross midnight and the end of the user's
window. `parts` has a night pause and one that stops charging, dry run, and the faults under which the record
is kept; `devices` has one pause, an inverter out of reach, and no fault of a write, for liveness. Faults of
a start and a release that is `lost` are left out of both, because with them the user's pause is forgotten:
the first is the finding of `hold_start_raises`, the second a hazard of `WriteStatus.__bool__`, listed as such.
Empty windows (start = end) are left out.

*Night* (`night_plan`, `commands`). The trigger at 1, the window 2 to 5 or 7, so an attempt, two retries, the
late check and a re-plan all fall between, and three ticks are left after the long window for settling and
its retries. Every cycle and every task is shorter than two ticks, a save shorter than one. `night_plan` has
three plans, lost and failed writes, a frozen feed and one edit of the window, and claims only `Repaired` of
the behaviours with the edit, which rightly breaks the rest. `HealBy` ends its faults before the last retry:
nothing can be promised to an inverter that never answers. `commands` has two plans, any task failing, one
stop of either kind with outages of any length, dry run, override and the floor.

*Slots and force* (`commands`). A day of eight hours; a window after another, one over midnight, and one that
ends at an hour the select does not list; two calls and two stops; two force presets.

*Controls* (`commands`). Two or three values of each number; two calls by the user, two halts. A crash within
the quarter of an hour before the store is written, and switches that were unavailable when it was, are left
out of the claim: there the code does lose the wish (section 7). After losing all controls only their return
is looked at.

*Settings pages* (`commands`). Three submissions, one move elsewhere, two set-ups: a page opened twice with
another between, or a save and a page after it. `PagesAreSound` is looked at while the pages take the steps,
and proved without that. Accepting a car that Home Assistant suggests counts as an edit.

*Bills* (`commands`). Months of three days and years of two months; eleven days with two events, which
reach a period a year old, and five days with three. A replayed first day of a period is carved out of
`ChangesAreReal`, and the time from a period's midnight to its first cycle out of the comparison (section 7).

*Totals* (`records`). Three days hold two midnights, a week that starts on one and a bill period that starts
on the other. One restart can fall anywhere, and the outage can swallow a day. A spike of 7 is above what a
tick allows and below what a unit change explains. Four situations are excluded by constants, because in them
the code does go wrong; `PROJECT.json` lists them as hazards: `SpikesAtRestart` (a spike is the first reading
after a start, or what a stop finds or the store keeps), `StopAtMidnight` (a stop between midnight and its callback), `StaleStart` (a start while the
counter still shows yesterday) and `WaitsOverMidnight` (a cycle that awaits the floor over midnight).

*History, energy, learning* (`records`). Slots of two ticks in days of one and of two, in the longer of
which the clock goes back, and two troubles. Four hours with two rates, five flows and three sets of readings that can be missing.
Two days of three ticks with a restart and a missed cycle for the forecasts.

*Tariffs* (`records`). Up to two timed rates over each other or not; documents of two zones; three sections
rewritten from a good text, so that an error can hide another; bill trees to a depth of five, where the code
stops at eight; three revisions over three days; a list of three shadow tariffs with names that fold together.

*Configure and set-up* (`records`). Three days, three pages and two openings: a dated change can start while
Configure is open, and another lie ahead. Four layouts of inverters, one of them a Gateway, one change of
layout, two set-ups.

*Immersion* (`devices`). A tick is about five minutes, and every cycle, command and press ends within one.
Three changes are enough for a press, an outside change and its undoing. The bound is on changes around the
actuator, never on its own steps, so that it has time to settle; this is also what `HeaterEndsOff` needs. The
first cycle after a start only observes, as in the code.

*Learning of heat* (`devices`). A day of four hours of one part, two days kept, three heated hours over three
days and one crash; for the rate, days of four minutes, eleven minutes, three switchings and two outages.

*Car, feed, entry* (`devices`). Two cars after each other and one more; two changes around the charger; three
changes of the feed, each of what is published, the entry, or one of the levels; two saves.

*Plan* (`parts`). The day has 3 slots and 4 points of capacity with slots of -3 to 2 points, so that every
clamp (full, empty, floor, pause) meets every other; the floor starts at 1, because the forms allow a minimum
of 5 to 30 % only and with 0 the outlook's property does not hold. The search runs over the code's own range
with `Full` = 20. The window's day has 5 minutes, with two periods in any position at all or three cheap
ones: enough for periods that overlap, touch, wrap midnight, are empty or fill the day. The held plan's
constants keep `Step < Large` and a dwell of two ticks, and the clock may be set back. The night has eight
hours with a cheap window of two; heating a day of ten; the dashboard two entries and one path.

## 5. Fairness

No fairness is assumed of the world: faults, restarts, presses and edits may or may not happen.
What is assumed is what the scheduler gives:

- *The event loop* runs a task that can run: `WF` on `CallerStep` (`Writer`), on `Run` and the hold's
  steps, on the tasks' writes (`ChargeNight`), on `Act` and the answers to calls (`Immersion`), on the
  charger's command (`EVCharger`), on the steps of a set-up (`ConfigEntry`).
  An awaited service call returns or raises: Home Assistant's calls do, and the code awaits them without
  a timeout of its own.
- *The cycle comes round*: `WF` on `Recheck`, `Run`, `AnyCycle`, `Read`, `ReadCharger`, `SessionCycle`,
  `EntryCycle` and the three kinds of cycle in `Repairs`, and on the set-up that Home Assistant retries
  (`RefreshRepairs`). It is a timer of Home Assistant.
- *Timers fire*: `WF` on `Trigger`, `RetryDue`, `EntryMidnight` and `CooldownEnds`.
- *A charger that was told a mode shows it in the end*: `WF` on `ShowMode` and `Answered`.
- *Time passes*: `WF` on `Tick`, and `SF` in `Immersion`, where every cycle interrupts it: time passes
  although cycles keep coming.

The other modules state no liveness and have no fairness. That the binary search ends is an invariant,
`SearchShrinks`: wherever the search has not ended, a step that shrinks it is enabled.

`HoldEnds`, `NightWritten` and `HeaterEndsOff` have premises ("the car has gone for good and the inverter
is there", "the inverter answers before the last retry", "the water is hot and the switch takes
commands") that are the least under which the code can keep them; `ChargerObeys`, `CommandsCease`,
`RepairsFollow`, `EntryFollowsOptions` and `EvRepairsEnd` alike speak of a world that has come to rest.

## 6. Proofs

Every theorem is proved from the named assumptions on the constants alone (`WriterAssumption`,
`ImmersionAssumption`, `DayAssumption` and their like), which say no more than that counts are natural
numbers, thresholds are ordered and marker values are distinct; where a theorem has a hypothesis of its own it
is named in its statement and explained here. TLC evaluates the assumptions in every run. In the
table, "property" is what a run checks; a theorem whose property is a part of one says so.

| theorem | property | run |
|---|---|---|
| `Writer_proof!CooldownFollowsSent` | `CooldownIsLastSent` | `writer` |
| `Writer_proof!PromiseKept` | `KeepsPromise`: the writer implements `WritePromise` | `writer` |
| `Writer_proof!RepairFollows` | `RepairFollowsAnswers`, the safety part of the repair | `writer` |
| `Writer_proof!TypeCorrect`, `LockIsOwned` | `TypeOK`, `LockOwnership` | |
| `Devices_proof!PauseIsSafe` | `UsersPauseIsSafe` | `parts` |
| `Devices_proof!HoldIsLoan` | `OnLoan`: the hold implements `PauseLoan` | `parts` |
| `Devices_proof!GapsStayOut` | `GapsNotBooked`, a part of `FeedIsAnswered` | `devices` |
| `Devices_proof!ChargerKept` | `CustomisationsKept`, a part of `EntryIsOrderly` | `devices` |
| `ChargeNight_proof!NightOrderly` | `NightIsOrderly` | `commands` |
| `ChargeNight_proof!OnInverter` | `NightIsOnInverter` | `night_plan` |
| `ChargeNight_proof!TypeCorrect` | `TypeOK` | |
| `Commands_proof!ExportSafe` | `ExportIsSafe` | `commands` |
| `Commands_proof!AuditHolds` (`BooksSound`) | `AuditIsSound` | `commands` |
| `Commands_proof!ControlsKept`, `PagesSound`, `OwnerKept` | `OwnersSettingsKept` and its two parts | `commands` |
| `Loads_proof!HotWater` | `HotWaterStops` | `devices` |
| `Loads_proof!TurningsSpaced` (`ChangesSpaced`, `TurnOffKept`) | `TurningsHaveTheirTime` | `devices` |
| `Loads_proof!TypeCorrect` | `TypeOK` | |
| `Loads_proof!LogKept` | `OnePlugOneSession`, `StoredChargesStay`, parts of `DeviceRecordsAreSound` | `devices` |
| `Loads_proof!RecordTrue` | `RecordIsTrue`, a part of `ScheduleIsSound` | `devices` |
| `Parts_proof!TargetSound` (`FindsLeast`, `Sound`) | `TargetIsSound` | `parts` |
| `Parts_proof!DaySound` (`Monotone`, `Outlook`) | `DayIsSound` | `parts` |
| `Parts_proof!FollowsPlan` (`Close`, `CatchesUp`) | `ShownFollowsPlan` | `parts` |
| `Parts_proof!DoneStays`, `Follows` | `DoneChargeStaysShown`, `EstimateFollows` | `parts` |
| `ChargeWindow_proof!WindowSound` (`StaysCheap`, `HoldsCharge`) | `WindowIsSound` | `parts` |
| `ChargeWindow_proof!CarWindow` | `CarWindowAgrees` | `parts` |
| `Parts_proof!DashboardKept` | `DashboardIsKept` | `parts` |
| `Records_proof!EnergySound` | `EnergyIsSound` | `records` |
| `Records_proof!SavesHold` | `SavedTariffHolds` | `records` |
| `Records_proof!SetupHolds` | `SetupIsSound` | `records` |
| `Records_proof!TotalsHold` | `TotalsAreSound` | `records` |
| `Records_proof!LearningHolds` | `LearningIsSound` | `records` |
| `Records_proof!SlotsHold` | `SlotsAreSound` | `records` |
| `Records_proof!DaysHold` | `BillAddsUp` and `DaysKeepTheirEnergy`, its first two parts | `records` |

The arguments:

- **Writer.** `IInv` adds two facts to what is claimed. `Counts` ties `sends` and `accepted` to the
  place in the code: without it, a poll could send once too often, and `WRITTEN` could be answered
  without a send. `UnderWay` says that the value under way is the last one its entity was sent: only
  with it is the cooldown that a write shortens *after* its awaits the one it started. `LockOwnership`
  is inductive only with the queue free of duplicates, which `Head`/`Tail` lemmas about the lock's
  sequence give. The refinement is then one step per action.
- **Battery hold.** That the pause is on record whenever the inverter holds another is not inductive: a
  release must be known to write back all that differs, and none of its writes may be held back by the
  writer's cooldown. `Sent` says that a register a hold changed was last sent what it holds, because nobody
  else writes it while the record is kept; so the cooldown, which only holds back what was last sent, holds
  back nothing the release needs. The theorems have the hypothesis `KeepsRecord`: no fault of a start, and no
  release that is lost. Without the first the code forgets the record (finding `hold_start_raises`); without
  the second a lost write is taken for written.
- **Feed and entry.** A gap of old values is not booked because the note of it goes with forgetting the last
  update, also through reloads (`GapInv`). A charger's devices are not cleaned up while it is there because
  the entities of a charger that is there are visible once Home Assistant runs (`SeenWhenRunning`).
- **Charge night.** `IInv` adds to `OnePlanAtATime` what each mode allows: nothing of the night before the
  trigger, no task before the first refresh, a waiting cycle only with the floor's task; and to
  `ReplansBounded` that the re-plans started are those noted in the log, of which a crash loses one at most.
  `OnInverter` needs `HeldInv`, which says setting by setting how far a change has got (`ChangeHeld`) and that
  nothing ends outside the cheap hours, so that no repair writes the window under a remembered night
  (`EndsCheap`). Its hypothesis `OnlyNightFails` names when the claim is true of this code: a change stopped
  half-way leaves settings the night does not remember; a dry run remembers a night that was not written; the
  floor raises the target on its own. `night_plan` is within it.
- **Schedules and force.** `ExportInv` says what a call knows of the registers at each of its steps, as long
  as no step relied on an entity that trails. The switch is off while a window is half written. That the
  mixture of two windows is the old one or the new one, or more, is a matter of hours around a clock: end
  first covers the new window, start first the old, for windows shorter than half a day. The longest preset
  that fits is the greatest of a finite set, by well-foundedness.
- **Controls and pages.** `ControlInv` says what each place holds of the wish at each point of a start: the
  data for the temperatures, the store for the others, the entity once it is added, the coordinator after
  that; and the gap between minimum and target. `PagesInv`: what was entered is exactly what the forms held;
  cleaning drops nothing and invents nothing; what may be stored as empty is; the two seasons are set together
  and apart. `OwnerKept` puts both side by side as the run does.
- **Bills.** `AuditInv` says of the books (`BooksKept`): a row keeps a tariff only where it is not that of the day
  before; the rows of a period lie in its days, one each at most; the periods follow each other; a period cost what
  its rows did and, the first one, what was used before rows were kept; one that began after the bill's day was last
  moved began on that day, and no such day has come since. That the last of these makes a month of days is the
  uniqueness of a remainder. What rows cost is a recursive function of their number, and that it exists, and is the
  sum for two lists put together and the same for a list turned round, follows from the least number at which it
  would not be; so do the midnights that a start replays. From there each part of `BooksAreSound` is a fact about
  one state: the tables cell by cell, the bill that closes by `MonthTurns`, the year by the place in the archive.
  That there is a price (`Prices # {}`) is so in the code: `tariff_in_force` always answers with a set of rates.
- **Immersion.** Each property speaks of a history variable, and `IInv` ties each to the code's own
  state. `CooldownCovers`: the time an automatic change has to wait is never more than the cooldown the
  actuator keeps. `TurnOffCovered`: a turn-off is either covered by the cooldown, or not yet noticed,
  and then the last command is still "on", the heater is off, and nothing is under way that could change
  either before the next cycle sees it. `LeftOnOnce`: a cycle leaves a heater on in hot water only when
  it has just adopted someone's turning on.
- **Simulated day.** The greater battery stays at or above the lesser one through every clamp; the flow's
  battery is the greater one until it would leave the floor, and what the floor holds back is imported.
- **Charge target.** While the search runs, no target below `lo` carries the day and every one from `hi` up
  does, so it ends at the least; `SearchAboveMinimum` keeps it above the season's minimum. Every adjustment
  after it keeps the target at or above the least one or is one of the named exceptions.
- **Held plan.** A shown plan or window that lags by a step or more has been held at least as long as the
  fresh one has stood unchanged, and less than the dwell (`LagsPlan`, `LagsWindow`), so that it is replaced
  before the property looks.
- **Sunrise.** The published figure moves toward the calculated one by the pace or all the way.
- **Charge window.** Every minute of the run grown so far is cheap; each extension adds the minutes of a
  period that covers them, counted modulo the day; when the run cannot grow, the minute after it is not cheap
  or the run is the whole day. The car's invariant is that joining two runs adds no minute and loses none but
  the one a run of a whole day leaves out, which is why the property excepts that minute: the code keeps a
  whole day as a run that ends a minute before it starts. The work is in the circle, where a minute's place
  after one start follows from its place after another.
- **Energy.** The code works the saving out from what the house used, what was bought and sold and the change
  of the charge; the truth is of the sun and the battery. `Whole` links the two as an invariant of the day:
  the money is in balance but for what the battery's charge from the grid had cost, and the charge that came
  is what was paid for and the sun's, less what was given. A cycle keeps it by the balance of an hour's flows.
- **Car's log.** The log and the one in the store are both good logs: in the order in which cars were plugged
  in (`InOrder`), with every charge once stored listed or pushed out by newer ones (`Remembers`). That a stop or a
  crash takes the log back to the store then breaks neither, and that no car is listed twice follows from
  the order, the cars counted by a bijection.
- **Record of heat.** Nothing is used in an hour to come (`NotAhead`), a day that is not noted and lost nothing
  used nothing (`FreshDay`), and the days noted lie in one stretch of the days kept (`InStretch`).
- **Tariff dialogs.** A visit that has not touched the tariff was told nothing, and the list of dated changes has
  one for a day, so that the last one that has started is well defined. The theorem compares two lists on
  every later day: what the save leaves and what was entered over what stood before; the work is in which change
  is the last on that day, after one is added, replaced, or dropped as over.
- **Set-up.** Page by page, what has been passed and what is to come are the ticked pages in order (`InOrder`),
  a warning remembered for a page was seen on it, and the name that the entry will have is free. Of the entries,
  each has a name of its own, and one that was not wired by hand is wired to one device. The hypothesis
  `SilentIsAsleep` says that a device with its own prefix whose serial cannot be read has no other entity that
  can: without it, a prefix can be taken for the serial (section 7).
- **Totals.** `DaysHold`: midnight moves a day as it is from today's total to a row and a row to the archive
  with the period it is of, so the rows of all periods stay in the order of their days, each with the cost of
  the steps that began on it (`TotalsKept`, of what is in memory and of what is stored). `DaysInStep` keeps the
  two, the callback and an open step on the same day. A start rolls over any number of midnights: the states in
  between are a recursive function over the days, shown to exist and to be kept by the least day at which they
  would not be. `TotalsHold`: from every reading that is saved or trusted there is still due at least what the
  counter has gone up since, or all that it shows (`IsDue`, `GuardKnows`). Each case of the guard then books no
  more than is due: a first reading all, a rise the difference, a reset all again because a new day of the
  counter has begun, a recovery the difference to the reading that was trusted. The hypothesis `Ordinary` is
  that the four situations which section 4 excludes do not occur, and that a spike reads more than the counter
  could have come to by then: a smaller one is booked, as the code cannot tell it from energy.
- **Learning.** What is remembered is of the day since the last midnight the program has seen, which is today while it
  runs and may be days ago in the store (`LearnInv`). A start replays the midnights it has missed, a recursive function
  of the days that is shown to exist and to keep this by the least day at which it would not; what the recorder
  gives a seeding is, record by record, of the day the record is of, with the forecast of that day or, where the
  recorder has none, an earlier one. Midnight takes as today's what was shown as tomorrow's.
- **Half hours.** Each tick is booked once because what is seen of a day, in memory or read back, is before the
  last update, or before now when there is none (`DaysTrue`), and an interval starts at the last update. What it
  is booked with is what the meter rose by: the reading kept is that of the last update, so the rise is what was
  used since, if both are of one day (`EachTickIs`). A day's slots then sum to what its ticks were booked with
  (`SlotsAddUp`), whatever the length of the day; the sum is the library's fold, unfolded by the number of its
  elements (`OneMoreIn`). The file keeps what it has because a half hour before the one last booked has ended by
  then, also over a midnight (`HalfHoursBefore`). It is assumed that a day has a whole number of half hours and
  that the shares of an interval are whole units of energy; the code divides in floating point.
- **Dashboard.** A look that nothing has outdated saw the dashboard that the entry which looks now keeps, as it
  is stored (`FreshLooks`); a look has settled only when every one still waiting is such a look
  (`SettledLooks`). So the last one to answer answers for what is stored. That there is one entry that looks is
  the least place of a loaded one, by well-foundedness.

**Only model-checked**, and why:

- All liveness, and the liveness halves of properties that have one: `EveryWriteAnswered`, `NightWritten`,
  `SettledBack`, `Repaired`, `HeaterEndsOff`, `ChargerSettles`, `HoldEnds`, and in `RepairIsRight` (the
  writer's), `FeedIsAnswered`, `EntryIsOrderly` and `DeviceRecordsAreSound`. The prover has no rule for
  fairness here. `SearchShrinks` uses `ENABLED`, which it does not reason about.
- `TariffsAreSound`: the bill tree is evaluated by `RECURSIVE` operators.
- `HotWaterIsSound` and `NightForeseen`: sums over the hours of a plan and of a night, chosen by price and time; no
  inductive invariant for them is worked out yet; of the heating's own record, `RecordIsTrue` is proved, the schedule and the rate
  made of it are sums again.

## 7. Where code and documentation disagree

Shown by a run:

1. `hold_start_raises`: a start whose second or third write raises forgets the saved pause although the
   first changed the inverter (`battery_hold.py:140`, against `docs/concepts.md:451`).
2. `night_floor_lowers`: the cheap rate floor reads the target before it waits for the lock, and can
   lower it (`lib/givtcp/sequence.py:208`, against line 202: "The floor only raises the target").
3. `night_settles_early`: the remembered closing time and the written window can come from two plans, so
   the window is set back while it is open (`coordinator.py:1179`, against `core/window_settle.py:9`).
4. `immersion_master_off`: the end of a manual run clears the override that Immersion Auto Divert off had
   set (`immersion_actuator.py:158`, against `docs/concepts.md:331`: "off still stops everything").
5. `tariff_cancel_reverts`: cancelling the changes that have not started drops the ones that have, and the old
   rates come back (`core/tariff.py:185`, against `docs/tariff.md:46` and `strings.json:439`).
6. `plan_weekday`: before midnight the plan averages the load of the weekday it is made on, not of the day it
   serves (`coordinator.py:1869`, against `docs/concepts.md:113` and `core/engine.py:1577`).

Met while modelling, without a run of its own, because the models state what the code does instead.

**Plan and writes**

- `core/charge_hold.py` says a skip is never published while a charge is running, and not after one
  has run until the night's write releases the hold. A skip is published after a partial charge when
  fifteen points or more are left, after a newly published charge decision has reset `charged`, and,
  with nothing held, while a charge runs. `DoneChargeStaysShown` and `ShownIsClose` say what does hold.
- `core/rules.py` (near 790) says the plan never skips a charge that the survival sensor calls Critical.
  The fixed winter plan, which skips from 95 % up, and the plan for a battery of unknown capacity do not
  ask. `SkipIsSurvivable` excludes both.
- `lib/givtcp/windows.py` says that between the two writes of a window the inverter holds a mix that
  contains the old window and the new one. That is so for windows that move; nested windows, and a first write
  that is lost, leave a mix that covers only one of them or neither; windows of half a day leave a gap; a
  start that cannot be read keeps the order start-first; an unused slot is widened from midnight.
- `lib/givtcp/status.py` calls `ALREADY_SET` "known to hold the value"; what is known is the entity's
  state, which trails the register by one publication. A switch asked to go off that becomes unavailable
  during the read-back counts as written (`writer.py:162`).
- `lib/givtcp/schedules.py:9` and `controls.py`: `UNCONFIRMED` and `COOLDOWN` are truthy, so a plan whose target
  was never confirmed still answers `WRITTEN`; a stop asked for while a slot is written is undone by its
  restoring the switch; a window hour the select does not list leaves a running schedule off. The writer picks the
  aliases "Off" and "No Pause", which `pause_modes` cannot read back.
- `lib/givtcp/force.py`: "2h30" reads as 120 minutes; the number's `min` is not checked.
- While a hold is on the live pause is not read (`battery_hold.py:102`), so one that is set meanwhile in the app gives
  way to the earlier one. The window guard writes the window the last cycle planned, not the one the night
  remembers, although `core/window_guard.py:17` says it writes the same one.
- What the sensors say of a night: in daylight with sun the figure with a charge counts the load from now, the one
  without from dusk; the per-slot profile uses two loads, so the figure jumps as the window closes; "tonight's
  charge covers it" is about sunrise only.

**Energy, bills and tariffs**

- A spike of the AC charge counter becomes the saved baseline although it is not trusted (`lib/guards/counter.py:167`).
  After a stop, the first good reading falls from it, is taken for the daily reset, and the day's charge is booked
  again, against `docs/concepts.md:92`. `SpikesAtRestart` keeps this out of the run.
- An AC charge read late is priced at the rate when it is read; `SavingIsWhole` leaves such days out. A genuine
  fall to 0 % is not counted as a cycle, and cycles during an outage are not in the daily rate.
- Tariff documents: a decimal of more than 28 digits is accepted though pricing it raises; `days: []` means every day;
  a float such as 1e-07 in the options is written "1E-7", which the parser refuses; a start day taken from an input
  uses its default only. `build_index` raises `TypeError` for two revisions of one day of which one is open-ended.
- `compare_tariff` (`docs/actions.md:74`) reverses today's discount and VAT out of costs accumulated at earlier ones;
  the alternative's standing charge and export rate default to 0.
- Shadow tariffs: a key can move to another tariff when the first of two names with the same word is removed; a cached
  report keeps old rates for up to five minutes; one tariff that cannot be written hides the whole report; two
  Configure dialogs can make `with_shadow` raise.
- Bills: a replayed first day leaves a row without a tariff, and the next row reads as "the tariff changed"
  (`docs/concepts.md:479`; `ChangesAreReal` leaves it out); a scheduled change that came into force during an outage is
  recorded a day late; the running bill's days count from the bill's start day, not the period's real start; moving
  the start day makes a short or a long period and puts the comparison with last year off for a year
  (`docs/actions.md:105`, `services.py:440`); between the midnight of a bill and the next cycle the export lists the
  closed period twice and the comparison is a month off (`services.py:451`); self-sufficiency can exceed 100 % in the
  comparison and not in the CSV; the fallback of an archived period uses the raw saved options.
- Half-hourly history: `slot_history.py:41` compares wall clocks, so the interval over the autumn change is dropped though
  `slots.py:3` says otherwise.

**Forecasts**

- `lib/solar/seeding.py:7` says a night is seeded with its own forecast; `_forecast_for` may take an earlier day's. A low
  estimate read earlier in the day is kept beside a newer total; a forecast of zero is not remembered.
- The correction factor goes down to 0.4 (`core/tuning.py:127`), where `docs/concepts.md:111` says 0.6; a low estimate that
  is not corrected can stand above the corrected total (`docs/configuration.md:222`).
- A day with nothing accumulated is recorded as a ratio (`_record_forecast_ratio`) and skipped as an accuracy; a day that
  stopped before sunset leaves a usable record; after a start past sunrise `today_forecast_kwh` is tomorrow's.

**Heat**

- `lib/heating/ready.py:259` takes the last half minute of a band for used (against lines 14 and 19); the expected ready time
  stays TRUE after a run that was capped; the trigger fires a degree below the target where the suggestion says none
  is needed; `core/alt_heat_start.py:9` and `docs/concepts.md:389` do not know of both heating at once; the advice's "cheapest
  in the horizon" takes the surplus of now for the whole horizon.
- The suggested schedule: a window of a habit of the day's first hour is not cut at the heating before midnight and can
  overlap it (`core/alt_heat_schedule.py:21`); a day of which part was watched counts as complete; the rate tracker does not
  know of the alternative, so heating by both at once teaches a rate too fast.

**Car**

- "The grid mode is never held this way" (`EVRequest`) against `coordinator.py:1654`, `docs/concepts.md:447` and
  `docs/entities.md:25`; a charger that is offline is sent a command at every cooldown.

**Repairs and entry**

- A set-up that fails runs the unload hooks, so the repair for a frozen feed never stays up through a restart that meets
  one; it stays when the feed goes from frozen to paused; gaps of a silent or a missing feed of up to an hour are booked;
  `repair_flows` says that saving the battery's cost reloads the integration, which it does not.
- A save between building the coordinator and registering its listener is missed; after an unload of more than ten
  seconds a second writer runs beside the first (`coordinator.py:801`).

**Set-up, Configure, controls**

- Set-up: capacity and output are asked for from the best inverter, not the chosen one; the page of hand-picked entities
  checks no serials; a path that is fully configured checks no availability; a silent serial sensor makes the prefix the
  serial, after which reconfigure refuses the inverter and the system check finds nothing.
- Warnings once shown are remembered for the whole flow (`wizard/flow_base.py:148`), so the confirm step lists ones that no
  longer stand.
- "A value you leave as it was is not written at all" (`docs/configuration.md:110`): a page submitted with the cost as shown
  writes the old cost over one that a repair saved meanwhile; a page opened again in the same Configure shows what is in force,
  so submitting it unchanged drops the earlier edit. An untouched car page stores a car that was only suggested.
- Controls: Home Assistant stores "unavailable" for the entities of a coordinator whose update failed, and a switch restores
  with `last.state == STATE_ON`, so a restart while the feed fails brings Immersion Auto Divert, Scheduled Heating
  (`docs/entities.md:20`) and Enable Charge Target Override (`:37`) back off. `ControlsAreKept` leaves this out. The first
  cycle after a start runs before the controls are restored.

**Stored dashboard**

- With two entries any unload deletes the shared repair, and the first entry's look at set-up is skipped while another is
  loaded; a look waiting over the last unload raises a repair nobody can fix (`late`); removing the last entry deletes the script
  resource, and adding one again in the same run does not restore it; a user's edit between read and save is overwritten.

## 8. Not modelled, and what is left

The modules were written in the order of what a mistake costs: first what writes to the inverter, then money
and hot water, then the plan behind the writes, then the records, the devices and the settings.

Left out of the modelled parts: of the writer's repair, its clearing at unload and its wording; of the hold, a
store that cannot save; of the night, the schedule switch and the window's start as writes of their own, the flat
tariff, and unconfigured entities; of the floor, the lower floor of periods that are cheaper and not cheapest; of the
totals, yesterday, the year and the trailing twelve months; of the counter guard, negative readings and a clock
that goes back; of the forecasts, the shape within a day; of the history, the rounding to watt-hours in the store; of
the entry, its removal and its migration; of the car, the plug seen from the car itself. Wording, logging,
formatting and layout are left out everywhere.

Still worth doing, in this order:

1. Theorems for the sums that are only model-checked: `HotWaterIsSound`, by the way of `SlotsHold` and
   `BooksSound`; `RunsCountOnce` of the heating's record.
2. The safety part of `FeedIsAnswered` and of `EntryIsOrderly` that is not proved yet.
3. Real time of the night's cycles, and the service actions that only read.

## 9. Running the checks

```
cd tla
tlasany Writer.tla                                   # parse
tlc -workers 2 -config Writer.cfg Writer             # a run
tlapm Writer_proof.tla                               # proofs
```

`PROJECT.json` pairs every `.cfg` with its module, and its "map" gives every definition the lines it models; a helper of
one or two lines that lies within the lines of another definition has no row of its own there. The longest runs, `parts`, `records`, `devices` and
`commands`, take two to four minutes each; the proofs some half an hour in all, most of it `Records_proof` and `Commands_proof`.
