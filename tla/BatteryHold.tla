----------------------------- MODULE BatteryHold -----------------------------
(***************************************************************************)
(* The battery hold: BatteryHold.run and its writes (battery_hold.py), the *)
(* decision behind it (core/ev_battery_hold.py), its store, and the three  *)
(* register writes of apply_battery_pause (lib/givtcp/controls.py), with   *)
(* Home Assistant stopping at any await.                                   *)
(*                                                                         *)
(* One tick is EV_HOLD_STEP_MINUTES.  Times of day are ticks, and          *)
(* `left` counts the ticks to the end of a hold.  One verified write is    *)
(* one step here: the writer's statuses are those of module Writer.        *)
(***************************************************************************)
EXTENDS Integers, Sequences, FiniteSets

CONSTANTS
    HoldDay,        \* ticks in a day
    HoldTicks,      \* EV_HOLD_MINUTES
    RenewTicks,     \* EV_HOLD_RENEW_MINUTES
    ReleaseTicks,   \* EV_HOLD_RELEASE_MINUTES
    UserPauses,     \* the pauses the user may have set: [mode, start, end]
    Toggles,        \* the facts that change in this instance
    Faults,         \* <<step, kind>> pairs: which writes of which step may go wrong, and how
    NoValue         \* None

PauseModes == {"OFF", "CHARGE", "DISCHARGE", "BOTH"}
Times == 0..(HoldDay - 1)
Registers == {"mode", "start", "end"}
PauseSetting == [mode: PauseModes, start: Times, end: Times]
Record == [prior: PauseSetting, left: 0..HoldTicks]
Steps == {"START", "RENEW", "RELEASE"}
FaultKinds == {"lost", "raised", "vanished", "gone"}

ASSUME BatteryAssumption ==
    /\ HoldDay \in Nat /\ HoldTicks \in Nat \ {0} /\ HoldTicks < HoldDay
    /\ RenewTicks \in Nat /\ ReleaseTicks \in Nat
    /\ UserPauses \subseteq PauseSetting
    /\ Faults \subseteq Steps \X FaultKinds
    /\ Toggles \subseteq {"enabled", "charging", "draining", "dry_run", "reachable"}
    /\ NoValue \notin Times /\ NoValue \notin PauseModes /\ NoValue \notin PauseSetting
    /\ NoValue \notin Record

VARIABLES
    inverter,       \* the pause the inverter holds, register by register
    users,          \* history: the pause the user last set
    up,             \* Home Assistant is running
    record,         \* BatteryHold.record
    store,          \* the record in the store
    op,             \* the step under way: [step, stage, at, rec, todo]
    cooling,        \* the writer's cooldown: the value each register was last sent
    off_since,      \* ticks since _car_off_since, NoValue while the car charges
    time,           \* time of day
    facts           \* [enabled, charging, draining, dry_run, reachable]

batteryVars == <<inverter, users, up, record, store, op, cooling, off_since, time, facts>>

NoOp == [step |-> "NOTHING", stage |-> "idle", at |-> 0, rec |-> NoValue, todo |-> <<>>]
Writes == UNION {{r} \X (IF r = "mode" THEN PauseModes ELSE Times) : r \in Registers}

BatteryTypeOK ==
    /\ inverter \in PauseSetting /\ users \in PauseSetting
    /\ up \in BOOLEAN
    /\ record \in Record \cup {NoValue} /\ store \in Record \cup {NoValue}
    /\ op \in [step: Steps \cup {"NOTHING"}, stage: {"idle", "save", "apply", "write", "taken", "refused"},
               at: Times, rec: Record \cup {NoValue}, todo: Seq(Writes)]
    /\ cooling \in [mode: PauseModes \cup {NoValue}, start: Times \cup {NoValue}, end: Times \cup {NoValue}]
    /\ off_since \in 0..ReleaseTicks \cup {NoValue}
    /\ time \in Times
    /\ facts \in [enabled: BOOLEAN, charging: BOOLEAN, draining: BOOLEAN,
                  dry_run: BOOLEAN, reachable: BOOLEAN]

-----------------------------------------------------------------------------
(* core/ev_battery_hold.py                                                 *)

\* PauseWindow.paused_minutes of the present tick: the window wraps midnight, and a start equal
\* to the end pauses nothing.
Covers(p, t) == (t - p.start) % HoldDay < (p.end - p.start) % HoldDay

\* What a pause does.  One that is OFF does nothing, whatever window it keeps.
Effective(p) == IF p.mode = "OFF" THEN [mode |-> "OFF", start |-> 0, end |-> 0] ELSE p

HoldPause(t) == [mode |-> "DISCHARGE", start |-> t, end |-> (t + HoldTicks) % HoldDay]

\* A pause that stops charging is left alone.
MayHold(live) ==
    /\ live.mode \notin {"CHARGE", "BOTH"}
    /\ ~(live.mode = "DISCHARGE" /\ Covers(live, time))

\* _holding_step, with the car off for `away` ticks (NoValue while it charges).
HoldingStep(away) ==
    IF ~facts.enabled THEN "RELEASE"
    ELSE IF away # NoValue
         THEN IF away >= ReleaseTicks THEN "RELEASE" ELSE "NOTHING"
         ELSE IF record.left <= RenewTicks THEN "RENEW" ELSE "NOTHING"

\* decide_hold.  The pause cannot be read while its entities are not there.
DecideHold(away) ==
    IF record # NoValue THEN HoldingStep(away)
    ELSE IF facts.enabled /\ facts.draining /\ facts.reachable /\ MayHold(inverter)
         THEN "START" ELSE "NOTHING"

-----------------------------------------------------------------------------
(* battery_hold.py                                                         *)

BatteryInit ==
    /\ users \in UserPauses /\ inverter = users
    /\ up = TRUE /\ record = NoValue /\ store = NoValue /\ op = NoOp
    /\ cooling = [r \in Registers |-> NoValue]
    /\ off_since = NoValue
    /\ time \in Times
    /\ facts = [enabled |-> FALSE, charging |-> FALSE, draining |-> FALSE,
                dry_run |-> FALSE, reachable |-> TRUE]

\* _facts: how long the car has not charged.
AwayNow == IF facts.charging THEN NoValue ELSE IF off_since = NoValue THEN 0 ELSE off_since

\* run, up to its first await.  Dry run sends nothing.
Run ==
    LET step == DecideHold(AwayNow) IN
    /\ up /\ op = NoOp
    /\ off_since' = AwayNow
    /\ op' = IF step = "NOTHING" \/ facts.dry_run THEN op
             ELSE [step |-> step, stage |-> IF step = "START" THEN "save" ELSE "apply", at |-> time,
                   rec |-> CASE step = "START" -> [prior |-> inverter, left |-> HoldTicks]
                             [] step = "RENEW" -> [prior |-> record.prior, left |-> HoldTicks]
                             [] OTHER -> record,
                   todo |-> <<>>]
    /\ UNCHANGED <<inverter, users, up, record, store, cooling, time, facts>>

\* _start saves the record before the first write.  Mutant: it is saved after the hold took.
SavesLater(rec) == store
SavedFirst(rec) == rec

SaveFirst ==
    /\ op.stage = "save"
    /\ store' = SavedFirst(op.rec)
    /\ op' = [op EXCEPT !.stage = "apply"]
    /\ UNCHANGED <<inverter, users, up, record, cooling, off_since, time, facts>>

\* The pause a step writes: the hold's, or the saved one.
Wanted == IF op.step = "RELEASE" THEN op.rec.prior ELSE HoldPause(op.at)

\* windows.py, end_first: the window moves later, by no more than half a day.
EndFirst(old, new) == (new - old) % HoldDay \in 1..(HoldDay \div 2)

\* The writes of apply_battery_pause in order.  Ending a pause writes the mode only.
PauseWrites(p) ==
    LET start == <<"start", p.start>>
        end == <<"end", p.end>>
    IN
    (IF p.mode = "OFF" THEN <<>>
     ELSE IF EndFirst(inverter.start, p.start) THEN <<end, start>> ELSE <<start, end>>)
    \o << <<"mode", p.mode>> >>

\* apply_battery_pause up to its first write.  REFUSED when an entity is missing or the window
\* is empty.
Refuses(p) == ~facts.reachable \/ (p.mode # "OFF" /\ p.start = p.end)

Apply ==
    /\ op.stage = "apply"
    /\ op' = IF Refuses(Wanted) THEN [op EXCEPT !.stage = "refused"]
             ELSE [op EXCEPT !.stage = "write", !.todo = PauseWrites(Wanted)]
    /\ UNCHANGED <<inverter, users, up, record, store, cooling, off_since, time, facts>>

\* A truthy write: on to the next one.
Onward == op' = [op EXCEPT !.todo = Tail(@), !.stage = IF Len(op.todo) = 1 THEN "taken" ELSE @]
Stop == op' = [op EXCEPT !.stage = "refused"]
Faulty(kind) == <<op.step, kind>> \in Faults

\* One write through the verified writer.
Write ==
    LET r == op.todo[1][1]
        x == op.todo[1][2]
        Send(value) == inverter' = [inverter EXCEPT ![r] = value]
        Cool(value) == cooling' = [cooling EXCEPT ![r] = value]
    IN
    /\ op.stage = "write"
    /\ \/ /\ inverter[r] = x                                      \* ALREADY_SET
          /\ Onward /\ UNCHANGED <<inverter, cooling>>
       \/ /\ inverter[r] # x /\ cooling[r] = x                    \* COOLDOWN
          /\ Onward /\ UNCHANGED <<inverter, cooling>>
       \/ /\ inverter[r] # x /\ cooling[r] # x
          /\ \/ Send(x) /\ Cool(x) /\ Onward                      \* WRITTEN
             \/ Faulty("lost") /\ Cool(x) /\ Onward /\ UNCHANGED inverter   \* UNCONFIRMED
             \/ Faulty("raised") /\ Cool(NoValue) /\ Stop /\ UNCHANGED inverter      \* FAILED
             \/ Faulty("vanished") /\ Cool(x) /\ Stop                       \* FAILED
                /\ inverter' \in {inverter, [inverter EXCEPT ![r] = x]}
       \/ Faulty("gone") /\ Stop /\ UNCHANGED <<inverter, cooling>>         \* REFUSED
    /\ UNCHANGED <<users, up, record, store, off_since, time, facts>>

\* The end of _start, _renew and _release.  Mutant: a release that was not taken still forgets
\* the record.
ForgetsAnyway(outcome) == outcome \in {"taken", "refused"}
Returned(outcome) == outcome = "taken"

Finish ==
    /\ op.stage \in {"taken", "refused"}
    /\ \/ /\ op.step = "START" /\ op.stage = "taken"
          /\ record' = op.rec /\ UNCHANGED store
       \/ /\ op.step = "START" /\ op.stage = "refused"
          /\ store' = NoValue /\ UNCHANGED record
       \/ /\ op.step = "RENEW" /\ op.stage = "taken"
          /\ record' = op.rec /\ store' = op.rec
       \/ /\ op.step = "RELEASE" /\ Returned(op.stage)
          /\ record' = NoValue /\ store' = NoValue
       \/ /\ op.step = "RENEW" /\ op.stage = "refused"
          /\ UNCHANGED <<record, store>>
       \/ /\ op.step = "RELEASE" /\ ~Returned(op.stage)
          /\ UNCHANGED <<record, store>>
    /\ op' = NoOp
    /\ UNCHANGED <<inverter, users, up, cooling, off_since, time, facts>>

-----------------------------------------------------------------------------
(* Restarts, time and the house                                            *)

Crash ==
    /\ up
    /\ up' = FALSE /\ record' = NoValue /\ op' = NoOp /\ off_since' = NoValue
    /\ cooling' = [r \in Registers |-> NoValue]
    /\ UNCHANGED <<inverter, users, store, time, facts>>

\* async_restore_state.  Mutant: the saved record is not read back.
NotRestored(loaned) == NoValue
Restored(loaned) == loaned

RestartHold ==
    /\ ~up
    /\ up' = TRUE /\ record' = Restored(store)
    /\ UNCHANGED <<inverter, users, store, op, cooling, off_since, time, facts>>

\* The time left of a record that has not run out.
AgedRecord(rec) == IF rec = NoValue \/ rec.left = 0 THEN rec ELSE [rec EXCEPT !.left = @ - 1]

BatteryTick ==
    /\ time' = (time + 1) % HoldDay
    /\ record' = AgedRecord(record) /\ store' = AgedRecord(store)
    /\ op' = [op EXCEPT !.rec = AgedRecord(@)]
    /\ off_since' = IF off_since = NoValue \/ off_since = ReleaseTicks THEN off_since
                    ELSE off_since + 1
    /\ UNCHANGED <<inverter, users, up, cooling, facts>>

CooldownEnds ==
    /\ \E r \in Registers : cooling[r] # NoValue /\ cooling' = [cooling EXCEPT ![r] = NoValue]
    /\ UNCHANGED <<inverter, users, up, record, store, op, off_since, time, facts>>

\* The switch, the car, dry run and the feed.  A car that drains the battery charges.
FactsTurn ==
    /\ \E f \in Toggles : facts' = [facts EXCEPT ![f] = ~@]
    /\ facts'.draining => facts'.charging
    /\ UNCHANGED <<inverter, users, up, record, store, op, cooling, off_since, time>>

\* The user sets a pause, while no hold is under way.
UserSets ==
    /\ record = NoValue /\ store = NoValue /\ op = NoOp
    /\ users' \in UserPauses /\ inverter' = users'
    /\ UNCHANGED <<up, record, store, op, cooling, off_since, time, facts>>

HoldStep == SaveFirst \/ Apply \/ Write \/ Finish
BatteryNext == Run \/ HoldStep \/ Crash \/ RestartHold \/ BatteryTick \/ CooldownEnds \/ FactsTurn \/ UserSets

BatterySpec == BatteryInit /\ [][BatteryNext]_batteryVars

-----------------------------------------------------------------------------
\* Whenever the inverter does something else than what the user asked for, the store holds the
\* user's pause, at every await and with Home Assistant stopped anywhere ("The record goes to
\* the store before the write, so a stop between the two still leaves the pause to write back",
\* battery_hold.py:133).
BorrowedOnRecord ==
    Effective(inverter) # Effective(users) =>
        store # NoValue /\ Effective(store.prior) = Effective(users)

\* A pause that stops charging is left alone (docs/concepts.md:451): whatever was held before
\* the user set it, no write of a hold touches it.
ChargingPauseLeftAlone ==
    users.mode \in {"CHARGE", "BOTH"} => inverter = users

\* The user's pause is never lost to a hold.
UsersPauseIsSafe == BorrowedOnRecord /\ ChargingPauseLeftAlone

\* The hold is the user's pause on loan: see PauseLoan.
Loan == INSTANCE PauseLoan WITH
    Pauses <- {Effective(p) : p \in PauseSetting}, NoNote <- NoValue,
    own <- Effective(users), live <- Effective(inverter),
    note <- IF store = NoValue THEN NoValue ELSE Effective(store.prior)

OnLoan == Loan!Spec

\* "... and writes it back when the hold ends, including after a restart in the middle of a
\* hold" (docs/concepts.md:451): with the switch off or the car gone for good, and Home
\* Assistant and the inverter there, the user's pause comes back for good.
Working == up /\ facts.reachable /\ ~facts.dry_run
HoldEnds ==
    <>[](Working /\ (~facts.enabled \/ ~facts.charging))
        => <>[](Effective(inverter) = Effective(users))
=============================================================================
