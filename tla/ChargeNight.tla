----------------------------- MODULE ChargeNight -----------------------------
(***************************************************************************)
(* One night of the coordinator's charge plan: the write at the trigger,   *)
(* its retries and the catch-up after a restart (core/charge_retry.py),    *)
(* the re-plans (core/replan.py), the setting back once the window has     *)
(* closed (core/window_settle.py), the window guard (core/window_guard.py) *)
(* and the cheap rate floor, with the cycle that drives them.              *)
(*                                                                         *)
(* A tick is a few minutes.  A task writes one setting per step, and other *)
(* callbacks run between two steps.  A verified write is one step here:    *)
(* module Writer shows what it promises.  The window's start and the       *)
(* schedule switch never change, so they are part of the window's step.    *)
(* The tariff has timed periods and every entity is configured.            *)
(***************************************************************************)
EXTENDS Integers, FiniteSetsExt

CONSTANTS
    TriggerAt, StartAt, \* the trigger and the start of the cheap window
    CheapEnd,       \* the end of the cheapest period
    Last,           \* the last tick of this instance
    Midnight,       \* the tick that starts a new day
    RetryOffsets,   \* CHARGE_WRITE_RETRY_OFFSETS_MIN
    StopBefore,     \* CHARGE_WRITE_RETRY_STOP_BEFORE_END_MIN
    ReplanMax,      \* REPLAN_MAX_WRITES; 0 is the re-plan switch turned off
    LateAfter, LateBefore, \* REPLAN_LATE_CHECK_AFTER_MIN, REPLAN_LATE_CHECK_BEFORE_END_MIN
    RemainMin,      \* REPLAN_MIN_REMAINING_MIN
    MinChange,      \* REPLAN_MIN_CHANGE_PTS
    SettleMax,      \* SETTLE_MAX_TRIES
    Gap,            \* SETTLE_RETRY_GAP and the guard's spacing, both five minutes
    Full,           \* the 100% target, which goes with the charge target switched off
    FloorTarget,    \* CONF_CHEAP_RATE_FLOOR_SOC; 0 is off
    Plans,          \* the decisions a cycle may reach: [target, end, skip, basis]
    Edits,          \* the window ends someone else may write
    Faults,         \* <<kind of task, fault>>: what may go wrong
    Toggles,        \* which of "override", "dry" and "frozen" change in this instance
    Stops,          \* how Home Assistant may stop: "orderly", "crash"
    LongOutages,    \* Home Assistant may stay down for ticks
    HealBy,         \* the tick from which nothing goes wrong any more
    MaxEdits, MaxRestarts, \* bounds on Edit and on Stop
    None

Times == 0..Last
Targets == 0..Full
Settings == {"end", "target", "limit"}
Jobs == {"night", "change", "repair", "floor"}
Kinds == {"night", "replan", "settle", "repair", "floor"}
Plan == [target: Targets, end: Times, skip: BOOLEAN, basis: Nat]

ASSUME NightAssumption ==
    /\ Last \in Nat /\ TriggerAt \in Nat /\ StartAt \in Nat /\ CheapEnd \in Nat
    /\ TriggerAt < StartAt /\ StartAt < CheapEnd /\ CheapEnd <= Last
    /\ RetryOffsets \subseteq Nat \ {0} /\ StopBefore \in Nat \ {0}
    /\ {ReplanMax, LateAfter, LateBefore, RemainMin, Midnight, HealBy} \subseteq Nat
    /\ {MinChange, SettleMax, Gap, Full} \subseteq Nat \ {0}
    /\ FloorTarget \in Targets /\ MaxEdits \in Nat /\ MaxRestarts \in Nat
    /\ Plans \subseteq Plan /\ \A p \in Plans : StartAt < p.end
    /\ Edits \subseteq Times /\ Faults \subseteq Kinds \X {"lost", "failed"}
    /\ Toggles \subseteq {"override", "dry", "frozen"} /\ Stops \subseteq {"orderly", "crash"}
    /\ LongOutages \in BOOLEAN
    /\ None \notin Plan /\ None \notin Times

VARIABLES
    now,
    inverter,       \* slot 1's end, the target, and the charge target switch
    mode,           \* "down", "boot" (up to the end of the first refresh), "running"
    fired,          \* the listener has fired
    data,           \* self.data: the last cycle's decision and window, or None
    frozen,         \* _givtcp_frozen or _givtcp_not_answering
    cycle,          \* a cycle that awaits the floor's writes: its decision
    cycled,         \* a cycle has run in this tick
    night,          \* self._night
    retry,          \* the timer and _retry_attempt: [at, closes], or None
    jobs,           \* the write tasks under way
    tried,          \* _window_guard.last_try
    topped,         \* _floor_top_up_applied
    log,            \* the write log, as far as the decisions read it
    saved,          \* the log in the store
    world,          \* [override, dry]
    replanned,      \* history: the re-plans started this night
    edits, restarts \* how often Edit and each kind of Stop happened

vars == <<now, inverter, mode, fired, data, frozen, cycle, cycled, night, retry, jobs,
          tried, topped, log, saved, world, replanned, edits, restarts>>

Idle == [stage |-> "idle", kind |-> "night", plan |-> None, failed |-> FALSE,
         closes |-> None, old |-> FALSE]
Job == [stage: {"window", "target", "limit"}, kind: Kinds, plan: Plan, failed: BOOLEAN,
        closes: Times \cup {None}, old: BOOLEAN]

\* The log of this night: whether the manager wrote the target, whether a retry note or a
\* write came last, the re-plan notes, and today's repair notes.
Log == [wrote: BOOLEAN, last: {"none", "write", "retry"}, replans: Nat, repairs: Nat]
NightState == [closes: Times, end: Times, target: Targets, skip: BOOLEAN, basis: Nat,
               replans: Nat, late: BOOLEAN, tries: Nat, last: Times \cup {None}]
Retry == [at: Nat, closes: Times]

ASSUME NoneAssumption == None \notin NightState \cup Retry

TypeOK ==
    /\ now \in Times /\ mode \in {"down", "boot", "running"}
    /\ inverter \in [end: Times, target: Targets, limit: BOOLEAN]
    /\ {fired, frozen, cycled, topped} \subseteq BOOLEAN
    /\ data \in Plan \cup {None} /\ cycle \in Plan \cup {None}
    /\ night \in NightState \cup {None}
    /\ retry \in Retry \cup {None}
    /\ jobs \in [Jobs -> Job \cup {Idle}]
    /\ tried \in Times \cup {None}
    /\ log \in Log /\ saved \in Log
    /\ world \in [override: BOOLEAN, dry: BOOLEAN]
    /\ replanned \in Nat /\ edits \in 0..MaxEdits
    /\ restarts \in [{"orderly", "crash"} -> 0..MaxRestarts]

Up == mode # "down"
Busy(j) == jobs[j] # Idle

NoLog == [wrote |-> FALSE, last |-> "none", replans |-> 0, repairs |-> 0]

Init ==
    /\ now = 0 /\ mode = "running" /\ fired = FALSE
    /\ inverter = [end |-> CheapEnd, target |-> 0, limit |-> FALSE]
    /\ data \in Plans /\ frozen = FALSE /\ cycle = None /\ cycled = FALSE
    /\ night = None /\ retry = None /\ jobs = [j \in Jobs |-> Idle]
    /\ tried = None /\ topped = FALSE /\ log = NoLog /\ saved = NoLog
    /\ world = [override |-> FALSE, dry |-> FALSE]
    /\ replanned = 0 /\ edits = 0 /\ restarts = [s \in {"orderly", "crash"} |-> 0]

-----------------------------------------------------------------------------
(* core/charge_retry.py and the night's write                              *)

\* _write_window().end: the end of the window planned now.
WindowEnd(d) == IF d = None THEN CheapEnd ELSE d.end

\* Mutant: at the stop margin it is already too late.
RetryTimesStrict(closes) == {t \in {TriggerAt + o : o \in RetryOffsets} : closes - t > StopBefore}
RetryTimes(closes) == {t \in {TriggerAt + o : o \in RetryOffsets} : closes - t >= StopBefore}
NextRetry(closes) ==
    LET later == {t \in RetryTimes(closes) : t > now} IN IF later = {} THEN None ELSE Min(later)

RetryNoted(l) == [l EXCEPT !.last = "retry"]

\* _schedule_charge_retry, with the window the first attempt fixed.
Again(closes, d) ==
    LET c == IF closes = None THEN WindowEnd(d) ELSE closes
        t == NextRetry(c)
    IN IF t = None THEN None ELSE [at |-> t, closes |-> c]

\* _remember_night
Remembered(closes, d, p) ==
    [closes |-> IF closes = None THEN WindowEnd(d) ELSE closes, end |-> p.end,
     target |-> p.target, skip |-> p.skip, basis |-> p.basis,
     replans |-> 0, late |-> FALSE, tries |-> 0, last |-> None]

Started(kind, stage, p, closes) ==
    [stage |-> stage, kind |-> kind, plan |-> p, failed |-> FALSE, closes |-> closes, old |-> FALSE]

\* A skipped night is written into the cheapest period.
NightPlan(d) == IF d.skip THEN [d EXCEPT !.end = CheapEnd] ELSE d

\* _run_charge_write with the decision d, given the tasks js, the log l and the night n so far.
RunChargeWrite(closes, d, js, l, n, isFrozen) ==
    \/ /\ d = None \/ isFrozen
       /\ retry' = Again(closes, d) /\ log' = RetryNoted(l)
       /\ jobs' = js /\ night' = n
    \/ /\ d # None /\ ~isFrozen /\ world.dry
       /\ night' = Remembered(closes, d, NightPlan(d))
       /\ retry' = None /\ jobs' = js /\ log' = l
    \/ /\ d # None /\ ~isFrozen /\ ~world.dry
       /\ jobs' = [js EXCEPT !["night"] = Started("night", "window", NightPlan(d), closes)]
       /\ night' = n /\ retry' = None /\ log' = l

\* _write_charge_target_to_inverter
Trigger ==
    /\ Up /\ now = TriggerAt /\ ~fired
    /\ fired' = TRUE
    /\ RunChargeWrite(None, data, jobs, log, None, frozen)
    /\ UNCHANGED <<now, inverter, mode, data, frozen, cycle, cycled, tried, topped, saved,
                   world, replanned, edits, restarts>>

\* _charge_retry_due
RetryDue ==
    /\ Up /\ retry # None /\ retry.at = now
    /\ RunChargeWrite(retry.closes, data, jobs, log, night, frozen)
    /\ UNCHANGED <<now, inverter, mode, fired, data, frozen, cycle, cycled, tried, topped, saved,
                   world, replanned, edits, restarts>>

\* needs_catch_up
NeedsCatchUp(closes, l) ==
    /\ now > TriggerAt \/ (now = TriggerAt /\ fired)
    /\ closes - now >= StopBefore
    /\ ~l.wrote \/ l.last = "retry"

-----------------------------------------------------------------------------
(* The decisions at the end of a cycle                                     *)

LateAt(n) == Max({TriggerAt + LateAfter, n.closes - LateBefore})
\* Mutant: the re-plans of the log, made before a restart, are not counted.
ReplansRemembered(n, l) == n.replans
ReplansSoFar(n, l) == Max({n.replans, l.replans})

\* _blocked
MayReplan(n, l) ==
    /\ StartAt <= now /\ now < n.closes /\ n.closes - now >= RemainMin
    /\ ~world.override
    /\ ReplansSoFar(n, l) < ReplanMax

LateDue(n) == ~n.late /\ now >= LateAt(n)
Moved(a, b) == a - b >= MinChange \/ b - a >= MinChange

\* decide_replan, for the cycle's own decision d.
ReplanDue(n, d, l) ==
    /\ n # None /\ ~Busy("change") /\ MayReplan(n, l)
    /\ d.basis # n.basis \/ LateDue(n)
    /\ d.skip => n.skip
    /\ Moved(d.target, n.target)

\* needs_settling.  A cycle that got this far has just found the feed live.  Mutant: only the
\* target is compared.
SettleTargetDue(n, d) ==
    /\ n # None /\ ~Busy("change") /\ ~world.override
    /\ now >= n.closes
    /\ n.tries < SettleMax
    /\ n.last # None => now - n.last >= Gap
    /\ n.target # d.target
SettleDue(n, d) ==
    /\ n # None /\ ~Busy("change") /\ ~world.override
    /\ now >= n.closes
    /\ n.tries < SettleMax
    /\ n.last # None => now - n.last >= Gap
    /\ n.end # CheapEnd \/ n.target # d.target

\* decide_repair and the spacing of _maybe_repair_window.  A window is cheap when a plan could
\* have it.  The manager has written before.
CheapEnds == {CheapEnd} \cup {p.end : p \in Plans}
\* Mutant: the last of today's repairs is not made.
RepairDueShort(l) ==
    /\ ~Busy("repair") /\ ~world.override /\ ~world.dry
    /\ inverter.end \notin CheapEnds
    /\ l.repairs + 1 < ReplanMax
    /\ tried # None => now - tried >= Gap
RepairDue(l) ==
    /\ ~Busy("repair") /\ ~world.override /\ ~world.dry
    /\ inverter.end \notin CheapEnds
    /\ l.repairs < ReplanMax
    /\ tried # None => now - tried >= Gap

\* NightState.wrote
Wrote(n, p) == [n EXCEPT !.target = p.target, !.skip = p.skip, !.basis = p.basis,
                         !.replans = @ + 1]

\* The end of _async_settle_write: what was sent is the night now, and settling is over.
SetBack(n, p) == [n EXCEPT !.end = p.end, !.target = p.target, !.tries = SettleMax]

\* What the cycle leaves in the night's state.
NightAfter(n, d, l) ==
    IF n = None THEN n
    ELSE LET late == [n EXCEPT !.late = @ \/ (~Busy("change") /\ MayReplan(n, l) /\ LateDue(n))]
         IN CASE ReplanDue(n, d, l) /\ world.dry -> Wrote(late, d)
              [] SettleDue(n, d) -> [late EXCEPT !.tries = IF world.dry THEN SettleMax ELSE @ + 1,
                                                 !.last = now]
              [] OTHER -> late

\* The tasks the cycle starts.  A re-plan sends the window as written; a repair sends the one
\* planned by the last complete cycle.
JobsAfter(js, d, l) ==
    LET replan == Started("replan", "window", [d EXCEPT !.end = night.end], None)
        settle == Started("settle", "window", [d EXCEPT !.end = CheapEnd], None)
        repair == Started("repair", "window", [d EXCEPT !.end = WindowEnd(data)], None)
    IN [js EXCEPT
          !["change"] = IF world.dry THEN @ ELSE IF ReplanDue(night, d, l) THEN replan
                        ELSE IF SettleDue(night, d) THEN settle ELSE @,
          !["repair"] = IF RepairDue(l) THEN repair ELSE @]

LogAfter(d, l) ==
    [l EXCEPT !.replans = @ + (IF ReplanDue(night, d, l) /\ ~world.dry THEN 1 ELSE 0),
              !.repairs = @ + (IF RepairDue(l) THEN 1 ELSE 0)]

\* The rest of _async_update_data after the floor; the first refresh is followed by
\* async_catch_up_charge_write.
EndCycle(d, js, l) ==
    LET js2 == JobsAfter(js, d, l)
        l2 == LogAfter(d, l)
    IN
    /\ data' = d /\ cycle' = None /\ mode' = "running"
    /\ tried' = IF RepairDue(l) THEN now ELSE tried
    /\ replanned' = replanned + (l2.replans - l.replans)
    /\ IF mode = "boot" /\ NeedsCatchUp(WindowEnd(d), l2)
       THEN RunChargeWrite(WindowEnd(d), d, js2, l2, night, FALSE)
       ELSE /\ night' = NightAfter(night, d, l) /\ retry' = retry
            /\ jobs' = js2 /\ log' = l2

\* _maybe_apply_cheap_rate_floor with a battery below the floor.
FloorDue(low) ==
    /\ low /\ FloorTarget > 0 /\ ~topped /\ ~world.dry
    /\ StartAt <= now /\ now < Max(CheapEnds)

\* One cycle in a tick, and any number in the last, where `cycled` alternates so that fairness
\* asks for a cycle and not for another plan; `low`: the battery is below the floor.
Cycle(d, low) ==
    /\ Up /\ cycle = None /\ (~cycled \/ now = Last)
    /\ cycled' = ~cycled /\ frozen' = FALSE
    /\ IF FloorDue(low)
       THEN /\ cycle' = d
            /\ jobs' = [jobs EXCEPT !["floor"] =
                          Started("floor", "target",
                                  [d EXCEPT !.target = Max({FloorTarget, inverter.target})], None)]
            /\ UNCHANGED <<data, mode, tried, replanned, night, retry, log>>
       ELSE EndCycle(d, jobs, log)
    /\ UNCHANGED <<now, inverter, fired, topped, saved, world, edits, restarts>>

\* _require_inverter_publishing finds the feed frozen, paused or stale.
CycleFails ==
    /\ mode = "running" /\ cycle = None /\ ~cycled
    /\ "frozen" \in Toggles /\ now < HealBy
    /\ cycled' = TRUE /\ frozen' = TRUE
    /\ UNCHANGED <<now, inverter, mode, fired, data, cycle, night, retry, jobs, tried, topped,
                   log, saved, world, replanned, edits, restarts>>

-----------------------------------------------------------------------------
(* The write tasks: apply_charge_plan, apply_charge_window, apply_floor_target *)

\* A write the inverter does not hold yet may be lost, and any may be refused or raise.
FaultsOf(j, s, v) ==
    {"none"} \cup {f \in {"lost", "failed"} :
                     /\ <<jobs[j].kind, f>> \in Faults /\ now < HealBy
                     /\ f = "lost" => inverter[s] # v}

Sent(s, v, fault) == IF fault = "none" THEN [inverter EXCEPT ![s] = v] ELSE inverter

\* Every target write that was sent is logged as one, also one that was lost.
TargetLogged(v, fault) ==
    IF inverter.target # v /\ fault # "failed"
    THEN [log EXCEPT !.wrote = TRUE, !.last = "write"] ELSE log

Holds(inv, p) ==
    inv.end = p.end /\ inv.target = p.target /\ inv.limit = (p.target < Full)

\* The rest of the task once its writes are over: _async_charge_write, _async_replan_write,
\* _async_settle_write, and the cycle after apply_floor_target.
Finish(j, ok, l) ==
    LET job == jobs[j]
        js == [jobs EXCEPT ![j] = Idle]
    IN
    \/ /\ j = "night" /\ jobs' = js
       /\ IF ok THEN night' = Remembered(job.closes, data, job.plan) /\ retry' = retry /\ log' = l
          ELSE night' = night /\ retry' = Again(job.closes, data) /\ log' = RetryNoted(l)
       /\ UNCHANGED <<data, cycle, mode, tried, replanned, topped>>
    \/ /\ j = "change" /\ jobs' = js /\ log' = l
       /\ night' = IF ~ok THEN night
                   ELSE IF job.kind = "replan" THEN Wrote(night, job.plan)
                   ELSE SetBack(night, job.plan)
       /\ UNCHANGED <<data, cycle, mode, tried, replanned, topped, retry>>
    \/ /\ j = "repair" /\ jobs' = js /\ log' = l
       /\ UNCHANGED <<data, cycle, mode, tried, replanned, topped, retry, night>>
    \/ /\ j = "floor" /\ topped' = (topped \/ ok)
       /\ EndCycle(cycle, js, l)

Onward(j, stage, fault) ==
    /\ jobs' = [jobs EXCEPT ![j].stage = stage, ![j].failed = @ \/ fault = "failed"]
    /\ UNCHANGED <<data, cycle, mode, tried, replanned, topped, retry, night>>

WriteWindow(j) ==
    /\ jobs[j].stage = "window"
    /\ \E f \in FaultsOf(j, "end", jobs[j].plan.end) :
         /\ inverter' = Sent("end", jobs[j].plan.end, f)
         /\ IF j = "repair" THEN Finish(j, TRUE, log)
            ELSE Onward(j, "target", f) /\ log' = log
    /\ UNCHANGED <<now, fired, frozen, cycled, saved, world, edits, restarts>>

\* A target that could not be written ends the task before the switch, except one of 100%.
WriteTarget(j) ==
    /\ jobs[j].stage = "target"
    /\ LET t == jobs[j].plan.target IN
       \E f \in FaultsOf(j, "target", t) :
         /\ inverter' = Sent("target", t, f)
         /\ IF f = "failed" /\ (t < Full \/ j = "floor") THEN Finish(j, FALSE, log)
            ELSE Onward(j, "limit", f) /\ log' = TargetLogged(t, f)
    /\ UNCHANGED <<now, fired, frozen, cycled, saved, world, edits, restarts>>

\* A plan is in force when no write failed and every setting holds its value at the end
\* (_not_confirmed).  Mutant: a write that was sent counts as taken.
SentIsTaken(inv, p, job) == ~job.failed
InForce(inv, p, job) == ~job.failed /\ Holds(inv, p)

WriteLimit(j) ==
    /\ jobs[j].stage = "limit"
    /\ LET p == jobs[j].plan
           wanted == j = "floor" \/ p.target < Full
       IN \E f \in FaultsOf(j, "limit", wanted) :
            /\ inverter' = Sent("limit", wanted, f)
            /\ Finish(j, f # "failed" /\ (j = "floor" \/ InForce(inverter', p, jobs[j])), log)
    /\ UNCHANGED <<now, fired, frozen, cycled, saved, world, edits, restarts>>

-----------------------------------------------------------------------------
(* Time, the user, and Home Assistant                                      *)

Dated(l) == IF now + 1 = Midnight THEN [l EXCEPT !.repairs = 0] ELSE l

\* Timers fire on time, a cycle runs in every tick, setup and the write tasks take less than a
\* tick, and so does the delay of a save.  Midnight comes with _midnight_reset.
Tick ==
    /\ now < Last
    /\ mode = "running" \/ (mode = "down" /\ LongOutages)
    /\ ~(Up /\ now = TriggerAt /\ ~fired)
    /\ retry # None => retry.at > now
    /\ Up => cycled
    /\ \A j \in Jobs : ~jobs[j].old
    /\ now' = now + 1
    /\ cycled' = (cycle # None)
    /\ jobs' = [j \in Jobs |-> IF Busy(j) THEN [jobs[j] EXCEPT !.old = TRUE] ELSE Idle]
    /\ log' = Dated(log)
    /\ saved' = Dated(IF Up THEN log ELSE saved)
    /\ topped' = (topped /\ now + 1 # Midnight)
    /\ UNCHANGED <<inverter, mode, fired, data, frozen, cycle, night, retry, tried, world,
                   replanned, edits, restarts>>

Edit ==
    /\ edits < MaxEdits /\ edits' = edits + 1
    /\ \E e \in Edits \ {inverter.end} : inverter' = [inverter EXCEPT !.end = e]
    /\ UNCHANGED <<now, mode, fired, data, frozen, cycle, cycled, night, retry, jobs, tried,
                   topped, log, saved, world, replanned, restarts>>

\* The owner's overrides, and dry run.
Toggle ==
    /\ \E w \in Toggles \cap {"override", "dry"} : world' = [world EXCEPT ![w] = ~@]
    /\ now < HealBy
    /\ UNCHANGED <<now, inverter, mode, fired, data, frozen, cycle, cycled, night, retry, jobs,
                   tried, topped, log, saved, replanned, edits, restarts>>

\* Home Assistant stops.  An orderly stop saves the log; a crash leaves the last save.  Nothing
\* else of the night is stored; the charge target's override switch is, the skip override's is not.
Stop ==
    /\ Up /\ restarts["orderly"] + restarts["crash"] < MaxRestarts
    /\ mode' = "down"
    /\ \E s \in Stops : /\ restarts' = [restarts EXCEPT ![s] = @ + 1]
                      /\ saved' = IF s = "orderly" THEN log ELSE saved
    /\ log' = saved'
    /\ data' = None /\ frozen' = FALSE /\ cycle' = None /\ cycled' = FALSE
    /\ night' = None /\ retry' = None /\ jobs' = [j \in Jobs |-> Idle]
    /\ tried' = None /\ topped' = FALSE
    /\ world' \in {world, [world EXCEPT !.override = FALSE]}
    /\ UNCHANGED <<now, inverter, fired, replanned, edits>>

Start ==
    /\ mode = "down" /\ mode' = "boot"
    /\ UNCHANGED <<now, inverter, fired, data, frozen, cycle, cycled, night, retry, jobs, tried,
                   topped, log, saved, world, replanned, edits, restarts>>

AnyCycle == \E d \in Plans, low \in BOOLEAN : Cycle(d, low)
Write(j) == WriteWindow(j) \/ WriteTarget(j) \/ WriteLimit(j)

\* A night Home Assistant runs through, with its modes left alone.
Undisturbed ==
    \/ Trigger \/ RetryDue \/ AnyCycle \/ CycleFails
    \/ \E j \in Jobs : Write(j)
    \/ Tick \/ Edit

Next == Undisturbed \/ Toggle \/ Stop \/ Start

Spec == Init /\ [][Next]_vars

-----------------------------------------------------------------------------
(* Properties                                                              *)

\* The night's write, its pending retry and the remembered night exclude each other, and a
\* re-plan or a setting back runs only for a remembered night: of the tasks that write the whole
\* plan, one is under way at a time.
OnePlanAtATime ==
    /\ retry # None => ~Busy("night") /\ night = None
    /\ Busy("night") => night = None
    /\ Busy("change") => night # None

\* While nobody else writes and no task is under way, the inverter holds the remembered night,
\* setting by setting: what re-plans and settling compare with is true.
NightIsOnInverter ==
    (edits = 0 /\ night # None /\ (\A j \in Jobs : ~Busy(j))) =>
        Holds(inverter, [end |-> night.end, target |-> night.target])

\* No more re-plans are sent in a night than REPLAN_MAX_WRITES, whatever orderly restarts fall
\* into it; a crash, which may lose the last note, costs one more at most.
ReplansBounded == replanned <= ReplanMax + restarts["crash"]

\* Both, over every stop, crash, outage and switched option.
NightIsOrderly == OnePlanAtATime /\ ReplansBounded

\* The target on the inverter is never lowered by the cheap rate floor.
FloorOnlyRaises ==
    [][(jobs["floor"].stage = "target" /\ jobs'["floor"].stage = "limit")
       => inverter'.target >= inverter.target]_vars

\* Setting back starts only once the window that was written has closed.
SettlesAfterWrittenWindow ==
    [][(~Busy("change") /\ jobs'["change"].kind = "settle") => now >= night.end]_vars

\* An inverter that answers again before the last retry gets the night's plan, if nobody else
\* moves its window.
NightWritten == <>(night # None \/ edits > 0)

\* Once the window has closed slot 1 goes back to the cheapest period and stays there, unless
\* someone else moves it.
SettledBack == [](edits = 0) => <>[](inverter.end = CheapEnd)

\* A window moved past the cheap hours is put back.
Repaired == <>[](inverter.end \in CheapEnds)

\* The event loop runs what is due, and Home Assistant is started again.
FairSpec ==
    /\ Init /\ [][Undisturbed]_vars
    /\ WF_vars(Trigger) /\ WF_vars(RetryDue) /\ WF_vars(AnyCycle)
    /\ \A j \in Jobs : WF_vars(Write(j))
    /\ WF_vars(Tick)
=============================================================================
