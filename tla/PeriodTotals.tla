---------------------------- MODULE PeriodTotals ----------------------------
(***************************************************************************)
(* The totals the coordinator keeps of energy and cost: today, the longer  *)
(* periods, the rows of the bill period and its archive                    *)
(* (accumulation.py), what a cycle books on them (core/engine.py), the     *)
(* guard on the inverter's daily counter (lib/guards/counter.py), the      *)
(* midnight callback, and the saves, stops and starts around them.         *)
(*                                                                         *)
(* Two figures stand for all: `cost`, which every period integrates from   *)
(* live power, and `kwh`, the grid energy stored in the battery, which     *)
(* today takes from the AC charge counter and the longer periods take from *)
(* its rise.  A tick is the time between two cycles.                       *)
(***************************************************************************)
EXTENDS Integers, Sequences

CONSTANTS
    DayLen, LastDay, \* the ticks of a day, and the last day of this instance
    BillPeriods,        \* the longer periods; "month" is the bill period
    Starts,         \* the days on which each of them starts
    MaxGap,         \* the longest step that is booked, one hour
    SaveEvery,      \* a save every tenth cycle
    DayMax,         \* largest_day_kwh
    Rate, Floor,    \* allowed_rise_kwh: Rate for each tick, and Floor
    UnitMin, UnitRatio, \* COUNTER_UNIT_CHANGE_MIN_KWH, COUNTER_UNIT_CHANGE_RATIO
    Spikes,         \* what the counter may read instead of what it counted
    SpikesAtRestart, \* a spike may come first after a start, and be what a stop finds or keeps
    StopAtMidnight, \* a stop may keep what a cycle saw after midnight without the reset
    StaleStart,     \* Home Assistant may start while the counter still shows yesterday
    WaitsOverMidnight, \* a cycle may wait for the cheap rate floor's write over midnight
    MaxRestarts,    \* bound on Stop
    None

Days == 0..LastDay
DayOf(t) == t \div DayLen

ASSUME TotalsAssumption ==
    /\ {DayLen, SaveEvery, Rate, UnitMin, UnitRatio, MaxGap} \subseteq Nat \ {0}
    /\ {LastDay, Floor, DayMax, MaxRestarts} \subseteq Nat /\ Spikes \subseteq Nat
    /\ "month" \in BillPeriods /\ Starts \in [BillPeriods -> SUBSET Days]
    /\ {SpikesAtRestart, StopAtMidnight, StaleStart, WaitsOverMidnight} \subseteq BOOLEAN
    /\ None \notin Nat /\ None \notin [kwh: Nat, at: Nat]

VARIABLES
    clock,
    power,          \* the power that flowed in the tick that ended
    counter,        \* the inverter's daily counter
    lagging,        \* its reset of today has not come yet
    delivered,      \* history: all the energy there ever was
    alive,
    acc,            \* AccumulationStore.state
    stored,         \* the same, in the store
    trust,         \* CounterMemory, but for the baseline that is saved
    last,           \* _last_update
    awaiting,       \* a cycle that waits for the floor: its time
    midnight,       \* the midnight callback is due
    queued,         \* a save is under way
    count,          \* _update_cycle
    cycled,         \* the cycle of this tick has run
    restarts

totalsVars == <<clock, power, counter, lagging, delivered, alive, acc, stored, trust, last, awaiting,
          midnight, queued, count, cycled, restarts>>

Total == [cost: Nat, kwh: Nat]
Row == [day: Days, cost: Nat, kwh: Nat]
CounterReading == [kwh: Nat, at: Nat]
Empty == [cost |-> 0, kwh |-> 0]
Forgotten == [reading |-> None, trusted |-> None, distrusted |-> FALSE]

State == [today: Total, long: [BillPeriods -> Total], rows: Seq(Row),
          archive: Seq([rows: Seq(Row), cost: Nat]),
          last_reset: Days,
          baseline: Nat,          \* CounterMemory.ac_charge_kwh
          spent: [Days -> Nat],   \* history: the cost of the steps that began on each day
          booked: Nat]            \* history: the rises the longer periods took

TotalsTypeOK ==
    /\ clock \in 0..(DayLen * (LastDay + 1) - 1)
    /\ power \in {0, 1} /\ counter \in Nat /\ delivered \in Nat
    /\ {lagging, alive, midnight, queued, cycled} \subseteq BOOLEAN
    /\ acc \in State /\ stored \in State
    /\ trust \in [reading: CounterReading \cup {None}, trusted: CounterReading \cup {None},
                   distrusted: BOOLEAN]
    /\ last \in Nat \cup {None} /\ awaiting \in Nat \cup {None}
    /\ count \in 0..(SaveEvery - 1) /\ restarts \in 0..MaxRestarts

TotalsInit ==
    /\ clock = 0 /\ power = 0 /\ counter = 0 /\ lagging = FALSE /\ delivered = 0 /\ alive = TRUE
    /\ acc = [today |-> Empty, long |-> [p \in BillPeriods |-> Empty], rows |-> <<>>,
              archive |-> <<>>, last_reset |-> 0, baseline |-> 0,
              spent |-> [d \in Days |-> 0], booked |-> 0]
    /\ stored = acc /\ trust = Forgotten /\ last = None /\ awaiting = None
    /\ midnight = FALSE /\ queued = FALSE /\ count = 0 /\ cycled = FALSE /\ restarts = 0

-----------------------------------------------------------------------------
(* lib/guards/counter.py                                                   *)

Allowed(elapsed) == Rate * elapsed + Floor

\* The reading before this one, in memory or as saved, where 0 is none, and the time since.
Previous == IF trust.reading # None THEN trust.reading.kwh
            ELSE IF acc.baseline > 0 THEN acc.baseline ELSE None
Elapsed == IF trust.reading # None THEN clock - trust.reading.at ELSE None

\* A counter that fell has been reset.
Fell(r) == Previous # None /\ r < Previous
Rise(r) == IF Previous = None \/ Fell(r) THEN r ELSE r - Previous

\* _is_unit_step
UnitStep(r) == Previous >= UnitMin /\ r >= Previous * UnitRatio

\* judge: whether the reading could be energy.
Judged(r) ==
    /\ r <= DayMax
    /\ Previous # None => /\ Elapsed # None => Rise(r) <= Allowed(Elapsed)
                          /\ ~Fell(r) => ~UnitStep(r)

\* _recovery: a counter that spiked and is back where it was.
Recovered(r) ==
    /\ trust.distrusted /\ Fell(r) /\ trust.trusted # None
    /\ r >= trust.trusted.kwh
    /\ r - trust.trusted.kwh <= Allowed(clock - trust.trusted.at)

\* _trust, and what it leaves in the memory.
Distrusted(r) ==
    ~Recovered(r) /\ (~Judged(r) \/ (trust.distrusted /\ ~Fell(r)))
Booked(r) ==
    IF r = None \/ Distrusted(r) THEN 0
    ELSE IF Recovered(r) THEN r - trust.trusted.kwh ELSE Rise(r)
Remembered(r) ==
    IF r = None THEN trust
    ELSE [reading |-> [kwh |-> r, at |-> clock],
          trusted |-> IF Distrusted(r) THEN trust.trusted ELSE [kwh |-> r, at |-> clock],
          distrusted |-> Distrusted(r)]

-----------------------------------------------------------------------------
(* What a cycle books                                                      *)

\* _usable_elapsed_hours, times the power read now.
StepCost == IF last = None \/ clock - last > MaxGap THEN 0 ELSE (clock - last) * power

\* _apply_daily_counters: today takes the counter, unless it is not to be trusted.
TodayKwh(r) ==
    LET bad == IF r = None THEN trust.distrusted ELSE Distrusted(r)
    IN IF bad THEN acc.today.kwh ELSE IF r = None THEN 0 ELSE r

\* _accumulate_energy_today and _carry_grid_to_battery for the reading r, None when the counter
\* is missing.
Accumulate(r) ==
    [acc EXCEPT
       !.today = [cost |-> @.cost + StepCost, kwh |-> TodayKwh(r)],
       !.long = [p \in BillPeriods |-> [cost |-> @[p].cost + StepCost, kwh |-> @[p].kwh + Booked(r)]],
       !.baseline = IF r = None THEN @ ELSE r,
       !.spent = [d \in Days |-> IF last # None /\ d = DayOf(last) THEN @[d] + StepCost ELSE @[d]],
       !.booked = @ + Booked(r)]

\* _begin_cycle.
Counted ==
    /\ cycled' = TRUE
    /\ count' = (count + 1) % SaveEvery
    /\ queued' = (queued \/ count' = 0)

Readings ==
    {counter, None} \cup {s \in Spikes : s > counter /\ (SpikesAtRestart \/ trust.trusted # None)}

\* _async_update_data.  Until the floor's write has returned the cycle is not remembered.
TotalsCycle ==
    /\ alive /\ ~cycled /\ awaiting = None
    /\ \E r \in Readings : acc' = Accumulate(r) /\ trust' = Remembered(r)
    /\ \/ last' = clock /\ awaiting' = None
       \/ awaiting' = clock /\ last' = last
    /\ Counted
    /\ UNCHANGED <<clock, power, counter, lagging, delivered, alive, stored, midnight, restarts>>

\* _remember_cycle
Resume ==
    /\ awaiting # None
    /\ last' = awaiting /\ awaiting' = None
    /\ UNCHANGED <<clock, power, counter, lagging, delivered, alive, acc, stored, trust, midnight,
                   queued, count, cycled, restarts>>

\* A cycle that finds the feed silent, or frozen, which ends the step.
CycleFails ==
    /\ alive /\ ~cycled /\ awaiting = None
    /\ last' \in {last, None}
    /\ Counted
    /\ UNCHANGED <<clock, power, counter, lagging, delivered, alive, acc, stored, trust, awaiting,
                   midnight, restarts>>

-----------------------------------------------------------------------------
(* Midnight                                                                *)

\* _record_bill_day: a day with nothing on it leaves no row.
WithRow(a, d) ==
    IF a.today = Empty THEN a.rows
    ELSE Append(a.rows, [day |-> d, cost |-> a.today.cost, kwh |-> a.today.kwh])

\* on_midnight for the day d that starts.  Mutant: the bill period is archived before the
\* day that ended is in it.
ArchivesFirst(a, d) ==
    LET closes == d \in Starts["month"]
    IN [a EXCEPT
          !.today = Empty, !.last_reset = d,
          !.archive = IF closes THEN Append(@, [rows |-> a.rows, cost |-> a.long["month"].cost]) ELSE @,
          !.rows = IF closes THEN WithRow([a EXCEPT !.rows = <<>>], d - 1) ELSE WithRow(a, d - 1),
          !.long = [p \in BillPeriods |-> IF d \in Starts[p] THEN Empty ELSE @[p]]]
OnMidnight(a, d) ==
    LET rows == WithRow(a, d - 1)
        closes == d \in Starts["month"]
    IN [a EXCEPT
          !.today = Empty, !.last_reset = d,
          !.archive = IF closes THEN Append(@, [rows |-> rows, cost |-> a.long["month"].cost]) ELSE @,
          !.rows = IF closes THEN <<>> ELSE rows,
          !.long = [p \in BillPeriods |-> IF d \in Starts[p] THEN Empty ELSE @[p]]]

\* roll_forward: every midnight missed since the last reset, and then no counter is remembered.
RollForward(a, d) ==
    LET rolled[k \in a.last_reset..d] == IF k = a.last_reset THEN a ELSE OnMidnight(rolled[k - 1], k)
    IN IF d = a.last_reset THEN a ELSE [rolled[d] EXCEPT !.baseline = 0]

\* _midnight_reset, and the save it starts.
StepEnds == None
MidnightReset ==
    /\ midnight /\ midnight' = FALSE
    /\ acc' = OnMidnight(acc, DayOf(clock))
    /\ last' = StepEnds
    /\ UNCHANGED trust
    /\ queued' = TRUE
    /\ UNCHANGED <<clock, power, counter, lagging, delivered, alive, stored, awaiting, count, cycled,
                   restarts>>

-----------------------------------------------------------------------------
(* Time, the inverter, and Home Assistant                                  *)

\* The 15 seconds of schedule_save, or the task of async_save.
Saved ==
    /\ queued /\ queued' = FALSE
    /\ stored' = acc
    /\ UNCHANGED <<clock, power, counter, lagging, delivered, alive, acc, trust, last, awaiting,
                   midnight, count, cycled, restarts>>

\* A tick of power.  A day of the inverter's own clock may begin a tick late, and then the
\* counter still shows yesterday.
TotalsTick ==
    /\ clock + 1 < DayLen * (LastDay + 1)
    /\ ~midnight /\ ~queued
    /\ awaiting # None => /\ clock - awaiting < MaxGap
                          /\ WaitsOverMidnight \/ DayOf(clock + 1) = DayOf(awaiting)
    /\ clock' = clock + 1 /\ power' \in {0, 1} /\ delivered' = delivered + power'
    /\ LET turns == DayOf(clock') # DayOf(clock)
       IN /\ lagging' \in (IF turns THEN BOOLEAN ELSE {FALSE})
          /\ counter' = IF lagging \/ (turns /\ ~lagging') THEN power' ELSE counter + power'
          /\ midnight' = (turns /\ alive)
    /\ cycled' = FALSE
    /\ UNCHANGED <<alive, acc, stored, trust, last, awaiting, queued, count, restarts>>

\* Home Assistant stops: _queue_final_write and async_flush save what there is, a crash leaves
\* the last save.
StopTotals ==
    /\ alive /\ alive' = FALSE
    /\ restarts < MaxRestarts /\ restarts' = restarts + 1
    /\ stored' \in {stored, acc}
    /\ SpikesAtRestart \/ (~trust.distrusted /\ stored'.baseline \notin Spikes)
    /\ StopAtMidnight \/ ~cycled \/ stored'.last_reset = DayOf(clock)
    /\ trust' = Forgotten /\ last' = None /\ awaiting' = None
    /\ midnight' = FALSE /\ queued' = FALSE /\ count' = 0
    /\ acc' = stored'
    /\ UNCHANGED <<clock, power, counter, lagging, delivered, cycled>>

\* async_restore_state
Start ==
    /\ ~alive /\ alive' = TRUE
    /\ StaleStart \/ ~lagging
    /\ acc' = RollForward(stored, DayOf(clock)) /\ stored' = acc'
    /\ UNCHANGED <<clock, power, counter, lagging, delivered, trust, last, awaiting, midnight,
                   queued, count, cycled, restarts>>

TotalsNext ==
    \/ TotalsCycle \/ Resume \/ CycleFails \/ MidnightReset
    \/ Saved \/ TotalsTick \/ StopTotals \/ Start

TotalsSpec == TotalsInit /\ [][TotalsNext]_totalsVars

-----------------------------------------------------------------------------
(* Properties                                                              *)

CostOf(rows) ==
    LET upTo[i \in 0..Len(rows)] == IF i = 0 THEN 0 ELSE upTo[i - 1] + rows[i].cost
    IN upTo[Len(rows)]

\* The bill audit adds up to the bill: the rows of the bill period and today make its total, and
\* each archived period holds the days that made it, whatever stops and starts fall between.
BillAddsUp(a) ==
    /\ a.long["month"].cost = CostOf(a.rows) + a.today.cost
    /\ \A i \in DOMAIN a.archive : a.archive[i].cost = CostOf(a.archive[i].rows)

\* The rows of each archived period, and of this one.
RowLists(a) == Append([i \in DOMAIN a.archive |-> a.archive[i].rows], a.rows)

\* Every day keeps its own energy: its row, or today's total, holds the cost of the steps that
\* began on it, and no day has two rows, in one bill period or in several.
DaysKeepTheirEnergy(a) ==
    LET lists == RowLists(a)
    IN /\ a.spent[a.last_reset] = a.today.cost
       /\ \A l \in DOMAIN lists : \A i \in DOMAIN lists[l] : a.spent[lists[l][i].day] = lists[l][i].cost
       /\ \A d \in Days \ {a.last_reset} :
            a.spent[d] = 0 \/ \E l \in DOMAIN lists : \E i \in DOMAIN lists[l] : lists[l][i].day = d
       /\ \A l, m \in DOMAIN lists : \A i \in DOMAIN lists[l], j \in DOMAIN lists[m] :
            l < m \/ (l = m /\ i < j) => lists[l][i].day < lists[m][j].day

\* "The week, month and year each add the counter's rise since the last reading, so a midnight
\* reset or a restart does not lose or repeat energy" (docs/concepts.md:92): what they took never
\* exceeds what was delivered.
NothingRepeated == acc.booked <= delivered

\* The three together, whatever stops, starts and midnights fall between two cycles.
TotalsAreSound == BillAddsUp(acc) /\ DaysKeepTheirEnergy(acc) /\ NothingRepeated
=============================================================================
