------------------------------ MODULE SlotHistory ------------------------------
(***************************************************************************)
(* The half-hourly energy history: what a cycle's readings become          *)
(* (core/slot_sampler.py), the slots of each local day they are booked in  *)
(* (lib/tariff/slots.py, slot_history.py) and their store (slot_store.py), *)
(* over missed cycles, missing counters, midnight, a clock that goes back, *)
(* a restart and a crash.                                                  *)
(*                                                                         *)
(* Time is counted in real ticks; a day is named by the tick of its        *)
(* midnight, and its length is what the next midnight makes it.  One       *)
(* series stands for all of them: a counter of the inverter's with the     *)
(* power that replaces it.  The figures of a day are exact here: the       *)
(* rounding to watt-hours in the store is left out.                        *)
(***************************************************************************)
EXTENDS Integers, FiniteSets, FiniteSetsExt, Functions

CONSTANTS
  SlotLen,      \* ticks in a half hour
  MaxInterval,  \* SLOT_MAX_INTERVAL_SECONDS, in ticks
  Grain,        \* the unit of energy
  KeptDays,     \* SLOT_RETENTION_DAYS
  SlotMidnights,    \* the ticks at which a day starts; the last ends the last day
  ClockBack,    \* the tick at which the clock goes back
  Back,         \* by how much it does
  MaxTroubles,  \* bounds the counters missed, the feeds lost and the stops of a behaviour
  Never         \* no moment, no reading

\* A day has a whole number of half hours on every day, also one on which the clock
\* changes, and the unit of energy is one that a share of an interval divides.
ASSUME SlotAssumption ==
  /\ SlotLen \in Nat \ {0} /\ MaxInterval \in Nat /\ Grain \in Nat
  /\ \A n \in 1..MaxInterval : Grain % n = 0
  /\ SlotMidnights \subseteq Nat
  /\ \E last \in SlotMidnights :
       (\A m \in SlotMidnights : m <= last) /\ (\E m \in SlotMidnights : m < last)
  /\ \A m, n \in SlotMidnights : m <= n => (n - m) % SlotLen = 0
  /\ Never \notin Int

VARIABLES
  tick,         \* now
  running,      \* Home Assistant runs and the history is read
  slotDays,     \* SlotHistory._days
  disk,         \* the store's file
  saveWaits,    \* a delayed save waits
  sampled,      \* SlotSampler._last
  updated,      \* coordinator._last_update
  savedSlot,    \* SlotStore._saved_slot, as the tick it starts at
  troubles      \* how many have been

slotVars == <<tick, running, slotDays, disk, saveWaits, sampled, updated, savedSlot, troubles>>

FirstDay == Min(SlotMidnights)
LastTick == Max(SlotMidnights) - 1
SlotDayOf(t) == Max({m \in SlotMidnights : m <= t})
DayEnd(d) == Min({m \in SlotMidnights : m > d})
SlotsOf(d) == 0..((DayEnd(d) - d) \div SlotLen - 1)
SlotAt(t) == (t - SlotDayOf(t)) \div SlotLen
SlotTicks(d, i) == (d + i * SlotLen)..(d + (i + 1) * SlotLen - 1)

\* Two local times are compared by what the clock shows.
Shown(t) == IF t < ClockBack THEN t ELSE t - Back

\* What is used in a tick: amounts that differ from one to the next.
Use(t) == Grain * (1 + (t % 3))
UsedIn(T) == MapThenSumSet(Use, T)
MeterAt(t) == UsedIn(SlotDayOf(t)..(t - 1))

(* ------------------------------- the days ------------------------------- *)

\* metered, guess and seen are history: the ticks booked from the counter, the
\* energy booked from the power, and the ticks booked at all.
BlankDay(d) == [kwh |-> [i \in SlotsOf(d) |-> 0], observed |-> [i \in SlotsOf(d) |-> 0],
                soc |-> [i \in SlotsOf(d) |-> Never], counter |-> Never,
                metered |-> {}, guess |-> 0, seen |-> {}]
WithDay(days, d) == [x \in DOMAIN days \cup {d} |-> IF x \in DOMAIN days THEN days[x] ELSE BlankDay(d)]

\* The energy of an interval goes to each slot by the time the slot has of it.
Shared(piece, d, i) == Cardinality(piece \cap SlotTicks(d, i))
AddTo(day, d, piece, each, fromCounter) ==
  [day EXCEPT !.kwh = [i \in SlotsOf(d) |-> @[i] + each * Shared(piece, d, i)],
              !.observed = [i \in SlotsOf(d) |-> @[i] + Shared(piece, d, i)],
              !.metered = IF fromCounter THEN @ \cup piece ELSE @,
              !.guess = IF fromCounter THEN @ ELSE @ + each * Cardinality(piece),
              !.seen = @ \cup piece]

KeptOf(days, newest) ==
  Restrict(days, {d \in DOMAIN days :
                    Cardinality({m \in SlotMidnights : d < m /\ m <= newest}) < KeptDays})

\* Nothing is booked for a gap. An interval over midnight is split by time, and
\* one over the moment the clock goes back ends, by the clock, before it began.
IsInterval(from, to) == from # Never /\ 0 < to - from /\ to - from <= MaxInterval
Pieces(from, to) == IF Shown(from) < Shown(to) THEN from..(to - 1) ELSE {}

Recorded(days, from, to, each, fromCounter) ==
  LET ticks == Pieces(from, to)
      touched == {SlotDayOf(t) : t \in ticks}
      grown == [d \in DOMAIN days \cup touched |->
                  LET day == WithDay(days, d)[d] IN
                  IF d \in touched
                  THEN AddTo(day, d, {t \in ticks : SlotDayOf(t) = d}, each, fromCounter)
                  ELSE day]
  IN KeptOf(grown, SlotDayOf(to))

RecordedInto(days, from, to, each, fromCounter) ==
  IF IsInterval(from, to) THEN Recorded(days, from, to, each, fromCounter) ELSE days

\* The counter and the charge, noted beside the slots.
Noted(days, t, reading) ==
  LET d == SlotDayOf(t)
      day == WithDay(days, d)[d]
  IN [WithDay(days, d) EXCEPT ![d] =
        [day EXCEPT !.counter = IF reading = Never THEN day.counter ELSE reading,
                    !.soc[SlotAt(t)] = t]]

(* ------------------------------- the cycle ------------------------------ *)

SlotInit ==
  /\ tick = FirstDay
  /\ running = TRUE
  /\ slotDays = <<>>
  /\ disk = <<>>
  /\ saveWaits = FALSE
  /\ sampled = Never
  /\ updated = Never
  /\ savedSlot = Never
  /\ troubles = 0

Troubled == troubles < MaxTroubles /\ troubles' = troubles + 1

\* What Rises would be without the day of the reading.
RisesOverMidnight(reading) ==
  /\ reading # Never
  /\ sampled # Never
  /\ reading >= sampled.value

\* The counter's rise since the last cycle of the day.
Rises(reading) ==
  /\ reading # Never
  /\ sampled # Never
  /\ sampled.day = SlotDayOf(tick)
  /\ reading >= sampled.value

EachTick(reading) ==
  IF Rises(reading) THEN (reading - sampled.value) \div (tick - updated) ELSE Use(tick - 1)

\* A cycle reads the counter, or finds it missing or not to be trusted.
SlotCycle ==
  \E reading \in {MeterAt(tick), Never} :
    LET due == IsInterval(updated, tick)
        booked == IF updated = Never \/ updated = tick THEN slotDays
                  ELSE RecordedInto(slotDays, updated, tick, EachTick(reading), Rises(reading))
        half == SlotDayOf(tick) + SlotAt(tick) * SlotLen
    IN
    /\ running
    /\ updated # tick
    /\ IF reading = Never THEN Troubled ELSE UNCHANGED troubles
    /\ slotDays' = Noted(booked, tick, reading)
    /\ sampled' = IF reading = Never THEN Never ELSE [day |-> SlotDayOf(tick), value |-> reading]
    /\ savedSlot' = IF due THEN half ELSE savedSlot
    /\ saveWaits' = (saveWaits \/ (due /\ half # savedSlot))
    /\ updated' = tick
    /\ UNCHANGED <<tick, running, disk>>

\* Midnight's callback forgets the last cycle, unless one is still under way and
\* sets it after.
SlotTick ==
  /\ tick < LastTick
  /\ tick' = tick + 1
  /\ IF tick + 1 \in SlotMidnights THEN updated' \in {Never, updated} ELSE UNCHANGED updated
  /\ UNCHANGED <<running, slotDays, disk, saveWaits, sampled, savedSlot, troubles>>

\* GivTCP stops publishing or cannot read the inverter: the energy over the gap is
\* not known.
FeedStops ==
  /\ running
  /\ Troubled
  /\ updated # Never
  /\ updated' = Never
  /\ UNCHANGED <<tick, running, slotDays, disk, saveWaits, sampled, savedSlot>>

\* The delayed save writes what the memory holds by then.
WriteSlots ==
  /\ running
  /\ saveWaits
  /\ disk' = slotDays
  /\ saveWaits' = FALSE
  /\ UNCHANGED <<tick, running, slotDays, sampled, updated, savedSlot, troubles>>

\* An unload or a shutdown writes what is there, unless the store refuses it, and
\* a crash does not.
StopSlots ==
  /\ running
  /\ Troubled
  /\ running' = FALSE
  /\ disk' \in {disk, slotDays}
  /\ slotDays' = <<>>
  /\ saveWaits' = FALSE
  /\ sampled' = Never
  /\ updated' = Never
  /\ savedSlot' = Never
  /\ UNCHANGED tick

\* A day of another time zone, version or length is refused, and counted.
ReadBack(good) == Restrict(disk, good)

\* What the file holds is read, without the days that cannot be.
LoadSlots ==
  /\ ~running
  /\ running' = TRUE
  /\ \E good \in SUBSET DOMAIN disk : slotDays' = ReadBack(good)
  /\ UNCHANGED <<tick, disk, saveWaits, sampled, updated, savedSlot, troubles>>

SlotNext ==
  \/ SlotCycle
  \/ SlotTick
  \/ FeedStops
  \/ WriteSlots
  \/ StopSlots
  \/ LoadSlots

SlotSpec == SlotInit /\ [][SlotNext]_slotVars

(* ------------------------------ properties ------------------------------ *)

DayTotal(day) == MapThenSumSet(LAMBDA i : day.kwh[i], DOMAIN day.kwh)

\* A day's slots hold what the meter counted in the ticks they were booked for and
\* the estimates of the others, and tell how much of each half hour was observed:
\* nothing is booked twice or in another slot over a hole, a midnight, a crash and
\* what is read back after it (SlotDay.add, SlotHistory.record, SlotSampler).
SlotsAreTrue ==
  \A d \in DOMAIN slotDays :
    LET day == slotDays[d] IN
    /\ DayTotal(day) = UsedIn(day.metered) + day.guess
    /\ \A i \in SlotsOf(d) : day.observed[i] = Shared(day.seen, d, i)
    /\ day.seen \subseteq d..(DayEnd(d) - 1)

\* A crash loses no more than the half hour it falls in: with no save waiting, the
\* half hours before the last one booked are in the file (SlotStore.record).
HalfHoursAreSaved ==
  (running /\ ~saveWaits /\ savedSlot # Never) =>
    \A d \in DOMAIN slotDays : \A i \in SlotsOf(d) :
      d + i * SlotLen < savedSlot /\ slotDays[d].observed[i] > 0 =>
        /\ d \in DOMAIN disk
        /\ disk[d].kwh[i] = slotDays[d].kwh[i]

SlotsAreSound == SlotsAreTrue /\ HalfHoursAreSaved
=============================================================================
