---------------------------- MODULE ChargeWindow ----------------------------
(***************************************************************************)
(* The windows sized from the tariff (core/charge_window.py): the battery's *)
(* charge window, which starts with the cheapest period and is made longer  *)
(* while the periods after it stay below the base rate, and the window the  *)
(* car may charge in, which joins the cheap periods the owner has widened.  *)
(* Periods overlap, touch, wrap midnight and may be empty.                  *)
(*                                                                          *)
(* Both are loops over the clock, and each turn of a loop is a step here.   *)
(***************************************************************************)
EXTENDS Points, Sequences
LOCAL INSTANCE SequencesExt

CONSTANTS Minutes,  \* _MINUTES_PER_DAY
          Tariffs,  \* [periods, base]; a period is [start, end, rate]
          Charges,  \* minutes the charge itself may take
          Margin,   \* tenths of those minutes the window has to spare
          Rounding, \* CHARGE_WINDOW_ROUND_MINUTES
          Befores, Afters  \* minutes the owner adds around a cheap period for the car

Period == [start : 0..(Minutes - 1), end : 0..(Minutes - 1), rate : Int]

ASSUME WindowAssumption ==
  /\ Minutes \in Nat \ {0}
  /\ \A t \in Tariffs : t.periods \in Seq(Period) /\ t.base \in Int
  /\ Charges \cup Befores \cup Afters \subseteq Nat
  /\ Margin \in Nat
  /\ Rounding \in Nat \ {0}

VARIABLES stage,   \* "idle", "run", "extent", "planned", "join" or "joined"
          tariff,  \* the tariff in force
          from,    \* the minute the cheapest period starts
          own,     \* its minutes
          length,  \* the minutes of the cheap run found so far
          charge,  \* the minutes the planned charge takes
          minutes, \* the minutes of the planned window
          widened, \* what the owner adds: [before, after]
          runs     \* the car's runs: [start, length]

windowVars == <<stage, tariff, from, own, length, charge, minutes, widened, runs>>

WindowTypeOK ==
  /\ stage \in {"idle", "run", "extent", "planned", "join", "joined"}
  /\ tariff \in Tariffs
  /\ from \in 0..(Minutes - 1)
  /\ own \in 0..(Minutes - 1)
  /\ length \in Nat
  /\ charge \in Nat
  /\ minutes \in 0..(Minutes - 1)
  /\ widened \in [before : Nat, after : Nat]
  /\ runs \in Seq([start : 0..(Minutes - 1), length : 0..(Minutes - 1)])

WindowInit ==
  /\ stage = "idle"
  /\ tariff \in Tariffs
  /\ from = 0 /\ own = 0 /\ length = 0 /\ charge = 0 /\ minutes = 0
  /\ widened = [before |-> 0, after |-> 0]
  /\ runs = <<>>

\* Minutes forward on the clock (_minutes_from).
Forward(start, to) == (to - start) % Minutes

Periods == {tariff.periods[i] : i \in DOMAIN tariff.periods}

Cheaper == {p \in Periods : p.rate < tariff.base}

Span(p) == Forward(p.start, p.end)

\* Minutes p still runs from this minute on, 0 when it is not active then.
Reach(p, minute) == LET elapsed == Forward(p.start, minute)
                    IN  IF elapsed < Span(p) THEN Span(p) - elapsed ELSE 0

\* The first of the cheapest periods, cheap or not.
Cheapest(i) == \A j \in DOMAIN tariff.periods :
                  /\ tariff.periods[i].rate <= tariff.periods[j].rate
                  /\ j < i => tariff.periods[i].rate < tariff.periods[j].rate

StartRun(i) == /\ stage = "idle"
               /\ Cheapest(i)
               /\ stage' = "run"
               /\ from' = tariff.periods[i].start
               /\ own' = Span(tariff.periods[i])
               /\ length' = Span(tariff.periods[i])
               /\ UNCHANGED <<tariff, charge, minutes, widened, runs>>

\* One turn of _extend_run: whichever cheap period reaches furthest carries on.
ExtendRun(p) == /\ stage = "run"
                /\ length < Minutes - 1
                /\ Reach(p, from + length) > 0
                /\ \A q \in Cheaper : Reach(q, from + length) <= Reach(p, from + length)
                /\ length' = length + Reach(p, from + length)
                /\ UNCHANGED <<stage, tariff, from, own, charge, minutes, widened, runs>>

\* A window of a whole day would end where it starts, which the inverter reads as unused.
EndRun == /\ stage = "run"
          /\ length >= Minutes - 1 \/ \A p \in Cheaper : Reach(p, from + length) = 0
          /\ stage' = "extent"
          /\ length' = Lower(length, Minutes - 1)
          /\ UNCHANGED <<tariff, from, own, charge, minutes, widened, runs>>

\* Mutant of Needed: rounded down.
RoundedDown(taken) ==
  LET tenths == taken * (10 + Margin)
      step   == 10 * Rounding
  IN  (tenths \div step) * Rounding

\* _minutes_needed: the charge with its margin, rounded up to a whole step.
Needed(taken) ==
  LET tenths == taken * (10 + Margin)
      step   == 10 * Rounding
  IN  ((tenths + step - 1) \div step) * Rounding

\* plan_charge_window.  No charge, or an unknown rate, is taken = 0.
PlanWindow(taken) ==
  /\ stage = "extent"
  /\ stage' = "planned"
  /\ charge' = taken
  /\ minutes' = IF taken = 0 \/ Needed(taken) <= own THEN own
                ELSE Lower(Needed(taken), length)
  /\ UNCHANGED <<tariff, from, own, length, widened, runs>>

\* The runs ev_charge_window starts from.
WidenedRun(p, before, after) ==
  [start  |-> (p.start - before) % Minutes,
   length |-> Lower(before + Span(p) + after, Minutes - 1)]

\* The cheap periods of the list, by their places and in its order.
InOrder(places) ==
  /\ \A k, l \in DOMAIN places : k < l => places[k] < places[l]
  /\ {tariff.periods[places[k]] : k \in DOMAIN places} = Cheaper
  /\ \A i \in DOMAIN tariff.periods :
        tariff.periods[i] \in Cheaper => \E k \in DOMAIN places : places[k] = i

StartJoin(before, after) ==
  /\ stage = "idle"
  /\ stage' = "join"
  /\ widened' = [before |-> before, after |-> after]
  /\ \E count \in 0..Len(tariff.periods) :
     \E places \in [1..count -> DOMAIN tariff.periods] :
        /\ InOrder(places)
        /\ runs' = [k \in 1..count |-> WidenedRun(tariff.periods[places[k]], before, after)]
  /\ UNCHANGED <<tariff, from, own, length, charge, minutes>>

Overlap(i, j) == i # j /\ Forward(runs[i].start, runs[j].start) <= runs[i].length

\* The first pair that overlaps or touches, in the order of the two loops.
FirstOverlap(i, j) ==
  /\ Overlap(i, j)
  /\ \A k, l \in DOMAIN runs : Overlap(k, l) => k > i \/ (k = i /\ l >= j)

\* Mutant of Joined: the other run is taken to end last.
EndsWithOther(one, other) ==
  LET gap == Forward(one.start, other.start)
  IN  [one EXCEPT !.length = Lower(gap + other.length, Minutes - 1)]

Joined(one, other) ==
  LET gap == Forward(one.start, other.start)
  IN  [one EXCEPT !.length = Lower(Higher(@, gap + other.length), Minutes - 1)]

\* _join_once
Join(i, j) ==
  /\ stage = "join"
  /\ FirstOverlap(i, j)
  /\ runs' = Append(RemoveAt(RemoveAt(runs, Higher(i, j)), Lower(i, j)),
                    Joined(runs[i], runs[j]))
  /\ UNCHANGED <<stage, tariff, from, own, length, charge, minutes, widened>>

EndJoin == /\ stage = "join"
           /\ \A i, j \in DOMAIN runs : ~Overlap(i, j)
           /\ stage' = "joined"
           /\ UNCHANGED <<tariff, from, own, length, charge, minutes, widened, runs>>

WindowNext == \/ \E i \in DOMAIN tariff.periods : StartRun(i)
              \/ \E p \in Cheaper : ExtendRun(p)
              \/ EndRun
              \/ \E taken \in Charges : PlanWindow(taken)
              \/ \E before \in Befores, after \in Afters : StartJoin(before, after)
              \/ \E i, j \in DOMAIN runs : Join(i, j)
              \/ EndJoin

WindowSpec == WindowInit /\ [][WindowNext]_windowVars

-----------------------------------------------------------------------------

CheapMinute(minute) == \E p \in Cheaper : Reach(p, minute) > 0

(* window_stays_cheap of every window planned: "never past the end of the run
   of periods that are cheaper than the base rate".  A tariff whose cheapest
   period is not below the base rate has no cheap hours to protect. *)
WindowStaysCheap ==
  stage = "planned" /\ Cheaper # {} =>
     \A offset \in 0..(minutes - 1) : CheapMinute(from + offset)

(* A window is long enough for its charge, with the minutes it may have to
   spare, unless the cheap run ends with it or it lasts all day but one. *)
WindowHoldsCharge ==
  stage = "planned" =>
     \/ minutes >= charge
     \/ minutes = Minutes - 1
     \/ ~CheapMinute(from + minutes)

(* A window is neither too late nor too short. *)
WindowIsSound == WindowStaysCheap /\ WindowHoldsCharge

\* in_extended_cheap_window
InExtended(minute) ==
  \E p \in Cheaper :
     Forward(p.start - widened.before, minute)
       < Lower(widened.before + Span(p) + widened.after, Minutes)

InRun(run, minute) == Forward(run.start, minute) < run.length

(* The window the car is given and the hours the car's rule allows are the
   same minutes: joining loses none and adds none, except the one minute a
   run of a whole day has to leave out.  In the end no two runs overlap or
   touch, so that the window holding now is one, and charging ends with it. *)
CarWindowAgrees ==
  /\ stage \in {"join", "joined"} =>
        \A minute \in 0..(Minutes - 1) :
           \/ InExtended(minute) <=> \E i \in DOMAIN runs : InRun(runs[i], minute)
           \/ \E i \in DOMAIN runs : /\ runs[i].length = Minutes - 1
                                     /\ ~InRun(runs[i], minute)
  /\ stage = "joined" =>
        \A i, j \in DOMAIN runs : i # j =>
           \A minute \in 0..(Minutes - 1) :
              InRun(runs[i], minute) =>
                 ~InRun(runs[j], minute) /\ ~InRun(runs[j], (minute + 1) % Minutes)
=============================================================================
