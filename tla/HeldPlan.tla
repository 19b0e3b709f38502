------------------------------ MODULE HeldPlan ------------------------------
(***************************************************************************)
(* The recommendation the sensors publish (core/charge_hold.py).  Every    *)
(* cycle works out a fresh plan and a fresh charge window.  The sensors    *)
(* show a held copy of each, which follows the fresh one when that is a    *)
(* clear step away: at once for a large step, after the held one has stood *)
(* for a while for a small one.  What is written to the inverter is always *)
(* the fresh plan, and a write releases what is held, so that the sensors  *)
(* catch up with it.                                                       *)
(*                                                                         *)
(* The fresh plan, the battery's level and whether a charge is running are *)
(* the world's: any of them may follow any other.  Time passes in ticks,   *)
(* and the clock may be set back.                                          *)
(***************************************************************************)
EXTENDS Points

CONSTANTS Socs,         \* the battery's level, in whole points
          Targets,      \* the targets a charge may have
          SkipTargets,        \* the targets a night without a charge may have
          Caps,         \* values of the configured cap on the target
          Step, Large,  \* CHARGE_TARGET_HOLD_STEP_PCT, .._LARGE_STEP_PCT
          Passes,       \* the ticks a cycle may be after the one before it
          Dwell,        \* CHARGE_TARGET_HOLD_MIN_MINUTES, in ticks
          Day,          \* the minutes of the day, for the window's end
          Opens, Ends,  \* the minutes a window may open and end at
          WindowStep, WindowLarge  \* CHARGE_WINDOW_HOLD_STEP_MINUTES, .._LARGE_STEP_MINUTES

ASSUME HoldAssumption ==
  /\ Socs \cup Targets \cup SkipTargets \cup Caps \subseteq Nat
  /\ Step \in Nat \ {0} /\ Large \in Nat /\ Step <= Large
  /\ WindowStep \in Nat \ {0} /\ WindowLarge \in Nat /\ WindowStep <= WindowLarge
  /\ Dwell \in Nat
  /\ Passes \subseteq Nat
  /\ Day \in Nat \ {0}
  /\ Opens \cup Ends \subseteq 0..(Day - 1)

VARIABLES soc,      \* the battery's level
          running,  \* a charge is running this cycle
          cap,      \* the owner's cap on the target
          fresh,    \* this cycle's plan
          planned,  \* this cycle's window
          held,     \* HeldCharge: decision, age, charged, window, windowAge
          same      \* ticks of a steady clock for which nothing of this changed

holdVars == <<soc, running, cap, fresh, planned, held, same>>

Decisions == [skip : {FALSE}, target : Targets] \cup [skip : {TRUE}, target : SkipTargets]
NoPlan    == [skip |-> TRUE, target |-> -1]
Windows   == [start : Opens, end : Ends]
NoWindow  == [start |-> -1, end |-> -1]

\* An age is the ticks since publication, -1 once the clock was set back before it.
Ages == -1..Dwell

Held == [decision : Decisions \cup {NoPlan}, age : Ages, charged : BOOLEAN,
         window : Windows \cup {NoWindow}, windowAge : Ages]

HoldTypeOK == /\ soc \in Socs
              /\ running \in BOOLEAN
              /\ cap \in Caps
              /\ fresh \in Decisions \cup {NoPlan}
              /\ planned \in Windows \cup {NoWindow}
              /\ held \in Held
              /\ same \in 0..Dwell

Released == [decision |-> NoPlan, age |-> 0, charged |-> FALSE,
             window |-> NoWindow, windowAge |-> 0]

HoldInit == /\ soc \in Socs
            /\ running = FALSE
            /\ cap \in Caps
            /\ fresh = NoPlan
            /\ planned = NoWindow
            /\ held = Released
            /\ same = 0

\* _has_stood_long_enough: a clock that went back counts as long enough.
StoodLongEnough(age) == age < 0 \/ age >= Dwell

\* The target as published: a charge is capped, a skip is not.
Shown(d) == IF d.skip THEN d.target ELSE Lower(d.target, cap)

\* Points the plans differ by as the sensors show them.  A charge against a skip
\* counts what the charge adds from the level now.
PlanChange(d, f, level) ==
  IF d.skip = f.skip THEN Apart(Shown(f), Shown(d))
  ELSE Higher(0, Shown(IF f.skip THEN d ELSE f) - level)

SkipDuringCharge(d, f, on) == on /\ f.skip /\ ~d.skip

ChargeAlreadyMet(d, f, level) == f.skip /\ ~d.skip /\ Shown(d) <= level

\* Mutant of Publishes: a charge that has run is as good as one that was met before it could.
MetIsEnough(h, f, level, on) ==
  \/ h.decision = NoPlan
  \/ /\ ~SkipDuringCharge(h.decision, f, on)
     /\ \/ ChargeAlreadyMet(h.decision, f, level)
        \/ PlanChange(h.decision, f, level) >= Large
        \/ /\ PlanChange(h.decision, f, level) >= Step
           /\ StoodLongEnough(h.age)

\* next_held_recommendation: the fresh plan replaces the held one.
Publishes(h, f, level, on) ==
  \/ h.decision = NoPlan
  \/ /\ ~SkipDuringCharge(h.decision, f, on)
     /\ \/ ~h.charged /\ ChargeAlreadyMet(h.decision, f, level)
        \/ PlanChange(h.decision, f, level) >= Large
        \/ /\ PlanChange(h.decision, f, level) >= Step
           /\ StoodLongEnough(h.age)

\* Mutant of Settle: every cycle counts as a publication.
AlwaysAnew(h, f, level, on) ==
  LET new == Publishes(h, f, level, on)
      now == IF new THEN f ELSE h.decision
  IN  [h EXCEPT !.decision = now,
                !.age = 0,
                !.charged = (~new /\ @) \/ (on /\ ~now.skip)]

\* HeldCharge.settle
Settle(h, f, level, on) ==
  LET new == Publishes(h, f, level, on)
      now == IF new THEN f ELSE h.decision
  IN  [h EXCEPT !.decision = now,
                !.age = IF new THEN 0 ELSE @,
                !.charged = (~new /\ @) \/ (on /\ ~now.skip)]

\* Minutes between two ends, the short way round midnight.
EndDistance(w, v) == LET gap == Apart(w.end, v.end) IN Lower(gap, Day - gap)

\* next_held_window
PublishesWindow(h, w, on) ==
  \/ w = NoWindow \/ h.window = NoWindow
  \/ h.window.start # w.start
  \/ /\ ~on
     /\ \/ EndDistance(h.window, w) >= WindowLarge
        \/ EndDistance(h.window, w) >= WindowStep /\ StoodLongEnough(h.windowAge)

\* HeldCharge.settle_window
SettleWindow(h, w, on) ==
  IF PublishesWindow(h, w, on) THEN [h EXCEPT !.window = w, !.windowAge = 0] ELSE h

Aged(h, ticks) == [h EXCEPT !.age = Lower(Dwell, @ + ticks),
                            !.windowAge = Lower(Dwell, @ + ticks)]

\* _set_overnight_charge: the cycle's plan and window, and what is shown of them.
Cycle(f, w, level, on, ticks) ==
  /\ soc' = level
  /\ running' = on
  /\ fresh' = f
  /\ planned' = w
  /\ held' = SettleWindow(Settle(Aged(held, ticks), f, level, on), w, on)
  /\ same' = IF /\ f = fresh /\ w = planned /\ level = soc /\ ~on
                /\ held.age >= 0 /\ held.windowAge >= 0
             THEN Lower(Dwell, same + ticks) ELSE 0
  /\ UNCHANGED cap

\* The clock is set back, perhaps to before the publication.
SetClockBack(age, windowAge) ==
  /\ age <= held.age
  /\ windowAge <= held.windowAge
  /\ held' = [held EXCEPT !.age = age, !.windowAge = windowAge]
  /\ same' = 0
  /\ UNCHANGED <<soc, running, cap, fresh, planned>>

\* A first attempt at the night's write, a re-plan or a setting back that was taken.
Release == /\ held' = Released
           /\ UNCHANGED <<soc, running, cap, fresh, planned, same>>

\* New options applied without a reload.
ChangeOptions(c) == /\ cap' = c
                    /\ held' = Released
                    /\ same' = 0
                    /\ UNCHANGED <<soc, running, fresh, planned>>

HoldNext == \/ \E f \in Decisions, w \in Windows \cup {NoWindow}, level \in Socs :
                 \E on \in BOOLEAN, ticks \in Passes : Cycle(f, w, level, on, ticks)
            \/ \E age, windowAge \in Ages : SetClockBack(age, windowAge)
            \/ Release
            \/ \E c \in Caps : ChangeOptions(c)

HoldSpec == HoldInit /\ [][HoldNext]_holdVars

-----------------------------------------------------------------------------

(* What the sensors show is never a large step away from what would be
   written now, unless a charge is running: then it may show the charge that
   runs, or the window it began with. *)
ShownIsClose ==
  /\ held.decision # NoPlan =>
       \/ PlanChange(held.decision, fresh, soc) < Large
       \/ SkipDuringCharge(held.decision, fresh, running)
  /\ held.window # NoWindow =>
       \/ EndDistance(held.window, planned) < WindowLarge
       \/ running

(* And never a small step away for longer than the hold: once the plan, the
   window and the battery have stayed as they are for that long with no
   charge running, the sensors show them. *)
ShownCatchesUp ==
  same = Dwell /\ Dwell > 0 =>
    /\ held.decision # NoPlan => PlanChange(held.decision, fresh, soc) < Step
    /\ held.window # NoWindow => EndDistance(held.window, planned) < WindowStep

(* What the sensors show follows the plan: close at every cycle, and closer
   with time. *)
ShownFollowsPlan == ShownIsClose /\ ShownCatchesUp

(* A charge that has run under the plan shown is not turned into a skip by
   having done its work: while the battery is at or above the target shown,
   no skip replaces it until something releases the hold. *)
DoneChargeStaysShown ==
  [][ /\ held.decision # NoPlan /\ ~held.decision.skip
      /\ held.charged
      /\ soc' >= Shown(held.decision)
      => held' = Released \/ ~held'.decision.skip ]_holdVars
=============================================================================
