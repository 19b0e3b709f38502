---------------------------- MODULE SunriseHold ----------------------------
(***************************************************************************)
(* The published estimate of the level at sunrise (core/sunrise_hold.py).  *)
(* The calculated figure jumps when the day's load resets or the night     *)
(* window moves.  What is published follows it no faster than the battery  *)
(* can charge or discharge.  The figure with the planned charge is held    *)
(* the same way, so one hold stands for both.                              *)
(***************************************************************************)
EXTENDS Points

CONSTANTS Levels,     \* the figures that may be calculated
          Rates,      \* points the battery can move in a tick, 0 when not known
          Gaps,       \* ticks between two readings; not positive: the clock went back
          StaleAfter  \* SOLAR_STALE_AFTER_S

ASSUME SunriseAssumption ==
  /\ Levels \subseteq Int /\ Levels # {}
  /\ Rates \subseteq Nat
  /\ Gaps \subseteq Int
  /\ StaleAfter \in Nat

VARIABLES known,       \* something has been published
          calculated,  \* this cycle's estimate
          published,   \* HeldSunrise.soc
          pace         \* points the published figure may move by this cycle, -1 for any

sunriseVars == <<known, calculated, published, pace>>

SunriseTypeOK == /\ known \in BOOLEAN
                 /\ calculated \in Int
                 /\ published \in Int
                 /\ pace \in Int

SunriseInit == /\ known = FALSE
               /\ calculated \in Levels
               /\ published = calculated
               /\ pace = -1

Clipped(change, most) == IF change > most THEN most
                         ELSE IF change < -most THEN -most ELSE change

\* Mutant of Reading: the step is bounded by the rate, however long the gap.
PerReading(level, gap, rate) ==
  LET paced == known /\ rate > 0 /\ gap > 0 /\ gap <= StaleAfter
  IN  /\ known' = TRUE
      /\ calculated' = level
      /\ pace' = IF paced THEN rate * gap ELSE -1
      /\ published' = IF paced THEN published + Clipped(level - published, rate)
                      ELSE level

\* published_sunrise_soc.  The first reading, one after a long gap or a clock set
\* back, and one with no known battery rate are published as they are.
Reading(level, gap, rate) ==
  LET paced == known /\ rate > 0 /\ gap > 0 /\ gap <= StaleAfter
  IN  /\ known' = TRUE
      /\ calculated' = level
      /\ pace' = IF paced THEN rate * gap ELSE -1
      /\ published' = IF paced THEN published + Clipped(level - published, rate * gap)
                      ELSE level

\* A restart forgets what was published.
Restart == /\ known
           /\ known' = FALSE
           /\ pace' = -1
           /\ UNCHANGED <<calculated, published>>

SunriseNext == \/ \E level \in Levels, gap \in Gaps, rate \in Rates :
                    Reading(level, gap, rate)
               \/ Restart

SunriseSpec == SunriseInit /\ [][SunriseNext]_sunriseVars

-----------------------------------------------------------------------------

(* Where the battery's pace bounds the step, every reading works off the gap
   to the calculated figure by all the battery could have moved, or closes
   it.  So as long as the calculated figure itself moves no faster than the
   battery, the published one does not fall further behind. *)
EstimateFollows ==
  [][ pace' # -1 =>
        /\ \/ published' = calculated'
           \/ Apart(published', calculated') = Apart(published, calculated') - pace'
        /\ Apart(calculated', calculated) <= pace' =>
             Apart(published', calculated') <= Apart(published, calculated)
  ]_sunriseVars
=============================================================================
