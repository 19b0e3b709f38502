----------------------------- MODULE EVSessions -----------------------------
(***************************************************************************)
(* What is remembered of a car's charges: the session log                  *)
(* (lib/ev/session.py) with its store, and the two repairs of the charger, *)
(* offline (core/ev_offline.py) and charging at the base rate              *)
(* (lib/ev/base_rate.py).                                                  *)
(*                                                                         *)
(* A cycle takes a tick.  Cars are numbered as they are plugged in; car 0  *)
(* is none.  A session is named by the car that was plugged in when it     *)
(* began.  The energy of a step is 0 or 1.                                 *)
(***************************************************************************)
EXTENDS Integers, Sequences, SequencesExt

CONSTANTS
    MaxRecent,      \* EV_RECENT_SESSIONS_MAX
    OfflineLimit,   \* EV_OFFLINE_REPAIR_CYCLES
    AlertDelay,     \* EV_BASE_RATE_ALERT_DELAY_S, in cycles
    Cars,           \* bound: cars plugged in, in all
    MaxEnergy,      \* bound: the energy a session is counted to
    MaxCarChanges   \* bound: lost links, stops and starts

ASSUME SessionAssumption ==
    /\ MaxRecent \in Nat \ {0} /\ OfflineLimit \in Nat \ {0} /\ AlertDelay \in Nat
    /\ Cars \in Nat /\ MaxEnergy \in Nat \ {0} /\ MaxCarChanges \in Nat

VARIABLES
    car, cars,      \* the car plugged in, and how many there have been
    carLink,        \* the status sensor: up, down, or a fault
    charger_found,  \* the coordinator has found its charger
    reading,        \* EVCharger.state
    log,            \* EVSessionLog
    kept,           \* the stored log
    saveDue,        \* a delayed save is queued
    offlineCycles, offlineIssue,
    draw,           \* WatchState: cycles since draw_since, or NoTime, and whether it is raised
    baseIssue,
    carChanges,     \* the changes used up
    delivered       \* history: the cars whose energy has been stored

sessionVars == <<car, cars, carLink, charger_found, reading, log, kept, saveDue, offlineCycles, offlineIssue,
                 draw, baseIssue, carChanges, delivered>>

NoTime == -1
NoSession == [car |-> 0, energy |-> 0]
NoLog == [current |-> NoSession, recent |-> <<>>]
NoDraw == [for |-> NoTime, raised |-> FALSE]

SessionInit ==
    /\ car = 0 /\ cars = 0 /\ carLink = "up"
    /\ charger_found = FALSE /\ reading = "unknown"
    /\ log = NoLog /\ kept = NoLog /\ saveDue = FALSE
    /\ offlineCycles = 0 /\ offlineIssue = FALSE
    /\ draw = NoDraw /\ baseIssue = FALSE
    /\ carChanges = 0 /\ delivered = {}

-----------------------------------------------------------------------------
(* The session log: track_session                                          *)

\* _add_step.
Fed(l, energy) ==
    IF l.current = NoSession THEN l
    ELSE [l EXCEPT !.current.energy = IF @ + energy > MaxEnergy THEN MaxEnergy ELSE @ + energy]

\* _finish: a session that delivered nothing is not kept.
Finished(l) ==
    [current |-> NoSession,
     recent |-> IF l.current.energy = 0 THEN l.recent
                ELSE LET all == <<l.current>> \o l.recent
                     IN SubSeq(all, 1, IF Len(all) > MaxRecent THEN MaxRecent ELSE Len(all))]

\* A state of unknown or offline says nothing about the plug.  Mutant: it reads as unplugged.
OfflineUnplugs(l, state, energy) ==
    LET opened == IF state = "plugged" /\ l.current = NoSession THEN [l EXCEPT !.current.car = car] ELSE l
    IN IF state = "plugged" THEN Fed(opened, energy) ELSE Finished(Fed(l, energy))
Tracked(l, state, energy) ==
    LET opened == IF state = "plugged" /\ l.current = NoSession THEN [l EXCEPT !.current.car = car] ELSE l
    IN  CASE state = "plugged" -> Fed(opened, energy)
          [] state = "disconnected" -> Finished(Fed(l, energy))
          [] OTHER -> Fed(l, energy)

-----------------------------------------------------------------------------
(* The two repairs                                                         *)

\* next_step of core/ev_offline.py: <<cycles, is the issue up>>.
OfflineStep(offline) ==
    IF ~offline THEN <<0, offlineIssue /\ offlineCycles < OfflineLimit>>
    ELSE <<offlineCycles + 1, offlineIssue \/ offlineCycles + 1 = OfflineLimit>>

\* watch_step: a draw from the grid at the base rate raises its issue once, after the delay.
WatchStep(drawing) ==
    LET for == IF draw.for = NoTime THEN 0 ELSE IF draw.for = AlertDelay THEN AlertDelay ELSE draw.for + 1
    IN  IF ~drawing THEN <<NoDraw, baseIssue /\ ~draw.raised>>
        ELSE IF draw.raised \/ for < AlertDelay THEN <<[for |-> for, raised |-> draw.raised], baseIssue>>
        ELSE <<[for |-> for, raised |-> TRUE], TRUE>>

-----------------------------------------------------------------------------
(* The cycle                                                               *)

\* A charger that has just been found is read in the same cycle.  With no charger nothing is tracked
\* and the watch ends.  A session that starts or ends queues a save; every tenth cycle does as well.
SessionCycle ==
    /\ charger_found' \in {charger_found, TRUE}
    /\ reading' = IF ~charger_found' THEN "unknown"
                  ELSE CASE carLink = "up" -> IF car = 0 THEN "disconnected" ELSE "plugged"
                         [] carLink = "down" -> "offline"
                         [] carLink = "fault" -> "unknown"
    /\ \E energy \in 0..(IF car = 0 \/ ~charger_found' THEN 0 ELSE 1), base, tenth \in BOOLEAN :
         /\ log' = IF charger_found' THEN Tracked(log, reading', energy) ELSE log
         /\ saveDue' = (saveDue \/ tenth \/ log'.current.car # log.current.car)
         /\ LET watched == WatchStep(base /\ energy = 1)
            IN draw' = watched[1] /\ baseIssue' = watched[2]
    /\ LET step == OfflineStep(reading' = "offline")
       IN  /\ offlineCycles' = IF step[1] > OfflineLimit + 1 THEN OfflineLimit + 1 ELSE step[1]
           /\ offlineIssue' = step[2]
    /\ UNCHANGED <<car, cars, carLink, kept, carChanges, delivered>>

-----------------------------------------------------------------------------
(* The store, stops and starts, and the world                              *)

SessionsOf(l) == {l.current} \cup ToSet(l.recent)
Delivered(l) == {s.car : s \in {t \in SessionsOf(l) : t.energy > 0}}

\* The delayed save writes the log as it is by then.
SaveSessions ==
    /\ saveDue /\ saveDue' = FALSE
    /\ kept' = log /\ delivered' = delivered \cup Delivered(log)
    /\ UNCHANGED <<car, cars, carLink, charger_found, reading, log, offlineCycles, offlineIssue, draw,
                   baseIssue, carChanges>>

\* Home Assistant stops, with a last save or without, and starts; cars come and go meanwhile.  The
\* issues of the repairs are not persistent.
RestartSessions ==
    /\ carChanges < MaxCarChanges /\ carChanges' = carChanges + 1
    /\ \E orderly \in BOOLEAN :
         /\ kept' = IF orderly THEN log ELSE kept
         /\ delivered' = IF orderly THEN delivered \cup Delivered(log) ELSE delivered
    /\ log' = kept' /\ saveDue' = FALSE
    /\ charger_found' = FALSE /\ reading' = "unknown"
    /\ offlineCycles' = 0 /\ offlineIssue' = FALSE /\ draw' = NoDraw /\ baseIssue' = FALSE
    /\ UNCHANGED <<car, cars, carLink>>

Plug ==
    /\ \/ car = 0 /\ cars < Cars /\ cars' = cars + 1 /\ car' = cars'
       \/ car # 0 /\ car' = 0 /\ UNCHANGED cars
    /\ UNCHANGED <<carLink, charger_found, reading, log, kept, saveDue, offlineCycles, offlineIssue, draw,
                   baseIssue, carChanges, delivered>>

Link ==
    /\ carChanges < MaxCarChanges /\ carChanges' = carChanges + 1
    /\ carLink' \in {"up", "down", "fault"} \ {carLink}
    /\ UNCHANGED <<car, cars, charger_found, reading, log, kept, saveDue, offlineCycles, offlineIssue, draw,
                   baseIssue, delivered>>

SessionNext == SessionCycle \/ SaveSessions \/ RestartSessions \/ Plug \/ Link

-----------------------------------------------------------------------------
(* Properties                                                              *)

\* No car that was plugged in once is listed twice.
OnePlugOneSession ==
    Cardinality({s.car : s \in SessionsOf(log) \ {NoSession}})
      = Len(log.recent) + (IF log.current = NoSession THEN 0 ELSE 1)

\* No charge that was ever stored with energy is lost but to newer ones.
StoredChargesStay ==
    \A c \in delivered : \/ \E s \in SessionsOf(log) : s.car = c
                         \/ /\ Len(log.recent) = MaxRecent
                            /\ \A i \in DOMAIN log.recent : log.recent[i].car > c

\* With no car and a charger that answers, neither repair stays.
EvRepairsEnd == <>[](car = 0 /\ carLink = "up") => <>[](~offlineIssue /\ ~baseIssue)

\* The car's log and the charger's repairs are right over dropouts of the charger, unseen swaps of
\* cars and crashes (lib/ev/session.py, core/ev_offline.py).
SessionsAreSound == [](OnePlugOneSession /\ StoredChargesStay) /\ EvRepairsEnd
=============================================================================
