---------------------------- MODULE Loads_proof ----------------------------
(***************************************************************************)
(* Proofs about the loads.  The immersion heater (Immersion), for any      *)
(* cooldown, outage limit and number of changes and calls: its type, the   *)
(* spacing of automatic commands, the respect for a turn-off, and the      *)
(* overheat bypass.                                                        *)
(*                                                                         *)
(* The log of the car's charges (EVSessions): none is lost or told twice,  *)
(* because the log and the one stored are both in the order in which cars  *)
(* came (InOrder), and a charge once stored is known to both (Remembers).  *)
(*                                                                         *)
(* The record of the heating (HeatLearning) is true because nothing is     *)
(* used in an hour to come (NotAhead) and a day that is not noted used     *)
(* nothing (FreshDay).                                                     *)
(***************************************************************************)
EXTENDS Immersion, EVSessions, HeatLearning, FiniteSetTheorems, TLAPS

\* The code's cooldown lasts at least as long as the last automatic command is to be waited for.
CooldownCovers == quiet <= cool

\* A turn-off is held by the cooldown, or not yet noticed: the switch still differs from the last
\* command, and nothing is under way that would change either.
TurnOffCovered ==
    hands_off > cool => last = "on" /\ ~on /\ press = NoPress /\ NoCalls

\* Only an adopted turn-on leaves a heater on in hot water, and then on is the last command.
LeftOnOnce == ignored < 2 /\ (ignored = 1 => last # "off")

IInv == TypeOK /\ CooldownCovers /\ TurnOffCovered /\ LeftOnOnce

-----------------------------------------------------------------------------
(* Types.                                                                  *)

LEMMA Constants ==
    /\ Cooldown \in Nat \ {0} /\ OutageTicks \in Nat /\ MaxChanges \in Nat /\ MaxCalls \in Nat \ {0}
    /\ HasSensor \in BOOLEAN
BY ImmersionAssumption

\* Timers stay within their bounds.
LEMMA Timers ==
    /\ \A n \in 0..Cooldown : Less(n) \in 0..Cooldown /\ StartCooldown(n) = Cooldown
    /\ \A n \in Never..OutageTicks : More(n) \in Never..OutageTicks /\ Aged(n) \in Never..OutageTicks
    /\ \A n \in 0..FailuresBeforeRepair : AfterFailure(n) \in 0..FailuresBeforeRepair
    /\ 0 \in 0..Cooldown /\ Cooldown \in 0..Cooldown /\ Never \in Never..OutageTicks
    /\ 0 \in 0..FailuresBeforeRepair /\ 0 \in 0..MaxCalls
BY Constants DEF Less, More, Aged, AfterFailure, StartCooldown, Never, FailuresBeforeRepair

LEMMA InitType == Init => TypeOK
<1> SUFFICES ASSUME Init PROVE TypeOK
  OBVIOUS
<1> USE Constants, Timers DEF Init
<1>1. calls \in [Services -> 0..MaxCalls]
  OBVIOUS
<1>2. press \in PressType
  BY DEF NoPress, PressType
<1>3. /\ on \in BOOLEAN /\ reach \in BOOLEAN /\ auto \in BOOLEAN /\ dry_run \in BOOLEAN
      /\ run \in BOOLEAN /\ first \in BOOLEAN
  OBVIOUS
<1>4. /\ temp \in {"low", "hot", "none"} /\ override \in Services \cup {"none"}
      /\ last \in Services \cup {"none"} /\ cycle \in {"idle", "on", "off", "hot"}
  OBVIOUS
<1>5. /\ unread \in Never..OutageTicks /\ outage \in Never..OutageTicks
      /\ cool \in 0..Cooldown /\ quiet \in 0..Cooldown /\ hands_off \in 0..Cooldown
      /\ failures \in 0..FailuresBeforeRepair /\ changes \in 0..MaxChanges /\ ignored \in 0..2
  OBVIOUS
<1> QED BY <1>1, <1>2, <1>3, <1>4, <1>5, ZenonT(60) DEF TypeOK

LEMMA CycleType == TypeOK /\ (Read \/ Act) => TypeOK'
<1> SUFFICES ASSUME TypeOK, Read \/ Act PROVE TypeOK'
  OBVIOUS
<1>0. /\ ignored \in 0..2 /\ unread \in Never..OutageTicks /\ outage \in Never..OutageTicks
      /\ cool \in 0..Cooldown /\ failures \in 0..FailuresBeforeRepair
      /\ override \in Services \cup {"none"} /\ calls \in [Services -> 0..MaxCalls]
  BY DEF TypeOK
<1>1. CASE Read
  <2>1. /\ run' \in BOOLEAN /\ override' \in Services \cup {"none"}
        /\ unread' \in Never..OutageTicks
    BY <1>0, <1>1, Timers DEF Read
  <2>2. outage' \in Never..OutageTicks /\ cycle' \in {"idle", "on", "off", "hot"}
    BY <1>0, <1>1, Timers DEF Read
  <2>3. /\ UNCHANGED <<on, reach, temp, auto, dry_run, cool, last, first, calls, failures, press>>
        /\ UNCHANGED <<changes, quiet, hands_off, ignored>>
    BY <1>1 DEF Read, settings, history
  <2> QED BY <2>1, <2>2, <2>3, ZenonT(60) DEF TypeOK
<1>2. ASSUME LeftOn PROVE ignored' \in 0..2
  BY <1>0, <1>2 DEF LeftOn
<1>3. ASSUME EndOfCycle
      PROVE  /\ UNCHANGED <<on, reach, temp, auto, dry_run, outage, press, changes>>
             /\ first' \in BOOLEAN /\ cycle' \in {"idle", "on", "off", "hot"}
  BY <1>3 DEF EndOfCycle, settings
<1>4. CASE AdoptTurnOn
  <2>1. EndOfCycle /\ LeftOn /\ UNCHANGED <<calls, failures>>
    BY <1>4 DEF AdoptTurnOn
  <2>2. /\ run' \in BOOLEAN /\ override' \in Services \cup {"none"} /\ last' \in Services \cup {"none"}
        /\ unread' \in Never..OutageTicks /\ cool' \in 0..Cooldown
        /\ quiet' \in 0..Cooldown /\ hands_off' \in 0..Cooldown
    BY <1>4, Timers DEF AdoptTurnOn, Services
  <2> QED BY <1>2, <1>3, <2>1, <2>2, ZenonT(60) DEF TypeOK
<1>5. CASE AdoptTurnOff
  <2>1. EndOfCycle /\ LeftOn /\ UNCHANGED <<calls, failures, quiet, hands_off>>
    BY <1>5 DEF AdoptTurnOff
  <2>2. /\ run' \in BOOLEAN /\ override' \in Services \cup {"none"} /\ last' \in Services \cup {"none"}
        /\ unread' \in Never..OutageTicks /\ cool' \in 0..Cooldown
    BY <1>0, <1>5, Timers DEF AdoptTurnOff, Services, ExternalHold
  <2> QED BY <1>2, <1>3, <2>1, <2>2, ZenonT(60) DEF TypeOK
<1>6. CASE Drive
  <2>1. EndOfCycle /\ UNCHANGED <<override, run, unread, hands_off>>
    BY <1>6 DEF Drive
  <2>2. /\ last' \in Services \cup {"none"} /\ cool' \in 0..Cooldown /\ quiet' \in 0..Cooldown
        /\ ignored' \in 0..2
    BY <1>0, <1>6, Timers DEF Drive, Services
  <2>3. calls' \in [Services -> 0..MaxCalls] /\ failures' \in 0..FailuresBeforeRepair
    BY <1>0, <1>6, Timers, Constants DEF Drive, Services
  <2> QED BY <1>3, <2>1, <2>2, <2>3, ZenonT(60) DEF TypeOK
<1>7. CASE Leave
  <2>1. EndOfCycle /\ LeftOn /\ UNCHANGED <<override, run, unread, cool, last>>
        /\ UNCHANGED <<calls, failures, quiet, hands_off>>
    BY <1>7 DEF Leave, memory
  <2> QED BY <1>2, <1>3, <2>1, ZenonT(60) DEF TypeOK
<1> QED BY <1>1, <1>4, <1>5, <1>6, <1>7 DEF Act

Answers == (\E s \in Services : CallDone(s) \/ CallRaised(s)) \/ PressDone \/ PressRaised

LEMMA Counted == ASSUME TypeOK, NEW w, Change(w) PROVE changes' \in 0..MaxChanges
BY Constants DEF Change, TypeOK

LEMMA AnswerType == TypeOK /\ Answers => TypeOK'
<1> SUFFICES ASSUME TypeOK, Answers PROVE TypeOK'
  OBVIOUS
<1>0. /\ cool \in 0..Cooldown /\ failures \in 0..FailuresBeforeRepair /\ press \in PressType
      /\ last \in Services \cup {"none"} /\ calls \in [Services -> 0..MaxCalls]
  BY DEF TypeOK, PressType
<1>1. ASSUME NEW s \in Services, calls[s] > 0
      PROVE  [calls EXCEPT ![s] = @ - 1] \in [Services -> 0..MaxCalls]
  BY <1>0, <1>1, Constants
<1>2. CASE \E s \in Services : CallDone(s)
  <2>1. /\ calls' \in [Services -> 0..MaxCalls] /\ on' \in BOOLEAN
        /\ failures' \in 0..FailuresBeforeRepair
    BY <1>1, <1>2, Timers DEF CallDone
  <2>2. /\ UNCHANGED <<reach, temp, auto, dry_run, override, run, unread, cool, last, outage, first>>
        /\ UNCHANGED <<cycle, press, changes, quiet, hands_off, ignored>>
    BY <1>2 DEF CallDone, settings, memory, history
  <2> QED BY <2>1, <2>2, ZenonT(60) DEF TypeOK
<1>3. CASE \E s \in Services : CallRaised(s)
  <2>1. calls' \in [Services -> 0..MaxCalls] /\ changes' \in 0..MaxChanges
    BY <1>1, <1>3, Counted DEF CallRaised
  <2>2. /\ failures' \in 0..FailuresBeforeRepair
        /\ last' \in Services \cup {"none"} /\ cool' = cool
    BY <1>0, <1>3, Timers DEF CallRaised, CommandFailed
  <2>3. /\ UNCHANGED <<on, reach, temp, auto, dry_run, override, run, unread, outage, first>>
        /\ UNCHANGED <<cycle, press, quiet, hands_off, ignored>>
    BY <1>3 DEF CallRaised, settings, history
  <2> QED BY <2>1, <2>2, <2>3, ZenonT(60) DEF TypeOK
<1>4. NoPress \in PressType
  BY Timers DEF NoPress, PressType
<1>5. CASE PressDone
  <2>1. press' \in PressType /\ on' \in BOOLEAN
    BY <1>4, <1>5 DEF PressDone
  <2>2. /\ UNCHANGED <<reach, temp, auto, dry_run, override, run, unread, cool, last, outage, first>>
        /\ UNCHANGED <<cycle, calls, failures, changes, quiet, hands_off, ignored>>
    BY <1>5 DEF PressDone, settings, memory, history
  <2> QED BY <2>1, <2>2, ZenonT(60) DEF TypeOK
<1>6. CASE PressRaised
  <2>1. press' \in PressType /\ changes' \in 0..MaxChanges
    BY <1>4, <1>6, Counted DEF PressRaised
  <2>2. last' \in Services \cup {"none"} /\ cool' \in 0..Cooldown
    BY <1>0, <1>6 DEF PressRaised, PressType
  <2>3. quiet' \in 0..Cooldown /\ hands_off' \in 0..Cooldown /\ ignored' \in 0..2
    BY <1>6, Timers DEF PressRaised
  <2>4. /\ UNCHANGED <<on, reach, temp, auto, dry_run, override, run, unread, outage, first>>
        /\ UNCHANGED <<cycle, calls, failures>>
    BY <1>6 DEF PressRaised, settings
  <2> QED BY <2>1, <2>2, <2>3, <2>4, ZenonT(60) DEF TypeOK
<1> QED BY <1>2, <1>3, <1>5, <1>6 DEF Answers

LEMMA ManualType == TypeOK /\ (ManualOn \/ ManualOff) => TypeOK'
<1> SUFFICES ASSUME TypeOK, ManualOn \/ ManualOff PROVE TypeOK'
  OBVIOUS
<1>0. /\ cool \in 0..Cooldown /\ quiet \in 0..Cooldown /\ hands_off \in 0..Cooldown
      /\ last \in Services \cup {"none"}
  BY DEF TypeOK
<1>1. /\ NoPress \in PressType
      /\ [service |-> "on", last |-> last, cool |-> 0] \in PressType
      /\ [service |-> "off", last |-> last, cool |-> cool] \in PressType
  BY <1>0, Timers DEF NoPress, PressType, Services
<1>2. /\ press' \in PressType /\ changes' \in 0..MaxChanges /\ run' \in BOOLEAN
      /\ override' \in Services \cup {"none"} /\ unread' \in Never..OutageTicks
  BY <1>1, Counted, Timers DEF ManualOn, ManualOff, Services
<1>3. /\ last' \in Services \cup {"none"} /\ cool' \in 0..Cooldown
      /\ quiet' \in 0..Cooldown /\ hands_off' \in 0..Cooldown /\ ignored' \in 0..2
  BY <1>0, Timers DEF ManualOn, ManualOff, Services
<1>4. UNCHANGED <<on, reach, temp, auto, dry_run, outage, first, cycle, calls, failures>>
  BY DEF ManualOn, ManualOff, settings
<1> QED BY <1>2, <1>3, <1>4, ZenonT(60) DEF TypeOK

Around == Hand \/ Water \/ Reach \/ ToggleAuto \/ ToggleDryRun \/ Restart \/ Tick

LEMMA AroundType == TypeOK /\ Around => TypeOK'
<1> SUFFICES ASSUME TypeOK, Around PROVE TypeOK'
  OBVIOUS
<1>0. /\ cool \in 0..Cooldown /\ quiet \in 0..Cooldown /\ hands_off \in 0..Cooldown
      /\ unread \in Never..OutageTicks /\ outage \in Never..OutageTicks
      /\ on \in BOOLEAN /\ reach \in BOOLEAN /\ auto \in BOOLEAN /\ dry_run \in BOOLEAN
  BY DEF TypeOK
<1>1. CASE Hand
  <2>1. /\ on' \in BOOLEAN /\ hands_off' \in 0..Cooldown /\ ignored' \in 0..2
        /\ changes' \in 0..MaxChanges
    BY <1>0, <1>1, Timers, Counted DEF Hand
  <2>2. /\ UNCHANGED <<reach, temp, auto, dry_run, override, run, unread, cool, last, outage, first>>
        /\ UNCHANGED <<cycle, calls, failures, press, quiet>>
    BY <1>1 DEF Hand, settings, memory
  <2> QED BY <2>1, <2>2, ZenonT(60) DEF TypeOK
<1>2. CASE Water
  <2>1. temp' \in {"low", "hot", "none"} /\ changes' \in 0..MaxChanges
    BY <1>2, Counted DEF Water
  <2>2. /\ UNCHANGED <<on, reach, auto, dry_run, override, run, unread, cool, last, outage, first>>
        /\ UNCHANGED <<cycle, calls, failures, press, quiet, hands_off, ignored>>
    BY <1>2 DEF Water, settings, memory, history
  <2> QED BY <2>1, <2>2, ZenonT(60) DEF TypeOK
<1>3. CASE Reach
  <2>1. reach' \in BOOLEAN /\ changes' \in 0..MaxChanges /\ ignored' \in 0..2
    BY <1>3, Counted DEF Reach
  <2>2. /\ UNCHANGED <<on, temp, auto, dry_run, override, run, unread, cool, last, outage, first>>
        /\ UNCHANGED <<cycle, calls, failures, press, quiet, hands_off>>
    BY <1>3 DEF Reach, settings, memory
  <2> QED BY <2>1, <2>2, ZenonT(60) DEF TypeOK
<1>4. CASE ToggleAuto
  <2>1. /\ auto' \in BOOLEAN /\ changes' \in 0..MaxChanges
        /\ override' \in Services \cup {"none"}
    BY <1>4, Counted DEF ToggleAuto, AutoOverride, Services
  <2>2. /\ UNCHANGED <<on, reach, temp, dry_run, run, unread, cool, last, outage, first>>
        /\ UNCHANGED <<cycle, calls, failures, press, quiet, hands_off, ignored>>
    BY <1>4 DEF ToggleAuto, history
  <2> QED BY <2>1, <2>2, ZenonT(60) DEF TypeOK
<1>5. CASE ToggleDryRun
  <2>1. dry_run' \in BOOLEAN /\ changes' \in 0..MaxChanges
    BY <1>5, Counted DEF ToggleDryRun
  <2>2. /\ UNCHANGED <<on, reach, temp, auto, override, run, unread, cool, last, outage, first>>
        /\ UNCHANGED <<cycle, calls, failures, press, quiet, hands_off, ignored>>
    BY <1>5 DEF ToggleDryRun, memory, history
  <2> QED BY <2>1, <2>2, ZenonT(60) DEF TypeOK
<1>6. CASE Restart
  <2>1. /\ changes' \in 0..MaxChanges /\ on' \in BOOLEAN
        /\ override' \in Services \cup {"none"} /\ run' \in BOOLEAN /\ last' \in Services \cup {"none"}
    BY <1>0, <1>6, Counted DEF Restart, AutoOverride, Services
  <2>2. /\ unread' \in Never..OutageTicks /\ outage' \in Never..OutageTicks /\ cool' \in 0..Cooldown
        /\ first' \in BOOLEAN /\ cycle' \in {"idle", "on", "off", "hot"}
        /\ failures' \in 0..FailuresBeforeRepair
        /\ quiet' \in 0..Cooldown /\ hands_off' \in 0..Cooldown /\ ignored' \in 0..2
    BY <1>6, Timers DEF Restart
  <2>3. calls' \in [Services -> 0..MaxCalls]
    BY <1>6, Timers DEF Restart
  <2>4. press' \in PressType
    BY <1>6, Timers DEF Restart, NoPress, PressType
  <2>5. UNCHANGED <<reach, temp, auto, dry_run>>
    BY <1>6 DEF Restart, settings
  <2> QED BY <2>1, <2>2, <2>3, <2>4, <2>5, ZenonT(60) DEF TypeOK
<1>7. CASE Tick
  <2>1. /\ cool' \in 0..Cooldown /\ quiet' \in 0..Cooldown /\ hands_off' \in 0..Cooldown
        /\ unread' \in Never..OutageTicks /\ outage' \in Never..OutageTicks
    BY <1>0, <1>7, Timers DEF Tick
  <2>2. /\ UNCHANGED <<on, reach, temp, auto, dry_run, override, run, last, first>>
        /\ UNCHANGED <<cycle, calls, failures, press, changes, ignored>>
    BY <1>7 DEF Tick, settings
  <2>3. /\ on' \in BOOLEAN /\ reach' \in BOOLEAN /\ temp' \in {"low", "hot", "none"}
        /\ auto' \in BOOLEAN /\ dry_run' \in BOOLEAN /\ run' \in BOOLEAN /\ first' \in BOOLEAN
        /\ override' \in Services \cup {"none"} /\ last' \in Services \cup {"none"}
    BY <2>2 DEF TypeOK
  <2>4. /\ cycle' \in {"idle", "on", "off", "hot"} /\ calls' \in [Services -> 0..MaxCalls]
        /\ failures' \in 0..FailuresBeforeRepair /\ press' \in PressType
        /\ changes' \in 0..MaxChanges /\ ignored' \in 0..2
    BY <2>2 DEF TypeOK
  <2> QED BY <2>1, <2>3, <2>4, ZenonT(60) DEF TypeOK
<1> QED BY <1>1, <1>2, <1>3, <1>4, <1>5, <1>6, <1>7 DEF Around

LEMMA Steps == Next => Read \/ Act \/ Answers \/ ManualOn \/ ManualOff \/ Around
BY DEF Next, Answers, Around

LEMMA StutterType == TypeOK /\ UNCHANGED vars => TypeOK'
<1> SUFFICES ASSUME TypeOK, UNCHANGED vars PROVE TypeOK'
  OBVIOUS
<1>1. UNCHANGED <<on, reach, temp, auto, dry_run, override, run, unread, cool, last>>
  BY DEF vars, settings, memory
<1>2. UNCHANGED <<outage, first, cycle, calls, failures, press, changes, quiet, hands_off, ignored>>
  BY DEF vars, history
<1> QED BY <1>1, <1>2 DEF TypeOK

LEMMA NextType == TypeOK /\ [Next]_vars => TypeOK'
BY Steps, CycleType, AnswerType, ManualType, AroundType, StutterType

\* Every variable keeps its type, whatever the actuator, its callers and the switch do.
THEOREM TypeCorrect == Spec => []TypeOK
<1> QED BY InitType, NextType, PTL DEF Spec

-----------------------------------------------------------------------------
(* The invariant.                                                          *)

\* What the cooldown and the histories are worth, as numbers.
LEMMA Numbers ==
    ASSUME TypeOK
    PROVE  /\ cool \in Nat /\ quiet \in Nat /\ hands_off \in Nat /\ Cooldown \in Nat
           /\ cool <= Cooldown /\ quiet <= Cooldown /\ hands_off <= Cooldown
           /\ press.cool \in Nat /\ ignored \in 0..2
<1>1. press.cool \in 0..Cooldown
  BY DEF TypeOK, PressType
<1> QED BY <1>1, Constants DEF TypeOK

\* An automatic command starts a cooldown of its own, and only a press, an adopted turn-on or a
\* restart, which forget the command, end one early.
LEMMA CooldownKept == TypeOK /\ CooldownCovers /\ [Next]_vars => CooldownCovers'
<1> SUFFICES ASSUME TypeOK, CooldownCovers, [Next]_vars PROVE CooldownCovers'
  OBVIOUS
<1> USE Numbers DEF CooldownCovers
<1>1. CASE Read
  BY <1>1 DEF Read, history
<1>2. CASE Act
  BY <1>2 DEF Act, AdoptTurnOn, AdoptTurnOff, Drive, Leave, memory, ExternalHold, StartCooldown
<1>3. CASE Answers
  BY <1>3 DEF Answers, CallDone, CallRaised, CommandFailed, PressDone, PressRaised, memory, history
<1>4. CASE ManualOn \/ ManualOff
  BY <1>4 DEF ManualOn, ManualOff, StartCooldown
<1>5. CASE Around
  BY <1>5 DEF Around, Hand, Water, Reach, ToggleAuto, ToggleDryRun, Restart, Tick, Less, memory, history
<1>6. CASE UNCHANGED vars
  BY <1>6 DEF vars, memory, history
<1> QED BY <1>1, <1>2, <1>3, <1>4, <1>5, <1>6, Steps

\* A turn-off is adopted before its hold runs out: until then nothing can drive the heater.
LEMMA TurnOffCoverKept == TypeOK /\ TurnOffCovered /\ [Next]_vars => TurnOffCovered'
<1> SUFFICES ASSUME TypeOK, TurnOffCovered, [Next]_vars PROVE TurnOffCovered'
  OBVIOUS
<1> USE Numbers DEF TurnOffCovered
<1>1. CASE Read
  BY <1>1 DEF Read, history, NoCalls
<1>2. CASE AdoptTurnOn \/ AdoptTurnOff \/ Drive
  <2>1. hands_off' <= cool' /\ hands_off' \in Nat /\ cool' \in Nat
    BY <1>2 DEF AdoptTurnOn, AdoptTurnOff, Drive, ExternalHold, StartCooldown
  <2> QED BY <2>1
<1>3. CASE Leave
  BY <1>3 DEF Leave, EndOfCycle, memory, NoCalls
<1>4. CASE Answers
  \* Someone who turned it off did so with nothing under way to answer.
  <2>1. ASSUME NEW s \in Services, CallDone(s) \/ CallRaised(s)
        PROVE  hands_off <= cool /\ hands_off' = hands_off /\ cool' = cool
    BY <2>1, Constants DEF CallDone, CallRaised, CommandFailed, NoCalls, memory, history
  <2>2. CASE PressDone
    BY <2>2 DEF PressDone, memory, history
  <2>3. CASE PressRaised
    BY <2>3 DEF PressRaised
  <2> QED BY <1>4, <2>1, <2>2, <2>3 DEF Answers
<1>5. CASE ManualOn
  BY <1>5 DEF ManualOn
<1>6. CASE ManualOff
  <2>1. CASE dry_run
    BY <1>6, <2>1 DEF ManualOff, NoCalls
  <2>2. CASE ~dry_run
    BY <1>6, <2>2 DEF ManualOff, StartCooldown
  <2> QED BY <2>1, <2>2
<1>7. CASE Hand
  <2>1. CASE on /\ last = "on" /\ press = NoPress /\ NoCalls
    BY <1>7, <2>1 DEF Hand, NoCalls, memory
  <2>2. CASE ~(on /\ last = "on" /\ press = NoPress /\ NoCalls)
    <3>1. hands_off' = 0 /\ cool' = cool
      BY <1>7, <2>2 DEF Hand, memory
    <3> QED BY <3>1
  <2> QED BY <2>1, <2>2
<1>8. CASE Water \/ Reach \/ ToggleAuto \/ ToggleDryRun
  BY <1>8 DEF Water, Reach, ToggleAuto, ToggleDryRun, memory, history, NoCalls
<1>9. CASE Restart
  BY <1>9 DEF Restart
<1>10. CASE Tick
  BY <1>10 DEF Tick, Less, NoCalls
<1>11. CASE UNCHANGED vars
  BY <1>11 DEF vars, memory, history, NoCalls
<1> QED BY <1>1, <1>2, <1>3, <1>4, <1>5, <1>6, <1>7, <1>8, <1>9, <1>10, <1>11, Steps DEF Act, Around

\* A cycle that leaves a heater on in hot water has adopted it, and the next one drives it off.
LEMMA LeftOnOnceKept == TypeOK /\ LeftOnOnce /\ [Next]_vars => LeftOnOnce'
<1> SUFFICES ASSUME TypeOK, LeftOnOnce, [Next]_vars PROVE LeftOnOnce'
  OBVIOUS
<1> USE Numbers DEF LeftOnOnce
<1>1. CASE Read
  BY <1>1 DEF Read, history
<1>2. CASE AdoptTurnOn
  <2>0. last \in {"on", "off", "none"}
    BY DEF TypeOK, Services
  <2>1. last = "off" /\ ignored = 0 /\ last' = "on" /\ LeftOn
    <3>1. SeenOn /\ last # "none" /\ last # "on" /\ last' = "on" /\ LeftOn
      BY <1>2 DEF AdoptTurnOn, ToggledExternally
    <3> QED BY <2>0, <3>1
  <2>2. ignored' \in {0, 1}
    BY <2>1 DEF LeftOn
  <2> QED BY <2>1, <2>2
<1>3. CASE AdoptTurnOff
  BY <1>3 DEF AdoptTurnOff, LeftOn
<1>4. CASE Drive
  BY <1>4 DEF Drive
<1>5. CASE Leave
  <2>1. ~(cycle = "hot" /\ SeenOn /\ ~dry_run /\ ~first)
    BY <1>5 DEF Leave, Drives, HeldBack
  <2>2. ignored' = 0
    BY <1>5, <2>1 DEF Leave, LeftOn
  <2> QED BY <2>2
<1>6. CASE Answers
  BY <1>6 DEF Answers, CallDone, CallRaised, CommandFailed, PressDone, PressRaised, memory, history
<1>7. CASE ManualOn \/ ManualOff
  BY <1>7 DEF ManualOn, ManualOff
<1>8. CASE Around
  BY <1>8 DEF Around, Hand, Water, Reach, ToggleAuto, ToggleDryRun, Restart, Tick, memory, history
<1>9. CASE UNCHANGED vars
  BY <1>9 DEF vars, memory, history
<1> QED BY <1>1, <1>2, <1>3, <1>4, <1>5, <1>6, <1>7, <1>8, <1>9, Steps DEF Act

LEMMA Inductive == IInv /\ [Next]_vars => IInv'
BY NextType, CooldownKept, TurnOffCoverKept, LeftOnOnceKept DEF IInv

LEMMA Initially == Init => IInv
<1> SUFFICES ASSUME Init PROVE IInv
  OBVIOUS
<1>1. CooldownCovers /\ TurnOffCovered /\ LeftOnOnce
  BY DEF Init, CooldownCovers, TurnOffCovered, LeftOnOnce
<1> QED BY <1>1, InitType DEF IInv

THEOREM Invariance == Spec => []IInv
<1> QED BY Initially, Inductive, PTL DEF Spec

-----------------------------------------------------------------------------
(* What follows.                                                           *)

\* docs/concepts.md, Immersion divert: an automatic command waits for the cooldown of the one
\* before it, unless the water is hot, for every cooldown and whatever fails or restarts.
THEOREM ChangesSpaced == Spec => AutomaticChangesSpaced
<1>1. ASSUME IInv, Sends, cycle # "hot" PROVE quiet = 0
  <2>1. ~(cool > 0)
    BY <1>1 DEF Sends, Drive, Drives, HeldBack
  <2> QED BY <1>1, <2>1, Numbers DEF IInv, CooldownCovers
<1>2. IInv => [Sends /\ cycle # "hot" => quiet = 0]_vars
  BY <1>1
<1> QED BY <1>2, Invariance, PTL DEF AutomaticChangesSpaced

\* docs/concepts.md: no automatic turn-on overrides someone's turning off within the cooldown.
THEOREM TurnOffKept == Spec => TurningOffRespected
<1>1. ASSUME IInv, Sends, cycle = "on" PROVE hands_off = 0
  <2>1. ~(cool > 0) /\ ~ToggledExternally
    BY <1>1 DEF Sends, Drive, Drives, HeldBack
  <2>2. ASSUME hands_off > 0 PROVE FALSE
    <3>1. cool = 0 /\ last = "on" /\ ~on
      BY <1>1, <2>1, <2>2, Numbers DEF IInv, TurnOffCovered
    <3> QED BY <2>1, <3>1 DEF ToggledExternally, SeenOn
  <2> QED BY <1>1, <2>2, Numbers DEF IInv
<1>2. IInv => [Sends /\ cycle = "on" => hands_off = 0]_vars
  BY <1>1
<1> QED BY <1>2, Invariance, PTL DEF TurningOffRespected

\* The overheat bypass: a heater seen on in hot water is driven off by the next cycle that sees it.
THEOREM HotWater == Spec => []HotWaterStops
<1>1. IInv => HotWaterStops
  BY DEF IInv, LeftOnOnce, HotWaterStops
<1> QED BY <1>1, Invariance, PTL

\* Both at once, as the run checks them.
THEOREM TurningsSpaced == Spec => TurningsHaveTheirTime
BY ChangesSpaced, TurnOffKept DEF TurningsHaveTheirTime

-----------------------------------------------------------------------------
(* The log of the car's charges.                                            *)
USE SessionAssumption

Session == [car : Nat, energy : Nat]
SessionLog == [current : Session, recent : Seq(Session)]

(* A log is in the order of the cars, the newest first, while car c of n is plugged in. *)
InOrder(l, c, n) ==
  /\ Len(l.recent) <= MaxRecent
  /\ l.current.car = 0 => l.current.energy = 0
  /\ l.current.car <= n
  /\ \A i \in 1..Len(l.recent) : l.recent[i].car \in 1..n
  /\ \A i, j \in 1..Len(l.recent) : i < j => l.recent[j].car < l.recent[i].car
  /\ l.current.car # 0 => \A i \in 1..Len(l.recent) : l.recent[i].car < l.current.car
  /\ c # 0 => \A i \in 1..Len(l.recent) : l.recent[i].car < c

(* Car d is listed, or newer ones took all the places. *)
Listed(l, d) == l.current.car = d \/ \E i \in 1..Len(l.recent) : l.recent[i].car = d
Outlived(l, d) == Len(l.recent) = MaxRecent /\ \A i \in 1..Len(l.recent) : l.recent[i].car > d

(* Every car of ds is, and the session under way has its energy. *)
Remembers(l, ds) ==
  \A d \in ds : /\ Listed(l, d) \/ Outlived(l, d)
                /\ l.current.car = d => l.current.energy > 0

GoodLog(l, c, n, ds) == l \in SessionLog /\ InOrder(l, c, n) /\ Remembers(l, ds)

SessionInv ==
  /\ cars \in Nat /\ car \in {0, cars} /\ carLink \in {"up", "down", "fault"}
  /\ delivered \in SUBSET (Nat \ {0})
  /\ GoodLog(log, car, cars, delivered)
  /\ GoodLog(kept, car, cars, delivered)

-----------------------------------------------------------------------------
(* What a cycle does to a log keeps it good.                                *)
LEMMA FedIsGood ==
  ASSUME NEW c \in Nat, NEW n \in Nat, NEW ds \in SUBSET (Nat \ {0}),
         NEW l, GoodLog(l, c, n, ds), NEW energy \in 0..1
  PROVE  GoodLog(Fed(l, energy), c, n, ds) /\ Fed(l, energy).current.car = l.current.car
<1>1. CASE l.current = NoSession
  BY <1>1 DEF Fed
<1>2. CASE l.current # NoSession
  <2> DEFINE e == IF l.current.energy + energy > MaxEnergy THEN MaxEnergy ELSE l.current.energy + energy
             f == Fed(l, energy)
  <2>1. l \in SessionLog /\ l.current \in Session /\ l.current.energy \in Nat /\ l.current.car \in Nat
        /\ l.recent \in Seq(Session)
    BY DEF GoodLog, SessionLog, Session
  <2>2. e \in Nat /\ (l.current.energy > 0 => e > 0)
    BY <2>1, SessionAssumption
  <2>3. f = [l EXCEPT !.current.energy = e]
    BY <1>2 DEF Fed
  <2> HIDE DEF e, f
  <2>4. f.recent = l.recent /\ f.current = [l.current EXCEPT !.energy = e]
    BY <2>1, <2>3 DEF SessionLog
  <2>5. f.current.car = l.current.car /\ f.current.energy = e /\ f.current \in Session
    BY <2>1, <2>2, <2>4 DEF Session
  <2>6. f \in SessionLog
    BY <2>1, <2>3, <2>5, <2>4 DEF SessionLog
  <2>7. l.current.car # 0
    <3>1. l.current = [car |-> l.current.car, energy |-> l.current.energy]
      BY <2>1 DEF Session
    <3>2. l.current.car = 0 => l.current.energy = 0
      BY DEF GoodLog, InOrder
    <3> QED BY <1>2, <3>1, <3>2 DEF NoSession
  <2>8. InOrder(f, c, n)
    BY <2>4, <2>5, <2>7 DEF GoodLog, InOrder
  <2>9. Remembers(f, ds)
    BY <2>2, <2>4, <2>5 DEF GoodLog, Remembers, Listed, Outlived
  <2> QED BY <2>5, <2>6, <2>8, <2>9 DEF GoodLog, f
<1> QED BY <1>1, <1>2

LEMMA OpenedIsGood ==
  ASSUME NEW c \in Nat \ {0}, NEW n \in Nat, c <= n, NEW ds \in SUBSET (Nat \ {0}),
         NEW l, GoodLog(l, c, n, ds), l.current = NoSession
  PROVE  GoodLog([l EXCEPT !.current.car = c], c, n, ds)
<1> DEFINE f == [l EXCEPT !.current.car = c]
<1>1. l \in SessionLog /\ l.current \in Session /\ l.recent \in Seq(Session)
  BY DEF GoodLog, SessionLog
<1>2. f.recent = l.recent /\ f.current = [l.current EXCEPT !.car = c]
  BY <1>1 DEF SessionLog
<1>3. f.current.car = c /\ f.current.energy = 0 /\ f.current \in Session
  BY <1>1, <1>2 DEF Session, NoSession
<1>4. f \in SessionLog
  BY <1>1, <1>2, <1>3 DEF SessionLog
<1>5. InOrder(f, c, n)
  <2> HIDE DEF f
  <2> QED BY <1>2, <1>3 DEF GoodLog, InOrder
<1>6. Remembers(f, ds)
  <2> SUFFICES ASSUME NEW d \in ds
               PROVE  (Listed(f, d) \/ Outlived(f, d)) /\ (f.current.car = d => f.current.energy > 0)
    BY DEF Remembers
  <2> HIDE DEF f
  <2>1. l.current.car = 0 /\ d # 0 /\ Len(l.recent) \in Nat
    BY <1>1 DEF NoSession
  <2>2. Listed(l, d) \/ Outlived(l, d)
    BY DEF GoodLog, Remembers
  <2>3. Listed(f, d) \/ Outlived(f, d)
    BY <1>2, <2>1, <2>2 DEF Listed, Outlived
  <2>4. d < c
    <3>1. CASE Listed(l, d)
      BY <2>1, <3>1 DEF Listed, GoodLog, InOrder
    <3>2. CASE Outlived(l, d)
      <4>1. 1 \in 1..Len(l.recent)
        BY <3>2, <2>1, SessionAssumption DEF Outlived
      <4>2. l.recent[1].car > d /\ l.recent[1].car < c /\ l.recent[1].car \in Nat
        BY <4>1, <3>2 DEF Outlived, GoodLog, InOrder
      <4>3. d \in Nat
        OBVIOUS
      <4> QED BY <4>2, <4>3
    <3> QED BY <2>2, <3>1, <3>2
  <2> QED BY <1>3, <2>3, <2>4
<1> QED BY <1>4, <1>5, <1>6 DEF GoodLog

LEMMA FinishedIsGood ==
  ASSUME NEW n \in Nat, NEW ds \in SUBSET (Nat \ {0}), NEW l, GoodLog(l, 0, n, ds)
  PROVE  GoodLog(Finished(l), 0, n, ds)
<1> DEFINE f == Finished(l)
<1>1. l \in SessionLog /\ l.current \in Session /\ l.recent \in Seq(Session) /\ Len(l.recent) \in Nat
      /\ l.current.car \in Nat /\ l.current.energy \in Nat
  BY DEF GoodLog, SessionLog, Session
<1>2. NoSession \in Session /\ NoSession.car = 0 /\ NoSession.energy = 0
  BY DEF NoSession, Session
<1>3. f.current = NoSession
  BY DEF Finished
<1>4. CASE l.current.energy = 0
  <2>1. f.recent = l.recent /\ f = [current |-> NoSession, recent |-> l.recent]
    BY <1>4 DEF Finished
  <2>2. f \in SessionLog
    BY <1>1, <1>2, <2>1 DEF SessionLog
  <2> HIDE DEF f
  <2>3. InOrder(f, 0, n)
    BY <1>2, <1>3, <2>1 DEF GoodLog, InOrder
  <2>4. Remembers(f, ds)
    <3> SUFFICES ASSUME NEW d \in ds
                 PROVE  (Listed(f, d) \/ Outlived(f, d)) /\ (f.current.car = d => f.current.energy > 0)
      BY DEF Remembers
    <3>1. l.current.car # d /\ (Listed(l, d) \/ Outlived(l, d)) /\ d # 0
      BY <1>4 DEF GoodLog, Remembers
    <3> QED BY <1>2, <1>3, <2>1, <3>1 DEF Listed, Outlived
  <2> QED BY <2>2, <2>3, <2>4 DEF GoodLog, f
<1>5. CASE l.current.energy # 0
  <2> DEFINE all == <<l.current>> \o l.recent
             m == IF Len(all) > MaxRecent THEN MaxRecent ELSE Len(all)
  <2>1. all \in Seq(Session) /\ Len(all) = Len(l.recent) + 1
    BY <1>1
  <2>2. m \in Nat /\ m >= 1 /\ m <= Len(l.recent) + 1 /\ m <= MaxRecent
        /\ (m # Len(l.recent) + 1 => m = MaxRecent)
    BY <1>1, <2>1, SessionAssumption
  <2>3. \A i \in 1..(Len(l.recent) + 1) : all[i] = IF i = 1 THEN l.current ELSE l.recent[i - 1]
    BY <1>1
  <2>4. f.recent = SubSeq(all, 1, m)
    BY <1>5 DEF Finished
  <2> HIDE DEF all, m
  <2>5. f.recent \in Seq(Session) /\ Len(f.recent) = m
    BY <2>1, <2>2, <2>4
  <2>6. \A i \in 1..m : f.recent[i] = IF i = 1 THEN l.current ELSE l.recent[i - 1]
    BY <2>1, <2>2, <2>3, <2>4
  <2>7. f \in SessionLog
    BY <1>2, <2>5 DEF SessionLog, Finished
  <2> HIDE DEF f
  <2>8. l.current.car # 0
    BY <1>1, <1>5 DEF GoodLog, InOrder
  <2>9. \A i \in 1..Len(l.recent) : l.recent[i].car \in 1..n /\ l.recent[i].car < l.current.car
    BY <2>8 DEF GoodLog, InOrder
  <2>10. l.current.car \in 1..n
    BY <1>1, <2>8 DEF GoodLog, InOrder
  <2>11. \A i \in 1..m : f.recent[i].car \in 1..n
    <3>1. ASSUME NEW i \in 1..m, i # 1 PROVE f.recent[i].car \in 1..n
      <4>1. i - 1 \in 1..Len(l.recent)
        BY <1>1, <2>2, <3>1
      <4> QED BY <2>6, <2>9, <3>1, <4>1
    <3> QED BY <2>6, <2>10, <3>1
  <2>12. \A i, j \in 1..m : i < j => f.recent[j].car < f.recent[i].car
    <3> SUFFICES ASSUME NEW i \in 1..m, NEW j \in 1..m, i < j PROVE f.recent[j].car < f.recent[i].car
      OBVIOUS
    <3>1. j # 1 /\ j - 1 \in 1..Len(l.recent) /\ f.recent[j] = l.recent[j - 1]
      BY <1>1, <2>2, <2>6
    <3>2. CASE i = 1
      BY <2>6, <2>9, <3>1, <3>2
    <3>3. CASE i # 1
      <4>1. i - 1 \in 1..Len(l.recent) /\ f.recent[i] = l.recent[i - 1] /\ i - 1 < j - 1
        BY <1>1, <2>2, <2>6, <3>3
      <4> QED BY <3>1, <4>1 DEF GoodLog, InOrder
    <3> QED BY <3>2, <3>3
  <2>13. InOrder(f, 0, n)
    BY <1>2, <1>3, <2>2, <2>5, <2>11, <2>12 DEF InOrder
  <2>14. Remembers(f, ds)
    <3> SUFFICES ASSUME NEW d \in ds
                 PROVE  (Listed(f, d) \/ Outlived(f, d)) /\ (f.current.car = d => f.current.energy > 0)
      BY DEF Remembers
    <3>1. (Listed(l, d) \/ Outlived(l, d)) /\ d \in Nat /\ d # 0
      BY DEF GoodLog, Remembers
    <3>2. CASE l.current.car = d
      <4>1. 1 \in 1..m /\ f.recent[1].car = d
        BY <2>2, <2>6, <3>2
      <4> QED BY <1>2, <1>3, <2>5, <3>1, <4>1 DEF Listed
    <3>3. CASE Outlived(l, d)
      <4>1. m = MaxRecent
        BY <1>1, <2>2, <3>3 DEF Outlived
      <4>2. Len(l.recent) >= 1 /\ l.recent[1].car > d /\ l.current.car > d
        <5>1. 1 \in 1..Len(l.recent)
          BY <1>1, <3>3, SessionAssumption DEF Outlived
        <5> QED BY <1>1, <2>9, <3>1, <3>3, <5>1 DEF Outlived
      <4>3. ASSUME NEW i \in 1..m PROVE f.recent[i].car > d
        <5>1. CASE i = 1
          BY <2>6, <4>2, <5>1
        <5>2. CASE i # 1
          <6>1. i - 1 \in 1..Len(l.recent)
            BY <1>1, <2>2, <5>2
          <6> QED BY <2>6, <3>3, <5>2, <6>1 DEF Outlived
        <5> QED BY <5>1, <5>2
      <4>4. Outlived(f, d)
        BY <2>5, <4>1, <4>3 DEF Outlived
      <4> QED BY <1>2, <1>3, <3>1, <4>4
    <3>4. CASE l.current.car # d /\ Listed(l, d)
      <4>1. PICK i \in 1..Len(l.recent) : l.recent[i].car = d
        BY <3>4 DEF Listed
      <4>2. CASE i + 1 <= m
        <5>1. i + 1 \in 1..m /\ f.recent[i + 1] = l.recent[i]
          BY <1>1, <2>2, <2>6, <4>2
        <5> QED BY <1>2, <1>3, <2>5, <3>1, <4>1, <5>1 DEF Listed
      <4>3. CASE i + 1 > m
        <5>1. m = MaxRecent /\ i = m /\ i = Len(l.recent)
          BY <1>1, <2>2, <4>3 DEF GoodLog, InOrder
        <5>2. ASSUME NEW k \in 1..m PROVE f.recent[k].car > d
          <6>1. CASE k = 1
            BY <2>6, <2>9, <4>1, <6>1
          <6>2. CASE k # 1
            <7>1. k - 1 \in 1..Len(l.recent) /\ k - 1 < i /\ f.recent[k] = l.recent[k - 1]
              BY <1>1, <2>2, <2>6, <5>1, <6>2
            <7> QED BY <4>1, <7>1 DEF GoodLog, InOrder
          <6> QED BY <6>1, <6>2
        <5>3. Outlived(f, d)
          BY <2>5, <5>1, <5>2 DEF Outlived
        <5> QED BY <1>2, <1>3, <3>1, <5>3
      <4> QED BY <4>2, <4>3, <2>2
    <3> QED BY <3>1, <3>2, <3>3, <3>4
  <2> QED BY <2>7, <2>13, <2>14 DEF GoodLog, f
<1> QED BY <1>4, <1>5

LEMMA TrackedIsGood ==
  ASSUME SessionInv, NEW state, NEW energy \in 0..1,
         state = "plugged" => car # 0, state = "disconnected" => car = 0
  PROVE  GoodLog(Tracked(log, state, energy), car, cars, delivered)
<1>1. car \in Nat /\ cars \in Nat /\ car <= cars /\ delivered \in SUBSET (Nat \ {0})
      /\ GoodLog(log, car, cars, delivered)
  BY DEF SessionInv
<1> DEFINE opened == IF state = "plugged" /\ log.current = NoSession THEN [log EXCEPT !.current.car = car] ELSE log
<1>2. GoodLog(opened, car, cars, delivered)
  <2>1. CASE state = "plugged" /\ log.current = NoSession
    <3>1. car \in Nat \ {0}
      BY <1>1, <2>1
    <3> QED BY <1>1, <2>1, <3>1, OpenedIsGood
  <2> QED BY <1>1, <2>1
<1> HIDE DEF opened
<1>3. GoodLog(Fed(opened, energy), car, cars, delivered) /\ GoodLog(Fed(log, energy), car, cars, delivered)
  BY <1>1, <1>2, FedIsGood
<1>4. state = "disconnected" => GoodLog(Finished(Fed(log, energy)), car, cars, delivered)
  BY <1>1, <1>3, FinishedIsGood
<1>5. CASE state = "plugged"
  <2>1. Tracked(log, state, energy) = Fed(opened, energy)
    BY <1>5 DEF Tracked, opened
  <2> QED BY <1>3, <2>1
<1>6. CASE state = "disconnected"
  <2>1. Tracked(log, state, energy) = Finished(Fed(log, energy))
    BY <1>6 DEF Tracked
  <2> QED BY <1>4, <1>6, <2>1
<1>7. CASE state # "plugged" /\ state # "disconnected"
  <2>1. Tracked(log, state, energy) = Fed(log, energy)
    BY <1>7 DEF Tracked
  <2> QED BY <1>3, <2>1
<1> QED BY <1>5, <1>6, <1>7

(* A log that is stored has stored all of its energy. *)
LEMMA StoredIsGood ==
  ASSUME SessionInv
  PROVE  /\ delivered \cup Delivered(log) \in SUBSET (Nat \ {0})
         /\ GoodLog(log, car, cars, delivered \cup Delivered(log))
<1>1. /\ log \in SessionLog /\ log.current \in Session /\ log.recent \in Seq(Session) /\ InOrder(log, car, cars)
      /\ Remembers(log, delivered) /\ cars \in Nat /\ delivered \in SUBSET (Nat \ {0})
  BY DEF SessionInv, GoodLog, SessionLog
<1>2. ASSUME NEW d \in Delivered(log)
      PROVE  d \in Nat \ {0} /\ Listed(log, d) /\ (log.current.car = d => log.current.energy > 0)
  <2>1. PICK s \in SessionsOf(log) : s.energy > 0 /\ s.car = d
    BY DEF Delivered
  <2>2. CASE s = log.current
    <3>1. d = log.current.car /\ log.current.energy > 0 /\ d \in Nat
      BY <1>1, <2>1, <2>2 DEF Session
    <3>2. d # 0
      BY <1>1, <3>1 DEF InOrder
    <3> QED BY <3>1, <3>2 DEF Listed
  <2>3. CASE s # log.current
    <3>1. PICK i \in 1..Len(log.recent) : s = log.recent[i]
      <4>1. s \in ToSet(log.recent)
        BY <2>3 DEF SessionsOf
      <4>2. DOMAIN log.recent = 1..Len(log.recent)
        BY <1>1
      <4> QED BY <4>1, <4>2 DEF ToSet
    <3>2. d \in 1..cars
      BY <1>1, <2>1, <3>1 DEF InOrder
    <3>3. log.current.car # d
      BY <1>1, <2>1, <3>1, <3>2 DEF InOrder
    <3> QED BY <2>1, <3>1, <3>2, <3>3, <1>1 DEF Listed
  <2> QED BY <2>2, <2>3
<1>3. Remembers(log, delivered \cup Delivered(log))
  BY <1>1, <1>2 DEF Remembers
<1>4. delivered \cup Delivered(log) \in SUBSET (Nat \ {0})
  BY <1>1, <1>2
<1> QED BY <1>1, <1>3, <1>4 DEF GoodLog

LEMMA OrderStays ==
  ASSUME NEW l \in SessionLog, NEW c \in Nat, NEW n \in Nat, InOrder(l, c, n)
  PROVE  InOrder(l, 0, n) /\ InOrder(l, n + 1, n + 1)
<1>1. l.current.car \in Nat /\ Len(l.recent) \in Nat
  BY DEF SessionLog, Session
<1>2. InOrder(l, 0, n)
  BY DEF InOrder
<1>3. InOrder(l, n + 1, n + 1)
  BY <1>1 DEF InOrder
<1> QED BY <1>2, <1>3

LEMMA SessionBegins == SessionInit => SessionInv
<1> SUFFICES ASSUME SessionInit PROVE SessionInv
  OBVIOUS
<1>1. NoLog \in SessionLog /\ NoLog.recent = <<>> /\ NoLog.current.car = 0 /\ NoLog.current.energy = 0
  BY DEF NoLog, NoSession, SessionLog, Session
<1>2. GoodLog(NoLog, 0, 0, {})
  BY <1>1 DEF GoodLog, InOrder, Remembers
<1> QED BY <1>2 DEF SessionInit, SessionInv

LEMMA SessionStep == SessionInv /\ [SessionNext]_sessionVars => SessionInv'
<1> SUFFICES ASSUME SessionInv, [SessionNext]_sessionVars PROVE SessionInv'
  OBVIOUS
<1>1. /\ cars \in Nat /\ car \in {0, cars} /\ carLink \in {"up", "down", "fault"} /\ delivered \in SUBSET (Nat \ {0})
      /\ GoodLog(log, car, cars, delivered) /\ GoodLog(kept, car, cars, delivered)
  BY DEF SessionInv
<1>2. CASE SessionCycle
  <2>1. GoodLog(log', car, cars, delivered)
    <3>1. PICK energy \in 0..(IF car = 0 \/ ~charger_found' THEN 0 ELSE 1) :
            log' = IF charger_found' THEN Tracked(log, reading', energy) ELSE log
      BY <1>2 DEF SessionCycle
    <3>2. energy \in 0..1
      BY <3>1
    <3>3. charger_found' => (reading' = "plugged" => car # 0) /\ (reading' = "disconnected" => car = 0)
      BY <1>1, <1>2 DEF SessionCycle
    <3>4. CASE charger_found'
      BY <3>1, <3>2, <3>3, <3>4, TrackedIsGood
    <3>5. CASE ~charger_found'
      BY <1>1, <3>1, <3>5
    <3> QED BY <3>4, <3>5
  <2>2. UNCHANGED <<car, cars, carLink, kept, delivered>>
    BY <1>2 DEF SessionCycle
  <2> QED BY <1>1, <2>1, <2>2 DEF SessionInv
<1>3. CASE SaveSessions
  <2>1. kept' = log /\ log' = log /\ delivered' = delivered \cup Delivered(log) /\ UNCHANGED <<car, cars, carLink>>
    BY <1>3 DEF SaveSessions
  <2> QED BY <1>1, <2>1, StoredIsGood DEF SessionInv
<1>4. CASE RestartSessions
  <2>1. PICK orderly \in BOOLEAN : /\ kept' = IF orderly THEN log ELSE kept
                                   /\ delivered' = IF orderly THEN delivered \cup Delivered(log) ELSE delivered
    BY <1>4 DEF RestartSessions
  <2>2. log' = kept' /\ UNCHANGED <<car, cars, carLink>>
    BY <1>4 DEF RestartSessions
  <2>3. CASE orderly
    <3>1. kept' = log /\ delivered' = delivered \cup Delivered(log)
      BY <2>1, <2>3
    <3> QED BY <1>1, <2>2, <3>1, StoredIsGood DEF SessionInv
  <2>4. CASE ~orderly
    <3>1. kept' = kept /\ delivered' = delivered
      BY <2>1, <2>4
    <3> QED BY <1>1, <2>2, <3>1 DEF SessionInv
  <2> QED BY <2>3, <2>4
<1>5. CASE Plug
  <2>1. UNCHANGED <<carLink, log, kept, delivered>>
    BY <1>5 DEF Plug
  <2>2. car \in Nat /\ log \in SessionLog /\ kept \in SessionLog /\ InOrder(log, car, cars) /\ InOrder(kept, car, cars)
    BY <1>1 DEF GoodLog
  <2>3. CASE car' = cars + 1 /\ cars' = cars + 1
    BY <1>1, <2>1, <2>2, <2>3, OrderStays DEF SessionInv, GoodLog
  <2>4. CASE car' = 0 /\ cars' = cars
    BY <1>1, <2>1, <2>2, <2>4, OrderStays DEF SessionInv, GoodLog
  <2> QED BY <1>5, <2>3, <2>4 DEF Plug
<1>6. CASE Link
  BY <1>1, <1>6 DEF Link, SessionInv
<1>7. CASE UNCHANGED sessionVars
  BY <1>1, <1>7 DEF sessionVars, SessionInv
<1> QED BY <1>2, <1>3, <1>4, <1>5, <1>6, <1>7 DEF SessionNext

-----------------------------------------------------------------------------
(* What follows of a log that is good.                                      *)
LEMMA CarsAreDistinct == SessionInv => OnePlugOneSession
<1> SUFFICES ASSUME SessionInv PROVE OnePlugOneSession
  OBVIOUS
<1>1. /\ log \in SessionLog /\ log.current \in Session /\ log.recent \in Seq(Session) /\ InOrder(log, car, cars)
      /\ Len(log.recent) \in Nat /\ cars \in Nat
  BY DEF SessionInv, GoodLog, SessionLog
<1> DEFINE k == IF log.current = NoSession THEN 0 ELSE 1
           S == {s.car : s \in SessionsOf(log) \ {NoSession}}
           f == [i \in 1..(Len(log.recent) + k) |-> IF i <= Len(log.recent) THEN log.recent[i].car ELSE log.current.car]
<1>2. /\ k \in Nat /\ Len(log.recent) + k \in Nat
      /\ \/ k = 0 /\ log.current = NoSession
         \/ k = 1 /\ log.current # NoSession
  <2>1. CASE log.current = NoSession
    BY <1>1, <2>1
  <2>2. CASE log.current # NoSession
    BY <1>1, <2>2
  <2> QED BY <2>1, <2>2
<1> HIDE DEF k
<1>3. log.current # NoSession => log.current.car # 0
  <2>1. log.current = [car |-> log.current.car, energy |-> log.current.energy]
    BY <1>1 DEF Session
  <2> QED BY <1>1, <2>1 DEF InOrder, NoSession
<1>4. \A i \in 1..Len(log.recent) : /\ log.recent[i] \in SessionsOf(log) /\ log.recent[i] # NoSession
                                    /\ log.recent[i].car \in S
  <2> SUFFICES ASSUME NEW i \in 1..Len(log.recent)
               PROVE  log.recent[i] \in SessionsOf(log) /\ log.recent[i] # NoSession
    OBVIOUS
  <2>1. log.recent[i] \in ToSet(log.recent)
    BY <1>1 DEF ToSet
  <2>2. log.recent[i].car \in 1..cars
    BY <1>1 DEF InOrder
  <2> QED BY <2>1, <2>2 DEF SessionsOf, NoSession
<1>5. log.current # NoSession => log.current.car \in S
  BY DEF SessionsOf
<1>6. ASSUME NEW x \in S
      PROVE  \/ \E i \in 1..Len(log.recent) : x = log.recent[i].car
             \/ log.current # NoSession /\ x = log.current.car
  <2>1. PICK s \in SessionsOf(log) : s # NoSession /\ x = s.car
    BY <1>6
  <2>2. CASE s = log.current
    BY <2>1, <2>2
  <2>3. CASE s # log.current
    <3>1. s \in ToSet(log.recent)
      BY <2>1, <2>3 DEF SessionsOf
    <3>2. DOMAIN log.recent = 1..Len(log.recent)
      BY <1>1
    <3> QED BY <2>1, <3>1, <3>2 DEF ToSet
  <2> QED BY <2>2, <2>3
<1> HIDE DEF S
<1>7. f \in [1..(Len(log.recent) + k) -> S]
  <2> SUFFICES ASSUME NEW i \in 1..(Len(log.recent) + k)
               PROVE  (IF i <= Len(log.recent) THEN log.recent[i].car ELSE log.current.car) \in S
    OBVIOUS
  <2>1. CASE i <= Len(log.recent)
    BY <1>1, <1>4, <2>1
  <2>2. CASE ~(i <= Len(log.recent))
    <3>1. k = 1 /\ log.current # NoSession
      BY <1>1, <1>2, <2>2
    <3> QED BY <1>5, <2>2, <3>1
  <2> QED BY <2>1, <2>2
<1>8. ASSUME NEW i \in 1..(Len(log.recent) + k), NEW j \in 1..(Len(log.recent) + k), i < j
      PROVE  f[j] # f[i]
  <2>1. i \in 1..Len(log.recent) /\ f[i] = log.recent[i].car /\ f[i] \in 1..cars
    BY <1>1, <1>2, <1>8 DEF InOrder
  <2>2. CASE j <= Len(log.recent)
    <3>1. f[j] = log.recent[j].car /\ j \in 1..Len(log.recent) /\ log.recent[j].car \in 1..cars
      BY <1>1, <1>8, <2>2 DEF InOrder
    <3> QED BY <1>1, <1>8, <2>1, <3>1 DEF InOrder
  <2>3. CASE ~(j <= Len(log.recent))
    <3>1. f[j] = log.current.car /\ log.current # NoSession /\ log.current.car \in Nat
      BY <1>1, <1>2, <1>8, <2>3 DEF Session
    <3> QED BY <1>1, <1>3, <2>1, <3>1 DEF InOrder
  <2> QED BY <2>2, <2>3
<1>9. ASSUME NEW x \in S PROVE \E i \in 1..(Len(log.recent) + k) : f[i] = x
  <2>1. CASE \E i \in 1..Len(log.recent) : x = log.recent[i].car
    <3>1. PICK i \in 1..Len(log.recent) : x = log.recent[i].car
      BY <2>1
    <3>2. i \in 1..(Len(log.recent) + k) /\ f[i] = x
      BY <1>1, <1>2, <3>1
    <3> QED BY <3>2
  <2>2. CASE log.current # NoSession /\ x = log.current.car
    <3>1. k = 1 /\ Len(log.recent) + 1 \in 1..(Len(log.recent) + k)
      BY <1>1, <1>2, <2>2
    <3>2. f[Len(log.recent) + 1] = x
      BY <1>1, <2>2, <3>1
    <3> QED BY <3>1, <3>2
  <2> QED BY <1>6, <2>1, <2>2
<1> HIDE DEF f
<1>10. \A i, j \in 1..(Len(log.recent) + k) : f[i] = f[j] => i = j
  <2> SUFFICES ASSUME NEW i \in 1..(Len(log.recent) + k), NEW j \in 1..(Len(log.recent) + k), i # j
               PROVE  f[i] # f[j]
    OBVIOUS
  <2>1. i < j \/ j < i
    BY <1>2
  <2> QED BY <1>8, <2>1
<1>11. f \in Bijection(1..(Len(log.recent) + k), S)
  <2>1. f \in Injection(1..(Len(log.recent) + k), S)
    BY <1>7, <1>10, Zenon DEF Injection, IsInjective
  <2>2. f \in Surjection(1..(Len(log.recent) + k), S)
    BY <1>7, <1>9, Zenon DEF Surjection
  <2> QED BY <2>1, <2>2, Zenon DEF Bijection
<1>12. ExistsBijection(1..(Len(log.recent) + k), S)
  BY <1>11 DEF ExistsBijection
<1>13. Cardinality(S) = Len(log.recent) + k
  BY <1>2, <1>12, FS_CountingElements
<1> QED BY <1>13 DEF OnePlugOneSession, S, k

LEMMA StoredAreThere == SessionInv => StoredChargesStay
<1> SUFFICES ASSUME SessionInv, NEW c \in delivered
             PROVE  \/ \E s \in SessionsOf(log) : s.car = c
                    \/ /\ Len(log.recent) = MaxRecent
                       /\ \A i \in DOMAIN log.recent : log.recent[i].car > c
  BY DEF StoredChargesStay
<1>1. log.recent \in Seq(Session) /\ DOMAIN log.recent = 1..Len(log.recent)
  BY DEF SessionInv, GoodLog, SessionLog
<1>2. Listed(log, c) \/ Outlived(log, c)
  BY DEF SessionInv, GoodLog, Remembers
<1>3. Listed(log, c) => \E s \in SessionsOf(log) : s.car = c
  BY <1>1 DEF Listed, SessionsOf, ToSet
<1>4. Outlived(log, c) => Len(log.recent) = MaxRecent /\ \A i \in DOMAIN log.recent : log.recent[i].car > c
  BY <1>1 DEF Outlived
<1> QED BY <1>2, <1>3, <1>4

(* No car that was plugged in once is listed twice, and no charge that was ever stored with its     *)
(* energy is lost but to newer ones, though the charger drops out, cars are swapped unseen and Home *)
(* Assistant crashes: for any number of cars and places in the log (track_session, async_save).     *)
THEOREM LogKept == SessionInit /\ [][SessionNext]_sessionVars => [](OnePlugOneSession /\ StoredChargesStay)
<1>1. SessionInv => OnePlugOneSession /\ StoredChargesStay
  BY CarsAreDistinct, StoredAreThere
<1> QED BY <1>1, SessionBegins, SessionStep, PTL

HIDE SessionAssumption

-----------------------------------------------------------------------------
(* The record of the heating.                                               *)
USE RecordAssumption

HourHeats == [HoursOfDay -> Nat]

RecordTypeOK ==
  /\ today \in Nat /\ hourNow \in HoursOfDay
  /\ heatDays \in [DOMAIN heatDays -> HourHeats] /\ DOMAIN heatDays \in SUBSET (0..today)
  /\ heated \in [DOMAIN heated -> Nat]

(* No heat is used in an hour to come, and none that is not noted on a day that lost nothing. *)
NotAhead == \A d \in Nat, h \in HoursOfDay : d > today \/ (d = today /\ h >= hourNow) => <<d, h>> \notin DOMAIN heated
FreshDay == today \notin DOMAIN heatDays \cup crashed => \A h \in HoursOfDay : Heat(today, h) = 0

(* The days noted are in one stretch of the days that are kept. *)
Within(days, m) == \A d \in DOMAIN days : m - RecordDays <= d /\ d <= m
InStretch == \E m \in Nat : Within(heatDays, m)

Noted ==
  \A d \in DOMAIN heatDays, h \in HoursOfDay :
    heatDays[d][h] <= Heat(d, h) /\ (d \notin crashed => heatDays[d][h] = Heat(d, h))

RecordInv == RecordTypeOK /\ NotAhead /\ FreshDay /\ InStretch /\ Noted

-----------------------------------------------------------------------------
LEMMA RecordNumbers ==
  /\ DayHours \in Nat \ {0} /\ RecordDays \in Nat \ {0} /\ HourParts \in Nat
  /\ HoursOfDay \in SUBSET Nat /\ 0 \in HoursOfDay
  /\ \A h \in HoursOfDay : h < DayHours
BY DEF HoursOfDay

LEMMA HeatTyped ==
  ASSUME RecordTypeOK, NEW d, NEW h
  PROVE  Heat(d, h) \in Nat
BY DEF RecordTypeOK, Heat

LEMMA MaxIs ==
  ASSUME NEW S \in SUBSET Int, NEW m \in S, \A y \in S : y <= m
  PROVE  Max(S) = m
<1>1. \A y \in S : m >= y
  OBVIOUS
<1>2. Max(S) \in S /\ \A y \in S : Max(S) >= y
  BY <1>1 DEF Max
<1> DEFINE x == Max(S)
<1>3. x \in S /\ x >= m
  BY <1>2
<1> HIDE DEF x
<1>4. x \in Int /\ m \in Int /\ x <= m
  BY <1>3
<1>5. x = m
  BY <1>3, <1>4
<1> QED BY <1>5 DEF x

(* What an hour adds: to its own day, and the days before the last ones go. *)
LEMMA AddedIs ==
  ASSUME RecordTypeOK, NEW heat \in Nat
  PROVE  LET now == Added(heatDays, today, hourNow, heat)
             day == IF today \in DOMAIN heatDays THEN heatDays[today] ELSE EmptyDay
         IN  /\ now \in [DOMAIN now -> HourHeats]
             /\ DOMAIN now = {e \in DOMAIN heatDays \cup {today} : e >= today - RecordDays}
             /\ \A e \in DOMAIN now : e # today => now[e] = heatDays[e]
             /\ day \in HourHeats
             /\ now[today] = [day EXCEPT ![hourNow] = day[hourNow] + heat]
<1> DEFINE now == Added(heatDays, today, hourNow, heat)
           day == IF today \in DOMAIN heatDays THEN heatDays[today] ELSE EmptyDay
           noted == [e \in DOMAIN heatDays \cup {today} |->
                       IF e = today THEN [day EXCEPT ![hourNow] = @ + heat] ELSE heatDays[e]]
           D == {e \in DOMAIN heatDays \cup {today} : e >= today - RecordDays}
<1>1. today \in Nat /\ hourNow \in HoursOfDay /\ DOMAIN heatDays \in SUBSET (0..today)
      /\ heatDays \in [DOMAIN heatDays -> HourHeats]
  BY DEF RecordTypeOK
<1>2. day \in HourHeats
  BY <1>1 DEF EmptyDay, HourHeats
<1>3. DOMAIN noted = DOMAIN heatDays \cup {today}
  OBVIOUS
<1>4. Max(DOMAIN noted) = today
  <2> DEFINE S == DOMAIN heatDays \cup {today}
  <2>1. S \in SUBSET Int /\ today \in S /\ \A y \in S : y <= today
    BY <1>1
  <2> HIDE DEF S
  <2>2. Max(S) = today
    BY <2>1, MaxIs
  <2> QED BY <1>3, <2>2 DEF S
<1>5. now = Kept(noted)
  BY DEF Added
<1>6. Kept(noted) = [d \in {e \in DOMAIN noted : e >= today - RecordDays} |-> noted[d]]
  BY <1>4 DEF Kept
<1>7. now = [d \in D |-> noted[d]]
  BY <1>3, <1>5, <1>6
<1>8. DOMAIN now = D /\ \A d \in D : now[d] = noted[d]
  BY <1>7
<1>9. [day EXCEPT ![hourNow] = day[hourNow] + heat] \in HourHeats
  <2>1. day[hourNow] + heat \in Nat
    BY <1>1, <1>2 DEF HourHeats
  <2> HIDE DEF day
  <2> QED BY <1>1, <1>2, <2>1 DEF HourHeats
<1>10. \A d \in D : /\ d # today => noted[d] = heatDays[d] /\ noted[d] \in HourHeats
                    /\ d = today => noted[d] = [day EXCEPT ![hourNow] = day[hourNow] + heat]
  <2> HIDE DEF day
  <2> QED BY <1>1
<1>11. today \in D
  BY <1>1, RecordNumbers
<1>12. \A d \in D : noted[d] \in HourHeats
  BY <1>9, <1>10
<1> HIDE DEF now, noted, day, D
<1>13. now \in [D -> HourHeats]
  BY <1>7, <1>12
<1> QED BY <1>2, <1>8, <1>10, <1>11, <1>13 DEF now, noted, day, D

(* An hour to come after an hour has gone by was to come before it, and not the one that went. *)
LEMMA LaterHour ==
  ASSUME NEW t \in Nat, NEW h \in Nat, NEW t2 \in Nat, NEW h2 \in Nat, NEW d \in Nat, NEW k \in Nat,
         t2 >= t, t2 = t => h2 = h + 1, d > t2 \/ (d = t2 /\ k >= h2)
  PROVE  (d > t \/ (d = t /\ k >= h)) /\ ~(d = t /\ k = h)
<1>1. CASE d > t2
  BY <1>1
<1>2. CASE d = t2 /\ k >= h2
  BY <1>2
<1> QED BY <1>1, <1>2

(* Time goes on by an hour. *)
LEMMA HourPasses ==
  ASSUME RecordTypeOK, NextHour
  PROVE  /\ today' \in Nat /\ hourNow' \in HoursOfDay
         /\ today' >= today
         /\ today' = today => hourNow' = hourNow + 1
<1>1. today \in Nat /\ hourNow \in Nat /\ hourNow < DayHours
  BY RecordNumbers DEF RecordTypeOK
<1>2. CASE hourNow + 1 < DayHours
  BY <1>1, <1>2, RecordNumbers DEF NextHour, HoursOfDay
<1>3. CASE ~(hourNow + 1 < DayHours)
  BY <1>1, <1>3, RecordNumbers DEF NextHour
<1> QED BY <1>2, <1>3

(* Of the last days, there are at most so many. *)
LEMMA FewDays ==
  ASSUME NEW m \in Nat, NEW days, Within(days, m), DOMAIN days \in SUBSET Nat
  PROVE  Cardinality(DOMAIN days) <= RecordDays + 1
<1>1. RecordDays \in Nat /\ m - RecordDays \in Int /\ m \in Int
  BY RecordNumbers
<1> DEFINE oldest == m - RecordDays
<1>2. IsFiniteSet(oldest..m) /\ Cardinality(oldest..m) = RecordDays + 1
  <2>1. oldest \in Int /\ ~(oldest > m) /\ m - oldest + 1 = RecordDays + 1
    BY <1>1
  <2> HIDE DEF oldest
  <2>2. IsFiniteSet(oldest..m) /\ Cardinality(oldest..m) = IF oldest > m THEN 0 ELSE m - oldest + 1
    BY <1>1, <2>1, FS_Interval
  <2> QED BY <2>1, <2>2
<1>3. DOMAIN days \in SUBSET ((m - RecordDays)..m)
  BY <1>1 DEF Within
<1> QED BY <1>2, <1>3, FS_Subset

(* What was used, once an hour has gone by in which the record was kept. *)
LEMMA HeatedIs ==
  ASSUME RecordTypeOK, NotAhead, NEW heat \in Nat,
         heated' = IF heat = 0 THEN heated
                   ELSE [k \in DOMAIN heated \cup {<<today, hourNow>>} |-> IF k \in DOMAIN heated THEN heated[k] ELSE heat]
  PROVE  /\ heated' \in [DOMAIN heated' -> Nat]
         /\ \A d \in Nat, h \in HoursOfDay : <<d, h>> \in DOMAIN heated' =>
              <<d, h>> \in DOMAIN heated \/ (d = today /\ h = hourNow)
         /\ \A d \in Nat, h \in HoursOfDay :
              Heat(d, h)' = IF d = today /\ h = hourNow THEN heat ELSE Heat(d, h)
         /\ Heat(today, hourNow) = 0
<1>1. today \in Nat /\ hourNow \in HoursOfDay /\ hourNow \in Nat /\ heated \in [DOMAIN heated -> Nat]
  BY RecordNumbers DEF RecordTypeOK
<1>2. <<today, hourNow>> \notin DOMAIN heated
  BY <1>1 DEF NotAhead
<1>3. Heat(today, hourNow) = 0
  BY <1>2 DEF Heat
<1>4. CASE heat = 0
  <2>1. heated' = heated
    BY <1>4
  <2> QED BY <1>1, <1>3, <1>4, <2>1 DEF Heat
<1>5. CASE heat # 0
  <2> DEFINE D == DOMAIN heated \cup {<<today, hourNow>>}
  <2>1. heated' = [k \in D |-> IF k \in DOMAIN heated THEN heated[k] ELSE heat]
    BY <1>5
  <2>2. DOMAIN heated' = D /\ \A k \in D : heated'[k] = IF k \in DOMAIN heated THEN heated[k] ELSE heat
    BY <2>1
  <2>3. \A k \in D : (IF k \in DOMAIN heated THEN heated[k] ELSE heat) \in Nat
    BY <1>1
  <2>4. heated' \in [DOMAIN heated' -> Nat]
    BY <2>1, <2>2, <2>3
  <2>5. ASSUME NEW d \in Nat, NEW h \in HoursOfDay
        PROVE  /\ <<d, h>> \in D => <<d, h>> \in DOMAIN heated \/ (d = today /\ h = hourNow)
               /\ Heat(d, h)' = IF d = today /\ h = hourNow THEN heat ELSE Heat(d, h)
    <3>1. <<d, h>> = <<today, hourNow>> <=> d = today /\ h = hourNow
      OBVIOUS
    <3>2. CASE d = today /\ h = hourNow
      <4>1. <<d, h>> \in D /\ <<d, h>> \notin DOMAIN heated
        BY <1>2, <3>2
      <4>2. heated'[<<d, h>>] = heat
        BY <2>2, <4>1
      <4> QED BY <2>2, <3>2, <4>1, <4>2 DEF Heat
    <3>3. CASE ~(d = today /\ h = hourNow)
      <4>1. <<d, h>> \in D <=> <<d, h>> \in DOMAIN heated
        BY <3>1, <3>3
      <4>2. <<d, h>> \in DOMAIN heated => heated'[<<d, h>>] = heated[<<d, h>>]
        BY <2>2
      <4> QED BY <2>2, <3>3, <4>1, <4>2 DEF Heat
    <3> QED BY <3>2, <3>3
  <2> QED BY <1>3, <2>2, <2>4, <2>5
<1> QED BY <1>4, <1>5

-----------------------------------------------------------------------------
LEMMA RecordBegins == RecordInit => RecordInv
<1> SUFFICES ASSUME RecordInit PROVE RecordInv
  OBVIOUS
<1>1. DOMAIN heatDays = {} /\ DOMAIN heated = {} /\ today = 0 /\ hourNow = 0
  BY DEF RecordInit
<1>2. heatDays \in [DOMAIN heatDays -> HourHeats] /\ heated \in [DOMAIN heated -> Nat]
  BY <1>1 DEF RecordInit
<1>3. RecordTypeOK
  BY <1>1, <1>2, RecordNumbers DEF RecordTypeOK
<1>4. NotAhead /\ Noted
  BY <1>1 DEF NotAhead, Noted
<1>5. FreshDay
  BY <1>1 DEF FreshDay, Heat
<1>6. InStretch
  BY <1>1 DEF InStretch, Within
<1> QED BY <1>3, <1>4, <1>5, <1>6 DEF RecordInv

LEMMA HourKeeps == RecordInv /\ RecordHour => RecordInv'
<1> SUFFICES ASSUME RecordInv, RecordHour PROVE RecordInv'
  OBVIOUS
<1>1. /\ RecordTypeOK /\ NotAhead /\ FreshDay /\ InStretch /\ Noted
      /\ today \in Nat /\ hourNow \in HoursOfDay /\ hourNow \in Nat
      /\ DOMAIN heatDays \in SUBSET (0..today) /\ heatDays \in [DOMAIN heatDays -> HourHeats]
  BY RecordNumbers DEF RecordInv, RecordTypeOK
<1>2. PICK heat \in 0..HourParts :
        IF altCost = NoCost THEN UNCHANGED <<heatDays, heated>>
        ELSE /\ heatDays' = Added(heatDays, today, hourNow, heat)
             /\ heated' = IF heat = 0 THEN heated
                          ELSE [k \in DOMAIN heated \cup {<<today, hourNow>>} |->
                                  IF k \in DOMAIN heated THEN heated[k] ELSE heat]
  BY DEF RecordHour
<1>3. NextHour /\ crashed' = crashed
  BY DEF RecordHour
<1>4. today' \in Nat /\ hourNow' \in HoursOfDay /\ today' >= today /\ (today' = today => hourNow' = hourNow + 1)
  BY <1>1, <1>3, HourPasses
<1>5. heat \in Nat
  BY RecordNumbers
<1>6. CASE altCost = NoCost
  <2>1. heatDays' = heatDays /\ heated' = heated
    BY <1>2, <1>6
  <2>2. \A d, h : Heat(d, h)' = Heat(d, h)
    BY <2>1 DEF Heat
  <2>3. RecordTypeOK'
    BY <1>1, <1>4, <2>1 DEF RecordTypeOK
  <2>4. NotAhead'
    <3> SUFFICES ASSUME NEW d \in Nat, NEW h \in HoursOfDay, d > today' \/ (d = today' /\ h >= hourNow')
                 PROVE  <<d, h>> \notin DOMAIN heated
      BY <2>1 DEF NotAhead
    <3>0. h \in Nat /\ hourNow' \in Nat
      BY <1>4, RecordNumbers
    <3>1. d > today \/ (d = today /\ h >= hourNow)
      <4>1. today \in Nat /\ hourNow \in Nat /\ today' \in Nat /\ today' >= today
            /\ (today' = today => hourNow' = hourNow + 1) /\ h \in Nat /\ hourNow' \in Nat
        BY <1>1, <1>4, <3>0
      <4> QED BY <4>1, LaterHour, Zenon
    <3> QED BY <1>1, <3>1 DEF NotAhead
  <2>5. FreshDay'
    <3>1. CASE today' = today
      BY <1>1, <1>3, <2>1, <2>2, <3>1 DEF FreshDay
    <3>2. CASE today' # today
      <4>1. \A h \in HoursOfDay : <<today', h>> \notin DOMAIN heated
        BY <1>1, <1>4, <3>2 DEF NotAhead
      <4> QED BY <2>1, <4>1 DEF FreshDay, Heat
    <3> QED BY <3>1, <3>2
  <2>6. InStretch' /\ Noted'
    BY <1>1, <1>3, <2>1, <2>2 DEF InStretch, Within, Noted
  <2> QED BY <2>3, <2>4, <2>5, <2>6 DEF RecordInv
<1>7. CASE altCost # NoCost
  <2> DEFINE day == IF today \in DOMAIN heatDays THEN heatDays[today] ELSE EmptyDay
  <2>1. heatDays' = Added(heatDays, today, hourNow, heat)
    BY <1>2, <1>7
  <2>2. /\ heatDays' \in [DOMAIN heatDays' -> HourHeats]
        /\ DOMAIN heatDays' = {e \in DOMAIN heatDays \cup {today} : e >= today - RecordDays}
        /\ \A e \in DOMAIN heatDays' : e # today => heatDays'[e] = heatDays[e]
        /\ day \in HourHeats
        /\ heatDays'[today] = [day EXCEPT ![hourNow] = day[hourNow] + heat]
    BY <1>1, <1>5, <2>1, AddedIs
  <2>3. /\ heated' \in [DOMAIN heated' -> Nat]
        /\ \A d \in Nat, h \in HoursOfDay : <<d, h>> \in DOMAIN heated' =>
             <<d, h>> \in DOMAIN heated \/ (d = today /\ h = hourNow)
        /\ \A d \in Nat, h \in HoursOfDay : Heat(d, h)' = IF d = today /\ h = hourNow THEN heat ELSE Heat(d, h)
        /\ Heat(today, hourNow) = 0
    <3>1. heated' = IF heat = 0 THEN heated
                    ELSE [k \in DOMAIN heated \cup {<<today, hourNow>>} |-> IF k \in DOMAIN heated THEN heated[k] ELSE heat]
      BY <1>2, <1>7
    <3> QED BY <1>1, <1>5, <3>1, HeatedIs
  <2>4. \A h \in HoursOfDay : day[h] <= Heat(today, h) /\ (today \notin crashed => day[h] = Heat(today, h))
    <3> SUFFICES ASSUME NEW h \in HoursOfDay
                 PROVE  day[h] <= Heat(today, h) /\ (today \notin crashed => day[h] = Heat(today, h))
      OBVIOUS
    <3>1. CASE today \in DOMAIN heatDays
      BY <1>1, <3>1 DEF Noted
    <3>2. CASE today \notin DOMAIN heatDays
      <4>1. day[h] = 0
        BY <3>2 DEF EmptyDay
      <4>2. Heat(today, h) \in Nat
        BY <1>1, HeatTyped
      <4> QED BY <1>1, <3>2, <4>1, <4>2 DEF FreshDay
    <3> QED BY <3>1, <3>2
  <2> HIDE DEF day
  <2>5. RecordTypeOK'
    <3>1. DOMAIN heatDays' \in SUBSET (0..today')
      BY <1>1, <1>4, <2>2
    <3> QED BY <1>4, <2>2, <2>3, <3>1 DEF RecordTypeOK
  <2>6. NotAhead'
    <3> SUFFICES ASSUME NEW d \in Nat, NEW h \in HoursOfDay, d > today' \/ (d = today' /\ h >= hourNow')
                 PROVE  <<d, h>> \notin DOMAIN heated'
      BY DEF NotAhead
    <3>0. h \in Nat /\ hourNow' \in Nat
      BY <1>4, RecordNumbers
    <3>1. (d > today \/ (d = today /\ h >= hourNow)) /\ ~(d = today /\ h = hourNow)
      <4>1. today \in Nat /\ hourNow \in Nat /\ today' \in Nat /\ today' >= today
            /\ (today' = today => hourNow' = hourNow + 1) /\ h \in Nat /\ hourNow' \in Nat
        BY <1>1, <1>4, <3>0
      <4>2. d > today \/ (d = today /\ h >= hourNow)
        BY <4>1, LaterHour
      <4>3. ~(d = today /\ h = hourNow)
        <5>1. CASE d > today'
          BY <4>1, <5>1
        <5>2. CASE d = today' /\ h >= hourNow'
          BY <4>1, <5>2
        <5> QED BY <5>1, <5>2
      <4> QED BY <4>2, <4>3
    <3> QED BY <1>1, <2>3, <3>1 DEF NotAhead
  <2>7. InStretch'
    <3>1. \A d \in DOMAIN heatDays' : today - RecordDays <= d /\ d <= today
      BY <1>1, <2>2
    <3> QED BY <1>1, <3>1 DEF InStretch, Within
  <2>8. FreshDay'
    <3>1. CASE today' = today
      <4>1. today \in DOMAIN heatDays'
        BY <1>1, <2>2, RecordNumbers
      <4> QED BY <3>1, <4>1 DEF FreshDay
    <3>2. CASE today' # today
      <4>1. ASSUME NEW h \in HoursOfDay PROVE <<today', h>> \notin DOMAIN heated'
        <5>1. <<today', h>> \notin DOMAIN heated
          BY <1>1, <1>4, <3>2 DEF NotAhead
        <5> QED BY <1>4, <2>3, <3>2, <5>1
      <4> QED BY <4>1 DEF FreshDay, Heat
    <3> QED BY <3>1, <3>2
  <2>9. Noted'
    <3> SUFFICES ASSUME NEW d \in DOMAIN heatDays', NEW h \in HoursOfDay
                 PROVE  heatDays'[d][h] <= Heat(d, h)' /\ (d \notin crashed => heatDays'[d][h] = Heat(d, h)')
      BY <1>3 DEF Noted
    <3>1. d \in Nat
      BY <1>1, <2>2
    <3>2. CASE d # today
      <4>1. d \in DOMAIN heatDays /\ heatDays'[d] = heatDays[d] /\ Heat(d, h)' = Heat(d, h)
        BY <2>2, <2>3, <3>1, <3>2
      <4> QED BY <1>1, <4>1 DEF Noted
    <3>3. CASE d = today /\ h # hourNow
      <4>1. heatDays'[d][h] = day[h] /\ Heat(d, h)' = Heat(today, h)
        BY <1>1, <2>2, <2>3, <3>3 DEF HourHeats
      <4> QED BY <2>4, <3>3, <4>1
    <3>4. CASE d = today /\ h = hourNow
      <4>1. day[h] \in Nat /\ day[h] <= 0
        BY <1>1, <2>2, <2>3, <2>4, <3>4 DEF HourHeats
      <4>2. heatDays'[d][h] = day[h] + heat /\ Heat(d, h)' = heat
        BY <1>1, <2>2, <2>3, <3>4 DEF HourHeats
      <4> QED BY <1>5, <4>1, <4>2
    <3> QED BY <3>2, <3>3, <3>4
  <2> QED BY <2>5, <2>6, <2>7, <2>8, <2>9 DEF RecordInv
<1> QED BY <1>6, <1>7

LEMMA DayOffKeeps == RecordInv /\ DayOff => RecordInv'
<1> SUFFICES ASSUME RecordInv, DayOff PROVE RecordInv'
  OBVIOUS
<1>1. /\ RecordTypeOK /\ NotAhead /\ InStretch /\ Noted /\ today \in Nat /\ DOMAIN heatDays \in SUBSET (0..today)
  BY DEF RecordInv, RecordTypeOK
<1>2. today' = today + 1 /\ UNCHANGED <<hourNow, heatDays, heated, crashed>>
  BY DEF DayOff
<1>3. \A d, h : Heat(d, h)' = Heat(d, h)
  BY <1>2 DEF Heat
<1>4. RecordTypeOK'
  BY <1>1, <1>2 DEF RecordTypeOK
<1>5. NotAhead'
  BY <1>1, <1>2 DEF NotAhead
<1>6. FreshDay'
  <2>1. \A h \in HoursOfDay : <<today', h>> \notin DOMAIN heated
    BY <1>1, <1>2 DEF NotAhead
  <2> QED BY <1>2, <2>1 DEF FreshDay, Heat
<1>7. InStretch' /\ Noted'
  BY <1>1, <1>2, <1>3 DEF InStretch, Within, Noted
<1> QED BY <1>4, <1>5, <1>6, <1>7 DEF RecordInv

LEMMA CrashKeeps == RecordInv /\ RecordCrash => RecordInv'
<1> SUFFICES ASSUME RecordInv, RecordCrash PROVE RecordInv'
  OBVIOUS
<1>1. /\ RecordTypeOK /\ NotAhead /\ InStretch /\ Noted /\ today \in Nat /\ DOMAIN heatDays \in SUBSET (0..today)
      /\ heatDays \in [DOMAIN heatDays -> HourHeats]
  BY DEF RecordInv, RecordTypeOK
<1>2. today \in DOMAIN heatDays /\ crashed' = crashed \cup {today} /\ UNCHANGED <<today, hourNow, heated>>
  BY DEF RecordCrash
<1>3. \A d, h : Heat(d, h)' = Heat(d, h)
  BY <1>2 DEF Heat
<1>4. /\ heatDays' \in [DOMAIN heatDays' -> HourHeats] /\ DOMAIN heatDays' \in SUBSET DOMAIN heatDays
      /\ \A d \in DOMAIN heatDays' : d # today => heatDays'[d] = heatDays[d]
      /\ \A d \in DOMAIN heatDays', h \in HoursOfDay : heatDays'[d][h] <= heatDays[d][h]
  <2>1. CASE heatDays' = [d \in DOMAIN heatDays \ {today} |-> heatDays[d]]
    <3>1. DOMAIN heatDays' = DOMAIN heatDays \ {today} /\ \A d \in DOMAIN heatDays \ {today} : heatDays'[d] = heatDays[d]
      BY <2>1
    <3>2. heatDays' \in [DOMAIN heatDays \ {today} -> HourHeats]
      BY <1>1, <2>1
    <3>3. \A d \in DOMAIN heatDays, h \in HoursOfDay : heatDays[d][h] \in Nat
      BY <1>1 DEF HourHeats
    <3> QED BY <3>1, <3>2, <3>3
  <2>2. CASE \E saved \in 0..(hourNow - 1) :
               heatDays' = [heatDays EXCEPT ![today] = [h \in HoursOfDay |-> IF h < saved THEN @[h] ELSE 0]]
    <3>1. PICK saved \in 0..(hourNow - 1) :
            heatDays' = [heatDays EXCEPT ![today] = [h \in HoursOfDay |-> IF h < saved THEN heatDays[today][h] ELSE 0]]
      BY <2>2
    <3> DEFINE left == [h \in HoursOfDay |-> IF h < saved THEN heatDays[today][h] ELSE 0]
    <3>2. heatDays[today] \in HourHeats
      BY <1>1, <1>2
    <3>3. left \in HourHeats /\ \A h \in HoursOfDay : left[h] <= heatDays[today][h]
      BY <3>2 DEF HourHeats
    <3>4. heatDays' = [heatDays EXCEPT ![today] = left]
      BY <3>1
    <3> HIDE DEF left
    <3>5. DOMAIN heatDays' = DOMAIN heatDays /\ heatDays'[today] = left
          /\ \A d \in DOMAIN heatDays : d # today => heatDays'[d] = heatDays[d]
      BY <1>1, <1>2, <3>4
    <3>6. heatDays' \in [DOMAIN heatDays -> HourHeats]
      BY <1>1, <3>3, <3>4
    <3>7. \A d \in DOMAIN heatDays, h \in HoursOfDay : heatDays[d][h] \in Nat
      BY <1>1 DEF HourHeats
    <3>8. \A d \in DOMAIN heatDays, h \in HoursOfDay : heatDays'[d][h] <= heatDays[d][h]
      BY <3>3, <3>5, <3>7
    <3> QED BY <3>5, <3>6, <3>8
  <2> QED BY <2>1, <2>2 DEF RecordCrash
<1>5. RecordTypeOK'
  BY <1>1, <1>2, <1>4 DEF RecordTypeOK
<1>6. NotAhead'
  BY <1>1, <1>2 DEF NotAhead
<1>7. FreshDay'
  BY <1>2 DEF FreshDay
<1>8. InStretch'
  BY <1>1, <1>4 DEF InStretch, Within
<1>9. Noted'
  <2> SUFFICES ASSUME NEW d \in DOMAIN heatDays', NEW h \in HoursOfDay
               PROVE  heatDays'[d][h] <= Heat(d, h) /\ (d \notin crashed' => heatDays'[d][h] = Heat(d, h))
    BY <1>3 DEF Noted
  <2>1. d \in DOMAIN heatDays /\ heatDays'[d][h] <= heatDays[d][h] /\ heatDays[d][h] <= Heat(d, h)
    BY <1>1, <1>4 DEF Noted
  <2>2. heatDays'[d][h] \in Nat /\ heatDays[d][h] \in Nat /\ Heat(d, h) \in Nat
    BY <1>1, <1>4, <2>1, HeatTyped DEF HourHeats
  <2>3. d \notin crashed' => heatDays'[d][h] = Heat(d, h)
    BY <1>1, <1>2, <1>4, <2>1 DEF Noted
  <2> QED BY <2>1, <2>2, <2>3
<1> QED BY <1>5, <1>6, <1>7, <1>8, <1>9 DEF RecordInv

LEMMA RecordStep == RecordInv /\ [RecordNext]_recordVars => RecordInv'
<1> SUFFICES ASSUME RecordInv, [RecordNext]_recordVars PROVE RecordInv'
  OBVIOUS
<1>1. CASE UNCHANGED <<today, hourNow, heatDays, heated, crashed>>
  <2>1. \A d, h : Heat(d, h)' = Heat(d, h)
    BY <1>1 DEF Heat
  <2>2. RecordTypeOK' /\ NotAhead' /\ InStretch'
    BY <1>1 DEF RecordInv, RecordTypeOK, NotAhead, InStretch, Within
  <2>3. FreshDay' /\ Noted'
    BY <1>1, <2>1 DEF RecordInv, FreshDay, Noted
  <2> QED BY <2>2, <2>3 DEF RecordInv
<1>2. CASE SetAltCost
  BY <1>1, <1>2 DEF SetAltCost
<1>3. CASE UNCHANGED recordVars
  BY <1>1, <1>3 DEF recordVars
<1> QED BY <1>2, <1>3, HourKeeps, DayOffKeeps, CrashKeeps DEF RecordNext

(* What is noted of a day is what the heater took from the grid, and no more than that on a day that *)
(* lost something in a crash; and no more days are kept than are asked for: for every record, day,   *)
(* tariff and change of the alternative's cost (ImmersionHeatLog.add, _forget_old_days).             *)
THEOREM RecordTrue == RecordSpec => []RecordIsTrue
<1>1. RecordInv => RecordIsTrue
  <2> SUFFICES ASSUME RecordInv PROVE RecordIsTrue
    OBVIOUS
  <2>1. PICK m \in Nat : Within(heatDays, m)
    BY DEF RecordInv, InStretch
  <2>2. DOMAIN heatDays \in SUBSET Nat
    BY DEF RecordInv, RecordTypeOK
  <2>3. Cardinality(DOMAIN heatDays) <= RecordDays + 1
    BY <2>1, <2>2, FewDays
  <2>4. Noted
    BY DEF RecordInv
  <2> QED BY <2>3, <2>4 DEF RecordIsTrue, Noted
<1> QED BY <1>1, RecordBegins, RecordStep, PTL DEF RecordSpec
=============================================================================
