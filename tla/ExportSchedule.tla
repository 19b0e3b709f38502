--------------------------- MODULE ExportSchedule ---------------------------
(***************************************************************************)
(* The discharge slots and the extra charge slots of the inverter          *)
(* (lib/givtcp/schedules.py, windows.py, the window part of controls.py)   *)
(* and the timed force (force.py).                                         *)
(*                                                                         *)
(* A call is a chain of verified writes, each of which takes the writer's  *)
(* lock for itself, so a stop can be written between two of them.  What    *)
(* the client reads are the entities, and they trail the registers by a    *)
(* publication or show nothing at all.  One write is two steps here: the   *)
(* send and the last read-back.  Writer has the retries in between.        *)
(*                                                                         *)
(* The host asks for one slot or plan at a time, and the owner changes the *)
(* schedule in the app between calls.                                      *)
(***************************************************************************)
EXTENDS Integers, Sequences, FiniteSets

CONSTANTS
    ExportDay,            \* hours of a day
    ExportWindows,        \* <<start, end>> a host asks for, shorter than half a day
    Offered,        \* the hours the selects of a slot list
    DischargeTargets,        \* discharge targets
    Presets,        \* sets of the minutes a force select lists
    NumberLimits,   \* the most a force number holds, 0 when it is not published
    Asked,          \* minutes of force a host asks for
    Nothing

ASSUME ExportAssumption ==
    /\ ExportDay \in Nat \ {0}
    /\ ExportWindows \subseteq (0..ExportDay-1) \X (0..ExportDay-1)
    /\ \A w \in ExportWindows : 2 * ((w[2] - w[1]) % ExportDay) < ExportDay
    /\ Presets \subseteq SUBSET Nat /\ NumberLimits \subseteq Nat /\ Asked \subseteq Nat

VARIABLES
    slot,           \* what is set: a charge slot, a discharge slot, or one whose switch is absent
    register,       \* the inverter
    displayed,      \* the entities, as last published
    reachable,      \* the entities can be read
    call,           \* the slot or plan being written
    stop,           \* a call of stop_discharge: none, waiting, sent
    lock,           \* GivTCPWriter._lock
    recent,         \* last_write_time: the value last sent to each entity, inside its cooldown
    doubt,          \* history: a step relied on an entity that did not show its register
    forced          \* the minutes of force asked for, and those sent

exportVars == <<slot, register, displayed, reachable, call, stop, lock, recent, doubt, forced>>
inverterSide == <<slot, register, displayed, reachable>>

Unused == <<0, 0>>
WholeWindows == ExportWindows \cup {Unused}
Entities == {"target", "start", "end", "switch"}
Resting == [kind |-> "none", window |-> Unused, target |-> Nothing, at |-> "idle", order |-> <<>>,
            restore |-> FALSE, sure |-> TRUE, ordered |-> TRUE, old |-> Unused, was |-> "off",
            result |-> "none"]
Ended(result) == [Resting EXCEPT !.result = result]

ExportTypeOK ==
    /\ slot \in {"charge", "discharge", "bare"} /\ reachable \in BOOLEAN /\ doubt \in BOOLEAN
    /\ DOMAIN register = Entities /\ DOMAIN displayed = Entities /\ DOMAIN recent = Entities
    /\ call.at \in {"idle", "target", "off", "first", "second", "on", "enable"}
    /\ stop \in {"none", "waiting"} /\ lock \in {"free", "call", "stop"}
    /\ call.at = "idle" => lock # "call"

-----------------------------------------------------------------------------
Truthy(s) == s \notin {"REFUSED", "FAILED"}
Confirmed(s) == s \in {"ALREADY_SET", "WRITTEN"}

\* windows.py, end_first: the window moves later by at most half a day.  A start that cannot be
\* read keeps the order start, end.  Mutant: by any amount.
AlwaysLater(w) == reachable /\ displayed.start # w[1]
EndFirst(w) == reachable /\ (w[1] - displayed.start) % ExportDay \in 1..(ExportDay \div 2)

\* ClockWriter.write_window: nothing is sent unless both hours can be.
SendWindow(c) ==
    IF {c.window[1], c.window[2]} \subseteq Offered
    THEN [c EXCEPT !.at = "first", !.ordered = reachable,
                   !.order = IF EndFirst(c.window) THEN <<"end", "start">> ELSE <<"start", "end">>]
    ELSE Ended("no")

\* The slot is written, or was as asked.  A plan switches the schedule on next.
SlotDone(c) == IF c.kind = "plan" THEN [c EXCEPT !.at = "enable"]
               ELSE Ended(IF c.sure THEN "sure" ELSE "unsure")

\* _with_schedule_off.  Mutant: a switch that cannot be read counts as off.
UnreadIsOff(c) == IF reachable /\ displayed.switch = "on"
                  THEN [c EXCEPT !.at = "off", !.restore = TRUE] ELSE SendWindow(c)
WithScheduleOff(c) ==
    IF slot = "bare" THEN SendWindow(c)
    ELSE IF ~reachable THEN Ended("no")
    ELSE IF displayed.switch = "off" THEN SendWindow(c)
    ELSE [c EXCEPT !.at = "off", !.restore = TRUE]

\* _write_window_for
WriteSlot(c) ==
    IF reachable /\ <<displayed.start, displayed.end>> = c.window THEN SlotDone(c)
    ELSE IF slot = "charge" THEN SendWindow(c) ELSE WithScheduleOff(c)

\* What follows a write of the call that came back with status s.
Onwards(c, s) ==
    LET sure == [c EXCEPT !.sure = @ /\ Confirmed(s)] IN
    CASE c.at = "target" -> IF Truthy(s) THEN WriteSlot(c) ELSE Ended("no")
      [] c.at = "off"    -> IF Confirmed(s) THEN SendWindow(c)
                            ELSE Ended(IF Truthy(s) THEN "unsure" ELSE "no")
      [] c.at = "first"  -> IF Truthy(s) THEN [sure EXCEPT !.at = "second"] ELSE Ended("no")
      [] c.at = "second" -> IF ~Truthy(s) THEN Ended("no")
                            ELSE IF c.restore /\ sure.sure THEN [c EXCEPT !.at = "on"]
                            ELSE SlotDone(sure)
      [] c.at = "on"     -> IF Truthy(s) THEN SlotDone(sure) ELSE Ended("no")
      [] OTHER           -> Ended(IF Confirmed(s) THEN "sure" ELSE IF Truthy(s) THEN "unsure" ELSE "no")

\* The write the call is at: the entity and its value.
WriteOf == CASE call.at = "target" -> <<"target", call.target>>
         [] call.at = "off" -> <<"switch", "off">>
         [] call.at \in {"on", "enable"} -> <<"switch", "on">>
         [] OTHER -> LET e == call.order[IF call.at = "first" THEN 1 ELSE 2]
                     IN  <<e, call.window[IF e = "start" THEN 1 ELSE 2]>>

\* write_verified before the call: the status of a write that sends nothing.
Unsent(e, v) ==
    IF ~reachable \/ (e = "switch" /\ slot = "bare") THEN {"REFUSED"}
    ELSE IF displayed[e] = v THEN {"ALREADY_SET"}
    ELSE IF recent[e] = v THEN {"COOLDOWN"} ELSE {}

\* The last read-back.  A switch asked to go off reads as off when it cannot be read.
ReadsBack(e, v) == IF reachable THEN IF displayed[e] = v THEN {"WRITTEN"} ELSE {"UNCONFIRMED"}
                  ELSE IF e = "switch" /\ v = "off" THEN {"WRITTEN"}
                  ELSE IF e \in {"start", "end"} THEN {"UNCONFIRMED", "FAILED"} ELSE {"UNCONFIRMED"}

Trails == \E e \in {"start", "end", "switch"} : displayed[e] # register[e]
Relied(e, v, s) == Truthy(s) /\ register[e] # v

-----------------------------------------------------------------------------
ExportInit ==
    /\ slot \in {"charge", "discharge", "bare"}
    /\ \E w \in WholeWindows, t \in DischargeTargets, s \in {"on", "off"} :
         /\ slot = "bare" => s = "off"
         /\ register = [target |-> t, start |-> w[1], end |-> w[2], switch |-> s]
    /\ displayed = register /\ reachable = TRUE
    /\ call = Resting /\ stop = "none" /\ lock = "free"
    /\ recent = [e \in Entities |-> Nothing]
    /\ doubt = FALSE /\ forced = [asked |-> 0, sent |-> 0]

\* apply_slot, clear_slot and apply_discharge_plan, up to the first write.
Ask(kind, w, t) ==
    LET new == [Resting EXCEPT !.kind = kind, !.window = w, !.target = t,
                               !.old = <<register.start, register.end>>, !.was = register.switch]
    IN
    /\ call.at = "idle" /\ forced.sent = 0
    /\ IF kind = "plan"
       THEN call' = [new EXCEPT !.at = "target"] /\ UNCHANGED doubt
       ELSE call' = WriteSlot(new) /\ doubt' = (doubt \/ Trails)
    /\ UNCHANGED <<inverterSide, stop, lock, recent, forced>>

\* The call goes on after a write with status s.
GoesOn(s) ==
    /\ call' = Onwards(call, s)
    /\ doubt' = (doubt \/ Relied(WriteOf[1], WriteOf[2], s) \/ (call.at \in {"target", "off"} /\ Trails))

\* A write of the call gets the lock and sends, or has nothing to send.
CallWrites ==
    LET e == WriteOf[1]
        v == WriteOf[2]
    IN
    /\ call.at # "idle" /\ lock = "free"
    /\ \/ /\ \E s \in Unsent(e, v) : GoesOn(s)
          /\ UNCHANGED <<inverterSide, lock, recent>>
       \/ /\ Unsent(e, v) = {}
          /\ register' \in {register, [register EXCEPT ![e] = v]}
          /\ lock' = "call" /\ recent' = [recent EXCEPT ![e] = v]
          /\ UNCHANGED <<slot, displayed, reachable, call, doubt>>
    /\ UNCHANGED <<stop, forced>>

\* The service call raised: the cooldown is released and the write failed.
CallRaises ==
    /\ lock = "call" /\ GoesOn("FAILED")
    /\ lock' = "free" /\ recent' = [recent EXCEPT ![WriteOf[1]] = Nothing]
    /\ UNCHANGED <<inverterSide, stop, forced>>

CallReadsBack ==
    /\ lock = "call"
    /\ \E s \in ReadsBack(WriteOf[1], WriteOf[2]) : GoesOn(s)
    /\ lock' = "free"
    /\ UNCHANGED <<inverterSide, stop, recent, forced>>

\* stop_discharge, from another task.
AskStop ==
    /\ slot = "discharge" /\ call.at # "idle" /\ stop = "none"
    /\ stop' = "waiting"
    /\ UNCHANGED <<inverterSide, call, lock, recent, doubt, forced>>

StopWrites ==
    /\ stop = "waiting" /\ lock = "free"
    /\ \/ /\ Unsent("switch", "off") # {}
          /\ stop' = "none" /\ UNCHANGED <<register, lock, recent>>
       \/ /\ Unsent("switch", "off") = {}
          /\ register' \in {register, [register EXCEPT !.switch = "off"]}
          /\ lock' = "stop" /\ recent' = [recent EXCEPT !.switch = "off"]
          /\ UNCHANGED stop
    /\ UNCHANGED <<slot, displayed, reachable, call, doubt, forced>>

StopEnds ==
    /\ lock = "stop"
    /\ lock' = "free" /\ stop' = "none"
    /\ UNCHANGED <<inverterSide, call, recent, doubt, forced>>

StopCalls == AskStop \/ StopWrites \/ StopEnds

-----------------------------------------------------------------------------
\* force.py, start: a preset is the longest that fits, a longer time goes to the number.
ForceFor(minutes, presets, limit) ==
    LET fits == {p \in presets : p <= minutes}
    IN  IF limit >= minutes /\ \A p \in presets : p < minutes THEN minutes
        ELSE IF fits = {} THEN 0 ELSE CHOOSE p \in fits : \A q \in fits : p >= q

StartForce(minutes, presets, limit) ==
    /\ call.at = "idle" /\ lock = "free" /\ stop = "none" /\ reachable /\ ~Trails
    /\ forced.sent = 0 /\ recent = [e \in Entities |-> Nothing] /\ call.result = "none"
    /\ ForceFor(minutes, presets, limit) # 0
    /\ forced' = [asked |-> minutes, sent |-> ForceFor(minutes, presets, limit)]
    /\ UNCHANGED <<inverterSide, call, stop, lock, recent, doubt>>

\* cancel, or the end of the time: GivTCP puts the schedule back as it was.
EndForce ==
    /\ forced.sent # 0
    /\ forced' = [asked |-> 0, sent |-> 0]
    /\ UNCHANGED <<inverterSide, call, stop, lock, recent, doubt>>

\* GivTCP publishes, and stops and starts answering.  Between calls the owner sets the whole
\* schedule in the app, and the cooldowns run out.
Publish ==
    /\ reachable /\ displayed # register
    /\ displayed' = register
    /\ UNCHANGED <<slot, register, reachable, call, stop, lock, recent, doubt, forced>>
Cool ==
    /\ call.at = "idle" /\ lock = "free" /\ forced.sent = 0 /\ \E e \in Entities : recent[e] # Nothing
    /\ recent' = [e \in Entities |-> Nothing]
    /\ UNCHANGED <<inverterSide, call, stop, lock, doubt, forced>>
Reach ==
    /\ forced.sent = 0
    /\ reachable' = ~reachable
    /\ UNCHANGED <<slot, register, displayed, call, stop, lock, recent, doubt, forced>>
App(w, s) ==
    /\ doubt \/ (call.at = "idle" /\ lock = "free" /\ stop = "none" /\ forced.sent = 0)
    /\ register' = [register EXCEPT !.start = w[1], !.end = w[2], !.switch = s]
    /\ register' # register /\ slot = "bare" => s = "off"
    /\ recent' = [e \in Entities |-> Nothing]
    /\ call' = Resting /\ stop' = "none" /\ lock' = "free" /\ doubt' = FALSE
    /\ UNCHANGED <<slot, displayed, reachable, forced>>

Calls ==
    \/ \E w \in WholeWindows : Ask("slot", w, Nothing)
    \/ \E w \in ExportWindows, t \in DischargeTargets : slot # "charge" /\ Ask("plan", w, t)
    \/ CallWrites \/ CallRaises \/ CallReadsBack \/ StopCalls
    \/ Publish \/ Cool \/ Reach

\* Bound: what follows a doubt is not looked at until the owner has set the schedule in the app.
ExportNext ==
    \/ ~doubt /\ Calls
    \/ \E m \in Asked, p \in Presets, n \in NumberLimits : StartForce(m, p, n)
    \/ EndForce
    \/ \E w \in WholeWindows, s \in {"on", "off"} : App(w, s)

ExportSpec == ExportInit /\ [][ExportNext]_exportVars

-----------------------------------------------------------------------------
HoursIn(w) == {h \in 0..ExportDay-1 : (h - w[1]) % ExportDay < (w[2] - w[1]) % ExportDay}
Held == <<register.start, register.end>>
Covers(w, x) == HoursIn(x) \subseteq HoursIn(w)

\* No discharge schedule runs on a mix of two windows.
RunsWhole == slot = "discharge" /\ register.switch = "on" /\ ~doubt => Held \in WholeWindows

\* Between the two writes of a window the inverter holds the old one or the new one, or more.
NeverAGap == call.at \in {"first", "second"} /\ call.ordered /\ call.old \in WholeWindows /\ ~doubt
             => Covers(Held, call.old) \/ Covers(Held, call.window)

\* What a call that is known to have worked leaves behind.
LeavesAsAsked ==
    call.at # "idle" /\ call'.at = "idle" /\ call'.result = "sure" /\ ~doubt'
    => /\ Held' = call.window
       /\ register'.switch = IF call.kind = "plan" THEN "on" ELSE call.was
       /\ call.kind = "plan" => register'.target = call.target

\* A window that was not confirmed leaves the schedule off.
StaysOff ==
    call.at \in {"first", "second"} /\ call'.at = "idle" /\ call.restore
       /\ call'.result \in {"unsure", "no"} /\ ~doubt'
    => register'.switch = "off"

\* A host that writes the schedule, force and stop of the inverter (lib/givtcp/schedules.py and
\* force.py) never leaves it exporting in hours nobody asked for, or for longer than asked.
ExportIsSafe ==
    /\ [](RunsWhole /\ NeverAGap /\ forced.sent <= forced.asked)
    /\ [][LeavesAsAsked /\ StaysOff]_exportVars
=============================================================================
