------------------------------- MODULE Writer -------------------------------
(***************************************************************************)
(* GivTCPWriter (lib/givtcp/writer.py) and the repair that listens to it   *)
(* (unconfirmed_write_repair.py, lib/guards/write_confirmation.py).        *)
(*                                                                         *)
(* Callers are asyncio tasks.  A step is what runs between two awaits: the *)
(* lock grant with the checks behind it, the return of the service call,   *)
(* one read-back.  The inverter's registers and the states Home Assistant  *)
(* shows for them are separate: GivTCP publishes one into the other.       *)
(* One Tick is GIVTCP_UNCONFIRMED_COOLDOWN_S (60 s).                       *)
(***************************************************************************)
EXTENDS Naturals, Sequences, FiniteSets, Functions

CONSTANTS
    Callers,        \* tasks that write
    Entities,       \* GivTCP entities
    Switches,       \* those of them that are switches
    Selects,        \* those whose write has fail_if_missing (select and time)
    Values,         \* values an entity may hold
    On,             \* the value "on" of a switch
    Missing,        \* Home Assistant has no state for the entity
    Unavailable,    \* the state is unavailable or unknown
    MaxSends,       \* GIVTCP_MAX_WRITE_RETRIES
    Polls,          \* WriteTuning.polls
    Cooldown,       \* GIVTCP_MIN_WRITE_INTERVAL_S, in ticks
    ShortCooldown   \* GIVTCP_UNCONFIRMED_COOLDOWN_S, in ticks

ASSUME WriterAssumption ==
    /\ MaxSends \in Nat \ {0} /\ Polls \in Nat \ {0}
    /\ Cooldown \in Nat \ {0} /\ ShortCooldown \in 1..Cooldown
    /\ Switches \subseteq Entities /\ Selects \subseteq Entities \ Switches
    /\ On \in Values /\ Missing \notin Values /\ Unavailable \notin Values
    /\ Missing # Unavailable

VARIABLES
    register,       \* what the inverter holds
    shown,          \* what Home Assistant shows
    lock,           \* the asyncio.Lock: a FIFO queue of callers, its head is the holder
    job,            \* the write each caller has asked for
    last_write_time,\* cooldown left of each <<entity, value>> key
    lastSent,       \* history: the value last handed to the service call, per entity
    unconfirmed     \* UnconfirmedWriteRepair: the value each listed entity did not take

inverter == <<register, shown>>
vars == <<register, shown, lock, job, last_write_time, lastSent, unconfirmed>>

WriteStatus == {"ALREADY_SET", "WRITTEN", "UNCONFIRMED", "COOLDOWN", "REFUSED", "FAILED"}
Shown == Values \cup {Missing, Unavailable}
Keys == Entities \X Values
NeverSent == Missing

Job == [pc: {"idle", "queued", "calling", "polling", "done"},
        entity: Entities, value: Values, sends: 0..MaxSends, accepted: 0..MaxSends,
        polls: 0..Polls, status: WriteStatus]

TypeOK ==
    /\ register \in [Entities -> Values]
    /\ shown \in [Entities -> Shown]
    /\ lock \in Seq(Callers)
    /\ job \in [Callers -> Job]
    /\ DOMAIN last_write_time \subseteq Keys
    /\ \A k \in DOMAIN last_write_time : last_write_time[k] \in 1..Cooldown
    /\ lastSent \in [Entities -> Values \cup {NeverSent}]
    /\ DOMAIN unconfirmed \subseteq Entities
    /\ \A e \in DOMAIN unconfirmed : unconfirmed[e] \in Values

-----------------------------------------------------------------------------
\* usable(): the entity is there and shows a value.
Usable(s) == s \in Values

\* VerifiedWrite.matches.  A switch write only asks whether the state is "on".
Matches(e, v, s) == IF e \in Switches THEN (s = On) = (v = On) ELSE s = v

Truthy(status) == status \notin {"REFUSED", "FAILED"}

\* Functions with some keys dropped or set.
Without(f, S) == Restrict(f, DOMAIN f \ S)
With(f, k, x) == [j \in DOMAIN f \cup {k} |-> IF j = k THEN x ELSE f[j]]

CooldownActive(e, v) == <<e, v>> \in DOMAIN last_write_time

\* Mutant: the entity's other values keep their cooldown.
KeepsOtherCooldowns(e, v) == With(last_write_time, <<e, v>>, Cooldown)

\* start_cooldown: forget the entity's other values, then hold this one.
StartCooldown(e, v) == With(Without(last_write_time, {e} \X Values), <<e, v>>, Cooldown)
ShortenCooldown(e, v) == With(last_write_time, <<e, v>>, ShortCooldown)
ReleaseCooldown(e, v) == Without(last_write_time, {<<e, v>>})

\* Another send is allowed.  Mutant: one too many.
OneSendTooMany(c) == job[c].sends <= MaxSends
MayResend(c) == job[c].sends < MaxSends

\* write_confirmation.py: put an entity on the repair's list with the value it did not take,
\* and take one off.  Mutant: a confirmed write leaves the list alone.
UnconfirmedStep(e, v) == With(unconfirmed, e, v)
NeverTakenOff(e) == unconfirmed
ConfirmedStep(e) == Without(unconfirmed, {e})

\* Mutant: a write that failed keeps the lock.
KeepsLockOnFailure(c, status) ==
    /\ job' = [job EXCEPT ![c].pc = "done", ![c].status = status]
    /\ lock' = IF status = "FAILED" THEN lock ELSE Tail(lock)

\* The lock is released and its next waiter becomes the head.
Finish(c, status) ==
    /\ job' = [job EXCEPT ![c].pc = "done", ![c].status = status]
    /\ lock' = Tail(lock)

Holds(c) == lock # <<>> /\ Head(lock) = c

-----------------------------------------------------------------------------
Init ==
    /\ register \in [Entities -> Values]
    /\ shown = register
    /\ lock = <<>>
    /\ \E e \in Entities, v \in Values :
         job = [c \in Callers |-> [pc |-> "idle", entity |-> e, value |-> v, sends |-> 0,
                                   accepted |-> 0, polls |-> 0, status |-> "REFUSED"]]
    /\ last_write_time = [k \in {} |-> 0]
    /\ lastSent = [e \in Entities |-> NeverSent]
    /\ unconfirmed = [e \in {} |-> On]

\* A caller asks for a value and waits for the lock.
Request(c, e, v) ==
    /\ job[c].pc \in {"idle", "done"}
    /\ job' = [job EXCEPT ![c] = [pc |-> "queued", entity |-> e, value |-> v, sends |-> 0,
                                  accepted |-> 0, polls |-> 0, status |-> job[c].status]]
    /\ lock' = Append(lock, c)
    /\ UNCHANGED <<inverter, last_write_time, lastSent, unconfirmed>>

\* write_verified with the lock held, up to the service call.
WriteVerified(c) ==
    LET e == job[c].entity
        v == job[c].value
    IN
    /\ job[c].pc = "queued" /\ Holds(c)
    /\ \/ /\ ~Usable(shown[e])
          /\ Finish(c, "REFUSED")
          /\ UNCHANGED <<last_write_time, lastSent, unconfirmed>>
       \/ /\ Usable(shown[e]) /\ Matches(e, v, shown[e])
          /\ Finish(c, "ALREADY_SET")
          /\ unconfirmed' = ConfirmedStep(e)
          /\ UNCHANGED <<last_write_time, lastSent>>
       \/ /\ Usable(shown[e]) /\ ~Matches(e, v, shown[e]) /\ CooldownActive(e, v)
          /\ Finish(c, "COOLDOWN")
          /\ UNCHANGED <<last_write_time, lastSent, unconfirmed>>
       \/ /\ Usable(shown[e]) /\ ~Matches(e, v, shown[e]) /\ ~CooldownActive(e, v)
          /\ last_write_time' = StartCooldown(e, v)
          /\ lastSent' = [lastSent EXCEPT ![e] = v]
          /\ job' = [job EXCEPT ![c].pc = "calling", ![c].sends = 1]
          /\ UNCHANGED <<lock, unconfirmed>>
    /\ UNCHANGED inverter

\* The service call was accepted.  The inverter took the value, or it did not.
CallAccepted(c) ==
    LET e == job[c].entity IN
    /\ job[c].pc = "calling"
    /\ job' = [job EXCEPT ![c].pc = "polling", ![c].accepted = @ + 1, ![c].polls = 0]
    /\ register' \in {register, [register EXCEPT ![e] = job[c].value]}
    /\ UNCHANGED <<shown, lock, last_write_time, lastSent, unconfirmed>>

\* The service call raised.  The value may have landed all the same.
CallRaised(c) ==
    LET e == job[c].entity IN
    /\ job[c].pc = "calling"
    /\ last_write_time' = ReleaseCooldown(e, job[c].value)
    /\ Finish(c, "FAILED")
    /\ register' \in {register, [register EXCEPT ![e] = job[c].value]}
    /\ UNCHANGED <<shown, lastSent, unconfirmed>>

\* One read-back: vanished, read back, asked again, sent again, or given up.
Poll(c) ==
    LET e == job[c].entity
        v == job[c].value
        vanished == shown[e] = Missing /\ e \in Selects
        last == job[c].polls + 1 = Polls
    IN
    /\ job[c].pc = "polling"
    /\ \/ /\ vanished
          /\ Finish(c, "FAILED")
          /\ UNCHANGED <<last_write_time, unconfirmed>>
       \/ /\ ~vanished /\ Matches(e, v, shown[e])
          /\ Finish(c, "WRITTEN")
          /\ unconfirmed' = ConfirmedStep(e)
          /\ UNCHANGED last_write_time
       \/ /\ ~vanished /\ ~Matches(e, v, shown[e]) /\ ~last
          /\ job' = [job EXCEPT ![c].polls = @ + 1]
          /\ UNCHANGED <<lock, last_write_time, unconfirmed>>
       \/ /\ ~vanished /\ ~Matches(e, v, shown[e]) /\ last /\ MayResend(c)
          /\ job' = [job EXCEPT ![c].pc = "calling", ![c].sends = @ + 1]
          /\ UNCHANGED <<lock, last_write_time, unconfirmed>>
       \/ /\ ~vanished /\ ~Matches(e, v, shown[e]) /\ last /\ ~MayResend(c)
          /\ Finish(c, "UNCONFIRMED")
          /\ last_write_time' = ShortenCooldown(e, v)
          /\ unconfirmed' = UnconfirmedStep(e, v)
    /\ UNCHANGED <<inverter, lastSent>>

\* sequence.py, _not_confirmed: the caller looks again, outside the lock, at a setting its
\* write was truthy for, and releases the cooldown of one that does not hold.
NotConfirmed(c) ==
    LET e == job[c].entity
        v == job[c].value
    IN
    /\ job[c].pc = "done" /\ Truthy(job[c].status)
    /\ ~Matches(e, v, shown[e])
    /\ last_write_time' = ReleaseCooldown(e, v)
    /\ UNCHANGED <<inverter, lock, job, lastSent, unconfirmed>>

\* The listed entities that now hold their value, however they got there.
HeldNow == {e \in DOMAIN unconfirmed :
              Usable(shown[e]) /\ Matches(e, unconfirmed[e], shown[e])}

\* UnconfirmedWriteRepair.recheck, every cycle.
Recheck ==
    /\ HeldNow # {}
    /\ unconfirmed' = Without(unconfirmed, HeldNow)
    /\ UNCHANGED <<inverter, lock, job, last_write_time, lastSent>>

\* GivTCP publishes the register, or drops the entity.
Publish(e) ==
    /\ shown' = [shown EXCEPT ![e] = register[e]]
    /\ UNCHANGED <<register, lock, job, last_write_time, lastSent, unconfirmed>>

DropEntity(e) ==
    /\ \E s \in {Missing, Unavailable} : shown' = [shown EXCEPT ![e] = s]
    /\ UNCHANGED <<register, lock, job, last_write_time, lastSent, unconfirmed>>

\* Somebody changes the setting in the app.
ExternalChange(e) ==
    /\ \E v \in Values : register' = [register EXCEPT ![e] = v]
    /\ UNCHANGED <<shown, lock, job, last_write_time, lastSent, unconfirmed>>

\* A minute passes: cooldown_active compares with time.monotonic().
Tick ==
    /\ last_write_time' = [k \in {j \in DOMAIN last_write_time : last_write_time[j] > 1}
                             |-> last_write_time[k] - 1]
    /\ UNCHANGED <<inverter, lock, job, lastSent, unconfirmed>>

CallerStep(c) ==
    WriteVerified(c) \/ CallAccepted(c) \/ CallRaised(c) \/ Poll(c)

Next ==
    \/ \E c \in Callers :
          \/ \E e \in Entities, v \in Values : Request(c, e, v)
          \/ CallerStep(c)
          \/ NotConfirmed(c)
    \/ \E e \in Entities : Publish(e) \/ DropEntity(e) \/ ExternalChange(e)
    \/ Recheck
    \/ Tick

Spec == Init /\ [][Next]_vars

\* The event loop runs a task that can run, a service call returns, and the
\* coordinator's cycle comes round.
FairSpec == Spec /\ \A c \in Callers : WF_vars(CallerStep(c))
                 /\ WF_vars(Recheck)

-----------------------------------------------------------------------------
\* The lock and the jobs agree: the callers that wait or write are exactly the lock's queue,
\* once each, and only its head has a call or a read-back under way ("Two callers never
\* interleave their service calls", writer.py:21).
LockOwnership ==
    /\ {c \in Callers : job[c].pc \in {"queued", "calling", "polling"}} = Range(lock)
    /\ \A i, j \in DOMAIN lock : lock[i] = lock[j] => i = j
    /\ \A c \in Callers : job[c].pc \in {"calling", "polling"} => Holds(c)

\* A cooldown only ever holds back the value last handed to the entity, so a different value
\* is never held back by an older one (start_cooldown), whatever is shortened under the lock
\* or released outside it.
CooldownIsLastSent ==
    \A k \in DOMAIN last_write_time : lastSent[k[1]] = k[2]

\* In this step c's write to e is answered with one of S.
Answers(c, e, S) ==
    job[c].entity = e /\ job[c].pc # "done" /\ job'[c].pc = "done" /\ job'[c].status \in S

\* The repair follows the answers: an entity joins it only in the step in which a write to it
\* answers UNCONFIRMED, and a write that answers WRITTEN or ALREADY_SET takes it off.
RepairFollowsAnswers ==
    [][\A e \in Entities :
          /\ e \in DOMAIN unconfirmed' \ DOMAIN unconfirmed =>
               \E c \in Callers : Answers(c, e, {"UNCONFIRMED"})
          /\ (\E c \in Callers : Answers(c, e, {"WRITTEN", "ALREADY_SET"})) =>
               e \notin DOMAIN unconfirmed']_vars

\* Every write asked for is answered, behind any queue of other writes.
EveryWriteAnswered ==
    \A c \in Callers : job[c].pc = "queued" ~> job[c].pc = "done"

\* No entity stays on the repair while Home Assistant shows the value it was asked to take.
RepairNeverStuck ==
    []<>({e \in DOMAIN unconfirmed :
             Usable(shown[e]) /\ Matches(e, unconfirmed[e], shown[e])} = {})

\* The unconfirmed-write repair shows what the inverter did not take, no more and no longer.
RepairIsRight == RepairFollowsAnswers /\ RepairNeverStuck

\* The promise to the callers: see WritePromise.
Promise == INSTANCE WritePromise WITH
    ask <- [c \in Callers |-> CASE job[c].pc = "idle" -> "none"
                                [] job[c].pc = "done" -> "answered"
                                [] OTHER -> "open"],
    spent <- [c \in Callers |-> job[c].accepted],
    answer <- [c \in Callers |-> job[c].status]

KeepsPromise == Promise!Spec
=============================================================================
