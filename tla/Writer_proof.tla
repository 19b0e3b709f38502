---------------------------- MODULE Writer_proof ----------------------------
(***************************************************************************)
(* Proofs about module Writer, for any callers, entities and values and    *)
(* any number of sends and polls: its type, who owns the lock, what a      *)
(* cooldown holds back, that it implements WritePromise, and that the      *)
(* repair lists what its answers say.                                      *)
(***************************************************************************)
EXTENDS Writer, SequenceTheorems, TLAPS

\* What a write under way has cost, and that its polls are not used up.
Counts ==
    \A c \in Callers :
        /\ job[c].pc = "queued" => job[c].accepted = 0
        /\ job[c].pc = "calling" => job[c].sends = job[c].accepted + 1
        /\ job[c].pc = "polling" => /\ job[c].sends = job[c].accepted
                                    /\ job[c].accepted > 0
                                    /\ job[c].polls < Polls

\* The value under way is the last one its entity was sent.
UnderWay ==
    \A c \in Callers : job[c].pc \in {"calling", "polling"} =>
                          lastSent[job[c].entity] = job[c].value

IInv == TypeOK /\ Counts /\ LockOwnership /\ UnderWay /\ CooldownIsLastSent

-----------------------------------------------------------------------------
(* The lock's queue.                                                       *)

\* A caller that is not in the queue may join it.
LEMMA QueueJoined ==
    ASSUME NEW q \in Seq(Callers), NEW c \in Callers, c \notin Range(q),
           \A i, j \in DOMAIN q : q[i] = q[j] => i = j
    PROVE  /\ Append(q, c) \in Seq(Callers)
           /\ Range(Append(q, c)) = Range(q) \cup {c}
           /\ \A i, j \in DOMAIN Append(q, c) : Append(q, c)[i] = Append(q, c)[j] => i = j
           /\ q # <<>> => Head(Append(q, c)) = Head(q)
           /\ Append(q, c) # <<>>
<1> DEFINE r == Append(q, c)
<1>1. /\ r \in Seq(Callers) /\ Len(r) = Len(q) + 1 /\ DOMAIN r = 1..Len(r)
      /\ DOMAIN q = 1..Len(q) /\ Len(q) \in Nat
      /\ \A i \in 1..Len(q) : r[i] = q[i]
      /\ r[Len(q) + 1] = c
  OBVIOUS
<1>2. Range(r) = Range(q) \cup {c}
  BY <1>1 DEF Range
<1>3. \A i, j \in DOMAIN r : r[i] = r[j] => i = j
  BY <1>1 DEF Range
<1> QED BY <1>1, <1>2, <1>3

\* The head leaves, and nobody else moves.
LEMMA QueueLeft ==
    ASSUME NEW q \in Seq(Callers), q # <<>>,
           \A i, j \in DOMAIN q : q[i] = q[j] => i = j
    PROVE  /\ Tail(q) \in Seq(Callers)
           /\ Range(Tail(q)) = Range(q) \ {Head(q)}
           /\ \A i, j \in DOMAIN Tail(q) : Tail(q)[i] = Tail(q)[j] => i = j
<1> DEFINE t == Tail(q)
<1>1. /\ t \in Seq(Callers) /\ Len(t) = Len(q) - 1 /\ DOMAIN t = 1..Len(t)
      /\ DOMAIN q = 1..Len(q) /\ Len(q) \in Nat \ {0} /\ Head(q) = q[1]
      /\ \A i \in 1..Len(t) : t[i] = q[i + 1]
  BY HeadTailProperties, LenProperties, EmptySeq
<1>2. \A i, j \in DOMAIN t : t[i] = t[j] => i = j
  BY <1>1
<1>3. Range(t) \subseteq Range(q) \ {Head(q)}
  BY <1>1 DEF Range
<1>4. ASSUME NEW x \in Range(q), x # Head(q) PROVE x \in Range(t)
  <2>1. PICK i \in DOMAIN q : q[i] = x
    BY DEF Range
  <2>2. i - 1 \in DOMAIN t /\ t[i - 1] = x
    BY <1>1, <1>4, <2>1
  <2> QED BY <2>2 DEF Range
<1> QED BY <1>1, <1>2, <1>3, <1>4

-----------------------------------------------------------------------------
(* The inductive invariant.                                                *)

LEMMA InitIInv == Init => IInv
<1> SUFFICES ASSUME Init PROVE IInv
  OBVIOUS
<1> USE WriterAssumption
<1>1. PICK e \in Entities, v \in Values :
        job = [c \in Callers |-> [pc |-> "idle", entity |-> e, value |-> v, sends |-> 0,
                                  accepted |-> 0, polls |-> 0, status |-> "REFUSED"]]
  BY DEF Init
<1>2. job \in [Callers -> Job]
  BY <1>1 DEF Job, WriteStatus
<1>3. register \in [Entities -> Values] /\ shown \in [Entities -> Shown]
  BY DEF Init, Shown
<1>4. lock \in Seq(Callers) /\ lastSent \in [Entities -> Values \cup {NeverSent}]
  BY DEF Init
<1>5. DOMAIN last_write_time = {} /\ DOMAIN unconfirmed = {}
  BY DEF Init
<1>6. TypeOK
  BY <1>2, <1>3, <1>4, <1>5 DEF TypeOK
<1>7. LockOwnership
  <2>1. DOMAIN lock = {} /\ Range(lock) = {}
    BY DEF Init, Range
  <2> QED BY <1>1, <2>1 DEF LockOwnership
<1> QED BY <1>1, <1>5, <1>6, <1>7 DEF IInv, Counts, UnderWay, CooldownIsLastSent

\* Only the head of the queue has a call or a read-back under way.
LEMMA OneUnderWay ==
    ASSUME LockOwnership, NEW c \in Callers, NEW d \in Callers,
           Holds(c), job[d].pc \in {"calling", "polling"}
    PROVE  c = d
BY DEF LockOwnership, Holds

\* The answer: the caller leaves the queue.
LEMMA FinishKeeps ==
    ASSUME TypeOK, Counts, LockOwnership, UnderWay, lastSent' = lastSent,
           NEW c \in Callers, NEW s \in WriteStatus, Holds(c), Finish(c, s)
    PROVE  /\ lock' \in Seq(Callers) /\ job' \in [Callers -> Job]
           /\ Counts' /\ LockOwnership' /\ UnderWay'
<1>1. job \in [Callers -> Job] /\ lock \in Seq(Callers)
  BY DEF TypeOK
<1>2. job' = [job EXCEPT ![c].pc = "done", ![c].status = s] /\ lock' = Tail(lock)
  BY DEF Finish
<1>3. /\ lock # <<>> /\ Head(lock) = c
  BY DEF Holds
<1>4. /\ lock' \in Seq(Callers) /\ Range(lock') = Range(lock) \ {c}
      /\ \A i, j \in DOMAIN lock' : lock'[i] = lock'[j] => i = j
  BY <1>1, <1>2, <1>3, QueueLeft DEF LockOwnership
<1>5. job' \in [Callers -> Job]
  <2>1. /\ job[c].entity \in Entities /\ job[c].value \in Values /\ job[c].sends \in 0..MaxSends
        /\ job[c].accepted \in 0..MaxSends /\ job[c].polls \in 0..Polls
    BY <1>1 DEF Job
  <2>2. job[c] = [pc |-> job[c].pc, entity |-> job[c].entity, value |-> job[c].value,
                  sends |-> job[c].sends, accepted |-> job[c].accepted, polls |-> job[c].polls,
                  status |-> job[c].status]
    BY <1>1 DEF Job
  <2>3. [job[c] EXCEPT !.pc = "done", !.status = s] \in Job
    BY <2>1, <2>2 DEF Job
  <2> QED BY <1>1, <1>2, <2>3
<1>6. job'[c].pc = "done" /\ \A d \in Callers \ {c} : job'[d] = job[d]
  BY <1>1, <1>2 DEF Job
<1>7. \A d \in Callers : job[d].pc \in {"calling", "polling"} => d = c
  BY <1>3, OneUnderWay
<1>8. LockOwnership'
  <2>1. {d \in Callers : job'[d].pc \in {"queued", "calling", "polling"}} = Range(lock')
    BY <1>4, <1>6 DEF LockOwnership
  <2>2. \A d \in Callers : job'[d].pc \notin {"calling", "polling"}
    BY <1>6, <1>7
  <2> QED BY <1>4, <2>1, <2>2 DEF LockOwnership
<1>9. Counts' /\ UnderWay'
  BY <1>6, <1>7 DEF Counts, UnderWay
<1> QED BY <1>4, <1>5, <1>8, <1>9

\* The caller stays at the head: only its own job changes.
LEMMA HeadKeeps ==
    ASSUME TypeOK, LockOwnership, NEW c \in Callers, Holds(c), UNCHANGED lock,
           job' \in [Callers -> Job], \A d \in Callers \ {c} : job'[d] = job[d],
           job'[c].pc \in {"calling", "polling"},
           job[c].pc \in {"queued", "calling", "polling"}
    PROVE  LockOwnership'
<1>1. {d \in Callers : job'[d].pc \in {"queued", "calling", "polling"}}
        = {d \in Callers : job[d].pc \in {"queued", "calling", "polling"}}
  OBVIOUS
<1>2. \A d \in Callers : job'[d].pc \in {"calling", "polling"} => Holds(d)'
  BY OneUnderWay DEF LockOwnership, Holds
<1> QED BY <1>1, <1>2 DEF LockOwnership

-----------------------------------------------------------------------------
(* The cooldowns and the repair's list.                                    *)

\* A cooldown that starts forgets the entity's other values, so that it follows the value sent.
LEMMA CooldownStarts ==
    ASSUME TypeOK, CooldownIsLastSent, NEW e \in Entities, NEW v \in Values,
           last_write_time' = StartCooldown(e, v), lastSent' = [lastSent EXCEPT ![e] = v]
    PROVE  /\ DOMAIN last_write_time' \subseteq Keys
           /\ \A k \in DOMAIN last_write_time' : last_write_time'[k] \in 1..Cooldown
           /\ CooldownIsLastSent'
<1> DEFINE old == DOMAIN last_write_time \ ({e} \X Values)
<1>1. /\ DOMAIN last_write_time' = old \cup {<<e, v>>}
      /\ \A k \in old : last_write_time'[k] = last_write_time[k]
      /\ last_write_time'[<<e, v>>] = Cooldown
  BY DEF StartCooldown, With, Without, Restrict
<1>2. \A k \in old : k \in Keys /\ k[1] # e
  BY DEF TypeOK, Keys
<1>3. \A k \in old : lastSent'[k[1]] = k[2]
  BY <1>2 DEF TypeOK, Keys, CooldownIsLastSent
<1>4. lastSent'[e] = v
  BY DEF TypeOK
<1> QED BY <1>1, <1>2, <1>3, <1>4, WriterAssumption DEF TypeOK, Keys, CooldownIsLastSent

\* A cooldown that is shortened is that of the value last sent.
LEMMA CooldownShortens ==
    ASSUME TypeOK, CooldownIsLastSent, NEW e \in Entities, NEW v \in Values, lastSent[e] = v,
           last_write_time' = ShortenCooldown(e, v), UNCHANGED lastSent
    PROVE  /\ DOMAIN last_write_time' \subseteq Keys
           /\ \A k \in DOMAIN last_write_time' : last_write_time'[k] \in 1..Cooldown
           /\ CooldownIsLastSent'
<1>1. /\ DOMAIN last_write_time' = DOMAIN last_write_time \cup {<<e, v>>}
      /\ \A k \in DOMAIN last_write_time \ {<<e, v>>} : last_write_time'[k] = last_write_time[k]
      /\ last_write_time'[<<e, v>>] = ShortCooldown
  BY DEF ShortenCooldown, With
<1>2. <<e, v>> \in Keys /\ <<e, v>>[1] = e /\ <<e, v>>[2] = v
  BY DEF Keys
<1>3. ShortCooldown \in 1..Cooldown
  BY WriterAssumption
<1>4. \A k \in DOMAIN last_write_time' : lastSent'[k[1]] = k[2]
  BY <1>1, <1>2 DEF CooldownIsLastSent
<1> QED BY <1>1, <1>2, <1>3, <1>4 DEF TypeOK, CooldownIsLastSent

\* Dropping cooldowns, or letting them run down, leaves only what was there.
LEMMA CooldownsFewer ==
    ASSUME TypeOK, CooldownIsLastSent, UNCHANGED lastSent,
           DOMAIN last_write_time' \subseteq DOMAIN last_write_time,
           \A k \in DOMAIN last_write_time' : last_write_time'[k] \in 1..Cooldown
    PROVE  DOMAIN last_write_time' \subseteq Keys /\ CooldownIsLastSent'
BY DEF TypeOK, CooldownIsLastSent

LEMMA CooldownReleased ==
    ASSUME TypeOK, CooldownIsLastSent, UNCHANGED lastSent,
           NEW e, NEW v, last_write_time' = ReleaseCooldown(e, v)
    PROVE  /\ DOMAIN last_write_time' \subseteq Keys
           /\ \A k \in DOMAIN last_write_time' : last_write_time'[k] \in 1..Cooldown
           /\ CooldownIsLastSent'
<1>1. /\ DOMAIN last_write_time' = DOMAIN last_write_time \ {<<e, v>>}
      /\ \A k \in DOMAIN last_write_time' : last_write_time'[k] = last_write_time[k]
  BY DEF ReleaseCooldown, Without, Restrict
<1> QED BY <1>1, CooldownsFewer DEF TypeOK

\* What stands on the repair's list.
ListTyped == /\ DOMAIN unconfirmed \subseteq Entities
             /\ \A e \in DOMAIN unconfirmed : unconfirmed[e] \in Values

LEMMA ListShrinks ==
    ASSUME ListTyped, NEW S, unconfirmed' = Without(unconfirmed, S)
    PROVE  ListTyped'
BY DEF ListTyped, Without, Restrict

LEMMA ListGrows ==
    ASSUME ListTyped, NEW e \in Entities, NEW v \in Values, unconfirmed' = UnconfirmedStep(e, v)
    PROVE  ListTyped'
BY DEF ListTyped, UnconfirmedStep, With

-----------------------------------------------------------------------------
(* One lemma per action of a caller.                                       *)

LEMMA RequestKeeps ==
    ASSUME IInv, NEW c \in Callers, NEW e \in Entities, NEW v \in Values, Request(c, e, v)
    PROVE  IInv'
<1> USE DEF IInv
<1>1. job' = [job EXCEPT ![c] = [pc |-> "queued", entity |-> e, value |-> v, sends |-> 0,
                                 accepted |-> 0, polls |-> 0, status |-> job[c].status]]
  BY DEF Request
<1>2. job' \in [Callers -> Job]
  BY <1>1, WriterAssumption DEF TypeOK, Job
<1>3. job'[c].pc = "queued" /\ job'[c].accepted = 0 /\ \A d \in Callers \ {c} : job'[d] = job[d]
  BY <1>1 DEF TypeOK
<1>4. c \notin Range(lock) /\ lock \in Seq(Callers)
  BY DEF Request, LockOwnership, TypeOK
<1>5. /\ lock' \in Seq(Callers) /\ Range(lock') = Range(lock) \cup {c} /\ lock' # <<>>
      /\ \A i, j \in DOMAIN lock' : lock'[i] = lock'[j] => i = j
      /\ lock # <<>> => Head(lock') = Head(lock)
  BY <1>4, QueueJoined DEF Request, LockOwnership
<1>6. TypeOK'
  BY <1>2, <1>5 DEF Request, TypeOK, inverter
<1>7. LockOwnership'
  <2>1. {d \in Callers : job'[d].pc \in {"queued", "calling", "polling"}} = Range(lock')
    BY <1>3, <1>5 DEF LockOwnership
  <2>2. \A d \in Callers : job'[d].pc \in {"calling", "polling"} => Holds(d)'
    BY <1>3, <1>5 DEF LockOwnership, Holds
  <2> QED BY <1>5, <2>1, <2>2 DEF LockOwnership
<1>8. Counts' /\ UnderWay' /\ CooldownIsLastSent'
  BY <1>3 DEF Counts, UnderWay, CooldownIsLastSent, Request
<1> QED BY <1>6, <1>7, <1>8

LEMMA WriteVerifiedKeeps ==
    ASSUME IInv, NEW c \in Callers, WriteVerified(c)
    PROVE  IInv'
<1> USE DEF IInv
<1> DEFINE e == job[c].entity
           v == job[c].value
<1>1. /\ e \in Entities /\ v \in Values /\ job[c].pc = "queued" /\ Holds(c) /\ ListTyped
      /\ register' = register /\ shown' = shown
  BY DEF WriteVerified, TypeOK, Job, ListTyped, inverter
<1>2. CASE \E s \in WriteStatus : /\ Finish(c, s)
                                  /\ UNCHANGED <<last_write_time, lastSent>>
                                  /\ unconfirmed' \in {unconfirmed, ConfirmedStep(e)}
  <2>1. /\ lock' \in Seq(Callers) /\ job' \in [Callers -> Job]
        /\ Counts' /\ LockOwnership' /\ UnderWay'
    BY <1>1, <1>2, FinishKeeps
  <2>2. ListTyped'
    BY <1>1, <1>2, ListShrinks DEF ConfirmedStep, ListTyped
  <2> QED BY <1>1, <1>2, <2>1, <2>2 DEF TypeOK, ListTyped, CooldownIsLastSent
<1>3. CASE /\ last_write_time' = StartCooldown(e, v)
           /\ lastSent' = [lastSent EXCEPT ![e] = v]
           /\ job' = [job EXCEPT ![c].pc = "calling", ![c].sends = 1]
           /\ UNCHANGED <<lock, unconfirmed>>
  <2>0. 1 \in 0..MaxSends
    BY WriterAssumption
  <2>1. job' \in [Callers -> Job]
    <3>1. job \in [Callers -> Job]
      BY DEF TypeOK
    <3>2. job' = [job EXCEPT ![c] = [job[c] EXCEPT !.pc = "calling", !.sends = 1]]
      BY <1>3, <3>1
    <3>3. [job[c] EXCEPT !.pc = "calling", !.sends = 1] \in Job
      BY <2>0, <3>1 DEF Job
    <3> QED BY <3>1, <3>2, <3>3
  <2>2. /\ job'[c].pc = "calling" /\ job'[c].sends = 1 /\ job'[c].accepted = job[c].accepted
        /\ job'[c].entity = e /\ job'[c].value = v
        /\ \A d \in Callers \ {c} : job'[d] = job[d]
    BY <1>3 DEF TypeOK, Job
  <2>3. LockOwnership'
    BY <1>1, <1>3, <2>1, <2>2, HeadKeeps
  <2>4. \A d \in Callers : job'[d].pc \in {"calling", "polling"} => d = c
    BY <1>1, <2>2, OneUnderWay
  <2>5. UnderWay'
    BY <1>1, <1>3, <2>2, <2>4 DEF UnderWay, TypeOK
  <2>6. Counts'
    BY <1>1, <2>2, <2>4 DEF Counts
  <2>7. /\ DOMAIN last_write_time' \subseteq Keys /\ CooldownIsLastSent'
        /\ \A k \in DOMAIN last_write_time' : last_write_time'[k] \in 1..Cooldown
    BY <1>1, <1>3, CooldownStarts
  <2>8. lastSent' \in [Entities -> Values \cup {NeverSent}]
    BY <1>1, <1>3 DEF TypeOK
  <2> QED BY <1>1, <1>3, <2>1, <2>3, <2>5, <2>6, <2>7, <2>8 DEF TypeOK
<1> QED BY <1>2, <1>3 DEF WriteVerified, WriteStatus

LEMMA CallAcceptedKeeps ==
    ASSUME IInv, NEW c \in Callers, CallAccepted(c)
    PROVE  IInv'
<1> USE DEF IInv
<1>1. /\ job[c].pc = "calling" /\ Holds(c)
      /\ job' = [job EXCEPT ![c].pc = "polling", ![c].accepted = @ + 1, ![c].polls = 0]
      /\ UNCHANGED <<shown, lock, last_write_time, lastSent, unconfirmed>>
  BY DEF CallAccepted, LockOwnership
<1>2. /\ job[c].sends = job[c].accepted + 1 /\ job[c] \in Job
      /\ job[c].sends \in 0..MaxSends /\ job[c].accepted \in 0..MaxSends
  BY <1>1 DEF Counts, TypeOK, Job
<1>3. job' \in [Callers -> Job]
  <2>1. 0 \in 0..Polls /\ job[c].accepted + 1 \in 0..MaxSends
    BY <1>2, WriterAssumption
  <2> QED BY <1>1, <2>1 DEF TypeOK, Job
<1>4. /\ job'[c].pc = "polling" /\ job'[c].accepted = job[c].accepted + 1 /\ job'[c].polls = 0
      /\ job'[c].sends = job[c].sends
      /\ job'[c].entity = job[c].entity /\ job'[c].value = job[c].value
      /\ \A d \in Callers \ {c} : job'[d] = job[d]
  BY <1>1 DEF TypeOK, Job
<1>5. LockOwnership'
  BY <1>1, <1>3, <1>4, HeadKeeps
<1>6. Counts'
  BY <1>2, <1>4, WriterAssumption DEF Counts
<1>7. UnderWay' /\ CooldownIsLastSent'
  <2>1. \A d \in Callers : job'[d].pc \in {"calling", "polling"} =>
          /\ job[d].pc \in {"calling", "polling"}
          /\ job'[d].entity = job[d].entity /\ job'[d].value = job[d].value
    BY <1>1, <1>4
  <2> QED BY <1>1, <2>1 DEF UnderWay, CooldownIsLastSent
<1>8. register' \in [Entities -> Values]
  BY <1>2 DEF CallAccepted, TypeOK, Job
<1> QED BY <1>1, <1>3, <1>5, <1>6, <1>7, <1>8 DEF TypeOK

LEMMA CallRaisedKeeps ==
    ASSUME IInv, NEW c \in Callers, CallRaised(c)
    PROVE  IInv'
<1> USE DEF IInv
<1>1. /\ job[c].pc = "calling" /\ Holds(c) /\ Finish(c, "FAILED")
      /\ last_write_time' = ReleaseCooldown(job[c].entity, job[c].value)
      /\ UNCHANGED <<shown, lastSent, unconfirmed>>
  BY DEF CallRaised, LockOwnership
<1>2. /\ lock' \in Seq(Callers) /\ job' \in [Callers -> Job]
      /\ Counts' /\ LockOwnership' /\ UnderWay'
  BY <1>1, FinishKeeps DEF WriteStatus
<1>3. /\ DOMAIN last_write_time' \subseteq Keys /\ CooldownIsLastSent'
      /\ \A k \in DOMAIN last_write_time' : last_write_time'[k] \in 1..Cooldown
  BY <1>1, CooldownReleased
<1>4. register' \in [Entities -> Values]
  BY DEF CallRaised, TypeOK, Job
<1> QED BY <1>1, <1>2, <1>3, <1>4 DEF TypeOK

LEMMA PollKeeps ==
    ASSUME IInv, NEW c \in Callers, Poll(c)
    PROVE  IInv'
<1> USE DEF IInv
<1> DEFINE e == job[c].entity
           v == job[c].value
<1>1. /\ job[c].pc = "polling" /\ Holds(c) /\ ListTyped
      /\ e \in Entities /\ v \in Values /\ lastSent[e] = v
      /\ UNCHANGED <<register, shown, lastSent>>
  BY DEF Poll, LockOwnership, UnderWay, TypeOK, Job, ListTyped, inverter
<1>2. /\ job[c].sends = job[c].accepted /\ job[c].accepted > 0 /\ job[c].polls < Polls
      /\ job[c].sends \in 0..MaxSends /\ job[c].accepted \in 0..MaxSends
      /\ job[c].polls \in 0..Polls
  BY <1>1 DEF Counts, TypeOK, Job
<1>3. CASE \E s \in WriteStatus : /\ Finish(c, s)
                                  /\ last_write_time' \in {last_write_time, ShortenCooldown(e, v)}
                                  /\ unconfirmed' \in {unconfirmed, ConfirmedStep(e), UnconfirmedStep(e, v)}
  <2>1. /\ lock' \in Seq(Callers) /\ job' \in [Callers -> Job]
        /\ Counts' /\ LockOwnership' /\ UnderWay'
    BY <1>1, <1>3, FinishKeeps
  <2>2. ListTyped'
    <3>1. CASE unconfirmed' = unconfirmed
      BY <1>1, <3>1 DEF ListTyped
    <3>2. CASE unconfirmed' = ConfirmedStep(e)
      BY <1>1, <3>2, ListShrinks DEF ConfirmedStep
    <3>3. CASE unconfirmed' = UnconfirmedStep(e, v)
      BY <1>1, <3>3, ListGrows
    <3> QED BY <1>3, <3>1, <3>2, <3>3
  <2>3. /\ DOMAIN last_write_time' \subseteq Keys /\ CooldownIsLastSent'
        /\ \A k \in DOMAIN last_write_time' : last_write_time'[k] \in 1..Cooldown
    <3>1. CASE last_write_time' = last_write_time
      BY <1>1, <3>1 DEF TypeOK, CooldownIsLastSent
    <3>2. CASE last_write_time' = ShortenCooldown(e, v)
      BY <1>1, <3>2, CooldownShortens
    <3> QED BY <1>3, <3>1, <3>2
  <2> QED BY <1>1, <2>1, <2>2, <2>3 DEF TypeOK, ListTyped
<1>4. CASE /\ \/ job' = [job EXCEPT ![c].polls = @ + 1] /\ job[c].polls + 1 # Polls
              \/ job' = [job EXCEPT ![c].pc = "calling", ![c].sends = @ + 1] /\ MayResend(c)
           /\ UNCHANGED <<lock, last_write_time, unconfirmed>>
  <2>1. job \in [Callers -> Job]
    BY DEF TypeOK
  <2>2. /\ job' \in [Callers -> Job]
        /\ job'[c].entity = e /\ job'[c].value = v /\ job'[c].pc \in {"calling", "polling"}
        /\ job'[c].accepted = job[c].accepted
        /\ job'[c].pc = "polling" => job'[c].sends = job[c].sends /\ job'[c].polls < Polls
        /\ job'[c].pc = "calling" => job'[c].sends = job[c].sends + 1
        /\ \A d \in Callers \ {c} : job'[d] = job[d]
    <3>1. CASE job' = [job EXCEPT ![c].polls = @ + 1] /\ job[c].polls + 1 # Polls
      <4>1. job[c].polls + 1 \in 0..Polls /\ job[c].polls + 1 < Polls
        BY <1>2, <3>1, WriterAssumption
      <4>2. [job[c] EXCEPT !.polls = @ + 1] \in Job
        BY <2>1, <4>1 DEF Job
      <4> QED BY <1>1, <2>1, <3>1, <4>1, <4>2 DEF Job
    <3>2. CASE job' = [job EXCEPT ![c].pc = "calling", ![c].sends = @ + 1] /\ MayResend(c)
      <4>1. job[c].sends + 1 \in 0..MaxSends
        BY <1>2, <3>2, WriterAssumption DEF MayResend
      <4>2. [job[c] EXCEPT !.pc = "calling", !.sends = @ + 1] \in Job
        BY <2>1, <4>1 DEF Job
      <4> QED BY <1>1, <2>1, <3>2, <4>1, <4>2 DEF Job
    <3> QED BY <1>4, <3>1, <3>2
  <2>3. LockOwnership'
    BY <1>1, <1>4, <2>2, HeadKeeps
  <2>4. Counts'
    BY <1>2, <2>2 DEF Counts
  <2>5. UnderWay' /\ CooldownIsLastSent'
    <3>1. \A d \in Callers : job'[d].pc \in {"calling", "polling"} =>
            /\ job[d].pc \in {"calling", "polling"}
            /\ job'[d].entity = job[d].entity /\ job'[d].value = job[d].value
      BY <1>1, <2>2
    <3> QED BY <1>1, <1>4, <3>1 DEF UnderWay, CooldownIsLastSent
  <2> QED BY <1>1, <1>4, <2>2, <2>3, <2>4, <2>5 DEF TypeOK
<1> QED BY <1>3, <1>4 DEF Poll, WriteStatus

-----------------------------------------------------------------------------
(* The steps that touch no job.                                            *)

LEMMA OtherStepsKeep ==
    ASSUME IInv,
           \/ \E c \in Callers : NotConfirmed(c)
           \/ \E e \in Entities : Publish(e) \/ DropEntity(e) \/ ExternalChange(e)
           \/ Recheck \/ Tick \/ UNCHANGED vars
    PROVE  IInv'
<1> USE DEF IInv
<1>1. UNCHANGED <<lock, job, lastSent>>
  BY DEF NotConfirmed, Publish, DropEntity, ExternalChange, Recheck, Tick, vars
<1>2. Counts' /\ LockOwnership' /\ UnderWay'
  BY <1>1 DEF Counts, LockOwnership, UnderWay, Holds
<1>3. /\ register' \in [Entities -> Values]
      /\ shown' \in [Entities -> Shown]
  BY DEF NotConfirmed, Publish, DropEntity, ExternalChange, Recheck, Tick, vars, inverter,
         TypeOK, Shown
<1>4. ListTyped'
  <2>1. ListTyped
    BY DEF TypeOK, ListTyped
  <2>2. unconfirmed' = unconfirmed \/ unconfirmed' = Without(unconfirmed, HeldNow)
    BY DEF NotConfirmed, Publish, DropEntity, ExternalChange, Recheck, Tick, vars
  <2> QED BY <2>1, <2>2, ListShrinks DEF ListTyped
<1>5. /\ DOMAIN last_write_time' \subseteq Keys /\ CooldownIsLastSent'
      /\ \A k \in DOMAIN last_write_time' : last_write_time'[k] \in 1..Cooldown
  <2>1. CASE last_write_time' = last_write_time
    BY <1>1, <2>1 DEF TypeOK, CooldownIsLastSent
  <2>2. CASE \E c \in Callers : last_write_time' = ReleaseCooldown(job[c].entity, job[c].value)
    BY <1>1, <2>2, CooldownReleased
  <2>3. CASE Tick
    <3>1. /\ DOMAIN last_write_time' \subseteq DOMAIN last_write_time
          /\ \A k \in DOMAIN last_write_time' :
               last_write_time[k] > 1 /\ last_write_time'[k] = last_write_time[k] - 1
      BY <2>3 DEF Tick
    <3>2. \A k \in DOMAIN last_write_time' : last_write_time'[k] \in 1..Cooldown
      BY <3>1, WriterAssumption DEF TypeOK
    <3> QED BY <1>1, <3>1, <3>2, CooldownsFewer
  <2> QED BY <2>1, <2>2, <2>3
       DEF NotConfirmed, Publish, DropEntity, ExternalChange, Recheck, vars
<1> QED BY <1>1, <1>2, <1>3, <1>4, <1>5 DEF TypeOK, ListTyped

LEMMA NextKeepsIInv == IInv /\ [Next]_vars => IInv'
<1> SUFFICES ASSUME IInv, [Next]_vars PROVE IInv'
  OBVIOUS
<1>1. CASE \E c \in Callers, e \in Entities, v \in Values : Request(c, e, v)
  BY <1>1, RequestKeeps
<1>2. CASE \E c \in Callers : CallerStep(c)
  BY <1>2, WriteVerifiedKeeps, CallAcceptedKeeps, CallRaisedKeeps, PollKeeps DEF CallerStep
<1> QED BY <1>1, <1>2, OtherStepsKeep DEF Next

LEMMA AlwaysIInv == Spec => []IInv
BY InitIInv, NextKeepsIInv, PTL DEF Spec

-----------------------------------------------------------------------------
(* What holds of every run.                                                *)

\* Every variable keeps its type.
THEOREM TypeCorrect == Spec => []TypeOK
BY AlwaysIInv, PTL DEF IInv

\* The callers that wait or write are the lock's queue, once each, and only its head has a call
\* or a read-back under way.
THEOREM LockIsOwned == Spec => []LockOwnership
BY AlwaysIInv, PTL DEF IInv

\* A cooldown only ever holds back the value last handed to the entity.
THEOREM CooldownFollowsSent == Spec => []CooldownIsLastSent
BY AlwaysIInv, PTL DEF IInv

-----------------------------------------------------------------------------
(* The writer implements WritePromise.                                     *)

\* A step that moves no job between asked, open and answered, costs nothing and answers nothing.
LEMMA StutterMapped ==
    ASSUME \A d \in Callers : /\ job'[d].accepted = job[d].accepted
                              /\ job'[d].status = job[d].status
                              /\ \/ job'[d].pc = job[d].pc
                                 \/ {job[d].pc, job'[d].pc} \subseteq {"queued", "calling", "polling"}
    PROVE  UNCHANGED Promise!promiseVars
BY DEF Promise!promiseVars

LEMMA OpenMapped ==
    ASSUME NEW c \in Callers, \A d \in Callers \ {c} : job'[d] = job[d],
           job[c].pc \in {"idle", "done"}, job'[c].pc = "queued",
           job'[c].accepted = 0, job'[c].status = job[c].status
    PROVE  Promise!Open(c)
BY DEF Promise!Open

LEMMA AnswerMapped ==
    ASSUME NEW c \in Callers, \A d \in Callers \ {c} : job'[d] = job[d],
           job[c].pc \in {"queued", "calling", "polling"}, job'[c].pc = "done",
           job'[c].accepted = job[c].accepted,
           job'[c].status \in Promise!MayAnswer(job[c].accepted)
    PROVE  Promise!Answer(c)
BY DEF Promise!Answer

LEMMA SpendMapped ==
    ASSUME NEW c \in Callers, \A d \in Callers \ {c} : job'[d] = job[d],
           job[c].pc = "calling", job'[c].pc = "polling", job[c].accepted < MaxSends,
           job'[c].accepted = job[c].accepted + 1, job'[c].status = job[c].status,
           \A d \in Callers : job[d].pc \notin {"idle", "done"} /\ job[d].accepted > 0 => d = c
    PROVE  Promise!Spend(c)
<1> DEFINE spent == [d \in Callers |-> job[d].accepted]
<1>1. spent' = [spent EXCEPT ![c] = @ + 1]
  OBVIOUS
<1>2. \A d \in Callers : job[d].status = job'[d].status
  OBVIOUS
<1>3. Promise!InFlight \subseteq {c}
  BY DEF Promise!InFlight
<1> QED BY <1>1, <1>2, <1>3 DEF Promise!Spend

\* What an answer did to its caller's job.
LEMMA FinishJob ==
    ASSUME TypeOK, NEW c \in Callers, NEW s, Finish(c, s)
    PROVE  /\ job'[c].pc = "done" /\ job'[c].status = s /\ job'[c].accepted = job[c].accepted
           /\ \A d \in Callers \ {c} : job'[d] = job[d]
<1>1. job \in [Callers -> Job] /\ job' = [job EXCEPT ![c].pc = "done", ![c].status = s]
  BY DEF TypeOK, Finish
<1> QED BY <1>1 DEF Job

LEMMA InitMapped == Init => Promise!Init
<1> SUFFICES ASSUME Init PROVE Promise!Init
  OBVIOUS
<1>1. \A c \in Callers : job[c].pc = "idle" /\ job[c].accepted = 0 /\ job[c].status = "REFUSED"
  BY DEF Init
<1> QED BY <1>1 DEF Promise!Init, Promise!WriteStatus

LEMMA CallerMapped ==
    ASSUME IInv, NEW c \in Callers, CallerStep(c)
    PROVE  Promise!Next \/ UNCHANGED Promise!promiseVars
<1> USE DEF IInv
<1>0. job \in [Callers -> Job] /\ job[c] \in Job
  BY DEF TypeOK
<1>1. CASE WriteVerified(c)
  <2>1. job[c].pc = "queued" /\ job[c].accepted = 0
    BY <1>1 DEF WriteVerified, Counts
  <2>2. CASE \E s \in {"REFUSED", "ALREADY_SET", "COOLDOWN"} : Finish(c, s)
    <3>1. PICK s \in {"REFUSED", "ALREADY_SET", "COOLDOWN"} : Finish(c, s)
      BY <2>2
    <3>2. s \in Promise!MayAnswer(job[c].accepted)
      BY <2>1 DEF Promise!MayAnswer
    <3>3. Promise!Answer(c)
      BY <2>1, <3>1, <3>2, FinishJob, AnswerMapped
    <3> QED BY <3>3 DEF Promise!Next
  <2>3. CASE job' = [job EXCEPT ![c].pc = "calling", ![c].sends = 1]
    <3>1. UNCHANGED Promise!promiseVars
      BY <1>0, <2>1, <2>3, StutterMapped DEF Job
    <3> QED BY <3>1
  <2> QED BY <1>1, <2>2, <2>3 DEF WriteVerified
<1>2. CASE CallAccepted(c)
  <2>1. /\ job[c].pc = "calling" /\ job[c].accepted + 1 = job[c].sends /\ Holds(c)
        /\ job[c].sends \in 0..MaxSends /\ job[c].accepted \in 0..MaxSends
        /\ job' = [job EXCEPT ![c].pc = "polling", ![c].accepted = @ + 1, ![c].polls = 0]
    BY <1>0, <1>2 DEF CallAccepted, Counts, LockOwnership, Job
  <2>2. /\ job'[c].pc = "polling" /\ job'[c].accepted = job[c].accepted + 1
        /\ job'[c].status = job[c].status
        /\ \A d \in Callers \ {c} : job'[d] = job[d]
    BY <1>0, <2>1 DEF Job
  <2>3. job[c].accepted < MaxSends
    BY <2>1, WriterAssumption
  <2>4. \A d \in Callers : job[d].pc \notin {"idle", "done"} /\ job[d].accepted > 0 => d = c
    <3>1. \A d \in Callers : job[d].pc \in {"idle", "queued", "calling", "polling", "done"}
      BY <1>0 DEF Job
    <3> QED BY <2>1, <3>1, OneUnderWay DEF Counts
  <2>5. Promise!Spend(c)
    BY <2>1, <2>2, <2>3, <2>4, SpendMapped
  <2> QED BY <2>5 DEF Promise!Next
<1>3. CASE CallRaised(c)
  <2>1. job[c].pc = "calling" /\ Finish(c, "FAILED")
    BY <1>3 DEF CallRaised
  <2>2. Promise!Answer(c)
    BY <2>1, FinishJob, AnswerMapped DEF Promise!MayAnswer
  <2> QED BY <2>2 DEF Promise!Next
<1>4. CASE Poll(c)
  <2>1. /\ job[c].pc = "polling" /\ job[c].accepted = job[c].sends /\ job[c].accepted > 0
        /\ job[c].sends \in 0..MaxSends
    BY <1>0, <1>4 DEF Poll, Counts, Job
  <2>2. CASE \/ Finish(c, "FAILED") \/ Finish(c, "WRITTEN")
             \/ Finish(c, "UNCONFIRMED") /\ ~MayResend(c)
    <3>1. PICK s \in {"FAILED", "WRITTEN", "UNCONFIRMED"} :
            Finish(c, s) /\ (s = "UNCONFIRMED" => ~MayResend(c))
      BY <2>2
    <3>2. s \in Promise!MayAnswer(job[c].accepted)
      BY <2>1, <3>1, WriterAssumption DEF Promise!MayAnswer, MayResend
    <3>3. Promise!Answer(c)
      BY <2>1, <3>1, <3>2, FinishJob, AnswerMapped
    <3> QED BY <3>3 DEF Promise!Next
  <2>3. CASE \/ job' = [job EXCEPT ![c].polls = @ + 1]
             \/ job' = [job EXCEPT ![c].pc = "calling", ![c].sends = @ + 1]
    <3>1. UNCHANGED Promise!promiseVars
      BY <1>0, <2>1, <2>3, StutterMapped DEF Job
    <3> QED BY <3>1
  <2> QED BY <1>4, <2>2, <2>3 DEF Poll
<1> QED BY <1>1, <1>2, <1>3, <1>4 DEF CallerStep

LEMMA NextMapped == IInv /\ [Next]_vars => [Promise!Next]_Promise!promiseVars
<1> SUFFICES ASSUME IInv, [Next]_vars
             PROVE  Promise!Next \/ UNCHANGED Promise!promiseVars
  OBVIOUS
<1>1. CASE \E c \in Callers, e \in Entities, v \in Values : Request(c, e, v)
  <2>1. PICK c \in Callers, e \in Entities, v \in Values : Request(c, e, v)
    BY <1>1
  <2>2. /\ job[c].pc \in {"idle", "done"} /\ job'[c].pc = "queued" /\ job'[c].accepted = 0
        /\ job'[c].status = job[c].status /\ \A d \in Callers \ {c} : job'[d] = job[d]
    BY <2>1 DEF Request, IInv, TypeOK
  <2>3. Promise!Open(c)
    BY <2>2, OpenMapped
  <2> QED BY <2>3 DEF Promise!Next
<1>2. CASE \E c \in Callers : CallerStep(c)
  BY <1>2, CallerMapped
<1>3. CASE UNCHANGED job
  BY <1>3, StutterMapped
<1> QED BY <1>1, <1>2, <1>3
     DEF Next, NotConfirmed, Publish, DropEntity, ExternalChange, Recheck, Tick, vars

\* A write costs at most MaxSends register writes, nobody else's write comes between them, and
\* the status it answers tells what it cost: Writer implements WritePromise.
THEOREM PromiseKept == Spec => KeepsPromise
<1>1. Spec => []IInv
  BY AlwaysIInv
<1> QED BY <1>1, InitMapped, NextMapped, PTL DEF Spec, KeepsPromise, Promise!Spec
-----------------------------------------------------------------------------
(* The unconfirmed-write repair.                                           *)

\* A step that answers nobody and puts nothing on the list.
LEMMA ListQuiet ==
    ASSUME DOMAIN unconfirmed' \subseteq DOMAIN unconfirmed,
           \A c \in Callers : job[c].pc # "done" => job'[c].pc # "done"
    PROVE  \A e \in Entities :
              /\ e \in DOMAIN unconfirmed' \ DOMAIN unconfirmed =>
                   \E c \in Callers : Answers(c, e, {"UNCONFIRMED"})
              /\ (\E c \in Callers : Answers(c, e, {"WRITTEN", "ALREADY_SET"})) =>
                   e \notin DOMAIN unconfirmed'
BY DEF Answers

\* An answer moves the list the way its status says.
LEMMA ListFollows ==
    ASSUME TypeOK, NEW c \in Callers, job[c].pc # "done", NEW s, Finish(c, s),
           \/ s \notin {"WRITTEN", "ALREADY_SET"} /\ unconfirmed' = unconfirmed
           \/ s \in {"WRITTEN", "ALREADY_SET"} /\ unconfirmed' = ConfirmedStep(job[c].entity)
           \/ s = "UNCONFIRMED" /\ unconfirmed' = UnconfirmedStep(job[c].entity, job[c].value)
    PROVE  \A e \in Entities :
              /\ e \in DOMAIN unconfirmed' \ DOMAIN unconfirmed =>
                   \E d \in Callers : Answers(d, e, {"UNCONFIRMED"})
              /\ (\E d \in Callers : Answers(d, e, {"WRITTEN", "ALREADY_SET"})) =>
                   e \notin DOMAIN unconfirmed'
<1>1. /\ job'[c].pc = "done" /\ job'[c].status = s
      /\ \A d \in Callers \ {c} : job'[d] = job[d]
  BY FinishJob
<1>2. \A e, S : \A d \in Callers : Answers(d, e, S) => d = c /\ e = job[c].entity /\ s \in S
  BY <1>1 DEF Answers
<1>3. CASE s \notin {"WRITTEN", "ALREADY_SET"} /\ unconfirmed' = unconfirmed
  BY <1>2, <1>3
<1>4. CASE s \in {"WRITTEN", "ALREADY_SET"} /\ unconfirmed' = ConfirmedStep(job[c].entity)
  <2>1. DOMAIN unconfirmed' = DOMAIN unconfirmed \ {job[c].entity}
    BY <1>4 DEF ConfirmedStep, Without, Restrict
  <2> QED BY <1>2, <2>1
<1>5. CASE s = "UNCONFIRMED" /\ unconfirmed' = UnconfirmedStep(job[c].entity, job[c].value)
  <2>1. DOMAIN unconfirmed' = DOMAIN unconfirmed \cup {job[c].entity}
    BY <1>5 DEF UnconfirmedStep, With
  <2>2. Answers(c, job[c].entity, {"UNCONFIRMED"})
    BY <1>1, <1>5 DEF Answers
  <2>3. s \notin {"WRITTEN", "ALREADY_SET"}
    BY <1>5
  <2> QED BY <1>2, <2>1, <2>2, <2>3
<1> QED BY <1>3, <1>4, <1>5

LEMMA ListStep ==
    ASSUME TypeOK, Next
    PROVE  \A e \in Entities :
              /\ e \in DOMAIN unconfirmed' \ DOMAIN unconfirmed =>
                   \E c \in Callers : Answers(c, e, {"UNCONFIRMED"})
              /\ (\E c \in Callers : Answers(c, e, {"WRITTEN", "ALREADY_SET"})) =>
                   e \notin DOMAIN unconfirmed'
<1>1. job \in [Callers -> Job]
  BY DEF TypeOK
<1>2. ASSUME NEW c \in Callers, NEW e \in Entities, NEW v \in Values, Request(c, e, v)
      PROVE  /\ unconfirmed' = unconfirmed
             /\ \A d \in Callers : job[d].pc # "done" => job'[d].pc # "done"
  <2>1. job'[c].pc = "queued" /\ \A d \in Callers \ {c} : job'[d] = job[d]
    BY <1>1, <1>2 DEF Request
  <2> QED BY <1>2, <2>1 DEF Request
<1>3. ASSUME NEW c \in Callers, CallAccepted(c)
      PROVE  /\ unconfirmed' = unconfirmed
             /\ \A d \in Callers : job[d].pc # "done" => job'[d].pc # "done"
  <2>1. job'[c].pc = "polling" /\ \A d \in Callers \ {c} : job'[d] = job[d]
    BY <1>1, <1>3 DEF CallAccepted, Job
  <2> QED BY <1>3, <2>1 DEF CallAccepted
<1>4. CASE \E c \in Callers, e \in Entities, v \in Values : Request(c, e, v)
  BY <1>2, <1>4, ListQuiet
<1>5. CASE \E c \in Callers : CallAccepted(c)
  BY <1>3, <1>5, ListQuiet
<1>6. CASE \E c \in Callers : CallRaised(c)
  <2>1. PICK c \in Callers : CallRaised(c)
    BY <1>6
  <2>2. job[c].pc # "done" /\ Finish(c, "FAILED") /\ unconfirmed' = unconfirmed
    BY <2>1 DEF CallRaised
  <2> QED BY <2>2, ListFollows
<1>7. CASE \E c \in Callers : WriteVerified(c)
  <2>1. PICK c \in Callers : WriteVerified(c)
    BY <1>7
  <2>2. job[c].pc = "queued"
    BY <2>1 DEF WriteVerified
  <2>3. CASE \E s \in {"REFUSED", "COOLDOWN"} : Finish(c, s) /\ unconfirmed' = unconfirmed
    BY <2>2, <2>3, ListFollows
  <2>4. CASE Finish(c, "ALREADY_SET") /\ unconfirmed' = ConfirmedStep(job[c].entity)
    BY <2>2, <2>4, ListFollows
  <2>5. CASE /\ job' = [job EXCEPT ![c].pc = "calling", ![c].sends = 1]
             /\ unconfirmed' = unconfirmed
    <3>1. job'[c].pc = "calling" /\ \A d \in Callers \ {c} : job'[d] = job[d]
      BY <1>1, <2>5 DEF Job
    <3> QED BY <2>5, <3>1, ListQuiet
  <2> QED BY <2>1, <2>3, <2>4, <2>5 DEF WriteVerified
<1>8. CASE \E c \in Callers : Poll(c)
  <2>1. PICK c \in Callers : Poll(c)
    BY <1>8
  <2>2. job[c].pc = "polling"
    BY <2>1 DEF Poll
  <2>3. CASE Finish(c, "FAILED") /\ unconfirmed' = unconfirmed
    BY <2>2, <2>3, ListFollows
  <2>4. CASE Finish(c, "WRITTEN") /\ unconfirmed' = ConfirmedStep(job[c].entity)
    BY <2>2, <2>4, ListFollows
  <2>5. CASE Finish(c, "UNCONFIRMED") /\ unconfirmed' = UnconfirmedStep(job[c].entity, job[c].value)
    BY <2>2, <2>5, ListFollows
  <2>6. CASE /\ \/ job' = [job EXCEPT ![c].polls = @ + 1]
                \/ job' = [job EXCEPT ![c].pc = "calling", ![c].sends = @ + 1]
             /\ unconfirmed' = unconfirmed
    <3>1. job'[c].pc \in {"polling", "calling"} /\ \A d \in Callers \ {c} : job'[d] = job[d]
      BY <1>1, <2>2, <2>6 DEF Job
    <3> QED BY <2>6, <3>1, ListQuiet
  <2> QED BY <2>1, <2>3, <2>4, <2>5, <2>6 DEF Poll
<1>9. CASE UNCHANGED job /\ (unconfirmed' = unconfirmed \/ unconfirmed' = Without(unconfirmed, HeldNow))
  <2>1. DOMAIN unconfirmed' \subseteq DOMAIN unconfirmed
    BY <1>9 DEF Without, Restrict
  <2> QED BY <1>9, <2>1, ListQuiet
<1> QED BY <1>4, <1>5, <1>6, <1>7, <1>8, <1>9
     DEF Next, CallerStep, NotConfirmed, Publish, DropEntity, ExternalChange, Recheck, Tick

\* The unconfirmed-write repair follows the answers (UnconfirmedWriteRepair): an entity joins it
\* only as a write to it is answered UNCONFIRMED, and an answer that it holds the value takes it
\* off, whatever else waits, is dropped or is changed in the app.
THEOREM RepairFollows == Spec => RepairFollowsAnswers
<1>1. TypeOK /\ [Next]_vars =>
        [\A e \in Entities :
            /\ e \in DOMAIN unconfirmed' \ DOMAIN unconfirmed =>
                 \E c \in Callers : Answers(c, e, {"UNCONFIRMED"})
            /\ (\E c \in Callers : Answers(c, e, {"WRITTEN", "ALREADY_SET"})) =>
                 e \notin DOMAIN unconfirmed']_vars
  BY ListStep
<1> QED BY <1>1, TypeCorrect, PTL DEF Spec, RepairFollowsAnswers
=============================================================================
