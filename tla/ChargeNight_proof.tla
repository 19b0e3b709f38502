-------------------------- MODULE ChargeNight_proof --------------------------
(***************************************************************************)
(* One night of the charge plan, for every window, margin, bound and plan, *)
(* every write that may be lost or refused, and every stop and restart.    *)
(*                                                                         *)
(* NightOrderly: the invariant IInv adds to OnePlanAtATime what the modes  *)
(* allow (nothing of the night before the trigger, no task before the      *)
(* first refresh is over, a waiting cycle only with the floor's task), and *)
(* to ReplansBounded the notes of the log: the re-plans started are        *)
(* the ones noted, and a crash loses one note at most.                     *)
(*                                                                         *)
(* OnInverter: that the inverter holds the night between two changes is    *)
(* kept by HeldInv, which says setting by setting how far a change has got *)
(* (ChangeHeld) and that nothing ends outside the cheap hours, so that no  *)
(* repair writes the window under a remembered night (EndsCheap).          *)
(***************************************************************************)
EXTENDS ChargeNight, WellFoundedInduction, TLAPS

USE NightAssumption, NoneAssumption

-----------------------------------------------------------------------------
(* Greatest and least. *)
LEMMA GreaterOfTwo ==
  ASSUME NEW a \in Int, NEW b \in Int
  PROVE  Max({a, b}) \in {a, b} /\ Max({a, b}) >= a /\ Max({a, b}) >= b
<1>1. \E x \in {a, b} : \A y \in {a, b} : x >= y
  OBVIOUS
<1> QED BY <1>1 DEF Max

LEMMA Least ==
  ASSUME NEW S \in SUBSET Nat, S # {}
  PROVE  Min(S) \in S
<1> DEFINE R == {pair \in Nat \X Nat : pair[1] < pair[2]}
<1>1. OpToRel(<, Nat) = R
  BY Zenon DEF OpToRel
<1>2. IsWellFoundedOn(R, Nat)
  BY <1>1, NatLessThanWellFounded
<1>3. PICK x \in S : \A y \in S : ~(<<y, x>> \in R)
  BY <1>2, WFMin
<1>4. \A y \in S : x <= y
  <2> SUFFICES ASSUME NEW y \in S, ~(x <= y) PROVE FALSE
    OBVIOUS
  <2>1. x \in Nat /\ y \in Nat
    OBVIOUS
  <2>2. y < x
    BY <2>1
  <2>3. <<y, x>> \in R
    BY <2>1, <2>2
  <2> QED BY <2>3, <1>3
<1> QED BY <1>4 DEF Min

-----------------------------------------------------------------------------
(* The records the night is kept in. *)
Tasks == [Jobs -> Job \cup {Idle}]

LEMMA StartedTyped ==
  ASSUME NEW kind \in Kinds, NEW stage \in {"window", "target"}, NEW p \in Plan,
         NEW closes \in Times \cup {None}
  PROVE  /\ Started(kind, stage, p, closes) \in Job
         /\ Started(kind, stage, p, closes) # Idle
         /\ Started(kind, stage, p, closes).stage = stage
         /\ Started(kind, stage, p, closes).kind = kind
         /\ Started(kind, stage, p, closes).plan = p
         /\ Started(kind, stage, p, closes).failed = FALSE
BY DEF Started, Job, Idle

LEMMA NotIdle ==
  ASSUME NEW job \in Job PROVE job # Idle
BY DEF Job, Idle

LEMMA PlanMoved ==
  ASSUME NEW d \in Plan, NEW e \in Times, NEW t \in Targets
  PROVE  /\ [d EXCEPT !.end = e] \in Plan
         /\ [d EXCEPT !.target = t] \in Plan
         /\ d # None
         /\ d.end \in Times /\ d.target \in Targets /\ d.skip \in BOOLEAN /\ d.basis \in Nat
BY DEF Plan

LEMMA NightPlanTyped ==
  ASSUME NEW d \in Plan
  PROVE  /\ NightPlan(d) \in Plan
         /\ NightPlan(d).end \in {d.end, CheapEnd}
BY DEF NightPlan, Plan, Times

LEMMA WindowEndTyped ==
  ASSUME NEW d \in Plan \cup {None}
  PROVE  WindowEnd(d) \in Times
BY DEF WindowEnd, Plan, Times

LEMMA RememberedTyped ==
  ASSUME NEW closes \in Times \cup {None}, NEW d \in Plan \cup {None}, NEW p \in Plan
  PROVE  /\ Remembered(closes, d, p) \in NightState
         /\ Remembered(closes, d, p) # None
         /\ Remembered(closes, d, p).end = p.end
         /\ Remembered(closes, d, p).target = p.target
<1>1. (IF closes = None THEN WindowEnd(d) ELSE closes) \in Times
  BY WindowEndTyped
<1>2. Remembered(closes, d, p) \in NightState
  BY <1>1 DEF Remembered, NightState, Plan
<1> QED BY <1>2 DEF Remembered

LEMMA WroteTyped ==
  ASSUME NEW n \in NightState, NEW p \in Plan
  PROVE  /\ Wrote(n, p) \in NightState
         /\ Wrote(n, p) # None
         /\ Wrote(n, p).end = n.end
         /\ Wrote(n, p).target = p.target
<1>1. p.target \in Targets /\ p.skip \in BOOLEAN /\ p.basis \in Nat
  BY DEF Plan
<1> DEFINE a == [n EXCEPT !.target = p.target]
           b == [a EXCEPT !.skip = p.skip]
           c == [b EXCEPT !.basis = p.basis]
           w == [c EXCEPT !.replans = @ + 1]
<1>2. a \in NightState /\ a.end = n.end /\ a.target = p.target
  BY <1>1 DEF NightState
<1>3. b \in NightState /\ b.end = a.end /\ b.target = a.target
  BY <1>1, <1>2 DEF NightState
<1>4. c \in NightState /\ c.end = b.end /\ c.target = b.target
  <2> HIDE DEF b
  <2> QED BY <1>1, <1>3 DEF NightState
<1>5. w \in NightState /\ w.end = c.end /\ w.target = c.target
  <2> HIDE DEF c
  <2> QED BY <1>1, <1>4 DEF NightState
<1>6. Wrote(n, p) = w
  BY DEF Wrote, NightState
<1> HIDE DEF w
<1> QED BY <1>2, <1>3, <1>4, <1>5, <1>6

LEMMA SetBackTyped ==
  ASSUME NEW n \in NightState, NEW p \in Plan
  PROVE  /\ SetBack(n, p) \in NightState
         /\ SetBack(n, p).end = p.end
         /\ SetBack(n, p).target = p.target
<1>1. p.target \in Targets /\ p.end \in Times
  BY DEF Plan
<1> DEFINE a == [n EXCEPT !.end = p.end]
           b == [a EXCEPT !.target = p.target]
           c == [b EXCEPT !.tries = SettleMax]
<1>2. a \in NightState /\ a.end = p.end
  BY <1>1 DEF NightState
<1>3. b \in NightState /\ b.end = a.end /\ b.target = p.target
  <2> HIDE DEF a
  <2> QED BY <1>1, <1>2 DEF NightState
<1>4. c \in NightState /\ c.end = b.end /\ c.target = b.target
  <2> HIDE DEF b
  <2> QED BY <1>3 DEF NightState
<1>5. SetBack(n, p) = c
  BY DEF SetBack, NightState
<1> HIDE DEF c
<1> QED BY <1>2, <1>3, <1>4, <1>5

LEMMA AgainTyped ==
  ASSUME now \in Times, NEW closes \in Times \cup {None}, NEW d \in Plan \cup {None}
  PROVE  Again(closes, d) \in Retry \cup {None}
<1> DEFINE c == IF closes = None THEN WindowEnd(d) ELSE closes
           later == {t \in RetryTimes(c) : t > now}
<1>1. c \in Times
  BY WindowEndTyped
<1>2. later \in SUBSET Nat
  BY DEF RetryTimes
<1> HIDE DEF c
<1>3. later # {} => Min(later) \in Nat
  BY <1>2, Least
<1>4. NextRetry(c) \in Nat \cup {None}
  BY <1>3 DEF NextRetry
<1>5. Again(closes, d) = IF NextRetry(c) = None THEN None ELSE [at |-> NextRetry(c), closes |-> c]
  BY DEF Again, c
<1> QED BY <1>1, <1>4, <1>5 DEF Retry

(* _run_charge_write puts the attempt off, remembers the night, or starts    *)
(* its writes.                                                               *)
LEMMA RunWrites ==
  ASSUME now \in Times, NEW closes \in Times \cup {None}, NEW d \in Plan \cup {None},
         NEW js \in Tasks, NEW l \in Log, NEW n \in NightState \cup {None}, NEW isFrozen,
         RunChargeWrite(closes, d, js, l, n, isFrozen)
  PROVE  /\ retry' \in Retry \cup {None}
         /\ log' \in Log /\ log'.replans = l.replans
         /\ jobs' \in Tasks
         /\ night' \in NightState \cup {None}
         /\ \/ (d = None \/ isFrozen) /\ jobs' = js /\ night' = n
            \/ /\ d # None /\ world.dry /\ jobs' = js /\ night' # None /\ retry' = None
            \/ /\ d # None /\ night' = n /\ retry' = None
               /\ jobs' = [js EXCEPT !["night"] = Started("night", "window", NightPlan(d), closes)]
               /\ jobs'["night"] # Idle
               /\ \A j \in Jobs \ {"night"} : jobs'[j] = js[j]
<1>1. CASE d = None \/ isFrozen
  <2>1. retry' = Again(closes, d) /\ log' = RetryNoted(l) /\ jobs' = js /\ night' = n
    BY <1>1 DEF RunChargeWrite
  <2>2. RetryNoted(l) \in Log /\ RetryNoted(l).replans = l.replans
    BY DEF RetryNoted, Log
  <2> QED BY <1>1, <2>1, <2>2, AgainTyped
<1>2. CASE d # None /\ ~isFrozen /\ world.dry
  <2>1. /\ night' = Remembered(closes, d, NightPlan(d))
        /\ retry' = None /\ jobs' = js /\ log' = l
    BY <1>2 DEF RunChargeWrite
  <2>2. Remembered(closes, d, NightPlan(d)) \in NightState /\ Remembered(closes, d, NightPlan(d)) # None
    BY <1>2, NightPlanTyped, RememberedTyped
  <2> QED BY <1>2, <2>1, <2>2
<1>3. CASE d # None /\ ~isFrozen /\ ~world.dry
  <2> DEFINE job == Started("night", "window", NightPlan(d), closes)
  <2>1. /\ jobs' = [js EXCEPT !["night"] = job]
        /\ night' = n /\ retry' = None /\ log' = l
    BY <1>3 DEF RunChargeWrite
  <2>2. job \in Job /\ job # Idle
    <3>1. NightPlan(d) \in Plan /\ "night" \in Kinds /\ "window" \in {"window", "target"}
      BY <1>3, NightPlanTyped DEF Kinds
    <3>2. Started("night", "window", NightPlan(d), closes) \in Job
      BY <3>1, StartedTyped
    <3>3. Started("night", "window", NightPlan(d), closes) # Idle
      BY <3>2, NotIdle
    <3> QED BY <3>2, <3>3
  <2> HIDE DEF job
  <2>3. jobs' \in Tasks /\ jobs'["night"] = job /\ \A j \in Jobs \ {"night"} : jobs'[j] = js[j]
    BY <2>1, <2>2 DEF Tasks, Jobs
  <2> QED BY <1>3, <2>1, <2>2, <2>3 DEF job
<1> QED BY <1>1, <1>2, <1>3
-----------------------------------------------------------------------------
(* The invariant.                                                            *)

(* Until the trigger has fired there is no night to remember. *)
BeforeTrigger ==
    ~fired /\ now <= TriggerAt =>
        night = None /\ retry = None /\ ~Busy("night") /\ ~Busy("change")

(* Nor is there before the first cycle after a start. *)
NotReady ==
    /\ mode # "running" => /\ data = None /\ night = None
                           /\ ~Busy("night") /\ ~Busy("change")
    /\ mode = "down" => cycle = None /\ ~cycled

(* A cycle that waits for the floor's writes is the tick's only one. *)
CycleWaits ==
    /\ Busy("floor") => cycle # None
    /\ cycle # None /\ now # Last => cycled

(* The store lacks at most the note of the tick's own cycle. *)
NotesSaved ==
    /\ log.replans \in {saved.replans, saved.replans + 1}
    /\ ~cycled \/ cycle # None \/ now = Last => log.replans = saved.replans

(* A crash forgets one note at most. *)
NotesCounted ==
    /\ log.replans <= ReplanMax
    /\ replanned <= log.replans + restarts["crash"]

IInv == /\ TypeOK
        /\ OnePlanAtATime
        /\ BeforeTrigger
        /\ NotReady
        /\ CycleWaits
        /\ NotesSaved
        /\ NotesCounted

-----------------------------------------------------------------------------
(* A re-plan is noted only while the window is open and the count allows it. *)
LEMMA NoteAllowed ==
  ASSUME now \in Times, NEW n \in NightState \cup {None}, NEW d \in Plan, NEW l \in Log,
         ReplanDue(n, d, l)
  PROVE  n # None /\ ~Busy("change") /\ now # Last /\ l.replans + 1 <= ReplanMax
<1>1. n # None /\ ~Busy("change") /\ now < n.closes /\ ReplansSoFar(n, l) < ReplanMax
  BY DEF ReplanDue, MayReplan
<1>2. n.closes \in Times /\ n.replans \in Nat /\ l.replans \in Nat
  BY <1>1 DEF NightState, Log
<1>3. l.replans < ReplanMax
  <2>1. /\ Max({n.replans, l.replans}) \in {n.replans, l.replans}
        /\ Max({n.replans, l.replans}) >= l.replans
    <3>1. n.replans \in Int /\ l.replans \in Int
      BY <1>2
    <3> QED BY <3>1, GreaterOfTwo
  <2>2. Max({n.replans, l.replans}) < ReplanMax
    BY <1>1 DEF ReplansSoFar
  <2> DEFINE most == Max({n.replans, l.replans})
  <2>3. most \in Int /\ most >= l.replans /\ most < ReplanMax
    BY <2>1, <2>2, <1>2
  <2> HIDE DEF most
  <2> QED BY <2>3, <1>2
<1> QED BY <1>1, <1>2, <1>3 DEF Times

LEMMA LogAfterNotes ==
  ASSUME now \in Times, night \in NightState \cup {None}, NEW d \in Plan, NEW l \in Log
  PROVE  /\ LogAfter(d, l) \in Log
         /\ \/ LogAfter(d, l).replans = l.replans
            \/ /\ LogAfter(d, l).replans = l.replans + 1
               /\ now # Last /\ l.replans + 1 <= ReplanMax
<1> DEFINE note == IF ReplanDue(night, d, l) /\ ~world.dry THEN 1 ELSE 0
           repair == IF RepairDue(l) THEN 1 ELSE 0
           once == [l EXCEPT !.replans = @ + note]
           twice == [once EXCEPT !.repairs = @ + repair]
<1>1. note \in {0, 1} /\ repair \in {0, 1} /\ (note = 1 => ReplanDue(night, d, l))
  OBVIOUS
<1>2. LogAfter(d, l) = twice
  BY DEF LogAfter, Log
<1> HIDE DEF note, repair
<1>3. once \in Log /\ once.replans = l.replans + note
  BY <1>1 DEF Log
<1>4. twice \in Log /\ twice.replans = once.replans
  <2> HIDE DEF once
  <2> QED BY <1>1, <1>3 DEF Log
<1>5. l.replans \in Nat
  BY DEF Log
<1> HIDE DEF twice
<1>6. note = 1 => now # Last /\ l.replans + 1 <= ReplanMax
  BY <1>1, NoteAllowed
<1>7. CASE note = 0
  BY <1>7, <1>2, <1>3, <1>4, <1>5
<1>8. CASE note = 1
  BY <1>8, <1>2, <1>3, <1>4, <1>5, <1>6
<1> QED BY <1>1, <1>7, <1>8

(* What a cycle leaves of the night's state is the night's state. *)
LEMMA NightAfterTyped ==
  ASSUME now \in Times, NEW n \in NightState \cup {None}, NEW d \in Plan, NEW l \in Log
  PROVE  /\ NightAfter(n, d, l) \in NightState \cup {None}
         /\ NightAfter(n, d, l) = None <=> n = None
         /\ ~world.dry /\ n # None => /\ NightAfter(n, d, l).end = n.end
                                      /\ NightAfter(n, d, l).target = n.target
<1>1. CASE n = None
  BY <1>1 DEF NightAfter
<1>2. CASE n # None
  <2> DEFINE stay == n.late \/ (~Busy("change") /\ MayReplan(n, l) /\ LateDue(n))
             late == [n EXCEPT !.late = stay]
             tries == IF world.dry THEN SettleMax ELSE late.tries + 1
             tried1 == [late EXCEPT !.tries = tries]
             tried2 == [tried1 EXCEPT !.last = now]
  <2>1. NightAfter(n, d, l) = CASE ReplanDue(n, d, l) /\ world.dry -> Wrote(late, d)
                                [] SettleDue(n, d) -> [late EXCEPT !.tries = tries, !.last = now]
                                [] OTHER -> late
    BY <1>2 DEF NightAfter
  <2>2. stay \in BOOLEAN
    OBVIOUS
  <2> HIDE DEF stay
  <2>3. late \in NightState /\ late.end = n.end /\ late.target = n.target
    BY <2>2, <1>2 DEF NightState
  <2> HIDE DEF late
  <2>4. tries \in Nat
    BY <2>3 DEF NightState
  <2> HIDE DEF tries
  <2>5. tried1 \in NightState /\ tried1.end = late.end /\ tried1.target = late.target
    BY <2>3, <2>4 DEF NightState
  <2>6. tried2 \in NightState /\ tried2.end = tried1.end /\ tried2.target = tried1.target
    <3> HIDE DEF tried1
    <3> QED BY <2>5 DEF NightState
  <2>7. [late EXCEPT !.tries = tries, !.last = now] = tried2
    BY <2>3 DEF NightState
  <2> HIDE DEF tried2, tried1
  <2>8. CASE ReplanDue(n, d, l) /\ world.dry
    <3>1. ~SettleDue(n, d)
      <4>1. now < n.closes
        BY <2>8 DEF ReplanDue, MayReplan
      <4>2. now \in Int /\ n.closes \in Int
        BY <1>2 DEF NightState, Times
      <4> QED BY <4>1, <4>2 DEF SettleDue
    <3>2. NightAfter(n, d, l) = Wrote(late, d)
      BY <2>1, <2>8, <3>1
    <3> QED BY <3>2, <2>3, <2>8, <1>2, WroteTyped
  <2>9. CASE ~(ReplanDue(n, d, l) /\ world.dry) /\ SettleDue(n, d)
    <3>1. NightAfter(n, d, l) = tried2
      BY <2>1, <2>7, <2>9
    <3> QED BY <3>1, <2>3, <2>5, <2>6, <1>2
  <2>10. CASE ~(ReplanDue(n, d, l) /\ world.dry) /\ ~SettleDue(n, d)
    <3>1. NightAfter(n, d, l) = late
      BY <2>1, <2>10
    <3> QED BY <3>1, <2>3, <1>2
  <2> QED BY <2>8, <2>9, <2>10
<1> QED BY <1>1, <1>2

(* A cycle starts a re-plan or a setting back only for a remembered night.   *)
(* A re-plan keeps the end that was written, a setting back takes the cheapest period's. *)
ChangeStarts(d, job) ==
    \E kind \in {"replan", "settle"}, e \in Times :
        /\ job = Started(kind, "window", [d EXCEPT !.end = e], None)
        /\ kind = "replan" => e = night.end
        /\ kind = "settle" => e = CheapEnd

LEMMA JobsAfterStarts ==
  ASSUME now \in Times, night \in NightState \cup {None}, data \in Plan \cup {None},
         NEW js \in Tasks, NEW d \in Plan, NEW l \in Log
  PROVE  /\ JobsAfter(js, d, l) \in Tasks
         /\ JobsAfter(js, d, l)["night"] = js["night"]
         /\ JobsAfter(js, d, l)["floor"] = js["floor"]
         /\ \/ JobsAfter(js, d, l)["change"] = js["change"]
            \/ /\ night # None /\ ~Busy("change") /\ ~world.dry
               /\ ChangeStarts(d, JobsAfter(js, d, l)["change"])
         /\ \/ JobsAfter(js, d, l)["repair"] = js["repair"]
            \/ RepairDue(l)
<1> DEFINE replan == Started("replan", "window", [d EXCEPT !.end = night.end], None)
           settle == Started("settle", "window", [d EXCEPT !.end = CheapEnd], None)
           repair == Started("repair", "window", [d EXCEPT !.end = WindowEnd(data)], None)
           change == IF world.dry THEN js["change"] ELSE IF ReplanDue(night, d, l) THEN replan
                     ELSE IF SettleDue(night, d) THEN settle ELSE js["change"]
           mend == IF RepairDue(l) THEN repair ELSE js["repair"]
           once == [js EXCEPT !["change"] = change]
           twice == [once EXCEPT !["repair"] = mend]
<1>1. JobsAfter(js, d, l) = twice
  BY DEF JobsAfter, Tasks, Jobs
<1>2. night # None => replan \in Job
  <2> SUFFICES ASSUME night # None PROVE replan \in Job
    OBVIOUS
  <2>1. night.end \in Times
    BY DEF NightState
  <2>2. [d EXCEPT !.end = night.end] \in Plan
    BY <2>1 DEF Plan
  <2>3. "replan" \in Kinds /\ "window" \in {"window", "target"}
    BY DEF Kinds
  <2> QED BY <2>2, <2>3, StartedTyped
<1>3. settle \in Job
  <2>1. [d EXCEPT !.end = CheapEnd] \in Plan
    BY DEF Plan, Times
  <2>2. "settle" \in Kinds /\ "window" \in {"window", "target"}
    BY DEF Kinds
  <2> QED BY <2>1, <2>2, StartedTyped
<1>4. repair \in Job
  <2>1. [d EXCEPT !.end = WindowEnd(data)] \in Plan
    BY WindowEndTyped DEF Plan
  <2>2. "repair" \in Kinds /\ "window" \in {"window", "target"}
    BY DEF Kinds
  <2> QED BY <2>1, <2>2, StartedTyped
<1>5. \/ change = js["change"]
      \/ /\ night # None /\ ~Busy("change") /\ ~world.dry
         /\ change = replan \/ change = settle
  BY DEF ReplanDue, SettleDue
<1>6. change \in Job \cup {Idle}
  <2> HIDE DEF replan, settle, change
  <2> QED BY <1>2, <1>3, <1>5 DEF Tasks, Jobs
<1>7. \/ mend = js["repair"]
      \/ mend = repair /\ RepairDue(l)
  OBVIOUS
<1>8. mend \in Job \cup {Idle}
  <2> HIDE DEF repair, mend
  <2> QED BY <1>4, <1>7 DEF Tasks, Jobs
<1>9. /\ twice \in Tasks
      /\ twice["night"] = js["night"] /\ twice["floor"] = js["floor"]
      /\ twice["change"] = change /\ twice["repair"] = mend
  <2> HIDE DEF change, mend
  <2> QED BY <1>6, <1>8 DEF Tasks, Jobs
<1> HIDE DEF change, mend, twice
<1>10. \/ change = js["change"]
       \/ /\ night # None /\ ~Busy("change") /\ ~world.dry
          /\ ChangeStarts(d, change)
  <2>1. CASE night # None /\ ~Busy("change") /\ ~world.dry /\ change = replan
    <3>1. night.end \in Times /\ "replan" \in {"replan", "settle"} /\ "replan" # "settle"
      BY <2>1 DEF NightState
    <3> QED BY <3>1, <2>1 DEF ChangeStarts
  <2>2. CASE night # None /\ ~Busy("change") /\ ~world.dry /\ change = settle
    <3>1. CheapEnd \in Times /\ "settle" \in {"replan", "settle"} /\ "replan" # "settle"
      BY DEF Times
    <3> QED BY <3>1, <2>2 DEF ChangeStarts
  <2> QED BY <2>1, <2>2, <1>5
<1> QED BY <1>1, <1>7, <1>9, <1>10
-----------------------------------------------------------------------------
(* The end of a cycle keeps the invariant, whatever the floor did before it. *)
Settled(js, l) ==
    /\ js \in Tasks /\ l \in Log
    /\ js["night"] = jobs["night"] /\ js["change"] = jobs["change"] /\ js["floor"] = Idle
    /\ l.replans = log.replans /\ log.replans = saved.replans

Inverter == [end: Times, target: Targets, limit: BOOLEAN]

LEMMA EndCycleKeeps ==
  ASSUME IInv, Up, NEW d \in Plan, NEW js, NEW l, Settled(js, l), EndCycle(d, js, l),
         UNCHANGED <<now, fired, saved, world, edits, restarts>>,
         inverter' \in Inverter, frozen' \in BOOLEAN, topped' \in BOOLEAN,
         cycled' \in BOOLEAN, cycled' \/ now = Last
  PROVE  IInv'
<1> DEFINE js2 == JobsAfter(js, d, l)
           l2 == LogAfter(d, l)
<1>1. /\ now \in Times /\ night \in NightState \cup {None} /\ retry \in Retry \cup {None}
      /\ data \in Plan \cup {None} /\ jobs \in Tasks /\ log \in Log /\ saved \in Log
      /\ replanned \in Nat /\ tried \in Times \cup {None}
      /\ mode \in {"boot", "running"}
      /\ restarts["crash"] \in Nat
  BY DEF IInv, TypeOK, Up, Tasks
<1>2. /\ js \in Tasks /\ l \in Log
      /\ js["night"] = jobs["night"] /\ js["change"] = jobs["change"] /\ js["floor"] = Idle
      /\ l.replans = log.replans /\ log.replans = saved.replans
  BY DEF Settled
<1>3. /\ l2 \in Log
      /\ \/ l2.replans = l.replans
         \/ l2.replans = l.replans + 1 /\ now # Last /\ l.replans + 1 <= ReplanMax
  BY <1>1, <1>2, LogAfterNotes
<1>4. /\ js2 \in Tasks /\ js2["night"] = js["night"] /\ js2["floor"] = Idle
      /\ js2["change"] = js["change"] \/ night # None
  <2>1. js \in Tasks /\ l \in Log /\ js["floor"] = Idle
    BY <1>2
  <2>2. js2 \in Tasks /\ js2["night"] = js["night"] /\ js2["floor"] = js["floor"]
    BY <1>1, <2>1, JobsAfterStarts
  <2>3. js2["change"] = js["change"] \/ night # None
    BY <1>1, <2>1, JobsAfterStarts
  <2> QED BY <2>1, <2>2, <2>3
<1>5. /\ data' = d /\ cycle' = None /\ mode' = "running"
      /\ tried' = IF RepairDue(l) THEN now ELSE tried
      /\ replanned' = replanned + (l2.replans - l.replans)
      /\ IF mode = "boot" /\ NeedsCatchUp(WindowEnd(d), l2)
         THEN RunChargeWrite(WindowEnd(d), d, js2, l2, night, FALSE)
         ELSE /\ night' = NightAfter(night, d, l) /\ retry' = retry
              /\ jobs' = js2 /\ log' = l2
  BY DEF EndCycle
<1> HIDE DEF js2, l2
<1>6. /\ log' \in Log /\ log'.replans = l2.replans
      /\ jobs' \in Tasks /\ night' \in NightState \cup {None} /\ retry' \in Retry \cup {None}
      /\ jobs'["floor"] = Idle
      /\ OnePlanAtATime' /\ BeforeTrigger'
  <2>1. CASE mode = "boot" /\ NeedsCatchUp(WindowEnd(d), l2)
    <3>1. RunChargeWrite(WindowEnd(d), d, js2, l2, night, FALSE)
      BY <2>1, <1>5
    <3>2. WindowEnd(d) \in Times \cup {None} /\ d \in Plan \cup {None} /\ d # None
      BY WindowEndTyped, PlanMoved DEF Times, Targets
    <3>3. /\ retry' \in Retry \cup {None}
          /\ log' \in Log /\ log'.replans = l2.replans
          /\ jobs' \in Tasks
          /\ night' \in NightState \cup {None}
          /\ retry' = None
          /\ \/ jobs' = js2 /\ night' # None
             \/ /\ night' = night /\ jobs'["night"] # Idle
                /\ \A j \in Jobs \ {"night"} : jobs'[j] = js2[j]
      <4>1. js2 \in Tasks /\ l2 \in Log
        BY <1>3, <1>4
      <4>2. WindowEnd(d) \in Times \cup {None}
        BY <3>2
      <4>3. d \in Plan \cup {None}
        OBVIOUS
      <4>5. \E asleep : asleep = FALSE /\ RunChargeWrite(WindowEnd(d), d, js2, l2, night, asleep)
        BY <3>1, Zenon
      <4>6. PICK asleep : asleep = FALSE /\ RunChargeWrite(WindowEnd(d), d, js2, l2, night, asleep)
        BY <4>5
      <4>7. /\ retry' \in Retry \cup {None}
            /\ log' \in Log /\ log'.replans = l2.replans
            /\ jobs' \in Tasks
            /\ night' \in NightState \cup {None}
        BY <4>6, <4>2, <4>3, <1>1, <4>1, RunWrites
      <4>8. \/ (d = None \/ asleep) /\ jobs' = js2 /\ night' = night
            \/ d # None /\ world.dry /\ jobs' = js2 /\ night' # None /\ retry' = None
            \/ /\ d # None /\ night' = night /\ retry' = None
               /\ jobs'["night"] # Idle
               /\ \A j \in Jobs \ {"night"} : jobs'[j] = js2[j]
        BY <4>6, <4>2, <4>3, <1>1, <4>1, RunWrites
      <4> QED BY <4>6, <4>7, <4>8, <3>2
    <3>4. night = None /\ jobs["night"] = Idle /\ jobs["change"] = Idle
      BY <2>1 DEF IInv, NotReady, Busy
    <3>5. jobs'["change"] = Idle /\ jobs'["floor"] = Idle
          /\ (night' # None => jobs'["night"] = Idle)
      BY <3>3, <3>4, <1>2, <1>4 DEF Jobs
    <3>6. fired' \/ now' > TriggerAt
      BY <2>1 DEF NeedsCatchUp
    <3>7. OnePlanAtATime' /\ BeforeTrigger'
      BY <3>3, <3>5, <3>6, <1>1 DEF OnePlanAtATime, BeforeTrigger, Busy, Times
    <3> QED BY <3>3, <3>5, <3>7
  <2>2. CASE ~(mode = "boot" /\ NeedsCatchUp(WindowEnd(d), l2))
    <3>1. night' = NightAfter(night, d, l) /\ retry' = retry /\ jobs' = js2 /\ log' = l2
      BY <2>2, <1>5
    <3>2. night' \in NightState \cup {None} /\ (night' = None <=> night = None)
      BY <3>1, <1>1, <1>2, NightAfterTyped
    <3>3. OnePlanAtATime'
      BY <3>1, <3>2, <1>2, <1>4 DEF IInv, OnePlanAtATime, Busy
    <3>4. BeforeTrigger'
      BY <3>1, <3>2, <1>2, <1>4 DEF IInv, BeforeTrigger, Busy
    <3> QED BY <3>1, <3>2, <3>3, <3>4, <1>1, <1>3, <1>4
  <2> QED BY <2>1, <2>2
<1>7. TypeOK'
  <2>1. tried' \in Times \cup {None}
    BY <1>1, <1>5
  <2>2. replanned' \in Nat
    BY <1>1, <1>2, <1>3, <1>5 DEF Log
  <2>3. mode' \in {"down", "boot", "running"} /\ data' \in Plan \cup {None} /\ cycle' \in Plan \cup {None}
    BY <1>5
  <2> QED BY <2>1, <2>2, <2>3, <1>6 DEF IInv, TypeOK, Tasks, Inverter
<1>8. NotReady'
  BY <1>5 DEF NotReady
<1>9. CycleWaits'
  BY <1>5, <1>6 DEF CycleWaits, Busy
<1>10. NotesSaved'
  BY <1>1, <1>2, <1>3, <1>5, <1>6 DEF NotesSaved, Log
<1>11. NotesCounted'
  BY <1>1, <1>2, <1>3, <1>5, <1>6 DEF NotesCounted, IInv, Log
<1> QED BY <1>6, <1>7, <1>8, <1>9, <1>10, <1>11 DEF IInv
-----------------------------------------------------------------------------
(* What a step that starts or ends no cycle leaves alone. *)
Alone == /\ UNCHANGED <<now, cycle, cycled, saved, replanned, restarts>>
         /\ log' \in Log /\ log'.replans = log.replans
         /\ (jobs'["floor"] # Idle) => (jobs["floor"] # Idle)

LEMMA AloneKeeps ==
  ASSUME IInv, Alone
  PROVE  CycleWaits' /\ NotesSaved' /\ NotesCounted'
BY DEF IInv, Alone, CycleWaits, NotesSaved, NotesCounted, Busy

LEMMA TypesOf ==
  ASSUME IInv
  PROVE  /\ now \in Times /\ night \in NightState \cup {None} /\ retry \in Retry \cup {None}
         /\ data \in Plan \cup {None} /\ cycle \in Plan \cup {None}
         /\ jobs \in Tasks /\ log \in Log /\ saved \in Log
         /\ replanned \in Nat /\ tried \in Times \cup {None}
         /\ inverter \in Inverter
         /\ {fired, frozen, cycled, topped} \subseteq BOOLEAN
         /\ restarts \in [{"orderly", "crash"} -> 0..MaxRestarts]
         /\ mode \in {"down", "boot", "running"}
         /\ world \in [override: BOOLEAN, dry: BOOLEAN]
         /\ edits \in 0..MaxEdits
BY DEF IInv, TypeOK, Tasks, Inverter

LEMMA TriggerKeeps ==
  ASSUME IInv, Trigger
  PROVE  IInv'
<1>1. /\ Up /\ now = TriggerAt /\ ~fired /\ fired' = TRUE
      /\ RunChargeWrite(None, data, jobs, log, None, frozen)
      /\ UNCHANGED <<now, inverter, mode, data, frozen, cycle, cycled, tried, topped, saved,
                     world, replanned, edits, restarts>>
  BY DEF Trigger
<1>2. night = None /\ retry = None /\ jobs["night"] = Idle /\ jobs["change"] = Idle
  BY <1>1, TypesOf DEF IInv, BeforeTrigger, Busy, Times
<1>3. None \in Times \cup {None} /\ None \in NightState \cup {None}
  OBVIOUS
<1>4. /\ retry' \in Retry \cup {None}
      /\ log' \in Log /\ log'.replans = log.replans
      /\ jobs' \in Tasks
      /\ night' \in NightState \cup {None}
  BY <1>1, <1>3, TypesOf, RunWrites
<1>5. \/ jobs' = jobs /\ night' = None
      \/ data # None /\ jobs' = jobs /\ night' # None /\ retry' = None
      \/ /\ data # None /\ night' = None /\ retry' = None
         /\ jobs'["night"] # Idle
         /\ \A j \in Jobs \ {"night"} : jobs'[j] = jobs[j]
  BY <1>1, <1>3, TypesOf, RunWrites
<1>6. jobs'["floor"] = jobs["floor"] /\ jobs'["change"] = Idle
      /\ (night' # None \/ retry' # None => jobs'["night"] = Idle)
  BY <1>2, <1>5 DEF Jobs
<1>7. OnePlanAtATime'
  BY <1>5, <1>6 DEF OnePlanAtATime, Busy
<1>8. BeforeTrigger'
  BY <1>1 DEF BeforeTrigger
<1>9. NotReady'
  BY <1>1, <1>2, <1>5, <1>6 DEF IInv, NotReady, Busy, Up
<1>10. CycleWaits' /\ NotesSaved' /\ NotesCounted'
  BY <1>1, <1>4, <1>6, AloneKeeps DEF Alone
<1>11. TypeOK'
  BY <1>1, <1>4 DEF IInv, TypeOK, Tasks
<1> QED BY <1>7, <1>8, <1>9, <1>10, <1>11 DEF IInv

LEMMA RetryKeeps ==
  ASSUME IInv, RetryDue
  PROVE  IInv'
<1>1. /\ Up /\ retry # None
      /\ RunChargeWrite(retry.closes, data, jobs, log, night, frozen)
      /\ UNCHANGED <<now, inverter, mode, fired, data, frozen, cycle, cycled, tried, topped,
                     saved, world, replanned, edits, restarts>>
  BY DEF RetryDue
<1>2. night = None /\ jobs["night"] = Idle /\ jobs["change"] = Idle
  BY <1>1 DEF IInv, OnePlanAtATime, Busy
<1>3. retry.closes \in Times \cup {None}
  BY <1>1, TypesOf DEF Retry
<1>4. /\ retry' \in Retry \cup {None}
      /\ log' \in Log /\ log'.replans = log.replans
      /\ jobs' \in Tasks
      /\ night' \in NightState \cup {None}
  BY <1>1, <1>3, TypesOf, RunWrites
<1>5. \/ jobs' = jobs /\ night' = night
      \/ data # None /\ jobs' = jobs /\ night' # None /\ retry' = None
      \/ /\ data # None /\ night' = night /\ retry' = None
         /\ jobs'["night"] # Idle
         /\ \A j \in Jobs \ {"night"} : jobs'[j] = jobs[j]
  BY <1>1, <1>3, TypesOf, RunWrites
<1>6. jobs'["floor"] = jobs["floor"] /\ jobs'["change"] = Idle
      /\ (night' # None \/ retry' # None => jobs'["night"] = Idle)
  BY <1>2, <1>5 DEF Jobs
<1>7. OnePlanAtATime'
  BY <1>2, <1>5, <1>6 DEF OnePlanAtATime, Busy
<1>8. BeforeTrigger'
  BY <1>1 DEF IInv, BeforeTrigger
<1>9. NotReady'
  BY <1>1, <1>2, <1>5, <1>6 DEF IInv, NotReady, Busy, Up
<1>10. CycleWaits' /\ NotesSaved' /\ NotesCounted'
  BY <1>1, <1>4, <1>6, AloneKeeps DEF Alone
<1>11. TypeOK'
  BY <1>1, <1>4 DEF IInv, TypeOK, Tasks
<1> QED BY <1>7, <1>8, <1>9, <1>10, <1>11 DEF IInv

LEMMA CycleKeeps ==
  ASSUME IInv, NEW d \in Plans, NEW low \in BOOLEAN, Cycle(d, low)
  PROVE  IInv'
<1>1. /\ Up /\ cycle = None /\ (~cycled \/ now = Last)
      /\ cycled' = ~cycled /\ frozen' = FALSE
      /\ UNCHANGED <<now, inverter, fired, topped, saved, world, edits, restarts>>
  BY DEF Cycle
<1>2. d \in Plan /\ cycled' \in BOOLEAN /\ (cycled' \/ now = Last)
  BY <1>1
<1>3. jobs["floor"] = Idle /\ log.replans = saved.replans
  BY <1>1 DEF IInv, CycleWaits, NotesSaved, Busy
<1>4. CASE FloorDue(low)
  <2> DEFINE target == Max({FloorTarget, inverter.target})
             job == Started("floor", "target", [d EXCEPT !.target = target], None)
  <2>1. /\ cycle' = d /\ jobs' = [jobs EXCEPT !["floor"] = job]
        /\ UNCHANGED <<data, mode, tried, replanned, night, retry, log>>
    BY <1>4 DEF Cycle
  <2>2. target \in Targets
    <3>1. FloorTarget \in Targets /\ inverter.target \in Targets
      BY TypesOf DEF Inverter
    <3>2. FloorTarget \in Int /\ inverter.target \in Int
      BY <3>1 DEF Targets
    <3> QED BY <3>1, <3>2, GreaterOfTwo
  <2> HIDE DEF target
  <2>3. job \in Job
    <3>1. [d EXCEPT !.target = target] \in Plan /\ "floor" \in Kinds /\ "target" \in {"window", "target"}
      BY <1>2, <2>2 DEF Plan, Kinds
    <3> QED BY <3>1, StartedTyped
  <2> HIDE DEF job
  <2>4. jobs' \in Tasks /\ \A j \in Jobs \ {"floor"} : jobs'[j] = jobs[j]
    BY <2>1, <2>3, TypesOf DEF Tasks, Jobs
  <2>5. jobs'["night"] = jobs["night"] /\ jobs'["change"] = jobs["change"]
    BY <2>4 DEF Jobs
  <2>6. TypeOK'
    BY <1>1, <1>2, <2>1, <2>4 DEF IInv, TypeOK, Tasks
  <2>7. OnePlanAtATime' /\ BeforeTrigger'
    BY <1>1, <2>1, <2>5 DEF IInv, OnePlanAtATime, BeforeTrigger, Busy
  <2>8. NotReady'
    BY <1>1, <2>1, <2>5 DEF IInv, NotReady, Busy, Up
  <2>9. CycleWaits'
    <3>1. d # None
      BY <1>2
    <3> QED BY <3>1, <1>1, <1>2, <2>1 DEF CycleWaits
  <2>10. NotesSaved' /\ NotesCounted'
    BY <1>1, <1>3, <2>1 DEF IInv, NotesSaved, NotesCounted
  <2> QED BY <2>6, <2>7, <2>8, <2>9, <2>10 DEF IInv
<1>5. CASE ~FloorDue(low)
  <2>1. EndCycle(d, jobs, log)
    BY <1>5 DEF Cycle
  <2>2. Settled(jobs, log)
    BY <1>3, TypesOf DEF Settled
  <2>3. inverter' \in Inverter /\ frozen' \in BOOLEAN /\ topped' \in BOOLEAN
    BY <1>1, TypesOf
  <2> QED BY <1>1, <1>2, <2>1, <2>2, <2>3, EndCycleKeeps
<1> QED BY <1>4, <1>5

LEMMA FailedCycleKeeps ==
  ASSUME IInv, CycleFails
  PROVE  IInv'
<1>1. /\ mode = "running" /\ cycle = None /\ ~cycled
      /\ cycled' = TRUE /\ frozen' = TRUE
      /\ UNCHANGED <<now, inverter, mode, fired, data, cycle, night, retry, jobs, tried, topped,
                     log, saved, world, replanned, edits, restarts>>
  BY DEF CycleFails
<1>2. TypeOK' /\ OnePlanAtATime' /\ BeforeTrigger' /\ NotReady'
  BY <1>1 DEF IInv, TypeOK, OnePlanAtATime, BeforeTrigger, NotReady, Busy
<1>3. CycleWaits' /\ NotesSaved' /\ NotesCounted'
  BY <1>1 DEF IInv, CycleWaits, NotesSaved, NotesCounted, Busy
<1> QED BY <1>2, <1>3 DEF IInv
-----------------------------------------------------------------------------
(* A task's writes, and what it does once they are over. *)
Unmoved == UNCHANGED <<now, fired, frozen, cycled, saved, world, edits, restarts>>

LEMMA FinishKeeps ==
  ASSUME IInv, NEW j \in Jobs, jobs[j] \in Job, NEW ok \in BOOLEAN, NEW l \in Log,
         l.replans = log.replans, Finish(j, ok, l), Unmoved, inverter' \in Inverter
  PROVE  IInv'
<1> DEFINE js == [jobs EXCEPT ![j] = Idle]
<1>1. /\ js \in Tasks /\ js[j] = Idle
      /\ \A k \in Jobs \ {j} : js[k] = jobs[k]
  BY TypesOf DEF Tasks
<1>2. jobs[j] # Idle
  BY NotIdle
<1>3. jobs[j].plan \in Plan /\ jobs[j].closes \in Times \cup {None}
  BY DEF Job
<1> HIDE DEF js
<1>4. CASE j = "night" /\ Finish(j, ok, l)
  <2>1. /\ jobs' = js
        /\ UNCHANGED <<data, cycle, mode, tried, replanned, topped>>
        /\ IF ok THEN night' = Remembered(jobs[j].closes, data, jobs[j].plan) /\ retry' = retry /\ log' = l
           ELSE night' = night /\ retry' = Again(jobs[j].closes, data) /\ log' = RetryNoted(l)
    BY <1>4 DEF Finish, js
  <2>2. night = None /\ retry = None /\ jobs["change"] = Idle /\ (fired \/ now > TriggerAt)
        /\ mode = "running"
    BY <1>2, <1>4, TypesOf DEF IInv, OnePlanAtATime, BeforeTrigger, NotReady, Busy, Times
  <2>3. night' \in NightState \cup {None} /\ retry' \in Retry \cup {None}
        /\ (night' = None \/ retry' = None)
    BY <1>3, <2>1, <2>2, TypesOf, RememberedTyped, AgainTyped
  <2>4. log' \in Log /\ log'.replans = log.replans
    BY <2>1 DEF RetryNoted, Log
  <2>5. jobs'["night"] = Idle /\ jobs'["change"] = Idle /\ jobs'["floor"] = jobs["floor"]
        /\ jobs' \in Tasks
    BY <1>1, <1>4, <2>1, <2>2 DEF Jobs
  <2>6. TypeOK'
    BY <2>1, <2>3, <2>4, <2>5 DEF IInv, TypeOK, Tasks, Unmoved, Inverter
  <2>7. OnePlanAtATime' /\ BeforeTrigger' /\ NotReady'
    BY <2>1, <2>2, <2>3, <2>5, TypesOf
       DEF OnePlanAtATime, BeforeTrigger, NotReady, Busy, Unmoved, Times
  <2>8. CycleWaits' /\ NotesSaved' /\ NotesCounted'
    BY <2>1, <2>4, <2>5, AloneKeeps DEF Alone, Unmoved
  <2> QED BY <2>6, <2>7, <2>8 DEF IInv
<1>5. CASE j = "change" /\ Finish(j, ok, l)
  <2>1. /\ jobs' = js /\ log' = l
        /\ night' = IF ~ok THEN night
                    ELSE IF jobs[j].kind = "replan" THEN Wrote(night, jobs[j].plan)
                    ELSE SetBack(night, jobs[j].plan)
        /\ UNCHANGED <<data, cycle, mode, tried, replanned, topped, retry>>
    BY <1>5 DEF Finish, js
  <2>2. night \in NightState /\ night # None /\ retry = None /\ jobs["night"] = Idle
        /\ mode = "running" /\ (fired \/ now > TriggerAt)
    BY <1>2, <1>5, TypesOf DEF IInv, OnePlanAtATime, BeforeTrigger, NotReady, Busy, Times
  <2>3. night' \in NightState
    BY <2>1, <2>2, <1>3, WroteTyped, SetBackTyped
  <2>4. jobs'["night"] = Idle /\ jobs'["change"] = Idle /\ jobs'["floor"] = jobs["floor"]
        /\ jobs' \in Tasks
    BY <1>1, <1>5, <2>1, <2>2 DEF Jobs
  <2>5. TypeOK'
    BY <2>1, <2>3, <2>4 DEF IInv, TypeOK, Tasks, Unmoved, Inverter
  <2>6. night' # None
    BY <2>3
  <2>7. OnePlanAtATime' /\ BeforeTrigger' /\ NotReady'
    BY <2>1, <2>2, <2>4, <2>6, TypesOf
       DEF OnePlanAtATime, BeforeTrigger, NotReady, Busy, Unmoved, Times
  <2>8. CycleWaits' /\ NotesSaved' /\ NotesCounted'
    BY <2>1, <2>4, AloneKeeps DEF Alone, Unmoved
  <2> QED BY <2>5, <2>7, <2>8 DEF IInv
<1>6. CASE j = "repair" /\ Finish(j, ok, l)
  <2>1. /\ jobs' = js /\ log' = l
        /\ UNCHANGED <<data, cycle, mode, tried, replanned, topped, retry, night>>
    BY <1>6 DEF Finish, js
  <2>2. jobs'["night"] = jobs["night"] /\ jobs'["change"] = jobs["change"]
        /\ jobs'["floor"] = jobs["floor"] /\ jobs' \in Tasks
    BY <1>1, <1>6, <2>1 DEF Jobs
  <2>3. TypeOK'
    BY <2>1, <2>2 DEF IInv, TypeOK, Tasks, Unmoved, Inverter
  <2>4. OnePlanAtATime' /\ BeforeTrigger' /\ NotReady'
    BY <2>1, <2>2 DEF IInv, OnePlanAtATime, BeforeTrigger, NotReady, Busy, Unmoved
  <2>5. CycleWaits' /\ NotesSaved' /\ NotesCounted'
    BY <2>1, <2>2, AloneKeeps DEF Alone, Unmoved
  <2> QED BY <2>3, <2>4, <2>5 DEF IInv
<1>7. CASE j = "floor" /\ Finish(j, ok, l)
  <2>1. topped' = (topped \/ ok) /\ EndCycle(cycle, js, l)
    BY <1>7 DEF Finish, js
  <2>2. cycle \in Plan /\ log.replans = saved.replans /\ (cycled \/ now = Last) /\ Up
    BY <1>2, <1>7, TypesOf DEF IInv, CycleWaits, NotesSaved, NotReady, Busy, Up
  <2>3. Settled(js, l)
    BY <1>1, <1>7, <2>2 DEF Settled, Jobs
  <2>4. frozen' \in BOOLEAN /\ cycled' \in BOOLEAN /\ (cycled' \/ now = Last)
    BY <2>2, TypesOf DEF Unmoved
  <2>5. topped' \in BOOLEAN
    BY <2>1
  <2>6. UNCHANGED <<now, fired, saved, world, edits, restarts>>
    BY DEF Unmoved
  <2> QED BY <2>1, <2>2, <2>3, <2>4, <2>5, <2>6, EndCycleKeeps
<1> QED BY <1>4, <1>5, <1>6, <1>7 DEF Jobs

LEMMA OnwardKeeps ==
  ASSUME IInv, NEW j \in Jobs, jobs[j] \in Job, NEW stage \in {"target", "limit"}, NEW fault,
         Onward(j, stage, fault), log' \in Log, log'.replans = log.replans,
         Unmoved, inverter' \in Inverter
  PROVE  IInv'
<1> DEFINE moved == [jobs[j] EXCEPT !.stage = stage]
           onward == [moved EXCEPT !.failed = @ \/ fault = "failed"]
<1>1. /\ jobs' = [jobs EXCEPT ![j] = onward]
      /\ UNCHANGED <<data, cycle, mode, tried, replanned, topped, retry, night>>
  BY TypesOf DEF Onward, Tasks, Job
<1>2. moved \in Job
  BY DEF Job
<1>3. onward \in Job
  <2> HIDE DEF moved
  <2> QED BY <1>2 DEF Job
<1> HIDE DEF onward
<1>4. jobs' \in Tasks /\ \A k \in Jobs : (jobs'[k] = Idle <=> jobs[k] = Idle)
  BY <1>1, <1>3, TypesOf, NotIdle DEF Tasks
<1>5. \A k \in {"night", "change", "floor"} : (jobs'[k] = Idle <=> jobs[k] = Idle)
  BY <1>4 DEF Jobs
<1>6. TypeOK'
  BY <1>1, <1>4 DEF IInv, TypeOK, Tasks, Unmoved, Inverter
<1>7. OnePlanAtATime' /\ BeforeTrigger' /\ NotReady'
  BY <1>1, <1>5 DEF IInv, OnePlanAtATime, BeforeTrigger, NotReady, Busy, Unmoved
<1>8. CycleWaits' /\ NotesSaved' /\ NotesCounted'
  BY <1>1, <1>5, AloneKeeps DEF Alone, Unmoved
<1> QED BY <1>6, <1>7, <1>8 DEF IInv
LEMMA SentTyped ==
  ASSUME inverter \in Inverter, NEW fault
  PROVE  /\ \A v \in Times : Sent("end", v, fault) \in Inverter
         /\ \A v \in Targets : Sent("target", v, fault) \in Inverter
         /\ \A v \in BOOLEAN : Sent("limit", v, fault) \in Inverter
BY DEF Sent, Inverter

LEMMA WriteKeeps ==
  ASSUME IInv, NEW j \in Jobs, Write(j)
  PROVE  IInv'
<1>1. jobs[j] \in Job \cup {Idle} /\ inverter \in Inverter /\ log \in Log
  BY TypesOf DEF Tasks
<1>2. jobs[j].stage # "idle" => jobs[j] \in Job
  BY <1>1 DEF Idle
<1>3. jobs[j] \in Job => /\ jobs[j].plan \in Plan
                         /\ jobs[j].plan.end \in Times /\ jobs[j].plan.target \in Targets
  BY DEF Job, Plan
<1>4. ASSUME WriteWindow(j) PROVE IInv'
  <2>1. jobs[j].stage = "window" /\ jobs[j] \in Job /\ Unmoved
    BY <1>2, <1>4 DEF WriteWindow, Unmoved
  <2>2. PICK f \in FaultsOf(j, "end", jobs[j].plan.end) :
           /\ inverter' = Sent("end", jobs[j].plan.end, f)
           /\ IF j = "repair" THEN Finish(j, TRUE, log)
              ELSE Onward(j, "target", f) /\ log' = log
    BY <1>4 DEF WriteWindow
  <2>3. inverter' \in Inverter
    BY <1>1, <1>3, <2>1, <2>2, SentTyped
  <2>4. CASE j = "repair"
    <3>1. \E ok \in BOOLEAN : Finish(j, ok, log)
      BY <2>2, <2>4, Zenon
    <3> QED BY <3>1, <1>1, <2>1, <2>3, FinishKeeps
  <2>5. CASE j # "repair"
    BY <1>1, <2>1, <2>2, <2>3, <2>5, OnwardKeeps
  <2> QED BY <2>4, <2>5
<1>5. ASSUME WriteTarget(j) PROVE IInv'
  <2> DEFINE t == jobs[j].plan.target
  <2>1. jobs[j].stage = "target" /\ jobs[j] \in Job /\ Unmoved
    BY <1>2, <1>5 DEF WriteTarget, Unmoved
  <2>2. PICK f \in FaultsOf(j, "target", t) :
           /\ inverter' = Sent("target", t, f)
           /\ IF f = "failed" /\ (t < Full \/ j = "floor") THEN Finish(j, FALSE, log)
              ELSE Onward(j, "limit", f) /\ log' = TargetLogged(t, f)
    BY <1>5 DEF WriteTarget
  <2>3. inverter' \in Inverter
    BY <1>1, <1>3, <2>1, <2>2, SentTyped
  <2>4. CASE f = "failed" /\ (t < Full \/ j = "floor")
    <3>1. \E ok \in BOOLEAN : Finish(j, ok, log)
      BY <2>2, <2>4, Zenon
    <3> QED BY <3>1, <1>1, <2>1, <2>3, FinishKeeps
  <2>5. CASE ~(f = "failed" /\ (t < Full \/ j = "floor"))
    <3>1. log' \in Log /\ log'.replans = log.replans
      BY <1>1, <2>2, <2>5 DEF TargetLogged, Log
    <3> QED BY <3>1, <2>1, <2>2, <2>3, <2>5, OnwardKeeps
  <2> QED BY <2>4, <2>5
<1>6. ASSUME WriteLimit(j) PROVE IInv'
  <2> DEFINE p == jobs[j].plan
             wanted == j = "floor" \/ p.target < Full
             Done(f) == f # "failed" /\ (j = "floor" \/ InForce(inverter', p, jobs[j]))
  <2>1. jobs[j].stage = "limit" /\ jobs[j] \in Job /\ Unmoved
    BY <1>2, <1>6 DEF WriteLimit, Unmoved
  <2>2. PICK f \in FaultsOf(j, "limit", wanted) :
           inverter' = Sent("limit", wanted, f) /\ Finish(j, Done(f), log)
    BY <1>6 DEF WriteLimit
  <2>3. inverter' \in Inverter
    <3>1. wanted \in BOOLEAN
      OBVIOUS
    <3> HIDE DEF wanted
    <3> QED BY <3>1, <1>1, <2>2, SentTyped
  <2>4. Done(f) \in BOOLEAN
    OBVIOUS
  <2>5. \E ok \in BOOLEAN : Finish(j, ok, log)
    <3> HIDE DEF Done
    <3> QED BY <2>2, <2>4, Zenon
  <2> QED BY <2>5, <1>1, <2>1, <2>3, FinishKeeps
<1> QED BY <1>4, <1>5, <1>6 DEF Write

-----------------------------------------------------------------------------
(* Time, and Home Assistant stopping and starting. *)
LEMMA DatedTyped ==
  ASSUME NEW l \in Log
  PROVE  Dated(l) \in Log /\ Dated(l).replans = l.replans
BY DEF Dated, Log

LEMMA TickKeeps ==
  ASSUME IInv, Tick
  PROVE  IInv'
<1>1. /\ now < Last /\ ~(Up /\ now = TriggerAt /\ ~fired) /\ (Up => cycled)
      /\ now' = now + 1 /\ cycled' = (cycle # None)
      /\ jobs' = [j \in Jobs |-> IF Busy(j) THEN [jobs[j] EXCEPT !.old = TRUE] ELSE Idle]
      /\ log' = Dated(log) /\ saved' = Dated(IF Up THEN log ELSE saved)
      /\ topped' = (topped /\ now + 1 # Midnight)
      /\ UNCHANGED <<inverter, mode, fired, data, frozen, cycle, night, retry, tried, world,
                     replanned, edits, restarts>>
      /\ mode = "running" \/ mode = "down"
  BY DEF Tick
<1>2. now \in Times /\ now + 1 \in Times /\ now' \in Times
  BY <1>1, TypesOf DEF Times
<1>3. ASSUME NEW j \in Jobs, Busy(j) PROVE [jobs[j] EXCEPT !.old = TRUE] \in Job
  <2>1. jobs[j] \in Job
    BY <1>3, TypesOf DEF Tasks, Busy
  <2> QED BY <2>1 DEF Job
<1>4. jobs' \in Tasks /\ \A j \in Jobs : (jobs'[j] = Idle <=> jobs[j] = Idle)
  <2>1. \A j \in Jobs : jobs'[j] \in Job \cup {Idle}
    BY <1>1, <1>3
  <2>2. jobs' \in Tasks
    BY <1>1, <2>1 DEF Tasks
  <2>3. \A j \in Jobs : (jobs'[j] = Idle <=> jobs[j] = Idle)
    BY <1>1, <1>3, NotIdle DEF Busy
  <2> QED BY <2>2, <2>3
<1>5. \A k \in {"night", "change", "floor"} : (jobs'[k] = Idle <=> jobs[k] = Idle)
  BY <1>4 DEF Jobs
<1>6. /\ log' \in Log /\ saved' \in Log /\ log'.replans = log.replans
      /\ saved'.replans = (IF Up THEN log ELSE saved).replans
  BY <1>1, TypesOf, DatedTyped
<1>7. TypeOK'
  BY <1>1, <1>2, <1>4, <1>6 DEF IInv, TypeOK, Tasks
<1>8. OnePlanAtATime' /\ NotReady'
  BY <1>1, <1>5 DEF IInv, OnePlanAtATime, NotReady, Busy
<1>9. BeforeTrigger'
  <2>1. ~fired' /\ now' <= TriggerAt => ~fired /\ now <= TriggerAt
    BY <1>1, TypesOf DEF Times
  <2> QED BY <2>1, <1>1, <1>5 DEF IInv, BeforeTrigger, Busy
<1>10. CycleWaits'
  BY <1>1, <1>5 DEF IInv, CycleWaits, Busy
<1>11. log'.replans = saved'.replans
  <2>1. CASE Up
    BY <2>1, <1>6
  <2>2. CASE ~Up
    BY <2>2, <1>6 DEF IInv, NotReady, NotesSaved, Up
  <2> QED BY <2>1, <2>2
<1>12. NotesSaved' /\ NotesCounted'
  BY <1>1, <1>6, <1>11 DEF IInv, NotesSaved, NotesCounted
<1> QED BY <1>7, <1>8, <1>9, <1>10, <1>12 DEF IInv

LEMMA EditKeeps ==
  ASSUME IInv, Edit
  PROVE  IInv'
<1>1. /\ edits < MaxEdits /\ edits' = edits + 1
      /\ \E e \in Edits \ {inverter.end} : inverter' = [inverter EXCEPT !.end = e]
      /\ UNCHANGED <<now, mode, fired, data, frozen, cycle, cycled, night, retry, jobs, tried,
                     topped, log, saved, world, replanned, restarts>>
  BY DEF Edit
<1>2. inverter' \in Inverter
  <2>1. PICK e \in Times : inverter' = [inverter EXCEPT !.end = e]
    BY <1>1
  <2> QED BY <2>1, TypesOf DEF Inverter
<1>3. edits' \in 0..MaxEdits
  BY <1>1, TypesOf
<1>4. TypeOK'
  BY <1>1, <1>2, <1>3 DEF IInv, TypeOK, Inverter
<1> QED BY <1>1, <1>4 DEF IInv, OnePlanAtATime, BeforeTrigger, NotReady, CycleWaits,
                          NotesSaved, NotesCounted, Busy

LEMMA ToggleKeeps ==
  ASSUME IInv, Toggle
  PROVE  IInv'
<1>1. /\ \E w \in Toggles \cap {"override", "dry"} : world' = [world EXCEPT ![w] = ~@]
      /\ UNCHANGED <<now, inverter, mode, fired, data, frozen, cycle, cycled, night, retry, jobs,
                     tried, topped, log, saved, replanned, edits, restarts>>
  BY DEF Toggle
<1>2. world' \in [override: BOOLEAN, dry: BOOLEAN]
  <2>1. CASE world' = [world EXCEPT !["override"] = ~@]
    BY <2>1, TypesOf
  <2>2. CASE world' = [world EXCEPT !["dry"] = ~@]
    BY <2>2, TypesOf
  <2> QED BY <1>1, <2>1, <2>2
<1>3. TypeOK'
  BY <1>1, <1>2 DEF IInv, TypeOK
<1> QED BY <1>1, <1>3 DEF IInv, OnePlanAtATime, BeforeTrigger, NotReady, CycleWaits,
                          NotesSaved, NotesCounted, Busy

LEMMA StopKeeps ==
  ASSUME IInv, Stop
  PROVE  IInv'
<1>1. /\ Up /\ restarts["orderly"] + restarts["crash"] < MaxRestarts
      /\ mode' = "down" /\ log' = saved'
      /\ data' = None /\ frozen' = FALSE /\ cycle' = None /\ cycled' = FALSE
      /\ night' = None /\ retry' = None /\ jobs' = [j \in Jobs |-> Idle]
      /\ tried' = None /\ topped' = FALSE
      /\ world' \in {world, [world EXCEPT !.override = FALSE]}
      /\ UNCHANGED <<now, inverter, fired, replanned, edits>>
  BY DEF Stop
<1>2. PICK s \in Stops : /\ restarts' = [restarts EXCEPT ![s] = @ + 1]
                         /\ saved' = IF s = "orderly" THEN log ELSE saved
  BY DEF Stop
<1>3. world' \in [override: BOOLEAN, dry: BOOLEAN]
  BY <1>1, TypesOf
<1>4. restarts["orderly"] \in 0..MaxRestarts /\ restarts["crash"] \in 0..MaxRestarts
      /\ s \in {"orderly", "crash"}
  BY TypesOf
<1>5. /\ restarts' \in [{"orderly", "crash"} -> 0..MaxRestarts]
      /\ restarts'["crash"] = restarts["crash"] + (IF s = "crash" THEN 1 ELSE 0)
  BY <1>1, <1>2, <1>4, TypesOf
<1>6. saved' \in Log /\ log' \in Log
  BY <1>1, <1>2, TypesOf
<1>7. jobs' \in Tasks /\ jobs'["night"] = Idle /\ jobs'["change"] = Idle /\ jobs'["floor"] = Idle
  BY <1>1 DEF Tasks, Jobs
<1>8. TypeOK'
  BY <1>1, <1>3, <1>5, <1>6, <1>7 DEF IInv, TypeOK, Tasks
<1>9. OnePlanAtATime' /\ BeforeTrigger' /\ NotReady' /\ CycleWaits' /\ NotesSaved'
  <2>1. log'.replans \in {saved'.replans, saved'.replans + 1}
    BY <1>1
  <2> QED BY <2>1, <1>1, <1>7
         DEF OnePlanAtATime, BeforeTrigger, NotReady, CycleWaits, NotesSaved, Busy
<1>10. NotesCounted'
  <2>1. /\ log.replans <= ReplanMax /\ replanned <= log.replans + restarts["crash"]
        /\ log.replans = saved.replans \/ log.replans = saved.replans + 1
        /\ log.replans \in Nat /\ saved.replans \in Nat /\ replanned \in Nat
    BY TypesOf DEF IInv, NotesCounted, NotesSaved, Log
  <2>2. CASE s = "orderly"
    <3>1. log'.replans = log.replans /\ restarts'["crash"] = restarts["crash"] /\ replanned' = replanned
      BY <2>2, <1>1, <1>2, <1>4, <1>5
    <3> QED BY <3>1, <2>1 DEF NotesCounted
  <2>3. CASE s = "crash"
    <3>1. log'.replans = saved.replans /\ restarts'["crash"] = restarts["crash"] + 1
          /\ replanned' = replanned
      BY <2>3, <1>1, <1>2, <1>5
    <3> QED BY <3>1, <2>1, <1>4 DEF NotesCounted
  <2> QED BY <2>2, <2>3, <1>4
<1> QED BY <1>8, <1>9, <1>10 DEF IInv

LEMMA StartKeeps ==
  ASSUME IInv, Start
  PROVE  IInv'
<1>1. /\ mode = "down" /\ mode' = "boot"
      /\ UNCHANGED <<now, inverter, fired, data, frozen, cycle, cycled, night, retry, jobs, tried,
                     topped, log, saved, world, replanned, edits, restarts>>
  BY DEF Start
<1>2. TypeOK'
  BY <1>1 DEF IInv, TypeOK
<1> QED BY <1>1, <1>2 DEF IInv, OnePlanAtATime, BeforeTrigger, NotReady, CycleWaits,
                          NotesSaved, NotesCounted, Busy

LEMMA Starts == Init => IInv
<1> SUFFICES ASSUME Init PROVE IInv
  OBVIOUS
<1>1. /\ inverter \in Inverter /\ 0 \in Times
  BY DEF Init, Inverter, Times, Targets
<1>2. jobs \in Tasks /\ \A j \in Jobs : ~Busy(j)
  BY DEF Init, Tasks, Busy
<1>3. NoLog \in Log /\ NoLog.replans = 0
  BY DEF NoLog, Log
<1>4. restarts \in [{"orderly", "crash"} -> 0..MaxRestarts] /\ restarts["crash"] = 0
  BY DEF Init
<1>5. TypeOK
  <2>1. data \in Plan /\ edits \in 0..MaxEdits /\ now \in Times
    BY <1>1 DEF Init
  <2>2. {fired, frozen, cycled, topped} \subseteq BOOLEAN
        /\ world \in [override: BOOLEAN, dry: BOOLEAN]
    BY DEF Init
  <2>3. /\ mode = "running" /\ cycle = None /\ night = None /\ retry = None /\ tried = None
        /\ log = NoLog /\ saved = NoLog /\ replanned = 0
    BY DEF Init
  <2> QED BY <1>1, <1>2, <1>3, <1>4, <2>1, <2>2, <2>3 DEF TypeOK, Tasks, Inverter
<1> QED BY <1>2, <1>3, <1>4, <1>5
       DEF Init, IInv, OnePlanAtATime, BeforeTrigger, NotReady, CycleWaits, NotesSaved,
           NotesCounted, Busy, Jobs

LEMMA Keeps == IInv /\ [Next]_vars => IInv'
<1> SUFFICES ASSUME IInv, [Next]_vars PROVE IInv'
  OBVIOUS
<1>1. CASE Trigger
  BY <1>1, TriggerKeeps
<1>2. CASE RetryDue
  BY <1>2, RetryKeeps
<1>3. CASE AnyCycle
  BY <1>3, CycleKeeps DEF AnyCycle
<1>4. CASE CycleFails
  BY <1>4, FailedCycleKeeps
<1>5. CASE \E j \in Jobs : Write(j)
  BY <1>5, WriteKeeps
<1>6. CASE Tick
  BY <1>6, TickKeeps
<1>7. CASE Edit
  BY <1>7, EditKeeps
<1>8. CASE Toggle
  BY <1>8, ToggleKeeps
<1>9. CASE Stop
  BY <1>9, StopKeeps
<1>10. CASE Start
  BY <1>10, StartKeeps
<1>11. CASE UNCHANGED vars
  BY <1>11 DEF vars, IInv, TypeOK, OnePlanAtATime, BeforeTrigger, NotReady, CycleWaits,
               NotesSaved, NotesCounted, Busy
<1> QED BY <1>1, <1>2, <1>3, <1>4, <1>5, <1>6, <1>7, <1>8, <1>9, <1>10, <1>11
       DEF Next, Undisturbed

THEOREM Invariance == Spec => []IInv
<1> QED BY Starts, Keeps, PTL DEF Spec

(* Every variable of the night keeps its type. *)
THEOREM TypeCorrect == Spec => []TypeOK
<1>1. IInv => TypeOK
  BY DEF IInv
<1> QED BY <1>1, Invariance, PTL

(* The tasks that write a whole plan exclude each other, and a night has no
   more re-plans than it may, but for one that each crash forgets. *)
THEOREM NightOrderly == Spec => []NightIsOrderly
<1>1. IInv => NightIsOrderly
  <2> SUFFICES ASSUME IInv PROVE ReplansBounded
    BY DEF IInv, NightIsOrderly
  <2>1. log.replans \in Nat /\ replanned \in Nat /\ restarts["crash"] \in Nat
    BY TypesOf DEF Log
  <2> QED BY <2>1 DEF IInv, NotesCounted, ReplansBounded
<1> QED BY <1>1, Invariance, PTL
-----------------------------------------------------------------------------
(* What the inverter holds of the night.  A setting of the night is known to *)
(* be on the inverter only where nothing but the night's own writes may go   *)
(* wrong: a change that stops half-way has written settings the night does   *)
(* not remember, dry run remembers a night it did not write, and the floor   *)
(* raises the target on its own.                                             *)
OnlyNightFails == /\ FloorTarget = 0
                  /\ "dry" \notin Toggles
                  /\ \A f \in Faults : f[1] = "night"

Untouched == ~Busy("floor") /\ ~world.dry

(* Between two changes the inverter holds the night. *)
NightHeld ==
    night # None /\ ~Busy("change") =>
        Holds(inverter, [end |-> night.end, target |-> night.target])

(* A change under way has put on the inverter what it is past. *)
ChangeHeld ==
    Busy("change") =>
        /\ jobs["change"].kind \in {"replan", "settle"} /\ ~jobs["change"].failed
        /\ jobs["change"].kind = "replan" => jobs["change"].plan.end = night.end
        /\ jobs["change"].stage # "window" => inverter.end = jobs["change"].plan.end
        /\ jobs["change"].stage = "limit" => inverter.target = jobs["change"].plan.target

(* Nothing ends outside the cheap hours, so there is no window to repair. *)
EndsCheap ==
    /\ ~Busy("repair")
    /\ inverter.end \in CheapEnds
    /\ night # None => night.end \in CheapEnds
    /\ data # None => data.end \in CheapEnds
    /\ Busy("night") => jobs["night"].plan.end \in CheapEnds
    /\ Busy("change") => jobs["change"].plan.end \in CheapEnds

HeldInv == /\ Untouched
           /\ edits = 0 => NightHeld /\ ChangeHeld /\ EndsCheap

LEMMA PlanEndsCheap ==
  ASSUME NEW d, d \in Plans \/ d.end \in CheapEnds
  PROVE  d.end \in CheapEnds /\ CheapEnd \in CheapEnds
BY DEF CheapEnds

(* A step that moves neither the inverter nor the night, and no task on. *)
LEMMA HeldStays ==
  ASSUME HeldInv, UNCHANGED <<inverter, night, data, edits>>, ~world'.dry,
         \A j \in Jobs : /\ jobs'[j] # Idle <=> jobs[j] # Idle
                         /\ jobs[j] # Idle => /\ jobs'[j].kind = jobs[j].kind
                                              /\ jobs'[j].failed = jobs[j].failed
                                              /\ jobs'[j].plan = jobs[j].plan
                                              /\ jobs'[j].stage = jobs[j].stage
  PROVE  HeldInv'
<1>1. \A j \in {"night", "change", "repair", "floor"} :
         /\ jobs'[j] # Idle <=> jobs[j] # Idle
         /\ jobs[j] # Idle => /\ jobs'[j].kind = jobs[j].kind
                              /\ jobs'[j].failed = jobs[j].failed
                              /\ jobs'[j].plan = jobs[j].plan
                              /\ jobs'[j].stage = jobs[j].stage
  BY DEF Jobs
<1>2. Untouched'
  BY <1>1 DEF HeldInv, Untouched, Busy
<1>3. ASSUME edits = 0 PROVE NightHeld' /\ ChangeHeld' /\ EndsCheap'
  BY <1>1, <1>3 DEF HeldInv, NightHeld, ChangeHeld, EndsCheap, Busy, CheapEnds, Holds
<1> QED BY <1>2, <1>3 DEF HeldInv

(* While no night is remembered there is only what a write starts. *)
LEMMA HeldWithoutNight ==
  ASSUME HeldInv, night' = None, jobs'["change"] = Idle, jobs'["floor"] = Idle,
         ~world'.dry, UNCHANGED <<inverter, edits>>,
         edits = 0 => /\ jobs'["repair"] = Idle
                      /\ data' # None => data'.end \in CheapEnds
                      /\ jobs'["night"] # Idle => jobs'["night"].plan.end \in CheapEnds
  PROVE  HeldInv'
<1>1. Untouched'
  BY DEF Untouched, Busy
<1>2. ASSUME edits = 0 PROVE NightHeld' /\ ChangeHeld' /\ EndsCheap'
  BY <1>2 DEF HeldInv, NightHeld, ChangeHeld, EndsCheap, Busy, CheapEnds
<1> QED BY <1>1, <1>2 DEF HeldInv

(* What _run_charge_write starts is a plan in the cheap hours. *)
LEMMA RunHolds ==
  ASSUME IInv, HeldInv, NEW closes \in Times \cup {None}, NEW d \in Plan \cup {None},
         NEW js \in Tasks, NEW l \in Log, NEW isFrozen,
         RunChargeWrite(closes, d, js, l, None, isFrozen),
         js["change"] = Idle, js["floor"] = Idle,
         edits = 0 => /\ js["repair"] = Idle
                      /\ d # None => d.end \in CheapEnds
                      /\ js["night"] # Idle => js["night"].plan.end \in CheapEnds,
         data' = d, UNCHANGED <<inverter, edits, world>>
  PROVE  HeldInv'
<1>1. None \in NightState \cup {None} /\ ~world.dry
  BY DEF HeldInv, Untouched
<1>2. \/ jobs' = js /\ night' = None
      \/ /\ d # None /\ night' = None
         /\ jobs' = [js EXCEPT !["night"] = Started("night", "window", NightPlan(d), closes)]
         /\ \A j \in Jobs \ {"night"} : jobs'[j] = js[j]
  BY <1>1, TypesOf, RunWrites
<1>3. CASE jobs' = js /\ night' = None
  BY <1>1, <1>3, HeldWithoutNight
<1>4. CASE /\ d # None /\ night' = None
           /\ jobs' = [js EXCEPT !["night"] = Started("night", "window", NightPlan(d), closes)]
           /\ \A j \in Jobs \ {"night"} : jobs'[j] = js[j]
  <2>1. d \in Plan
    BY <1>4
  <2>2. jobs'["night"].plan = NightPlan(d)
    BY <1>4 DEF Started, Tasks, Jobs
  <2>3. edits = 0 => NightPlan(d).end \in CheapEnds
    BY <1>4, <2>1, NightPlanTyped, PlanEndsCheap
  <2>4. jobs'["change"] = Idle /\ jobs'["floor"] = Idle /\ jobs'["repair"] = js["repair"]
    BY <1>4 DEF Jobs
  <2> QED BY <1>1, <1>4, <2>2, <2>3, <2>4, HeldWithoutNight
<1> QED BY <1>2, <1>3, <1>4
LEMMA HeldFromTrigger ==
  ASSUME IInv, HeldInv, Trigger
  PROVE  HeldInv'
<1>1. /\ Up /\ now = TriggerAt /\ ~fired
      /\ RunChargeWrite(None, data, jobs, log, None, frozen)
      /\ UNCHANGED <<inverter, data, world, edits>>
  BY DEF Trigger
<1>2. jobs["night"] = Idle /\ jobs["change"] = Idle
  BY <1>1, TypesOf DEF IInv, BeforeTrigger, Busy, Times
<1>3. jobs["floor"] = Idle
  BY DEF HeldInv, Untouched, Busy
<1>4. edits = 0 => /\ jobs["repair"] = Idle /\ (data # None => data.end \in CheapEnds)
  BY DEF HeldInv, EndsCheap, Busy
<1>5. None \in Times \cup {None}
  OBVIOUS
<1> QED BY <1>1, <1>2, <1>3, <1>4, <1>5, TypesOf, RunHolds

LEMMA HeldFromRetry ==
  ASSUME IInv, HeldInv, RetryDue
  PROVE  HeldInv'
<1>1. /\ retry # None
      /\ RunChargeWrite(retry.closes, data, jobs, log, night, frozen)
      /\ UNCHANGED <<inverter, data, world, edits>>
  BY DEF RetryDue
<1>2. night = None /\ jobs["night"] = Idle /\ jobs["change"] = Idle
  BY <1>1 DEF IInv, OnePlanAtATime, Busy
<1>3. retry.closes \in Times \cup {None}
  BY <1>1, TypesOf DEF Retry
<1>4. jobs["floor"] = Idle
  BY DEF HeldInv, Untouched, Busy
<1>5. edits = 0 => /\ jobs["repair"] = Idle /\ (data # None => data.end \in CheapEnds)
  BY DEF HeldInv, EndsCheap, Busy
<1>6. RunChargeWrite(retry.closes, data, jobs, log, None, frozen)
  BY <1>1, <1>2
<1> QED BY <1>1, <1>2, <1>3, <1>4, <1>5, <1>6, TypesOf, RunHolds

LEMMA HeldFromCycle ==
  ASSUME OnlyNightFails, IInv, HeldInv, NEW d \in Plans, NEW low \in BOOLEAN, Cycle(d, low)
  PROVE  HeldInv'
<1> DEFINE js2 == JobsAfter(jobs, d, log)
           l2 == LogAfter(d, log)
<1>1. /\ Up /\ UNCHANGED <<inverter, world, edits>>
      /\ EndCycle(d, jobs, log)
  BY DEF Cycle, FloorDue, OnlyNightFails
<1>2. /\ data' = d
      /\ IF mode = "boot" /\ NeedsCatchUp(WindowEnd(d), l2)
         THEN RunChargeWrite(WindowEnd(d), d, js2, l2, night, FALSE)
         ELSE night' = NightAfter(night, d, log) /\ jobs' = js2
  BY <1>1 DEF EndCycle
<1>3. d \in Plan /\ d.end \in CheapEnds /\ CheapEnd \in CheapEnds
  BY PlanEndsCheap
<1>4. /\ js2 \in Tasks /\ js2["night"] = jobs["night"] /\ js2["floor"] = jobs["floor"]
  BY <1>3, TypesOf, JobsAfterStarts
<1>5. \/ js2["change"] = jobs["change"]
      \/ night # None /\ ~Busy("change") /\ ChangeStarts(d, js2["change"])
  BY <1>3, TypesOf, JobsAfterStarts
<1>6. edits = 0 => js2["repair"] = Idle
  <2> SUFFICES ASSUME edits = 0 PROVE js2["repair"] = Idle
    OBVIOUS
  <2>1. inverter.end \in CheapEnds /\ jobs["repair"] = Idle
    BY DEF HeldInv, EndsCheap, Busy
  <2>2. ~RepairDue(log)
    BY <2>1 DEF RepairDue
  <2>3. js2["repair"] = jobs["repair"] \/ RepairDue(log)
    BY <1>3, TypesOf, JobsAfterStarts
  <2> QED BY <2>1, <2>2, <2>3
<1>7. l2 \in Log
  BY <1>3, TypesOf, LogAfterNotes
<1> HIDE DEF js2, l2
<1>8. CASE mode = "boot" /\ NeedsCatchUp(WindowEnd(d), l2)
  <2>1. night = None /\ jobs["night"] = Idle /\ jobs["change"] = Idle /\ jobs["floor"] = Idle
    BY <1>8 DEF IInv, NotReady, HeldInv, Untouched, Busy
  <2>2. js2["night"] = Idle /\ js2["change"] = Idle /\ js2["floor"] = Idle
    BY <2>1, <1>4, <1>5
  <2>3. \E asleep : RunChargeWrite(WindowEnd(d), d, js2, l2, None, asleep)
    BY <1>2, <1>8, <2>1, Zenon
  <2>4. PICK asleep : RunChargeWrite(WindowEnd(d), d, js2, l2, None, asleep)
    BY <2>3
  <2>5. WindowEnd(d) \in Times \cup {None} /\ d \in Plan \cup {None}
    BY <1>3, WindowEndTyped
  <2> QED BY <2>2, <2>4, <2>5, <1>1, <1>2, <1>3, <1>4, <1>6, <1>7, RunHolds
<1>9. CASE ~(mode = "boot" /\ NeedsCatchUp(WindowEnd(d), l2))
  <2>1. night' = NightAfter(night, d, log) /\ jobs' = js2
    BY <1>2, <1>9
  <2>2. /\ night' = None <=> night = None
        /\ night # None => night'.end = night.end /\ night'.target = night.target
    BY <2>1, <1>3, TypesOf, NightAfterTyped DEF HeldInv, Untouched
  <2>3. Untouched'
    BY <2>1, <1>1, <1>4 DEF HeldInv, Untouched, Busy
  <2>4. ASSUME edits = 0, js2["change"] = jobs["change"]
        PROVE  NightHeld' /\ ChangeHeld' /\ EndsCheap'
    <3>1. (jobs["change"] # Idle) => night # None
      BY DEF IInv, OnePlanAtATime, Busy
    <3> QED BY <2>1, <2>2, <2>4, <3>1, <1>1, <1>2, <1>3, <1>4, <1>6
            DEF HeldInv, NightHeld, ChangeHeld, EndsCheap, Busy, CheapEnds, Holds
  <2>5. ASSUME edits = 0,
               night # None /\ ~Busy("change"),
               NEW kind \in {"replan", "settle"}, NEW e \in Times,
               js2["change"] = Started(kind, "window", [d EXCEPT !.end = e], None),
               kind = "replan" => e = night.end,
               kind = "settle" => e = CheapEnd
        PROVE  NightHeld' /\ ChangeHeld' /\ EndsCheap'
    <3> DEFINE job == js2["change"]
               plan == [d EXCEPT !.end = e]
    <3>1. plan.end = e
      BY <1>3 DEF Plan
    <3>2. job # Idle /\ job.kind = kind /\ ~job.failed /\ job.stage = "window" /\ job.plan = plan
      BY <2>5 DEF Started, Idle
    <3>3. e \in CheapEnds
      BY <2>5, <1>3 DEF HeldInv, EndsCheap
    <3> HIDE DEF job, plan
    <3>4. jobs'["change"] = job
      BY <2>1 DEF job
    <3>5. NightHeld'
      BY <3>2, <3>4 DEF NightHeld, Busy
    <3>6. ChangeHeld'
      BY <3>1, <3>2, <3>4, <2>2, <2>5 DEF ChangeHeld, Busy
    <3>7. EndsCheap'
      BY <3>1, <3>2, <3>3, <3>4, <2>1, <2>2, <2>5, <1>1, <1>2, <1>3, <1>4, <1>6
         DEF HeldInv, EndsCheap, Busy, CheapEnds
    <3> QED BY <3>5, <3>6, <3>7
  <2> QED BY <2>3, <2>4, <2>5, <1>1, <1>5 DEF HeldInv, ChangeStarts
<1> QED BY <1>8, <1>9

LEMMA HeldFromEdit ==
  ASSUME IInv, HeldInv, Edit
  PROVE  HeldInv'
<1>1. edits' = edits + 1 /\ UNCHANGED <<jobs, world>>
  BY DEF Edit
<1>2. edits' # 0
  BY <1>1, TypesOf
<1> QED BY <1>1, <1>2 DEF HeldInv, Untouched, Busy

LEMMA HeldFromTick ==
  ASSUME IInv, HeldInv, Tick
  PROVE  HeldInv'
<1>1. /\ jobs' = [j \in Jobs |-> IF Busy(j) THEN [jobs[j] EXCEPT !.old = TRUE] ELSE Idle]
      /\ UNCHANGED <<inverter, night, data, edits, world>>
  BY DEF Tick
<1>2. ASSUME NEW j \in Jobs
      PROVE  /\ jobs'[j] # Idle <=> jobs[j] # Idle
             /\ jobs[j] # Idle => /\ jobs'[j].kind = jobs[j].kind
                                  /\ jobs'[j].failed = jobs[j].failed
                                  /\ jobs'[j].plan = jobs[j].plan
                                  /\ jobs'[j].stage = jobs[j].stage
  <2>1. CASE jobs[j] = Idle
    BY <2>1, <1>1 DEF Busy
  <2>2. CASE jobs[j] # Idle
    <3> DEFINE aged == [jobs[j] EXCEPT !.old = TRUE]
    <3>1. jobs[j] \in Job
      BY <2>2, TypesOf DEF Tasks
    <3>2. aged \in Job /\ aged.kind = jobs[j].kind /\ aged.failed = jobs[j].failed
          /\ aged.plan = jobs[j].plan /\ aged.stage = jobs[j].stage
      BY <3>1 DEF Job
    <3>3. jobs'[j] = aged
      BY <2>2, <1>1 DEF Busy
    <3> HIDE DEF aged
    <3> QED BY <2>2, <3>2, <3>3, NotIdle
  <2> QED BY <2>1, <2>2
<1>3. ~world'.dry
  BY <1>1 DEF HeldInv, Untouched
<1> QED BY <1>1, <1>2, <1>3, HeldStays

LEMMA HeldFromToggle ==
  ASSUME OnlyNightFails, IInv, HeldInv, Toggle
  PROVE  HeldInv'
<1>1. world' = [world EXCEPT !["override"] = ~@] /\ UNCHANGED <<inverter, night, data, jobs, edits>>
  BY DEF Toggle, OnlyNightFails
<1>2. ~world'.dry
  BY <1>1, TypesOf DEF HeldInv, Untouched
<1> QED BY <1>1, <1>2, HeldStays

LEMMA HeldFromStop ==
  ASSUME IInv, HeldInv, Stop
  PROVE  HeldInv'
<1>1. /\ data' = None /\ night' = None /\ jobs' = [j \in Jobs |-> Idle]
      /\ world' \in {world, [world EXCEPT !.override = FALSE]}
      /\ UNCHANGED <<inverter, edits>>
  BY DEF Stop
<1>2. ~world'.dry
  BY <1>1, TypesOf DEF HeldInv, Untouched
<1>3. \A j \in {"night", "change", "repair", "floor"} : jobs'[j] = Idle
  BY <1>1 DEF Jobs
<1> QED BY <1>1, <1>2, <1>3, HeldWithoutNight
(* Only the night's own writes may go wrong. *)
LEMMA NothingFails ==
  ASSUME OnlyNightFails, NEW j \in Jobs, jobs[j].kind # "night", NEW s, NEW v,
         NEW f \in FaultsOf(j, s, v)
  PROVE  f = "none"
<1> SUFFICES ASSUME f # "none" PROVE FALSE
  OBVIOUS
<1>1. <<jobs[j].kind, f>> \in Faults
  BY DEF FaultsOf
<1>2. <<jobs[j].kind, f>>[1] = "night"
  BY <1>1 DEF OnlyNightFails
<1> QED BY <1>2

(* What the end of a task, or one of its steps, leaves of the tasks and the night. *)
LEMMA FinishLeaves ==
  ASSUME IInv, NEW j \in Jobs \ {"floor"}, NEW ok \in BOOLEAN, NEW l, Finish(j, ok, l)
  PROVE  /\ jobs'[j] = Idle /\ \A k \in Jobs \ {j} : jobs'[k] = jobs[k]
         /\ data' = data
         /\ j = "night" => night' = IF ok THEN Remembered(jobs[j].closes, data, jobs[j].plan)
                                    ELSE night
         /\ j = "change" => night' = IF ~ok THEN night
                                     ELSE IF jobs[j].kind = "replan"
                                          THEN Wrote(night, jobs[j].plan)
                                          ELSE SetBack(night, jobs[j].plan)
<1>1. jobs' = [jobs EXCEPT ![j] = Idle] /\ data' = data
  BY DEF Finish
<1>2. jobs \in Tasks
  BY TypesOf
<1>3. jobs'[j] = Idle /\ \A k \in Jobs \ {j} : jobs'[k] = jobs[k]
  BY <1>1, <1>2 DEF Tasks
<1>4. j = "night" => night' = IF ok THEN Remembered(jobs[j].closes, data, jobs[j].plan)
                              ELSE night
  BY DEF Finish
<1>5. j = "change" => night' = IF ~ok THEN night
                               ELSE IF jobs[j].kind = "replan" THEN Wrote(night, jobs[j].plan)
                               ELSE SetBack(night, jobs[j].plan)
  BY DEF Finish
<1> QED BY <1>1, <1>3, <1>4, <1>5

LEMMA OnwardLeaves ==
  ASSUME IInv, NEW j \in Jobs, jobs[j] \in Job, NEW stage \in {"target", "limit"}, NEW fault,
         Onward(j, stage, fault)
  PROVE  /\ jobs'[j] \in Job /\ jobs'[j] # Idle
         /\ jobs'[j].stage = stage /\ jobs'[j].kind = jobs[j].kind
         /\ jobs'[j].plan = jobs[j].plan
         /\ jobs'[j].failed = (jobs[j].failed \/ fault = "failed")
         /\ \A k \in Jobs \ {j} : jobs'[k] = jobs[k]
         /\ UNCHANGED <<data, night>>
<1> DEFINE moved == [jobs[j] EXCEPT !.stage = stage]
           onward == [moved EXCEPT !.failed = @ \/ fault = "failed"]
<1>1. jobs' = [jobs EXCEPT ![j] = onward] /\ UNCHANGED <<data, night>>
  BY TypesOf DEF Onward, Tasks, Job
<1>2. /\ moved \in Job /\ moved.stage = stage /\ moved.kind = jobs[j].kind
      /\ moved.plan = jobs[j].plan /\ moved.failed = jobs[j].failed
  BY DEF Job
<1>3. /\ onward \in Job /\ onward.stage = moved.stage /\ onward.kind = moved.kind
      /\ onward.plan = moved.plan /\ onward.failed = (moved.failed \/ fault = "failed")
  <2> HIDE DEF moved
  <2> QED BY <1>2 DEF Job
<1> HIDE DEF moved, onward
<1>4. jobs'[j] = onward /\ \A k \in Jobs \ {j} : jobs'[k] = jobs[k]
  BY <1>1, TypesOf DEF Tasks
<1>5. onward # Idle
  BY <1>3, NotIdle
<1> QED BY <1>1, <1>2, <1>3, <1>4, <1>5
LEMMA SentPuts ==
  ASSUME inverter \in Inverter, NEW f
  PROVE  /\ \A v \in Times : /\ Sent("end", v, f).end \in {v, inverter.end}
                             /\ f = "none" => Sent("end", v, f).end = v
                             /\ Sent("end", v, f).target = inverter.target
                             /\ Sent("end", v, f).limit = inverter.limit
         /\ \A v \in Targets : /\ f = "none" => Sent("target", v, f).target = v
                               /\ Sent("target", v, f).end = inverter.end
                               /\ Sent("target", v, f).limit = inverter.limit
         /\ \A v \in BOOLEAN : /\ f = "none" => Sent("limit", v, f).limit = v
                               /\ Sent("limit", v, f).end = inverter.end
                               /\ Sent("limit", v, f).target = inverter.target
BY DEF Sent, Inverter

(* The night's own write: it is the only one, and it is remembered only when *)
(* the inverter holds the plan.                                              *)
LEMMA NightWriteHolds ==
  ASSUME IInv, HeldInv, Write("night"), edits = 0
  PROVE  /\ jobs'["floor"] = jobs["floor"] /\ jobs'["repair"] = jobs["repair"]
         /\ jobs'["change"] = Idle
         /\ data' = data
         /\ inverter'.end \in {inverter.end, jobs["night"].plan.end}
         /\ jobs'["night"] # Idle => jobs'["night"].plan = jobs["night"].plan
         /\ night' # None => /\ Holds(inverter', [end |-> night'.end, target |-> night'.target])
                             /\ night'.end = jobs["night"].plan.end
<1> DEFINE job == jobs["night"]
<1>1. /\ "night" \in Jobs \ {"floor"} /\ "night" \in Jobs
      /\ {"floor", "repair", "change"} \subseteq Jobs \ {"night"}
  BY DEF Jobs
<1>2. job \in Job /\ job # Idle /\ inverter \in Inverter
  <2>1. job \in Job \cup {Idle} /\ inverter \in Inverter
    BY <1>1, TypesOf DEF Tasks
  <2>2. job.stage # "idle"
    BY DEF Write, WriteWindow, WriteTarget, WriteLimit
  <2> QED BY <2>1, <2>2 DEF Idle
<1>3. night = None /\ jobs["change"] = Idle
  BY <1>2 DEF IInv, OnePlanAtATime, Busy
<1>4. job.plan \in Plan /\ job.plan.end \in Times /\ job.plan.target \in Targets
      /\ job.closes \in Times \cup {None}
  BY <1>2 DEF Job, Plan
<1> HIDE DEF job
<1>5. ASSUME NEW stage \in {"target", "limit"}, NEW fault, Onward("night", stage, fault),
             inverter'.end \in {inverter.end, job.plan.end}
      PROVE  /\ jobs'["floor"] = jobs["floor"] /\ jobs'["repair"] = jobs["repair"]
             /\ jobs'["change"] = Idle /\ data' = data /\ night' = None
             /\ jobs'["night"].plan = job.plan
  BY <1>1, <1>2, <1>3, <1>5, OnwardLeaves DEF job
<1>6. ASSUME NEW ok \in BOOLEAN, NEW l, Finish("night", ok, l)
      PROVE  /\ jobs'["floor"] = jobs["floor"] /\ jobs'["repair"] = jobs["repair"]
             /\ jobs'["change"] = Idle /\ data' = data /\ jobs'["night"] = Idle
             /\ ~ok => night' = None
             /\ ok => night'.end = job.plan.end /\ night'.target = job.plan.target
  <2>1. /\ jobs'["night"] = Idle /\ \A k \in Jobs \ {"night"} : jobs'[k] = jobs[k]
        /\ data' = data
        /\ night' = IF ok THEN Remembered(job.closes, data, job.plan) ELSE night
    BY <1>1, <1>6, FinishLeaves DEF job
  <2>2. ok => night'.end = job.plan.end /\ night'.target = job.plan.target
    BY <2>1, <1>4, TypesOf, RememberedTyped
  <2> QED BY <2>1, <2>2, <1>1, <1>3
<1>7. CASE WriteWindow("night")
  <2>1. PICK f : inverter' = Sent("end", job.plan.end, f) /\ Onward("night", "target", f)
    BY <1>7 DEF WriteWindow, job
  <2>2. inverter'.end \in {inverter.end, job.plan.end}
    BY <2>1, <1>2, <1>4, SentPuts
  <2> QED BY <2>1, <2>2, <1>5 DEF job
<1>8. CASE WriteTarget("night")
  <2>1. PICK f : /\ inverter' = Sent("target", job.plan.target, f)
                 /\ IF f = "failed" /\ (job.plan.target < Full \/ "night" = "floor")
                    THEN Finish("night", FALSE, log)
                    ELSE Onward("night", "limit", f)
    BY <1>8 DEF WriteTarget, job
  <2>2. inverter'.end = inverter.end
    BY <2>1, <1>2, <1>4, SentPuts
  <2>3. CASE Onward("night", "limit", f)
    BY <2>2, <2>3, <1>5 DEF job
  <2>4. CASE Finish("night", FALSE, log)
    <3>1. \E ok \in BOOLEAN : ~ok /\ Finish("night", ok, log)
      BY <2>4, Zenon
    <3>2. PICK ok \in BOOLEAN : ~ok /\ Finish("night", ok, log)
      BY <3>1
    <3>3. /\ jobs'["floor"] = jobs["floor"] /\ jobs'["repair"] = jobs["repair"]
          /\ jobs'["change"] = Idle /\ data' = data /\ jobs'["night"] = Idle /\ night' = None
      BY <3>2, <1>6
    <3> QED BY <3>3, <2>2
  <2> QED BY <2>1, <2>3, <2>4
<1>9. CASE WriteLimit("night")
  <2> DEFINE p == job.plan
             wanted == "night" = "floor" \/ p.target < Full
             Done(f) == f # "failed" /\ ("night" = "floor" \/ InForce(inverter', p, job))
  <2>1. PICK f : inverter' = Sent("limit", wanted, f) /\ Finish("night", Done(f), log)
    BY <1>9 DEF WriteLimit, job
  <2>2. inverter'.end = inverter.end
    <3>1. wanted \in BOOLEAN
      OBVIOUS
    <3> HIDE DEF wanted
    <3> QED BY <3>1, <2>1, <1>2, SentPuts
  <2>3. Done(f) \in BOOLEAN /\ (Done(f) => Holds(inverter', p))
    BY DEF InForce
  <2> HIDE DEF Done, wanted, p
  <2>4. PICK ok \in BOOLEAN : (ok => Holds(inverter', p)) /\ Finish("night", ok, log)
    BY <2>1, <2>3, Zenon
  <2>5. /\ jobs'["floor"] = jobs["floor"] /\ jobs'["repair"] = jobs["repair"]
        /\ jobs'["change"] = Idle /\ data' = data /\ jobs'["night"] = Idle
        /\ ~ok => night' = None
        /\ ok => night'.end = job.plan.end /\ night'.target = job.plan.target
    BY <2>4, <1>6
  <2>6. ok => Holds(inverter', [end |-> night'.end, target |-> night'.target])
    BY <2>4, <2>5 DEF Holds, p
  <2> QED BY <2>2, <2>5, <2>6 DEF job
<1> QED BY <1>7, <1>8, <1>9 DEF Write

(* A change has nothing that fails, so it goes through its stages and the    *)
(* night takes over what they wrote.                                         *)
LEMMA ChangeWriteHolds ==
  ASSUME OnlyNightFails, IInv, HeldInv, Write("change"), edits = 0
  PROVE  /\ jobs'["floor"] = jobs["floor"] /\ jobs'["repair"] = jobs["repair"]
         /\ jobs'["night"] = jobs["night"]
         /\ data' = data /\ night' # None /\ night'.end \in CheapEnds
         /\ inverter'.end \in CheapEnds
         /\ jobs'["change"] # Idle => jobs'["change"].plan.end \in CheapEnds
         /\ NightHeld' /\ ChangeHeld'
<1> DEFINE job == jobs["change"]
<1>1. /\ "change" \in Jobs \ {"floor"} /\ "change" \in Jobs
      /\ {"floor", "repair", "night"} \subseteq Jobs \ {"change"}
  BY DEF Jobs
<1>2. job \in Job /\ job # Idle /\ inverter \in Inverter
  <2>1. job \in Job \cup {Idle} /\ inverter \in Inverter
    BY <1>1, TypesOf DEF Tasks
  <2>2. job.stage # "idle"
    BY DEF Write, WriteWindow, WriteTarget, WriteLimit
  <2> QED BY <2>1, <2>2 DEF Idle
<1>3. night # None /\ night \in NightState /\ night.end \in CheapEnds
  BY <1>2, TypesOf DEF IInv, OnePlanAtATime, HeldInv, EndsCheap, Busy
<1>4. job.plan \in Plan /\ job.plan.end \in Times /\ job.plan.target \in Targets
  BY <1>2 DEF Job, Plan
<1>5. /\ job.kind \in {"replan", "settle"} /\ ~job.failed
      /\ job.kind = "replan" => job.plan.end = night.end
      /\ job.stage # "window" => inverter.end = job.plan.end
      /\ job.stage = "limit" => inverter.target = job.plan.target
      /\ job.plan.end \in CheapEnds /\ inverter.end \in CheapEnds
  BY <1>2 DEF HeldInv, ChangeHeld, EndsCheap, Busy
<1>6. \A s, v : \A f \in FaultsOf("change", s, v) : f = "none"
  BY <1>1, <1>5, NothingFails DEF job
<1> HIDE DEF job
<1>7. ASSUME NEW stage \in {"target", "limit"}, Onward("change", stage, "none"),
             inverter'.end = job.plan.end,
             stage = "limit" => inverter'.target = job.plan.target
      PROVE  /\ jobs'["floor"] = jobs["floor"] /\ jobs'["repair"] = jobs["repair"]
             /\ jobs'["night"] = jobs["night"]
             /\ data' = data /\ night' = night
             /\ jobs'["change"].plan = job.plan
             /\ NightHeld' /\ ChangeHeld'
  <2>1. /\ jobs'["change"] # Idle
        /\ jobs'["change"].stage = stage /\ jobs'["change"].kind = job.kind
        /\ jobs'["change"].plan = job.plan
        /\ jobs'["change"].failed = (job.failed \/ "none" = "failed")
        /\ \A k \in Jobs \ {"change"} : jobs'[k] = jobs[k]
        /\ UNCHANGED <<data, night>>
    BY <1>1, <1>2, <1>7, OnwardLeaves DEF job
  <2>2. NightHeld'
    BY <2>1 DEF NightHeld, Busy
  <2>3. ChangeHeld'
    BY <2>1, <1>5, <1>7 DEF ChangeHeld, Busy
  <2> QED BY <2>1, <2>2, <2>3, <1>1
<1>8. CASE WriteWindow("change")
  <2>1. inverter' = Sent("end", job.plan.end, "none") /\ Onward("change", "target", "none")
    BY <1>6, <1>8 DEF WriteWindow, job
  <2>2. inverter'.end = job.plan.end
    BY <2>1, <1>2, <1>4, SentPuts
  <2> QED BY <2>1, <2>2, <1>3, <1>5, <1>7
<1>9. CASE WriteTarget("change")
  <2>1. /\ inverter' = Sent("target", job.plan.target, "none")
        /\ Onward("change", "limit", "none") /\ job.stage = "target"
    BY <1>6, <1>9 DEF WriteTarget, job
  <2>2. inverter'.end = job.plan.end /\ inverter'.target = job.plan.target
    BY <2>1, <1>2, <1>4, <1>5, SentPuts
  <2> QED BY <2>1, <2>2, <1>3, <1>5, <1>7
<1>10. CASE WriteLimit("change")
  <2> DEFINE p == job.plan
             wanted == "change" = "floor" \/ p.target < Full
             ok == "none" # "failed" /\ ("change" = "floor" \/ InForce(inverter', p, job))
  <2>1. /\ inverter' = Sent("limit", wanted, "none") /\ Finish("change", ok, log)
        /\ job.stage = "limit"
    BY <1>6, <1>10 DEF WriteLimit, job
  <2>2. wanted \in BOOLEAN /\ (wanted <=> p.target < Full)
    OBVIOUS
  <2>3. inverter'.end = p.end /\ inverter'.target = p.target /\ inverter'.limit = wanted
    <3> HIDE DEF wanted
    <3> QED BY <2>1, <2>2, <1>2, <1>5, SentPuts
  <2>4. Holds(inverter', p)
    BY <2>3 DEF Holds
  <2>5. \E yes \in BOOLEAN : yes /\ Finish("change", yes, log)
    <3>1. ok \in BOOLEAN /\ ok
      BY <2>4, <1>5 DEF InForce
    <3> HIDE DEF ok
    <3> QED BY <2>1, <3>1, Zenon
  <2>6. /\ jobs'["change"] = Idle /\ \A k \in Jobs \ {"change"} : jobs'[k] = jobs[k]
        /\ data' = data
        /\ night' = IF job.kind = "replan" THEN Wrote(night, p) ELSE SetBack(night, p)
    BY <2>5, <1>1, FinishLeaves DEF job
  <2> HIDE DEF p, ok, wanted
  <2>7. night' \in NightState /\ night'.end = p.end /\ night'.target = p.target
    BY <2>6, <1>3, <1>4, <1>5, WroteTyped, SetBackTyped DEF p
  <2>8. NightHeld' /\ ChangeHeld'
    BY <2>4, <2>6, <2>7 DEF NightHeld, ChangeHeld, Holds, Busy
  <2> QED BY <2>3, <2>6, <2>7, <2>8, <1>1, <1>5 DEF p
<1> QED BY <1>8, <1>9, <1>10 DEF Write
LEMMA HeldFromWrite ==
  ASSUME OnlyNightFails, IInv, HeldInv, NEW j \in Jobs, Write(j)
  PROVE  HeldInv'
<1>1. /\ jobs[j] # Idle /\ jobs[j] \in Job
      /\ UNCHANGED <<world, edits>>
  <2>1. jobs[j] \in Job \cup {Idle}
    BY TypesOf DEF Tasks
  <2>2. jobs[j].stage # "idle" /\ UNCHANGED <<world, edits>>
    BY DEF Write, WriteWindow, WriteTarget, WriteLimit
  <2> QED BY <2>1, <2>2 DEF Idle
<1>2. j # "floor"
  BY <1>1 DEF HeldInv, Untouched, Busy
<1>3. jobs'["floor"] = jobs["floor"]
  <2>1. "floor" \in Jobs \ {j}
    BY <1>2 DEF Jobs
  <2>2. ASSUME NEW ok \in BOOLEAN, NEW l, Finish(j, ok, l) PROVE jobs'["floor"] = jobs["floor"]
    BY <2>1, <2>2, <1>2, FinishLeaves
  <2>3. ASSUME NEW stage \in {"target", "limit"}, NEW f, Onward(j, stage, f)
        PROVE  jobs'["floor"] = jobs["floor"]
    BY <2>1, <2>3, <1>1, OnwardLeaves
  <2>4. \/ \E ok \in BOOLEAN : \E l : Finish(j, ok, l)
        \/ \E stage \in {"target", "limit"} : \E f : Onward(j, stage, f)
    <3>1. CASE WriteWindow(j)
      <4>1. \/ Finish(j, TRUE, log)
            \/ \E f : Onward(j, "target", f)
        BY <3>1, Zenon DEF WriteWindow
      <4>2. TRUE \in BOOLEAN /\ "target" \in {"target", "limit"}
        OBVIOUS
      <4> QED BY <4>1, <4>2, Zenon
    <3>2. CASE WriteTarget(j)
      <4>1. \/ Finish(j, FALSE, log)
            \/ \E f : Onward(j, "limit", f)
        BY <3>2, Zenon DEF WriteTarget
      <4>2. FALSE \in BOOLEAN /\ "limit" \in {"target", "limit"}
        OBVIOUS
      <4> QED BY <4>1, <4>2, Zenon
    <3>3. CASE WriteLimit(j)
      <4> DEFINE Done(f) == f # "failed" /\ (j = "floor" \/ InForce(inverter', jobs[j].plan, jobs[j]))
      <4>1. \E f : Finish(j, Done(f), log)
        BY <3>3, Zenon DEF WriteLimit
      <4>2. \A f : Done(f) \in BOOLEAN
        OBVIOUS
      <4> HIDE DEF Done
      <4> QED BY <4>1, <4>2, Zenon
    <3> QED BY <3>1, <3>2, <3>3 DEF Write
  <2> QED BY <2>2, <2>3, <2>4
<1>4. Untouched'
  BY <1>1, <1>3 DEF HeldInv, Untouched, Busy
<1>5. ASSUME edits = 0 PROVE NightHeld' /\ ChangeHeld' /\ EndsCheap'
  <2>1. j # "repair"
    BY <1>1, <1>5 DEF HeldInv, EndsCheap, Busy
  <2>2. j = "night" \/ j = "change"
    BY <1>2, <2>1 DEF Jobs
  <2>3. CASE j = "night"
    <3>1. /\ jobs'["repair"] = jobs["repair"] /\ jobs'["change"] = Idle /\ data' = data
          /\ inverter'.end \in {inverter.end, jobs["night"].plan.end}
          /\ jobs'["night"] # Idle => jobs'["night"].plan = jobs["night"].plan
          /\ night' # None => /\ Holds(inverter', [end |-> night'.end, target |-> night'.target])
                              /\ night'.end = jobs["night"].plan.end
      BY <1>5, <2>3, NightWriteHolds
    <3>2. jobs["night"].plan.end \in CheapEnds
      BY <1>1, <1>5, <2>3 DEF HeldInv, EndsCheap, Busy
    <3>3. NightHeld' /\ ChangeHeld'
      BY <3>1 DEF NightHeld, ChangeHeld, Busy, Holds
    <3>4. EndsCheap'
      BY <3>1, <3>2, <1>5 DEF HeldInv, EndsCheap, Busy, CheapEnds
    <3> QED BY <3>3, <3>4
  <2>4. CASE j = "change"
    <3>1. /\ jobs'["repair"] = jobs["repair"] /\ jobs'["night"] = jobs["night"] /\ data' = data
          /\ night'.end \in CheapEnds /\ inverter'.end \in CheapEnds
          /\ jobs'["change"] # Idle => jobs'["change"].plan.end \in CheapEnds
          /\ NightHeld' /\ ChangeHeld'
      BY <1>5, <2>4, ChangeWriteHolds
    <3>2. EndsCheap'
      BY <3>1, <1>5 DEF HeldInv, EndsCheap, Busy, CheapEnds
    <3> QED BY <3>1, <3>2
  <2> QED BY <2>2, <2>3, <2>4
<1> QED BY <1>1, <1>4, <1>5 DEF HeldInv

LEMMA HeldElsewhere ==
  ASSUME HeldInv, CycleFails \/ Start
  PROVE  HeldInv'
<1>1. UNCHANGED <<inverter, night, data, jobs, world, edits>>
  BY DEF CycleFails, Start
<1>2. ~world'.dry
  BY <1>1 DEF HeldInv, Untouched
<1> QED BY <1>1, <1>2, HeldStays

LEMMA HeldStarts == Init => HeldInv
<1> SUFFICES ASSUME Init PROVE HeldInv
  OBVIOUS
<1>1. /\ inverter.end = CheapEnd /\ data \in Plans /\ night = None
      /\ jobs = [j \in Jobs |-> Idle] /\ ~world.dry
  BY DEF Init
<1>2. \A j \in {"night", "change", "repair", "floor"} : jobs[j] = Idle
  BY <1>1 DEF Jobs
<1>3. data.end \in CheapEnds /\ CheapEnd \in CheapEnds
  BY <1>1, PlanEndsCheap
<1> QED BY <1>1, <1>2, <1>3 DEF HeldInv, Untouched, NightHeld, ChangeHeld, EndsCheap, Busy

LEMMA HeldKeeps == OnlyNightFails /\ IInv /\ HeldInv /\ [Next]_vars => HeldInv'
<1> SUFFICES ASSUME OnlyNightFails, IInv, HeldInv, [Next]_vars PROVE HeldInv'
  OBVIOUS
<1>1. ASSUME Trigger PROVE HeldInv'
  BY <1>1, HeldFromTrigger
<1>2. ASSUME RetryDue PROVE HeldInv'
  BY <1>2, HeldFromRetry
<1>3. ASSUME AnyCycle PROVE HeldInv'
  BY <1>3, HeldFromCycle DEF AnyCycle
<1>4. ASSUME CycleFails \/ Start PROVE HeldInv'
  BY <1>4, HeldElsewhere
<1>5. ASSUME NEW j \in Jobs, Write(j) PROVE HeldInv'
  BY <1>5, HeldFromWrite
<1>6. ASSUME Tick PROVE HeldInv'
  BY <1>6, HeldFromTick
<1>7. ASSUME Edit PROVE HeldInv'
  BY <1>7, HeldFromEdit
<1>8. ASSUME Toggle PROVE HeldInv'
  BY <1>8, HeldFromToggle
<1>9. ASSUME Stop PROVE HeldInv'
  BY <1>9, HeldFromStop
<1>10. CASE UNCHANGED vars
  <2>1. UNCHANGED <<inverter, night, data, jobs, world, edits>>
    BY <1>10 DEF vars
  <2>2. ~world'.dry
    BY <2>1 DEF HeldInv, Untouched
  <2> QED BY <2>1, <2>2, HeldStays
<1> QED BY <1>1, <1>2, <1>3, <1>4, <1>5, <1>6, <1>7, <1>8, <1>9, <1>10 DEF Next, Undisturbed

(* Where nothing but the night's own writes can fail, the remembered night   *)
(* that a re-plan and a setting back compare with (NightState, decide_replan *)
(* and needs_settling) is what the inverter holds, whenever nobody else has  *)
(* written and no write is under way, over any stops and restarts.           *)
THEOREM OnInverter ==
  ASSUME OnlyNightFails
  PROVE  Spec => []NightIsOnInverter
<1>1. OnlyNightFails
  OBVIOUS
<1>2. IInv /\ HeldInv => NightIsOnInverter
  <2> SUFFICES ASSUME IInv, HeldInv, edits = 0, night # None, \A j \in Jobs : ~Busy(j)
               PROVE  Holds(inverter, [end |-> night.end, target |-> night.target])
    BY DEF NightIsOnInverter
  <2>1. ~Busy("change")
    BY DEF Jobs
  <2> QED BY <2>1 DEF HeldInv, NightHeld
<1>3. IInv /\ HeldInv /\ [Next]_vars => HeldInv'
  BY <1>1, HeldKeeps
<1> QED BY <1>2, <1>3, HeldStarts, Invariance, PTL DEF Spec
=============================================================================
