--------------------------- MODULE Devices_proof ---------------------------
(***************************************************************************)
(* Proofs about the devices: the battery hold (BatteryHold), the feed and  *)
(* its repairs (Repairs), and the entry's devices (ConfigEntry).           *)
(*                                                                         *)
(* The user's battery pause is never lost to a hold, and the hold is that  *)
(* pause on loan, for every length of the day and of a hold, every pause,  *)
(* and every write that may go wrong while a record is kept.  The record   *)
(* alone is not inductive: that the release gives the pause back needs to  *)
(* know what it has still to write, and that no write of it is skipped for *)
(* the cooldown: a register a hold changed was last sent what it holds     *)
(* (Sent), because nobody else writes it while the record is kept.         *)
(*                                                                         *)
(* A gap in which the feed held old values is not booked, because the note *)
(* of it goes with forgetting the last update (GapInv); and the devices of *)
(* a charger that is there are not cleaned up, because once Home Assistant *)
(* runs its entities are there too (SeenWhenRunning).                      *)
(***************************************************************************)
EXTENDS BatteryHold, Repairs, ConfigEntry, SequenceTheorems, TLAPS

(* The writes that may go wrong: those of a renewal and of a release may raise or find the      *)
(* entity gone, and one of a start may not be confirmed.  A start that stops half-way forgets   *)
(* the record, and a write that was sent and lost is taken for written by the next one of the   *)
(* same value: neither keeps the promise.                                                       *)
KeepsRecord ==
  Faults \subseteq ({"RENEW", "RELEASE"} \X {"raised", "gone"}) \cup {<<"START", "lost">>}

Theirs(rec) == /\ Effective(rec.prior) = Effective(users)
               /\ rec.prior.mode \notin {"CHARGE", "BOTH"}

(* Where the record is, between the awaits of each step. *)
InStep ==
  /\ op.stage = "idle" => op = NoOp
  /\ op.stage # "idle" => up /\ op.step # "NOTHING" /\ op.rec # NoValue
  /\ ~up => record = NoValue
  /\ up /\ op.stage = "idle" => record = store
  /\ op.step = "START" => /\ record = NoValue
                          /\ op.stage = "save" => store = NoValue
                          /\ op.stage # "save" => store = op.rec
  /\ op.step \in {"RENEW", "RELEASE"} => /\ op.stage # "save"
                                         /\ record = store /\ store # NoValue
                                         /\ op.rec.prior = store.prior

Noted == /\ store # NoValue => Theirs(store)
         /\ op.rec # NoValue => Theirs(op.rec)

Unborrowed == store = NoValue => Effective(inverter) = Effective(users)

Sent == store # NoValue =>
          \A r \in Registers : \/ inverter[r] = store.prior[r]
                               \/ cooling[r] \in {NoValue, inverter[r]}

PauseRegisters(p) == IF p.mode = "OFF" THEN {"mode"} ELSE Registers

(* A start has changed none of the registers it has still to write. *)
StartWaits ==
  op.step = "START" =>
    /\ op.stage \in {"save", "apply", "refused"} => inverter = op.rec.prior
    /\ op.stage = "write" =>
         \A i, j \in DOMAIN op.todo :
           /\ inverter[op.todo[i][1]] = op.rec.prior[op.todo[i][1]]
           /\ op.todo[i][1] = op.todo[j][1] => i = j

(* A release has given back every register that it has not still to write. *)
GivesBack ==
  op.step = "RELEASE" =>
    /\ op.stage = "write" =>
         /\ \A i \in DOMAIN op.todo : op.todo[i][2] = op.rec.prior[op.todo[i][1]]
         /\ \A r \in PauseRegisters(op.rec.prior) :
              \/ inverter[r] = op.rec.prior[r]
              \/ \E i \in DOMAIN op.todo : op.todo[i][1] = r
    /\ op.stage = "taken" =>
         \A r \in PauseRegisters(op.rec.prior) : inverter[r] = op.rec.prior[r]

IInv == /\ BatteryTypeOK
        /\ op.stage = "write" => op.todo # <<>>
        /\ InStep
        /\ Noted
        /\ Unborrowed
        /\ Sent
        /\ StartWaits
        /\ GivesBack

USE BatteryAssumption

-----------------------------------------------------------------------------
(* The types of what the steps are built from. *)

LEMMA Clock == ASSUME NEW t \in Int PROVE t % HoldDay \in Times
<1>1. HoldDay \in Nat \ {0}
  OBVIOUS
<1> QED BY <1>1 DEF Times

LEMMA WriteOf ==
  ASSUME NEW w \in Writes
  PROVE  /\ w = <<w[1], w[2]>>
         /\ \/ w[1] = "mode" /\ w[2] \in PauseModes
            \/ w[1] = "start" /\ w[2] \in Times
            \/ w[1] = "end" /\ w[2] \in Times
BY DEF Writes, Registers

LEMMA WriteIn ==
  /\ \A m \in PauseModes : <<"mode", m>> \in Writes
  /\ \A t \in Times : <<"start", t>> \in Writes /\ <<"end", t>> \in Writes
BY DEF Writes, Registers

LEMMA HoldPauseTyped ==
  ASSUME NEW t \in Times
  PROVE  HoldPause(t) \in PauseSetting /\ HoldPause(t).start # HoldPause(t).end
<1>1. t \in Nat /\ t < HoldDay /\ t + HoldTicks \in Nat
  BY DEF Times
<1>2. (t + HoldTicks) % HoldDay \in Times
  BY <1>1, Clock
<1>3. (t + HoldTicks) % HoldDay # t
  <2>1. CASE t + HoldTicks < HoldDay
    <3>1. (t + HoldTicks) % HoldDay = t + HoldTicks
      BY <1>1, <2>1
    <3> QED BY <3>1, <1>1
  <2>2. CASE t + HoldTicks >= HoldDay
    <3>1. (t + HoldTicks) % HoldDay = t + HoldTicks - HoldDay
      BY <1>1, <2>2
    <3> QED BY <3>1, <1>1
  <2> QED BY <2>1, <2>2, <1>1
<1> QED BY <1>2, <1>3 DEF HoldPause, PauseSetting, PauseModes

LEMMA Aged ==
  ASSUME NEW rec \in Record \cup {NoValue}
  PROVE  /\ AgedRecord(rec) \in Record \cup {NoValue}
         /\ AgedRecord(rec) = NoValue <=> rec = NoValue
         /\ rec # NoValue => AgedRecord(rec).prior = rec.prior
BY DEF AgedRecord, Record

LEMMA Joined ==
  ASSUME NEW a, NEW b, NEW c
  PROVE  <<>> \o <<c>> = <<c>> /\ <<a, b>> \o <<c>> = <<a, b, c>>
<1> DEFINE all == {a, b, c}
           long == <<a, b>> \o <<c>>
<1>1. <<c>> \in Seq(all) /\ <<a, b>> \in Seq(all) /\ <<a, b, c>> \in Seq(all)
  OBVIOUS
<1>2. long \in Seq(all) /\ Len(long) = 3
  BY <1>1, ConcatProperties
<1>3. \A i \in 1..3 : long[i] = IF i <= 2 THEN <<a, b>>[i] ELSE <<c>>[i - 2]
  BY <1>1, ConcatProperties
<1>4. \A i \in 1..3 : long[i] = <<a, b, c>>[i]
  BY <1>3
<1>5. long = <<a, b, c>>
  BY <1>1, <1>2, <1>4, SeqEqual
<1>6. <<>> \o <<c>> = <<c>>
  BY <1>1, ConcatEmptySeq
<1> QED BY <1>5, <1>6

LEMMA PauseWritesTyped ==
  ASSUME NEW p \in PauseSetting
  PROVE  /\ PauseWrites(p) \in Seq(Writes)
         /\ PauseWrites(p) # <<>>
         /\ \A i \in DOMAIN PauseWrites(p) : PauseWrites(p)[i][2] = p[PauseWrites(p)[i][1]]
         /\ \A i, j \in DOMAIN PauseWrites(p) :
              PauseWrites(p)[i][1] = PauseWrites(p)[j][1] => i = j
         /\ \A r \in PauseRegisters(p) : \E i \in DOMAIN PauseWrites(p) : PauseWrites(p)[i][1] = r
<1> DEFINE mode == <<"mode", p.mode>>
           start == <<"start", p.start>>
           end == <<"end", p.end>>
<1>1. mode \in Writes /\ start \in Writes /\ end \in Writes
  BY WriteIn DEF PauseSetting
<1>2. CASE p.mode = "OFF"
  <2>1. PauseWrites(p) = <<mode>>
    BY <1>2, Joined DEF PauseWrites
  <2> QED BY <1>1, <1>2, <2>1 DEF PauseRegisters
<1>3. ASSUME p.mode # "OFF"
      PROVE  PauseWrites(p) = <<start, end, mode>> \/ PauseWrites(p) = <<end, start, mode>>
  BY <1>3, Joined DEF PauseWrites
<1>4. CASE PauseWrites(p) = <<start, end, mode>>
  BY <1>1, <1>4 DEF PauseRegisters, Registers
<1>5. CASE PauseWrites(p) = <<end, start, mode>>
  BY <1>1, <1>5 DEF PauseRegisters, Registers
<1> QED BY <1>2, <1>3, <1>4, <1>5

-----------------------------------------------------------------------------
(* The initial states. *)

LEMMA InitIInv == BatteryInit => IInv
<1> SUFFICES ASSUME BatteryInit PROVE IInv
  OBVIOUS
<1>1. users \in PauseSetting /\ inverter = users
  BY DEF BatteryInit
<1>2. op = NoOp /\ op.stage = "idle" /\ op.step = "NOTHING" /\ op.rec = NoValue /\ op.todo = <<>>
  BY DEF BatteryInit, NoOp
<1>3. BatteryTypeOK
  <2>1. NoOp \in [step: Steps \cup {"NOTHING"},
                  stage: {"idle", "save", "apply", "write", "taken", "refused"},
                  at: Times, rec: Record \cup {NoValue}, todo: Seq(Writes)]
    BY DEF NoOp, Times
  <2> QED BY <1>1, <2>1 DEF BatteryInit, BatteryTypeOK, Registers
<1>4. InStep /\ Noted /\ Unborrowed /\ Sent /\ StartWaits /\ GivesBack
  BY <1>1, <1>2 DEF BatteryInit, InStep, Noted, Unborrowed, Sent, StartWaits, GivesBack
<1> QED BY <1>2, <1>3, <1>4 DEF IInv
-----------------------------------------------------------------------------
(* One lemma for each action. *)

Ops == [step: Steps \cup {"NOTHING"}, stage: {"idle", "save", "apply", "write", "taken", "refused"},
        at: Times, rec: Record \cup {NoValue}, todo: Seq(Writes)]

LEMMA RunKeeps == ASSUME IInv, Run PROVE IInv'
<1> USE DEF IInv
<1>1. /\ up /\ op = NoOp /\ record = store
      /\ op.stage = "idle" /\ op.step = "NOTHING" /\ op.rec = NoValue /\ op.todo = <<>>
  BY DEF Run, InStep, NoOp
<1>2. UNCHANGED <<inverter, users, up, record, store, cooling, time, facts>>
  BY DEF Run
<1>3. off_since' \in 0..ReleaseTicks \cup {NoValue}
  BY DEF Run, AwayNow, BatteryTypeOK
<1>4. CASE op' = op
  <2>1. BatteryTypeOK'
    BY <1>2, <1>3, <1>4 DEF BatteryTypeOK
  <2>2. (InStep /\ Noted /\ Unborrowed /\ Sent /\ StartWaits /\ GivesBack)'
    BY <1>1, <1>2, <1>4 DEF InStep, Noted, Theirs, Unborrowed, Sent, StartWaits, GivesBack
  <2> QED BY <2>1, <2>2, <1>1, <1>4
<1>5. CASE op' # op
  <2> DEFINE step == DecideHold(AwayNow)
             rec == CASE step = "START" -> [prior |-> inverter, left |-> HoldTicks]
                      [] step = "RENEW" -> [prior |-> record.prior, left |-> HoldTicks]
                      [] OTHER -> record
  <2>1. /\ step # "NOTHING"
        /\ op' = [step |-> step, stage |-> IF step = "START" THEN "save" ELSE "apply",
                  at |-> time, rec |-> rec, todo |-> <<>>]
    BY <1>5 DEF Run
  <2>2. step \in {"START", "RENEW", "RELEASE", "NOTHING"}
    BY DEF DecideHold, HoldingStep
  <2>3. step = "START" => record = NoValue /\ MayHold(inverter)
    BY DEF DecideHold, HoldingStep
  <2>4. step \in {"RENEW", "RELEASE"} => record # NoValue
    BY DEF DecideHold
  <2> HIDE DEF step
  <2>5. rec \in Record /\ rec # NoValue
    <3>1. inverter \in PauseSetting /\ HoldTicks \in 0..HoldTicks
      BY DEF BatteryTypeOK
    <3>2. record # NoValue => record \in Record /\ record.prior \in PauseSetting
      BY DEF BatteryTypeOK, Record
    <3>3. CASE step = "START"
      BY <3>1, <3>3 DEF Record
    <3>4. CASE step = "RENEW"
      <4>1. rec = [prior |-> record.prior, left |-> HoldTicks]
        BY <3>4
      <4> QED BY <4>1, <3>1, <3>2, <3>4, <2>4 DEF Record
    <3>5. CASE step = "RELEASE"
      BY <3>2, <3>5, <2>4
    <3> QED BY <3>3, <3>4, <3>5, <2>1, <2>2
  <2>6. /\ step = "START" => rec.prior = inverter
        /\ step \in {"RENEW", "RELEASE"} => rec.prior = record.prior
    OBVIOUS
  <2> HIDE DEF rec
  <2>7. /\ op'.step = step /\ op'.rec = rec /\ op'.todo = <<>>
        /\ op'.stage = IF step = "START" THEN "save" ELSE "apply"
    BY <2>1
  <2>8. BatteryTypeOK'
    <3>1. op' \in Ops
      BY <2>1, <2>2, <2>5 DEF Ops, Steps, BatteryTypeOK
    <3> QED BY <3>1, <1>2, <1>3 DEF BatteryTypeOK, Ops
  <2>9. InStep'
    BY <1>1, <1>2, <2>1, <2>2, <2>3, <2>4, <2>5, <2>6, <2>7 DEF InStep
  <2>10. Theirs(rec)
    <3>1. CASE step = "START"
      <4>1. Effective(inverter) = Effective(users)
        BY <3>1, <2>3, <1>1 DEF Unborrowed
      <4> QED BY <4>1, <3>1, <2>3, <2>6 DEF Theirs, MayHold
    <3>2. CASE step \in {"RENEW", "RELEASE"}
      BY <3>2, <2>4, <2>6, <1>1 DEF Noted, Theirs
    <3> QED BY <3>1, <3>2, <2>1, <2>2
  <2>11. (Noted /\ Unborrowed /\ Sent)'
    BY <1>2, <2>7, <2>10 DEF Noted, Unborrowed, Sent, Theirs
  <2>12. (StartWaits /\ GivesBack)'
    BY <1>2, <2>2, <2>6, <2>7 DEF StartWaits, GivesBack
  <2> QED BY <2>7, <2>8, <2>9, <2>11, <2>12
<1> QED BY <1>4, <1>5

LEMMA SaveKeeps == ASSUME IInv, SaveFirst PROVE IInv'
<1> USE DEF IInv
<1>1. /\ op \in Ops /\ op.stage = "save" /\ op.step = "START" /\ op.rec \in Record /\ op.rec # NoValue
      /\ up /\ record = NoValue /\ inverter = op.rec.prior
  BY DEF SaveFirst, InStep, StartWaits, BatteryTypeOK, Ops, Steps, NoOp
<1>2. /\ store' = op.rec /\ op' = [op EXCEPT !.stage = "apply"]
      /\ UNCHANGED <<inverter, users, up, record, cooling, off_since, time, facts>>
  BY DEF SaveFirst, SavedFirst
<1>3. /\ op' \in Ops /\ op'.stage = "apply" /\ op'.step = "START" /\ op'.rec = op.rec
  BY <1>1, <1>2 DEF Ops
<1>4. BatteryTypeOK'
  BY <1>1, <1>2, <1>3 DEF BatteryTypeOK, Ops
<1>5. InStep'
  BY <1>1, <1>2, <1>3 DEF InStep
<1>6. (Noted /\ Unborrowed /\ Sent)'
  BY <1>1, <1>2, <1>3 DEF Noted, Theirs, Unborrowed, Sent
<1>7. (StartWaits /\ GivesBack)'
  BY <1>1, <1>2, <1>3 DEF StartWaits, GivesBack
<1> QED BY <1>3, <1>4, <1>5, <1>6, <1>7

LEMMA ApplyKeeps == ASSUME IInv, Apply PROVE IInv'
<1> USE DEF IInv
<1>1. /\ op \in Ops /\ op.stage = "apply" /\ op.step \in Steps /\ op.rec \in Record /\ op.rec # NoValue
      /\ up
  BY DEF Apply, InStep, BatteryTypeOK, Ops
<1>2. UNCHANGED <<inverter, users, up, record, store, cooling, off_since, time, facts>>
  BY DEF Apply
<1>3. op.rec.prior \in PauseSetting /\ op.at \in Times
  BY <1>1 DEF Record, Ops
<1>4. Wanted \in PauseSetting
  BY <1>3, HoldPauseTyped DEF Wanted
<1>5. CASE op' = [op EXCEPT !.stage = "refused"]
  <2>1. op' \in Ops /\ op'.stage = "refused" /\ op'.step = op.step /\ op'.rec = op.rec
    BY <1>1, <1>5 DEF Ops
  <2>2. BatteryTypeOK'
    BY <1>2, <2>1 DEF BatteryTypeOK, Ops
  <2>3. InStep'
    BY <1>1, <1>2, <2>1 DEF InStep
  <2>4. (Noted /\ Unborrowed /\ Sent)'
    BY <1>2, <2>1 DEF Noted, Theirs, Unborrowed, Sent
  <2>5. (StartWaits /\ GivesBack)'
    BY <1>1, <1>2, <2>1 DEF StartWaits, GivesBack
  <2> QED BY <2>1, <2>2, <2>3, <2>4, <2>5
<1>6. CASE op' = [op EXCEPT !.stage = "write", !.todo = PauseWrites(Wanted)]
  <2> DEFINE todo == PauseWrites(Wanted)
  <2>1. /\ todo \in Seq(Writes) /\ todo # <<>>
        /\ \A i \in DOMAIN todo : todo[i] \in Writes /\ todo[i][2] = Wanted[todo[i][1]]
        /\ \A i, j \in DOMAIN todo : todo[i][1] = todo[j][1] => i = j
        /\ \A r \in PauseRegisters(Wanted) : \E i \in DOMAIN todo : todo[i][1] = r
    BY <1>4, PauseWritesTyped
  <2> HIDE DEF todo
  <2>2. op' \in Ops /\ op'.stage = "write" /\ op'.step = op.step /\ op'.rec = op.rec /\ op'.todo = todo
    BY <1>1, <1>6, <2>1 DEF Ops, todo
  <2>3. BatteryTypeOK'
    BY <1>2, <2>2 DEF BatteryTypeOK, Ops
  <2>4. InStep'
    BY <1>1, <1>2, <2>2 DEF InStep
  <2>5. (Noted /\ Unborrowed /\ Sent)'
    BY <1>2, <2>2 DEF Noted, Theirs, Unborrowed, Sent
  <2>6. StartWaits'
    BY <1>1, <1>2, <2>1, <2>2 DEF StartWaits
  <2>7. GivesBack'
    <3>1. op.step = "RELEASE" => Wanted = op.rec.prior
      BY DEF Wanted
    <3> QED BY <1>2, <2>1, <2>2, <3>1 DEF GivesBack
  <2> QED BY <2>1, <2>2, <2>3, <2>4, <2>5, <2>6, <2>7
<1> QED BY <1>5, <1>6 DEF Apply
(* The register of the next write, and its value. *)
Reg == op.todo[1][1]
Val == op.todo[1][2]

(* A write that is on its way, and one that stopped the step. *)
Went ==
  /\ Onward
  /\ \/ /\ inverter' = [inverter EXCEPT ![Reg] = Val]
        /\ \/ cooling' = cooling /\ inverter[Reg] = Val
           \/ cooling' = [cooling EXCEPT ![Reg] = Val]
     \/ inverter' = inverter /\ cooling' = cooling /\ op.step # "RELEASE"
     \/ inverter' = inverter /\ cooling' = [cooling EXCEPT ![Reg] = Val] /\ op.step = "START"
Stopped ==
  /\ Stop /\ inverter' = inverter /\ op.step # "START"
  /\ cooling' = cooling \/ cooling' = [cooling EXCEPT ![Reg] = NoValue]

(* What a verified write does to its register, and that none of a release is skipped. *)
LEMMA WriteDoes ==
  ASSUME IInv, KeepsRecord, Write
  PROVE  /\ UNCHANGED <<users, up, record, store, off_since, time, facts>>
         /\ Went \/ Stopped
<1> USE DEF IInv
<1>1. /\ op.stage = "write" /\ op.todo \in Seq(Writes) /\ op.todo # <<>>
      /\ op.todo[1] \in Writes /\ Reg \in Registers /\ 1 \in DOMAIN op.todo
      /\ inverter \in PauseSetting
  BY WriteOf DEF Write, BatteryTypeOK, Registers, Reg
<1>2. UNCHANGED <<users, up, record, store, off_since, time, facts>>
  BY DEF Write
<1>3. \A kind : Faulty(kind) => \/ kind \in {"raised", "gone"} /\ op.step # "START"
                                \/ kind = "lost" /\ op.step = "START"
  BY DEF Faulty, KeepsRecord
<1>4. CASE inverter[Reg] = Val /\ Onward /\ UNCHANGED <<inverter, cooling>>
  <2>1. inverter = [inverter EXCEPT ![Reg] = Val]
    BY <1>1, <1>4 DEF PauseSetting, Registers
  <2> QED BY <1>2, <1>4, <2>1 DEF Went
<1>5. CASE inverter[Reg] # Val /\ cooling[Reg] = Val /\ Onward /\ UNCHANGED <<inverter, cooling>>
  <2>1. ASSUME op.step = "RELEASE" PROVE FALSE
    <3>1. Val = store.prior[Reg] /\ store # NoValue
      BY <1>1, <2>1 DEF InStep, GivesBack, Reg, Val
    <3>2. cooling[Reg] \in {NoValue, inverter[Reg]}
      BY <1>1, <1>5, <3>1 DEF Sent
    <3>3. Val # NoValue
      BY <1>1, WriteOf DEF Val
    <3> QED BY <1>5, <3>2, <3>3
  <2> QED BY <1>2, <1>5, <2>1 DEF Went
<1>6. CASE /\ inverter' = [inverter EXCEPT ![Reg] = Val]
           /\ cooling' = [cooling EXCEPT ![Reg] = Val] /\ Onward
  BY <1>2, <1>6 DEF Went
<1>7. CASE Faulty("lost") /\ cooling' = [cooling EXCEPT ![Reg] = Val] /\ Onward /\ UNCHANGED inverter
  BY <1>2, <1>3, <1>7 DEF Went
<1>8. CASE Faulty("raised") /\ cooling' = [cooling EXCEPT ![Reg] = NoValue] /\ Stop /\ UNCHANGED inverter
  BY <1>2, <1>3, <1>8 DEF Stopped
<1>9. CASE Faulty("gone") /\ Stop /\ UNCHANGED <<inverter, cooling>>
  BY <1>2, <1>3, <1>9 DEF Stopped
<1>10. ~Faulty("vanished")
  BY <1>3
<1> QED BY <1>4, <1>5, <1>6, <1>7, <1>8, <1>9, <1>10 DEF Write, Reg, Val

LEMMA OnwardDoes ==
  ASSUME IInv, Onward, op.stage = "write"
  PROVE  /\ op' \in Ops /\ op'.step = op.step /\ op'.rec = op.rec
         /\ op'.todo = Tail(op.todo)
         /\ op'.stage \in {"write", "taken"}
         /\ op'.stage = "taken" <=> DOMAIN op.todo = {1}
         /\ op'.stage = "write" => op'.todo # <<>>
         /\ \A i \in DOMAIN op'.todo : i + 1 \in DOMAIN op.todo /\ op'.todo[i] = op.todo[i + 1]
         /\ \A i \in DOMAIN op.todo : i = 1 \/ i - 1 \in DOMAIN op'.todo
<1>1. op \in Ops /\ op.todo \in Seq(Writes) /\ op.todo # <<>>
  BY DEF IInv, BatteryTypeOK, Ops
<1> DEFINE rest == Tail(op.todo)
           n == Len(op.todo)
<1>2. /\ rest \in Seq(Writes) /\ Len(rest) = n - 1
      /\ \A i \in 1..Len(rest) : rest[i] = op.todo[i + 1]
  BY <1>1, HeadTailProperties
<1>3. n \in Nat \ {0} /\ DOMAIN op.todo = 1..n
  BY <1>1, EmptySeq
<1>4. /\ op' \in Ops /\ op'.step = op.step /\ op'.rec = op.rec /\ op'.todo = rest
      /\ op'.stage = IF n = 1 THEN "taken" ELSE "write"
  <2>1. op' = [op EXCEPT !.todo = rest, !.stage = IF n = 1 THEN "taken" ELSE "write"]
    BY DEF Onward
  <2> QED BY <1>1, <1>2, <2>1 DEF Ops
<1> HIDE DEF rest, n
<1>5. DOMAIN rest = 1..(n - 1)
  BY <1>2, LenProperties
<1>6. n # 1 => rest # <<>>
  BY <1>2, <1>3
<1>7. n = 1 <=> DOMAIN op.todo = {1}
  BY <1>3
<1>8. \A i \in 1..(n - 1) : i + 1 \in 1..n /\ rest[i] = op.todo[i + 1]
  BY <1>2, <1>3
<1>9. \A i \in 1..n : i = 1 \/ i - 1 \in 1..(n - 1)
  BY <1>3
<1> QED BY <1>3, <1>4, <1>5, <1>6, <1>7, <1>8, <1>9 DEF rest

LEMMA StopDoes ==
  ASSUME IInv, Stop
  PROVE  op' \in Ops /\ op'.step = op.step /\ op'.rec = op.rec /\ op'.stage = "refused"
BY DEF IInv, BatteryTypeOK, Ops, Stop

LEMMA WriteKeeps == ASSUME IInv, KeepsRecord, Write PROVE IInv'
<1> USE DEF IInv
<1>1. /\ op \in Ops /\ op.stage = "write" /\ op.step \in Steps /\ op.rec \in Record /\ op.rec # NoValue
      /\ op.todo \in Seq(Writes) /\ op.todo # <<>> /\ 1 \in DOMAIN op.todo
      /\ inverter \in PauseSetting /\ store # NoValue /\ store \in Record
      /\ op.rec.prior = store.prior
  <2>1. op \in Ops /\ op.stage = "write" /\ op.todo # <<>> /\ inverter \in PauseSetting
    BY DEF Write, BatteryTypeOK, Ops
  <2>2. op.step \in Steps /\ op.rec \in Record /\ op.rec # NoValue
    BY <2>1 DEF InStep, Ops
  <2>3. op.todo \in Seq(Writes) /\ 1 \in DOMAIN op.todo
    BY <2>1 DEF Ops
  <2>4. store # NoValue /\ op.rec.prior = store.prior
    BY <2>1, <2>2 DEF InStep, Steps
  <2> QED BY <2>1, <2>2, <2>3, <2>4 DEF BatteryTypeOK
<1>2. /\ Reg \in Registers
      /\ \/ Reg = "mode" /\ Val \in PauseModes
         \/ Reg = "start" /\ Val \in Times
         \/ Reg = "end" /\ Val \in Times
  <2>1. op.todo[1] \in Writes
    BY <1>1
  <2> QED BY <2>1, WriteOf DEF Registers, Reg, Val
<1>3. /\ UNCHANGED <<users, up, record, store, off_since, time, facts>>
      /\ Went \/ Stopped
      /\ inverter' \in {inverter, [inverter EXCEPT ![Reg] = Val]}
      /\ cooling' \in {cooling, [cooling EXCEPT ![Reg] = Val], [cooling EXCEPT ![Reg] = NoValue]}
  BY WriteDoes DEF Went, Stopped
<1>4. inverter' \in PauseSetting
  BY <1>1, <1>2, <1>3 DEF PauseSetting
<1>5. /\ cooling \in [mode: PauseModes \cup {NoValue}, start: Times \cup {NoValue}, end: Times \cup {NoValue}]
      /\ cooling' \in [mode: PauseModes \cup {NoValue}, start: Times \cup {NoValue}, end: Times \cup {NoValue}]
  <2>1. cooling \in [mode: PauseModes \cup {NoValue}, start: Times \cup {NoValue}, end: Times \cup {NoValue}]
    BY DEF BatteryTypeOK
  <2> QED BY <2>1, <1>2, <1>3
<1>6. \A q \in Registers : q # Reg => inverter'[q] = inverter[q] /\ cooling'[q] = cooling[q]
  BY <1>1, <1>2, <1>3, <1>5 DEF PauseSetting, Registers
<1>7. /\ inverter' = [inverter EXCEPT ![Reg] = Val] => inverter'[Reg] = Val
      /\ cooling' = [cooling EXCEPT ![Reg] = Val] => cooling'[Reg] = Val
      /\ cooling' = [cooling EXCEPT ![Reg] = NoValue] => cooling'[Reg] = NoValue
  BY <1>1, <1>2, <1>5 DEF PauseSetting, Registers
<1>8. op' \in Ops /\ op'.step = op.step /\ op'.rec = op.rec /\ op'.stage \in {"write", "taken", "refused"}
      /\ (op'.stage = "write" => op'.todo # <<>>)
  BY <1>1, <1>3, OnwardDoes, StopDoes DEF Went, Stopped
<1>9. BatteryTypeOK'
  BY <1>3, <1>4, <1>5, <1>8 DEF BatteryTypeOK, Ops
<1>10. InStep'
  BY <1>1, <1>3, <1>8 DEF InStep
<1>11. (Noted /\ Unborrowed)'
  BY <1>1, <1>3, <1>8 DEF Noted, Theirs, Unborrowed
<1>12. op.step = "START" => inverter[Reg] = op.rec.prior[Reg]
  BY <1>1 DEF StartWaits, Reg
<1>13. Sent'
  <2> SUFFICES ASSUME NEW q \in Registers
               PROVE  inverter'[q] = store.prior[q] \/ cooling'[q] \in {NoValue, inverter'[q]}
    BY <1>3 DEF Sent
  <2>1. inverter[q] = store.prior[q] \/ cooling[q] \in {NoValue, inverter[q]}
    BY <1>1 DEF Sent
  <2>2. CASE q # Reg
    BY <1>6, <2>1, <2>2
  <2>3. CASE q = Reg /\ inverter' = inverter /\ cooling' = cooling
    BY <2>1, <2>3
  <2>4. CASE q = Reg /\ inverter' = inverter /\ op.step = "START"
    BY <1>1, <1>12, <2>4
  <2>5. CASE q = Reg /\ inverter' = inverter /\ cooling' = [cooling EXCEPT ![Reg] = NoValue]
    BY <1>7, <2>5
  <2>6. CASE q = Reg /\ inverter' = [inverter EXCEPT ![Reg] = Val] /\ cooling' = [cooling EXCEPT ![Reg] = Val]
    BY <1>7, <2>6
  <2>7. CASE q = Reg /\ inverter' = [inverter EXCEPT ![Reg] = Val] /\ cooling' = cooling /\ inverter[Reg] = Val
    BY <1>7, <2>1, <2>7
  <2> QED BY <1>3, <2>2, <2>3, <2>4, <2>5, <2>6, <2>7 DEF Went, Stopped
<1>14. StartWaits'
  <2> SUFFICES ASSUME op.step = "START" PROVE StartWaits'
    BY <1>8 DEF StartWaits
  <2>1. Onward /\ op'.stage \in {"write", "taken"}
        /\ \A i \in DOMAIN op'.todo : i + 1 \in DOMAIN op.todo /\ op'.todo[i] = op.todo[i + 1]
    BY <1>1, <1>3, OnwardDoes DEF Went, Stopped
  <2>2. \A i, j \in DOMAIN op.todo :
           /\ inverter[op.todo[i][1]] = op.rec.prior[op.todo[i][1]]
           /\ op.todo[i][1] = op.todo[j][1] => i = j
    BY <1>1 DEF StartWaits
  <2>3. \A i \in DOMAIN op.todo : i \in Nat /\ op.todo[i] \in Writes /\ op.todo[i][1] \in Registers
    <3>1. \A i \in DOMAIN op.todo : i \in Nat /\ op.todo[i] \in Writes
      BY <1>1
    <3> QED BY <3>1, WriteOf DEF Registers
  <2>4. \A i \in DOMAIN op'.todo : i \in Nat /\ i # 0
    <3>1. op'.todo \in Seq(Writes)
      BY <1>8 DEF Ops
    <3> QED BY <3>1
  <2>5. ASSUME NEW i \in DOMAIN op'.todo, NEW j \in DOMAIN op'.todo
        PROVE  /\ inverter'[op'.todo[i][1]] = op.rec.prior[op'.todo[i][1]]
               /\ op'.todo[i][1] = op'.todo[j][1] => i = j
    <3>1. /\ i + 1 \in DOMAIN op.todo /\ j + 1 \in DOMAIN op.todo /\ i + 1 # 1
          /\ op'.todo[i] = op.todo[i + 1] /\ op'.todo[j] = op.todo[j + 1]
      BY <2>1, <2>4
    <3>2. op.todo[i + 1][1] # Reg
      BY <1>1, <2>2, <3>1 DEF Reg
    <3>3. inverter'[op.todo[i + 1][1]] = inverter[op.todo[i + 1][1]]
      BY <1>6, <2>3, <3>1, <3>2
    <3>4. op.todo[i + 1][1] = op.todo[j + 1][1] => i + 1 = j + 1
      BY <2>2, <3>1
    <3> QED BY <2>2, <2>4, <3>1, <3>3, <3>4
  <2> QED BY <1>8, <2>1, <2>5 DEF StartWaits
<1>15. GivesBack'
  <2> SUFFICES ASSUME op.step = "RELEASE" PROVE GivesBack'
    BY <1>8 DEF GivesBack
  <2>1. CASE op'.stage = "refused"
    BY <2>1 DEF GivesBack
  <2>2. CASE op'.stage # "refused"
    <3> DEFINE prior == op.rec.prior
    <3>1. /\ Onward /\ inverter' = [inverter EXCEPT ![Reg] = Val] /\ inverter'[Reg] = Val
          /\ op'.stage = "taken" <=> DOMAIN op.todo = {1}
          /\ \A i \in DOMAIN op'.todo : i + 1 \in DOMAIN op.todo /\ op'.todo[i] = op.todo[i + 1]
          /\ \A i \in DOMAIN op.todo : i = 1 \/ i - 1 \in DOMAIN op'.todo
      BY <1>1, <1>3, <1>7, <2>2, OnwardDoes, StopDoes DEF Went, Stopped
    <3>2. /\ \A i \in DOMAIN op.todo : op.todo[i][2] = prior[op.todo[i][1]]
          /\ \A q \in PauseRegisters(prior) :
               inverter[q] = prior[q] \/ \E i \in DOMAIN op.todo : op.todo[i][1] = q
      BY <1>1 DEF GivesBack
    <3>3. inverter'[Reg] = prior[Reg]
      BY <1>1, <3>1, <3>2 DEF Reg, Val
    <3>4. PauseRegisters(prior) \subseteq Registers
      BY DEF PauseRegisters, Registers
    <3>5. \A i \in DOMAIN op'.todo : op'.todo[i][2] = prior[op'.todo[i][1]]
      BY <3>1, <3>2
    <3>6. ASSUME NEW q \in PauseRegisters(prior), inverter'[q] # prior[q]
          PROVE  \E i \in DOMAIN op'.todo : op'.todo[i][1] = q
      <4>1. q # Reg /\ inverter[q] # prior[q]
        BY <1>6, <3>3, <3>4, <3>6
      <4>2. PICK i \in DOMAIN op.todo : op.todo[i][1] = q
        BY <3>2, <4>1
      <4>3. i # 1 /\ i \in Nat
        <5>1. DOMAIN op.todo = 1..Len(op.todo) /\ Len(op.todo) \in Nat
          BY <1>1, LenProperties
        <5> QED BY <4>1, <4>2, <5>1 DEF Reg
      <4>4. i - 1 \in DOMAIN op'.todo /\ op'.todo[i - 1] = op.todo[(i - 1) + 1]
        BY <3>1, <4>3
      <4> QED BY <4>2, <4>3, <4>4
    <3>7. op'.stage = "taken" => \A q \in PauseRegisters(prior) : inverter'[q] = prior[q]
      <4> SUFFICES ASSUME op'.stage = "taken", NEW q \in PauseRegisters(prior), inverter'[q] # prior[q]
                   PROVE  FALSE
        OBVIOUS
      <4>1. DOMAIN op.todo = {1}
        BY <3>1
      <4>2. PICK i \in DOMAIN op'.todo : op'.todo[i][1] = q
        BY <3>6
      <4>3. i + 1 = 1 /\ i \in Nat \ {0}
        <5>1. op'.todo \in Seq(Writes)
          BY <1>8 DEF Ops
        <5> QED BY <3>1, <4>1, <4>2, <5>1, LenProperties
      <4> QED BY <4>3
    <3> QED BY <1>8, <3>5, <3>6, <3>7 DEF GivesBack
  <2> QED BY <2>1, <2>2
<1> QED BY <1>8, <1>9, <1>10, <1>11, <1>13, <1>14, <1>15

LEMMA FinishKeeps == ASSUME IInv, Finish PROVE IInv'
<1> USE DEF IInv
<1>1. /\ op.stage \in {"taken", "refused"} /\ op.step \in Steps /\ op.rec \in Record /\ op.rec # NoValue
      /\ up /\ op.rec.prior \in PauseSetting /\ inverter \in PauseSetting /\ store # NoValue
      /\ op.rec.prior = store.prior
  <2>1. /\ op.stage \in {"taken", "refused"} /\ op.step \in Steps /\ op.rec \in Record
        /\ op.rec # NoValue /\ up /\ inverter \in PauseSetting
    BY DEF Finish, InStep, BatteryTypeOK
  <2> QED BY <2>1 DEF InStep, Record, Steps
<1>2. /\ op' = NoOp /\ UNCHANGED <<inverter, users, up, cooling, off_since, time, facts>>
      /\ \/ /\ op.step = "START" /\ op.stage = "taken" /\ record' = op.rec /\ store' = store
         \/ /\ op.step = "START" /\ op.stage = "refused" /\ store' = NoValue /\ record' = record
         \/ /\ op.step = "RENEW" /\ op.stage = "taken" /\ record' = op.rec /\ store' = op.rec
         \/ /\ op.step = "RELEASE" /\ op.stage = "taken" /\ record' = NoValue /\ store' = NoValue
         \/ /\ op.step \in {"RENEW", "RELEASE"} /\ op.stage = "refused"
            /\ record' = record /\ store' = store
  BY DEF Finish, Returned
<1>3. /\ op'.stage = "idle" /\ op'.step = "NOTHING" /\ op'.rec = NoValue /\ op'.todo = <<>>
      /\ op' \in Ops
  BY <1>2 DEF NoOp, Ops, Times
<1>4. BatteryTypeOK'
  BY <1>1, <1>2, <1>3 DEF BatteryTypeOK, Ops
<1>5. record' = store'
  BY <1>1, <1>2 DEF InStep
<1>6. InStep'
  BY <1>1, <1>2, <1>3, <1>5 DEF InStep
<1>7. Noted'
  BY <1>1, <1>2, <1>3 DEF Noted, Theirs
<1>8. store' # NoValue => store'.prior = store.prior
  BY <1>1, <1>2
<1>9. Sent'
  BY <1>1, <1>2, <1>8 DEF Sent
<1>10. Unborrowed'
  <2>1. CASE op.step = "START" /\ op.stage = "refused"
    <3>1. inverter = op.rec.prior
      BY <2>1 DEF StartWaits
    <3> QED BY <1>1, <1>2, <3>1 DEF Noted, Theirs, Unborrowed
  <2>2. CASE op.step = "RELEASE" /\ op.stage = "taken"
    <3>1. \A q \in PauseRegisters(op.rec.prior) : inverter[q] = op.rec.prior[q]
      BY <2>2 DEF GivesBack
    <3>2. Effective(inverter) = Effective(op.rec.prior)
      <4>1. CASE op.rec.prior.mode = "OFF"
        BY <3>1, <4>1 DEF PauseRegisters, Effective
      <4>2. CASE op.rec.prior.mode # "OFF"
        <5>1. inverter.mode = op.rec.prior.mode /\ inverter.start = op.rec.prior.start
              /\ inverter.end = op.rec.prior.end
          BY <3>1, <4>2 DEF PauseRegisters, Registers
        <5>2. inverter = op.rec.prior
          BY <1>1, <5>1 DEF PauseSetting
        <5> QED BY <5>2
      <4> QED BY <4>1, <4>2
    <3>3. Effective(op.rec.prior) = Effective(users)
      BY <1>1 DEF Noted, Theirs
    <3> QED BY <1>2, <3>2, <3>3 DEF Unborrowed
  <2>3. CASE store' # NoValue
    BY <2>3 DEF Unborrowed
  <2> QED BY <1>1, <1>2, <2>1, <2>2, <2>3
<1>11. (StartWaits /\ GivesBack)'
  BY <1>3 DEF StartWaits, GivesBack
<1> QED BY <1>3, <1>4, <1>6, <1>7, <1>9, <1>10, <1>11

LEMMA CrashKeeps == ASSUME IInv, Crash PROVE IInv'
<1> USE DEF IInv
<1>1. /\ up' = FALSE /\ record' = NoValue /\ op' = NoOp /\ off_since' = NoValue
      /\ cooling' = [r \in Registers |-> NoValue]
      /\ UNCHANGED <<inverter, users, store, time, facts>>
  BY DEF Crash
<1>2. /\ op'.stage = "idle" /\ op'.step = "NOTHING" /\ op'.rec = NoValue /\ op'.todo = <<>>
      /\ op' \in Ops
  BY <1>1 DEF NoOp, Ops, Times
<1>3. BatteryTypeOK'
  BY <1>1, <1>2 DEF BatteryTypeOK, Ops, Registers
<1>4. (InStep /\ StartWaits /\ GivesBack)'
  BY <1>1, <1>2 DEF InStep, StartWaits, GivesBack
<1>5. (Noted /\ Unborrowed /\ Sent)'
  BY <1>1, <1>2 DEF Noted, Theirs, Unborrowed, Sent
<1> QED BY <1>2, <1>3, <1>4, <1>5

LEMMA RestartKeeps == ASSUME IInv, RestartHold PROVE IInv'
<1> USE DEF IInv
<1>1. /\ ~up /\ up' = TRUE /\ record' = store
      /\ UNCHANGED <<inverter, users, store, op, cooling, off_since, time, facts>>
  BY DEF RestartHold, Restored
<1>2. op.stage = "idle" /\ op.step = "NOTHING" /\ op.rec = NoValue
  BY <1>1 DEF InStep, NoOp
<1>3. BatteryTypeOK'
  BY <1>1 DEF BatteryTypeOK
<1>4. (InStep /\ StartWaits /\ GivesBack)'
  BY <1>1, <1>2 DEF InStep, StartWaits, GivesBack
<1>5. (Noted /\ Unborrowed /\ Sent)'
  BY <1>1 DEF Noted, Theirs, Unborrowed, Sent
<1> QED BY <1>1, <1>2, <1>3, <1>4, <1>5

LEMMA TickKeeps == ASSUME IInv, BatteryTick PROVE IInv'
<1> USE DEF IInv
<1>1. /\ time' = (time + 1) % HoldDay
      /\ record' = AgedRecord(record) /\ store' = AgedRecord(store)
      /\ op' = [op EXCEPT !.rec = AgedRecord(op.rec)]
      /\ UNCHANGED <<inverter, users, up, cooling, facts>>
  BY DEF BatteryTick
<1>2. /\ op \in Ops /\ record \in Record \cup {NoValue} /\ store \in Record \cup {NoValue}
      /\ op.rec \in Record \cup {NoValue}
  BY DEF BatteryTypeOK, Ops
<1>3. /\ op' \in Ops /\ op'.stage = op.stage /\ op'.step = op.step /\ op'.todo = op.todo
      /\ op'.rec = AgedRecord(op.rec)
  BY <1>1, <1>2, Aged DEF Ops
<1>4. BatteryTypeOK'
  <2>1. time' \in Times
    BY <1>1, Clock DEF BatteryTypeOK, Times
  <2>2. off_since' \in 0..ReleaseTicks \cup {NoValue}
    BY DEF BatteryTick, BatteryTypeOK
  <2>3. record' \in Record \cup {NoValue} /\ store' \in Record \cup {NoValue}
    BY <1>1, <1>2, Aged
  <2> QED BY <1>1, <1>3, <2>1, <2>2, <2>3 DEF BatteryTypeOK, Ops
<1>5. /\ record' = NoValue <=> record = NoValue
      /\ store' = NoValue <=> store = NoValue
      /\ op'.rec = NoValue <=> op.rec = NoValue
      /\ store # NoValue => store'.prior = store.prior
      /\ op.rec # NoValue => op'.rec.prior = op.rec.prior
      /\ record = store => record' = store'
      /\ store = op.rec => store' = op'.rec
  BY <1>1, <1>2, <1>3, Aged
<1>6. op.rec = NoValue => op' = op
  <2>1. ASSUME op.rec = NoValue PROVE op' = [op EXCEPT !.rec = op.rec]
    BY <1>1, <2>1 DEF AgedRecord
  <2> QED BY <1>2, <2>1 DEF Ops
<1>7. InStep'
  BY <1>1, <1>3, <1>5, <1>6 DEF InStep, NoOp, Steps
<1>8. (Noted /\ Unborrowed /\ Sent)'
  BY <1>1, <1>5 DEF Noted, Theirs, Unborrowed, Sent
<1>9. (StartWaits /\ GivesBack)'
  <2>1. op.step \in {"START", "RELEASE"} => op'.rec.prior = op.rec.prior
    BY <1>5 DEF InStep, NoOp
  <2> QED BY <1>1, <1>3, <2>1 DEF StartWaits, GivesBack
<1> QED BY <1>3, <1>4, <1>7, <1>8, <1>9

LEMMA CooldownKeeps == ASSUME IInv, CooldownEnds PROVE IInv'
<1> USE DEF IInv
<1>1. PICK r \in Registers : cooling' = [cooling EXCEPT ![r] = NoValue]
  BY DEF CooldownEnds
<1>2. UNCHANGED <<inverter, users, up, record, store, op, off_since, time, facts>>
  BY DEF CooldownEnds
<1>3. \A q \in Registers : cooling'[q] \in {cooling[q], NoValue}
  BY <1>1 DEF BatteryTypeOK, Registers
<1>4. BatteryTypeOK'
  BY <1>1, <1>2 DEF BatteryTypeOK, Registers
<1>5. Sent'
  BY <1>2, <1>3 DEF Sent
<1> QED BY <1>2, <1>4, <1>5
    DEF InStep, Noted, Theirs, Unborrowed, StartWaits, GivesBack

LEMMA TurnKeeps == ASSUME IInv, FactsTurn PROVE IInv'
<1> USE DEF IInv
<1>1. UNCHANGED <<inverter, users, up, record, store, op, cooling, off_since, time>>
  BY DEF FactsTurn
<1>2. PICK f \in Toggles : facts' = [facts EXCEPT ![f] = ~facts[f]]
  BY DEF FactsTurn
<1>3. facts' \in [enabled: BOOLEAN, charging: BOOLEAN, draining: BOOLEAN,
                  dry_run: BOOLEAN, reachable: BOOLEAN]
  BY <1>2 DEF BatteryTypeOK
<1>4. BatteryTypeOK'
  BY <1>1, <1>3 DEF BatteryTypeOK
<1> QED BY <1>1, <1>4
    DEF InStep, Noted, Theirs, Unborrowed, Sent, StartWaits, GivesBack

LEMMA UserKeeps == ASSUME IInv, UserSets PROVE IInv'
<1> USE DEF IInv
<1>1. /\ record = NoValue /\ store = NoValue /\ op = NoOp
      /\ users' \in PauseSetting /\ inverter' = users'
      /\ UNCHANGED <<up, record, store, op, cooling, off_since, time, facts>>
  BY DEF UserSets
<1>2. op.stage = "idle" /\ op.step = "NOTHING" /\ op.rec = NoValue
  BY <1>1 DEF NoOp
<1>3. BatteryTypeOK'
  BY <1>1 DEF BatteryTypeOK
<1>4. (InStep /\ Noted /\ Unborrowed /\ Sent)'
  BY <1>1, <1>2 DEF InStep, Noted, Unborrowed, Sent
<1>5. (StartWaits /\ GivesBack)'
  BY <1>1, <1>2 DEF StartWaits, GivesBack
<1> QED BY <1>1, <1>2, <1>3, <1>4, <1>5

LEMMA StutterKeeps == ASSUME IInv, UNCHANGED batteryVars PROVE IInv'
BY DEF IInv, batteryVars, BatteryTypeOK, InStep, Noted, Theirs, Unborrowed, Sent, StartWaits, GivesBack

LEMMA NextKeeps == ASSUME KeepsRecord, IInv, [BatteryNext]_batteryVars PROVE IInv'
BY RunKeeps, SaveKeeps, ApplyKeeps, WriteKeeps, FinishKeeps, CrashKeeps, RestartKeeps, TickKeeps,
   CooldownKeeps, TurnKeeps, UserKeeps, StutterKeeps DEF BatteryNext, HoldStep

LEMMA AlwaysIInv == ASSUME KeepsRecord PROVE BatterySpec => []IInv
<1>1. KeepsRecord
  OBVIOUS
<1>2. IInv /\ [BatteryNext]_batteryVars => IInv'
  BY <1>1, NextKeeps
<1> QED BY <1>2, InitIInv, PTL DEF BatterySpec

-----------------------------------------------------------------------------
(* The promises. *)

LEMMA SafeNow == ASSUME IInv PROVE UsersPauseIsSafe
<1> USE DEF IInv
<1>1. BorrowedOnRecord
  BY DEF BorrowedOnRecord, Unborrowed, Noted, Theirs
<1>2. ASSUME users.mode \in {"CHARGE", "BOTH"} PROVE inverter = users
  <2>1. users.mode # "OFF" /\ Effective(users) = users
    BY <1>2 DEF Effective
  <2>2. store = NoValue
    <3>1. ASSUME store # NoValue PROVE FALSE
      <4>1. Effective(store.prior) = users /\ store.prior.mode \notin {"CHARGE", "BOTH"}
        BY <2>1, <3>1 DEF Noted, Theirs
      <4>2. store.prior.mode # "OFF"
        BY <2>1, <4>1 DEF Effective
      <4> QED BY <1>2, <4>1, <4>2 DEF Effective
    <3> QED BY <3>1
  <2>3. Effective(inverter) = users
    BY <2>1, <2>2 DEF Unborrowed
  <2>4. inverter.mode # "OFF"
    BY <2>1, <2>3 DEF Effective
  <2> QED BY <2>3, <2>4 DEF Effective
<1> QED BY <1>1, <1>2 DEF UsersPauseIsSafe, ChargingPauseLeftAlone

\* Whenever the inverter does something else than the user asked for, the store holds the user's
\* pause, and a pause that stops charging is never touched (battery_hold.py:130, decide_hold),
\* whatever happens in between, unless a start stops half-way.
THEOREM PauseIsSafe == ASSUME KeepsRecord PROVE BatterySpec => []UsersPauseIsSafe
<1>1. BatterySpec => []IInv
  BY AlwaysIInv
<1>2. IInv => UsersPauseIsSafe
  BY SafeNow
<1> QED BY <1>1, <1>2, PTL

-----------------------------------------------------------------------------
(* The hold is the user's pause on loan: every step is one of the loan's, or none. *)


LEMMA LoanBegins == BatteryInit => Loan!Init
BY DEF BatteryInit, Loan!Init

LEMMA LoanGoesOn ==
  ASSUME KeepsRecord, IInv, IInv', [BatteryNext]_batteryVars
  PROVE  [Loan!Next]_(Loan!loanVars)
<1> USE DEF IInv
<1>1. CASE UNCHANGED <<inverter, users, store>>
  BY <1>1 DEF Loan!loanVars
<1>2. CASE SaveFirst
  <2>1. /\ store = NoValue /\ store' = op.rec /\ op.rec # NoValue /\ UNCHANGED <<inverter, users>>
    BY <1>2 DEF SaveFirst, SavedFirst, InStep, StartWaits, BatteryTypeOK, Steps, NoOp
  <2>2. Effective(op.rec.prior) = Effective(users)
    BY <2>1 DEF Noted, Theirs
  <2> QED BY <2>1, <2>2 DEF Loan!Next, Loan!Note
<1>3. CASE Write
  <2>1. store # NoValue /\ store' = store /\ users' = users
    BY <1>3 DEF Write, InStep, Steps, BatteryTypeOK
  <2>2. Effective(store.prior) = Effective(users)
    BY <2>1 DEF Noted, Theirs
  <2>3. inverter' \in PauseSetting
    BY DEF BatteryTypeOK
  <2> QED BY <2>1, <2>2, <2>3 DEF Loan!Next, Loan!Write
<1>4. CASE Finish
  <2>1. /\ UNCHANGED <<inverter, users>> /\ store # NoValue
        /\ store' \in {store, NoValue, op.rec} /\ op.rec.prior = store.prior
    BY <1>4 DEF Finish, InStep, Steps, BatteryTypeOK
  <2>2. CASE store' = NoValue
    <3>1. Effective(inverter) = Effective(users)
      BY <2>1, <2>2 DEF Unborrowed
    <3> QED BY <2>1, <2>2, <3>1 DEF Loan!Next, Loan!Forget
  <2>3. CASE store' # NoValue
    BY <2>1, <2>3 DEF Loan!loanVars
  <2> QED BY <2>2, <2>3
<1>5. CASE BatteryTick
  <2>1. /\ UNCHANGED <<inverter, users>> /\ store' = AgedRecord(store)
        /\ store \in Record \cup {NoValue}
    BY <1>5 DEF BatteryTick, BatteryTypeOK
  <2> QED BY <2>1, Aged DEF Loan!loanVars
<1>6. CASE UserSets
  <2>1. /\ store = NoValue /\ store' = NoValue /\ users' \in PauseSetting /\ inverter' = users'
    BY <1>6 DEF UserSets
  <2>2. Effective(inverter) = Effective(users)
    BY <2>1 DEF Unborrowed
  <2> QED BY <2>1, <2>2 DEF Loan!Next, Loan!Set
<1>7. CASE Run \/ Apply \/ Crash \/ RestartHold \/ CooldownEnds \/ FactsTurn \/ UNCHANGED batteryVars
  BY <1>1, <1>7 DEF Run, Apply, Crash, RestartHold, CooldownEnds, FactsTurn, batteryVars
<1> QED BY <1>2, <1>3, <1>4, <1>5, <1>6, <1>7 DEF BatteryNext, HoldStep

\* The hold borrows the user's pause and gives it back before it forgets it (docs/concepts.md,
\* "Hold Battery While EV Charges"): BatteryHold implements PauseLoan.
THEOREM HoldIsLoan == ASSUME KeepsRecord PROVE BatterySpec => OnLoan
<1>1. KeepsRecord
  OBVIOUS
<1>2. BatterySpec => []IInv
  BY AlwaysIInv
<1>3. IInv /\ IInv' /\ [BatteryNext]_batteryVars => [Loan!Next]_(Loan!loanVars)
  BY <1>1, LoanGoesOn
<1> QED BY <1>2, <1>3, LoanBegins, PTL DEF BatterySpec, OnLoan, Loan!Spec

-----------------------------------------------------------------------------
(* The feed. *)
(* A feed that held old values has been noted, and with the note the last    *)
(* update is forgotten.                                                      *)
GapInv ==
  /\ lastUpdate => gap \cap {"frozen", "paused", "stale"} = {}
  /\ noted # {} => ~lastUpdate

LEMMA GapsKept == GapInv /\ [RepairNext]_repairVars => GapInv'
<1> SUFFICES ASSUME GapInv, [RepairNext]_repairVars PROVE GapInv'
  OBVIOUS
<1>1. CASE GoodCycle
  <2>1. noted' = {} /\ gap' = {}
    BY <1>1 DEF GoodCycle
  <2> QED BY <2>1 DEF GapInv
<1>2. CASE FailedCycle
  <2>1. /\ noted' = noted \cup ({FeedIssue} \ {"none"})
        /\ lastUpdate' = LastUpdateKept /\ gap' = IF LastUpdateKept THEN gap \cup {feed} ELSE {}
    BY <1>2 DEF FailedCycle
  <2>2. CASE LastUpdateKept
    <3>1. lastUpdate /\ (FeedIssue = "none" \/ FeedIssue \in noted)
      BY <2>2 DEF LastUpdateKept
    <3>2. noted = {} /\ FeedIssue = "none"
      BY <3>1 DEF GapInv
    <3>3. feed \notin {"frozen", "paused", "stale"}
      BY <3>2 DEF FeedIssue
    <3> QED BY <2>1, <2>2, <3>1, <3>2, <3>3 DEF GapInv
  <2>3. CASE ~LastUpdateKept
    BY <2>1, <2>3 DEF GapInv
  <2> QED BY <2>2, <2>3
<1>3. CASE FailedSetup \/ Reload \/ RestartHomeAssistant
  <2>1. NewCoordinator
    BY <1>3 DEF FailedSetup, Reload, RestartHomeAssistant, StartAgain
  <2> QED BY <2>1 DEF NewCoordinator, GapInv
<1>4. CASE \/ RefreshRepairs \/ (\E i \in Level : FixLevel(i)) \/ FixTariff \/ AcceptSystem
           \/ WorldTurns \/ UNCHANGED repairVars
  <2>1. UNCHANGED <<lastUpdate, noted, gap>>
    BY <1>4 DEF RefreshRepairs, FixLevel, FixTariff, AcceptSystem, WorldTurns, repairVars
  <2> QED BY <2>1 DEF GapInv
<1> QED BY <1>1, <1>2, <1>3, <1>4 DEF RepairNext

\* A good cycle after a gap in which the feed was frozen, paused or stale (reader.py, coordinator.py)
\* does not take the time since the last update for energy.
THEOREM GapsStayOut == RepairInit /\ [][RepairNext]_repairVars => GapsNotBooked
<1>1. RepairInit => GapInv
  BY DEF RepairInit, GapInv
<1>2. GapInv /\ [RepairNext]_repairVars
        => [GoodCycle /\ lastUpdate => gap \cap {"frozen", "paused", "stale"} = {}]_repairVars
  BY DEF GapInv
<1> QED BY <1>1, <1>2, GapsKept, PTL DEF GapsNotBooked

-----------------------------------------------------------------------------
(* The devices of the entry. *)
(* Once Home Assistant runs, the charger's integration has created the       *)
(* entities of a charger that is there.                                      *)
SeenWhenRunning ==
  /\ homeAssistant \in {"starting", "running"}
  /\ homeAssistant = "running" /\ chargerThere => visible

LEMMA SeenKept == SeenWhenRunning /\ [EntryNext]_entryVars => SeenWhenRunning'
<1> SUFFICES ASSUME SeenWhenRunning, [EntryNext]_entryVars PROVE SeenWhenRunning'
  OBVIOUS
<1>1. CASE RestartEntry \/ OthersLoad
  BY <1>1 DEF RestartEntry, OthersLoad, SeenWhenRunning
<1>2. CASE ChargerComesOrGoes
  <2>1. visible' = (homeAssistant = "running" /\ chargerThere') /\ homeAssistant' = homeAssistant
    BY <1>2 DEF ChargerComesOrGoes
  <2> QED BY <2>1, Zenon DEF SeenWhenRunning
<1>3. CASE \/ Build \/ FirstRefresh \/ FinishSetup \/ Unload \/ EntryCycle \/ EntryMidnight
           \/ (\E k \in Keys : \E v \in Values[k] : SaveOption(k, v)) \/ DeleteDevice
           \/ UNCHANGED entryVars
  <2>1. UNCHANGED <<homeAssistant, chargerThere, visible>>
    BY <1>3 DEF Build, FirstRefresh, FinishSetup, Unload, EntryCycle, EntryMidnight, SaveOption,
                DeleteDevice, entryVars, outside
  <2> QED BY <2>1 DEF SeenWhenRunning
<1> QED BY <1>1, <1>2, <1>3 DEF EntryNext

LEMMA ChargerStays ==
  ASSUME SeenWhenRunning, FinishSetup, chargerThere
  PROVE  "ev_charger" \notin registry \ registry'
BY DEF SeenWhenRunning, FinishSetup, ChargerMayExist

LEMMA OthersKeep ==
  ASSUME [EntryNext]_entryVars, phase = "refreshed", ~FinishSetup
  PROVE  registry \subseteq registry'
<1>1. registry' = registry
  BY DEF EntryNext, Build, FirstRefresh, Unload, EntryCycle, EntryMidnight, SaveOption, RestartEntry,
         OthersLoad, ChargerComesOrGoes, DeleteDevice, entryVars, outside, setupVars
<1> QED BY <1>1

\* A set-up never deletes the entities of a charger that is there, and with them what the user made of
\* them (optional_devices.py): whatever was saved, reloaded or restarted, and in whatever order the
\* integrations were loaded.
THEOREM ChargerKept == EntryInit /\ [][EntryNext]_entryVars => CustomisationsKept
<1>1. EntryInit => SeenWhenRunning
  BY DEF EntryInit, SeenWhenRunning
<1>2. SeenWhenRunning /\ [EntryNext]_entryVars
        => [phase = "refreshed" /\ chargerThere => "ev_charger" \notin registry \ registry']_entryVars
  BY ChargerStays, OthersKeep
<1> QED BY <1>1, <1>2, SeenKept, PTL DEF CustomisationsKept
=============================================================================
