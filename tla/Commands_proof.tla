--------------------------- MODULE Commands_proof ---------------------------
(***************************************************************************)
(* Proofs about what is asked of the inverter and of the integration: the  *)
(* slots of a schedule (ExportSchedule), the controls of a user            *)
(* (UserControls) and the pages of Configure (SettingsPages), and about    *)
(* the bills (BillAudit), each for any values of its constants, and then   *)
(* side by side (MCCommands).                                              *)
(*                                                                         *)
(* Slots: what a call knows of the registers at each of its steps is true  *)
(* of them as long as no step relied on an entity that trails its register *)
(* (ExportInv).  The order of two writes is a matter of hours around a     *)
(* clock, and the longest force that fits is the greatest of a finite set. *)
(*                                                                         *)
(* Controls: a temperature is kept in the entry's data, the other controls *)
(* in the store, so the invariant says what each place holds of the wish   *)
(* at each point of a start (ControlInv).                                  *)
(*                                                                         *)
(* Pages: what was entered is what the forms held, and with nothing edited *)
(* it is what is in force already (PagesInv).                              *)
(*                                                                         *)
(* Bills: a row keeps its tariff only where that is not the one of the day *)
(* before, a period is a run of days after the last one, and what it cost  *)
(* is what its rows did and what was used before there were any (AuditInv  *)
(* with BooksKept).  A sum is a recursive function; that it is there, and  *)
(* what it is of two lists, follows from the least number at which that    *)
(* fails.  So does what a start makes of the midnights that were missed.   *)
(***************************************************************************)
EXTENDS MCCommands, SequenceTheorems, WellFoundedInduction, NaturalsInduction, TLAPS

-----------------------------------------------------------------------------
(* Hours around the clock. *)
LEMMA Divided ==
  ASSUME NEW a \in Int, NEW D \in Nat \ {0}
  PROVE  /\ a % D \in 0..(D - 1)
         /\ a \div D \in Int
         /\ a = D * (a \div D) + (a % D)
OBVIOUS

LEMMA RemainderUnique ==
  ASSUME NEW D \in Nat \ {0}, NEW q \in Int, NEW u \in Int,
         NEW r \in 0..(D - 1), NEW s \in 0..(D - 1), D * q + r = D * u + s
  PROVE  r = s
<1>1. CASE q = u
  BY <1>1
<1>2. CASE q > u
  <2>1. D * (q - u) >= D
    BY <1>2
  <2>2. D * (q - u) = D * q - D * u
    OBVIOUS
  <2> QED BY <2>1, <2>2
<1>3. CASE q < u
  <2>1. D * (u - q) >= D
    BY <1>3
  <2>2. D * (u - q) = D * u - D * q
    OBVIOUS
  <2> QED BY <2>1, <2>2
<1> QED BY <1>1, <1>2, <1>3

(* From one hour to another, and on to a third, short of a full turn. *)
LEMMA FurtherOn ==
  ASSUME NEW D \in Nat \ {0}, NEW a \in Int, NEW b \in Int, NEW c \in Int,
         ((b - a) % D) + ((c - b) % D) < D
  PROVE  (c - a) % D = ((b - a) % D) + ((c - b) % D)
<1> DEFINE g == (b - a) % D
           h == (c - b) % D
           f == (c - a) % D
           q == (b - a) \div D
           u == (c - b) \div D
           v == (c - a) \div D
<1>1. g \in 0..(D - 1) /\ q \in Int /\ b - a = D * q + g
  <2>1. b - a \in Int
    OBVIOUS
  <2> QED BY <2>1, Divided
<1>2. h \in 0..(D - 1) /\ u \in Int /\ c - b = D * u + h
  <2>1. c - b \in Int
    OBVIOUS
  <2> QED BY <2>1, Divided
<1>3. f \in 0..(D - 1) /\ v \in Int /\ c - a = D * v + f
  <2>1. c - a \in Int
    OBVIOUS
  <2> QED BY <2>1, Divided
<1>4. g + h < D
  BY Zenon
<1> HIDE DEF g, h, f, q, u, v
<1>5. D * (q + u) = D * q + D * u
  BY <1>1, <1>2
<1>6. D * (q + u) + (g + h) = D * v + f
  BY <1>1, <1>2, <1>3, <1>5
<1>7. q + u \in Int /\ g + h \in 0..(D - 1)
  BY <1>1, <1>2, <1>4
<1>8. g + h = f
  BY <1>6, <1>7, <1>3, RemainderUnique
<1> QED BY <1>8 DEF g, h, f

(* The way back. *)
LEMMA WayBack ==
  ASSUME NEW D \in Nat \ {0}, NEW a \in Int, NEW b \in Int, (b - a) % D # 0
  PROVE  (a - b) % D = D - ((b - a) % D)
<1> DEFINE g == (b - a) % D
           f == (a - b) % D
           q == (b - a) \div D
           v == (a - b) \div D
<1>1. g \in 0..(D - 1) /\ q \in Int /\ b - a = D * q + g
  <2>1. b - a \in Int
    OBVIOUS
  <2> QED BY <2>1, Divided
<1>2. f \in 0..(D - 1) /\ v \in Int /\ a - b = D * v + f
  <2>1. a - b \in Int
    OBVIOUS
  <2> QED BY <2>1, Divided
<1>3. g # 0
  OBVIOUS
<1> HIDE DEF g, f, q, v
<1>4. D * (-1 - q) = -D - D * q
  BY <1>1
<1>5. D * (-1 - q) + (D - g) = D * v + f
  BY <1>1, <1>2, <1>4
<1>6. -1 - q \in Int /\ D - g \in 0..(D - 1)
  BY <1>1, <1>3
<1>7. D - g = f
  BY <1>5, <1>6, <1>2, RemainderUnique
<1> QED BY <1>7 DEF g, f

(* A window with an earlier start has the hours of the one it was made from, *)
(* as long as the two together are short of a full turn.                     *)
LEMMA EarlierStart ==
  ASSUME NEW o \in Int, NEW p \in Int, NEW e \in Int,
         ((p - o) % ExportDay) + ((e - p) % ExportDay) < ExportDay
  PROVE  Covers(<<o, e>>, <<p, e>>)
<1> SUFFICES ASSUME NEW h \in HoursIn(<<p, e>>) PROVE h \in HoursIn(<<o, e>>)
  BY DEF Covers
<1>0. ExportDay \in Nat \ {0}
  BY ExportAssumption
<1>1. h \in 0..ExportDay-1 /\ (h - p) % ExportDay < (e - p) % ExportDay
  BY DEF HoursIn
<1> DEFINE s == (p - o) % ExportDay
           x == (h - p) % ExportDay
           k == (e - p) % ExportDay
<1>2. s \in 0..ExportDay-1 /\ x \in 0..ExportDay-1 /\ k \in 0..ExportDay-1
  <2>1. p - o \in Int /\ h - p \in Int /\ e - p \in Int
    BY <1>0, <1>1
  <2> QED BY <2>1, <1>0, Divided
<1>3. s + k < ExportDay /\ x < k
  BY <1>1, Zenon
<1>4. s + x < ExportDay
  <2> HIDE DEF s, x, k
  <2> QED BY <1>0, <1>2, <1>3
<1>5. (h - o) % ExportDay = s + x
  <2>1. h \in Int
    BY <1>0, <1>1
  <2>2. ((p - o) % ExportDay) + ((h - p) % ExportDay) < ExportDay
    BY <1>4
  <2> QED BY <2>1, <2>2, <1>0, FurtherOn
<1>6. (e - o) % ExportDay = s + k
  BY <1>3, <1>0, FurtherOn
<1> HIDE DEF s, x, k
<1>7. s + x < s + k
  BY <1>2, <1>3
<1>8. (h - o) % ExportDay < (e - o) % ExportDay
  BY <1>5, <1>6, <1>7
<1> QED BY <1>1, <1>8 DEF HoursIn

LEMMA WholeTyped ==
  ASSUME NEW w \in WholeWindows
  PROVE  /\ w[1] \in Int /\ w[2] \in Int /\ w = <<w[1], w[2]>>
         /\ 2 * ((w[2] - w[1]) % ExportDay) < ExportDay
<1>0. ExportDay \in Nat \ {0}
  BY ExportAssumption
<1>1. CASE w \in ExportWindows
  <2>1. w \in (0..ExportDay-1) \X (0..ExportDay-1)
    BY <1>1, ExportAssumption
  <2>2. w[1] \in 0..ExportDay-1 /\ w[2] \in 0..ExportDay-1 /\ w = <<w[1], w[2]>>
    BY <2>1
  <2> QED BY <1>0, <1>1, <2>2, ExportAssumption
<1>2. CASE w = Unused
  <2>1. w[1] = 0 /\ w[2] = 0 /\ w = <<w[1], w[2]>>
    BY <1>2 DEF Unused
  <2>2. 0 % ExportDay = 0
    <3>1. 0 % ExportDay \in 0..(ExportDay - 1) /\ 0 \div ExportDay \in Int
          /\ 0 = ExportDay * (0 \div ExportDay) + (0 % ExportDay)
      BY <1>0, Divided
    <3>2. ExportDay * 0 + 0 = 0 /\ 0 \in 0..(ExportDay - 1)
      BY <1>0
    <3> DEFINE r == 0 % ExportDay
               q == 0 \div ExportDay
    <3>3. r \in 0..(ExportDay - 1) /\ q \in Int /\ ExportDay * q + r = ExportDay * 0 + 0
      BY <3>1, <3>2
    <3> HIDE DEF r, q
    <3>4. r = 0
      BY <3>2, <3>3, <1>0, RemainderUnique
    <3> QED BY <3>4 DEF r
  <2>3. w[2] - w[1] = 0
    BY <2>1
  <2> QED BY <1>0, <2>1, <2>2, <2>3
<1> QED BY <1>1, <1>2 DEF WholeWindows

(* The end goes first exactly when the window moves later by at most half a  *)
(* day; then, and otherwise, nothing of one of the two windows is lost.      *)
MovesLater(o, w) == (w[1] - o[1]) % ExportDay \in 1..(ExportDay \div 2)

LEMMA EndFirstCovers ==
  ASSUME NEW o \in WholeWindows, NEW w \in WholeWindows, MovesLater(o, w)
  PROVE  Covers(<<o[1], w[2]>>, w)
<1>0. ExportDay \in Nat \ {0}
  BY ExportAssumption
<1>1. o[1] \in Int /\ w[1] \in Int /\ w[2] \in Int /\ w = <<w[1], w[2]>>
      /\ 2 * ((w[2] - w[1]) % ExportDay) < ExportDay
  BY WholeTyped
<1>2. w[1] - o[1] \in Int /\ w[2] - w[1] \in Int
  BY <1>1
<1> DEFINE s == (w[1] - o[1]) % ExportDay
           k == (w[2] - w[1]) % ExportDay
           half == ExportDay \div 2
<1>3. s \in 0..(ExportDay - 1) /\ k \in 0..(ExportDay - 1) /\ s \in 1..half /\ 2 * k < ExportDay
  BY <1>0, <1>1, <1>2, Divided DEF MovesLater
<1>4. half \in Int /\ 2 * half <= ExportDay
  BY <1>0
<1>5. s + k < ExportDay
  <2> HIDE DEF s, k, half
  <2> QED BY <1>0, <1>3, <1>4
<1>6. Covers(<<o[1], w[2]>>, <<w[1], w[2]>>)
  BY <1>1, <1>5, EarlierStart
<1> QED BY <1>1, <1>6

LEMMA StartFirstCovers ==
  ASSUME NEW o \in WholeWindows, NEW w \in WholeWindows, ~MovesLater(o, w)
  PROVE  Covers(<<w[1], o[2]>>, o)
<1>0. ExportDay \in Nat \ {0}
  BY ExportAssumption
<1>1. w[1] \in Int /\ o[1] \in Int /\ o[2] \in Int /\ o = <<o[1], o[2]>>
      /\ 2 * ((o[2] - o[1]) % ExportDay) < ExportDay
  BY WholeTyped
<1>2. w[1] - o[1] \in Int /\ o[1] - w[1] \in Int /\ o[2] - o[1] \in Int
  BY <1>1
<1> DEFINE s == (w[1] - o[1]) % ExportDay
           t == (o[1] - w[1]) % ExportDay
           k == (o[2] - o[1]) % ExportDay
           half == ExportDay \div 2
<1>3. /\ s \in 0..(ExportDay - 1) /\ t \in 0..(ExportDay - 1) /\ k \in 0..(ExportDay - 1)
      /\ ~(s \in 1..half) /\ 2 * k < ExportDay
  BY <1>0, <1>1, <1>2, Divided DEF MovesLater
<1>4. half \in Int /\ 2 * half >= ExportDay - 1
  BY <1>0
<1>5. t = 0 \/ s = ExportDay - t
  BY <1>0, <1>1, WayBack
<1>6. t + k < ExportDay
  <2> HIDE DEF s, t, k, half
  <2> QED BY <1>0, <1>3, <1>4, <1>5
<1>7. Covers(<<w[1], o[2]>>, <<o[1], o[2]>>)
  BY <1>1, <1>6, EarlierStart
<1> QED BY <1>1, <1>7
-----------------------------------------------------------------------------
(* What a call knows of the inverter, step by step, as long as no step       *)
(* relied on an entity that did not show its register.                       *)
Now(r) == <<r.start, r.end>>
Fields == {"kind", "window", "target", "at", "order", "restore", "sure", "ordered", "old", "was",
           "result"}

Halfway(c) == IF c.order = <<"end", "start">> THEN <<c.old[1], c.window[2]>>
              ELSE <<c.window[1], c.old[2]>>

Asks(which, c) ==
  /\ DOMAIN c = Fields
  /\ c.window \in WholeWindows /\ c.kind \in {"slot", "plan"}
  /\ which = "charge" => c.kind = "slot"
  /\ c.restore \in BOOLEAN /\ c.sure \in BOOLEAN
  /\ c.restore => which = "discharge"

\* What the switch and the target will be left at.
Keeps(which, c, r) ==
  /\ c.kind = "plan" /\ c.at # "target" => r.target = c.target
  /\ c.kind = "slot" /\ which = "discharge" => c.was \in {"on", "off"} /\ (c.was = "on" => c.restore)
                                              /\ (c.restore => c.was = "on")
  /\ c.kind = "slot" /\ which # "discharge" => r.switch = c.was

Moving(c) == /\ c.order \in {<<"end", "start">>, <<"start", "end">>}
             /\ c.ordered => (c.order = <<"end", "start">> <=> MovesLater(c.old, c.window))

Good(which, c, r, l) ==
  c.at # "idle" =>
  /\ Asks(which, c) /\ Keeps(which, c, r)
  /\ c.at \in {"target", "off", "first", "second", "on", "enable"}
  /\ c.at = "target" => c.kind = "plan" /\ ~c.restore /\ Now(r) = c.old
  /\ c.at = "off" => c.restore /\ Now(r) = c.old
  /\ c.at = "first" => Moving(c) /\ (Now(r) = c.old \/ (l = "call" /\ Now(r) = Halfway(c)))
  /\ c.at = "second" => Moving(c) /\ (Now(r) = Halfway(c) \/ (l = "call" /\ Now(r) = c.window))
  /\ c.at \in {"first", "second"} /\ which = "discharge" => r.switch = "off"
  /\ c.at \in {"on", "enable"} => Now(r) = c.window
  /\ c.at = "on" => c.restore
  /\ c.at = "enable" => c.kind = "plan"

ExportInv ==
  /\ slot \in {"charge", "discharge", "bare"} /\ doubt \in BOOLEAN
  /\ DOMAIN register = Entities /\ DOMAIN displayed = Entities
  /\ register.switch \in {"on", "off"}
  /\ stop # "none" => slot = "discharge"
  /\ call.at = "idle" => lock # "call"
  /\ forced.asked \in Nat /\ forced.sent \in Nat /\ forced.sent <= forced.asked
  /\ RunsWhole
  /\ ~doubt => Good(slot, call, register, lock)

LEMMA EndedIdle ==
  ASSUME NEW x PROVE Ended(x).at = "idle" /\ Ended(x).result = x
BY DEF Ended, Resting

(* A window that is about to be sent. *)
LEMMA SendGood ==
  ASSUME NEW c, NEW l, Asks(slot, c), ~Trails,
         Now(register) = c.old, slot = "discharge" => register.switch = "off",
         Keeps(slot, c, register), c.kind = "plan" => register.target = c.target
  PROVE  Good(slot, SendWindow(c), register, l) /\ SendWindow(c).result \in {c.result, "no"}
         /\ (SendWindow(c).at = "idle" => SendWindow(c).result = "no")
<1> DEFINE later == EndFirst(c.window)
           d == [c EXCEPT !.at = "first", !.ordered = reachable,
                   !.order = IF later THEN <<"end", "start">> ELSE <<"start", "end">>]
<1>1. CASE ~({c.window[1], c.window[2]} \subseteq Offered)
  BY <1>1, EndedIdle DEF SendWindow, Good
<1>2. CASE {c.window[1], c.window[2]} \subseteq Offered
  <2>1. SendWindow(c) = d
    BY <1>2 DEF SendWindow
  <2>2. /\ DOMAIN d = Fields /\ d.at = "first" /\ d.ordered = reachable
        /\ d.order = IF later THEN <<"end", "start">> ELSE <<"start", "end">>
        /\ d.kind = c.kind /\ d.window = c.window /\ d.target = c.target /\ d.restore = c.restore
        /\ d.sure = c.sure /\ d.old = c.old /\ d.was = c.was /\ d.result = c.result
    BY DEF Asks, Fields
  <2>3. <<"end", "start">> # <<"start", "end">>
    OBVIOUS
  <2>4. reachable => (later <=> MovesLater(c.old, c.window))
    <3>1. displayed.start = register.start /\ c.old[1] = register.start
      BY DEF Trails, Now
    <3> QED BY <3>1 DEF EndFirst, MovesLater
  <2> HIDE DEF d, later
  <2>5. Moving(d)
    BY <2>2, <2>3, <2>4 DEF Moving
  <2>6. Asks(slot, d) /\ Keeps(slot, d, register)
    BY <2>2 DEF Asks, Keeps
  <2> QED BY <2>1, <2>2, <2>5, <2>6 DEF Good
<1> QED BY <1>1, <1>2

LEMMA DoneGood ==
  ASSUME NEW c, NEW l, Asks(slot, c), Now(register) = c.window,
         c.kind = "plan" => register.target = c.target
  PROVE  Good(slot, SlotDone(c), register, l)
         /\ (SlotDone(c).at = "idle" => c.kind = "slot" /\ SlotDone(c).result = IF c.sure THEN "sure" ELSE "unsure")
<1>1. CASE c.kind = "plan"
  <2> DEFINE d == [c EXCEPT !.at = "enable"]
  <2>1. SlotDone(c) = d
    BY <1>1 DEF SlotDone
  <2>2. /\ DOMAIN d = Fields /\ d.at = "enable" /\ d.kind = c.kind /\ d.window = c.window
        /\ d.target = c.target /\ d.restore = c.restore /\ d.sure = c.sure /\ d.old = c.old /\ d.was = c.was
    BY DEF Asks, Fields
  <2> HIDE DEF d
  <2>3. Asks(slot, d) /\ Keeps(slot, d, register)
    BY <2>2, <1>1 DEF Asks, Keeps
  <2> QED BY <1>1, <2>1, <2>2, <2>3 DEF Good
<1>2. CASE c.kind = "slot"
  <2>1. SlotDone(c) = Ended(IF c.sure THEN "sure" ELSE "unsure")
    BY <1>2 DEF SlotDone
  <2> QED BY <1>2, <2>1, EndedIdle DEF Good
<1> QED BY <1>1, <1>2 DEF Asks

(* A slot that is about to be written. *)
LEMMA WriteSlotGood ==
  ASSUME NEW c, NEW l, Asks(slot, c), ~Trails, ~c.restore, register.switch \in {"on", "off"},
         Now(register) = c.old, c.kind = "plan" => register.target = c.target,
         c.kind = "slot" => c.was = register.switch, slot \in {"charge", "discharge", "bare"}
  PROVE  /\ Good(slot, WriteSlot(c), register, l)
         /\ WriteSlot(c).at = "idle" /\ c.kind = "plan" => WriteSlot(c).result = "no"
<1>1. /\ displayed.start = register.start /\ displayed.end = register.end
      /\ displayed.switch = register.switch
  BY DEF Trails
<1> DEFINE Same == reachable /\ <<displayed.start, displayed.end>> = c.window
           d == [c EXCEPT !.at = "off", !.restore = TRUE]
<1>2. CASE Same
  <2>1. WriteSlot(c) = SlotDone(c) /\ Now(register) = c.window
    BY <1>1, <1>2 DEF WriteSlot, Now
  <2> QED BY <2>1, DoneGood DEF Asks
<1>3. CASE ~Same /\ slot \in {"charge", "bare"}
  <2>1. WriteSlot(c) = SendWindow(c)
    BY <1>3 DEF WriteSlot, WithScheduleOff
  <2>2. Keeps(slot, c, register)
    BY <1>3 DEF Keeps, Asks
  <2> QED BY <1>3, <2>1, <2>2, SendGood DEF Asks
<1>4. CASE ~Same /\ slot = "discharge" /\ ~reachable
  <2>1. WriteSlot(c) = Ended("no")
    BY <1>4 DEF WriteSlot, WithScheduleOff
  <2> QED BY <2>1, EndedIdle DEF Good
<1>5. CASE ~Same /\ slot = "discharge" /\ reachable /\ register.switch = "off"
  <2>1. WriteSlot(c) = SendWindow(c)
    BY <1>1, <1>5 DEF WriteSlot, WithScheduleOff
  <2>2. Keeps(slot, c, register)
    BY <1>5 DEF Keeps, Asks
  <2> QED BY <1>5, <2>1, <2>2, SendGood DEF Asks
<1>6. CASE ~Same /\ slot = "discharge" /\ reachable /\ register.switch = "on"
  <2>1. WriteSlot(c) = d
    BY <1>1, <1>6 DEF WriteSlot, WithScheduleOff
  <2>2. /\ DOMAIN d = Fields /\ d.at = "off" /\ d.kind = c.kind /\ d.window = c.window
        /\ d.target = c.target /\ d.restore = TRUE /\ d.sure = c.sure /\ d.old = c.old /\ d.was = c.was
    BY DEF Asks, Fields
  <2> HIDE DEF d
  <2>3. Asks(slot, d) /\ Keeps(slot, d, register)
    BY <2>2, <1>6 DEF Asks, Keeps
  <2> QED BY <1>6, <2>1, <2>2, <2>3 DEF Good
<1> QED BY <1>2, <1>3, <1>4, <1>5, <1>6
(* The call after a write on which it could rely. *)
LEMMA OnwardsGood ==
  ASSUME NEW s, NEW l, call.at # "idle", Good(slot, call, register, lock),
         register.switch \in {"on", "off"}, slot \in {"charge", "discharge", "bare"},
         Truthy(s) => register[WriteOf[1]] = WriteOf[2],
         call.at \in {"target", "off"} => ~Trails
  PROVE  /\ Good(slot, Onwards(call, s), register, l)
         /\ Onwards(call, s).at = "idle" /\ Onwards(call, s).result = "sure"
              => /\ Now(register) = call.window
                 /\ register.switch = IF call.kind = "plan" THEN "on" ELSE call.was
                 /\ call.kind = "plan" => register.target = call.target
<1> DEFINE sure == [call EXCEPT !.sure = @ /\ Confirmed(s)]
           rest == Onwards(call, s)
<1>a. Asks(slot, call) /\ Keeps(slot, call, register)
  BY DEF Good
<1>b. /\ DOMAIN sure = Fields /\ sure.at = call.at /\ sure.kind = call.kind
      /\ sure.window = call.window /\ sure.target = call.target /\ sure.restore = call.restore
      /\ sure.old = call.old /\ sure.was = call.was /\ sure.order = call.order
      /\ sure.ordered = call.ordered /\ sure.sure \in BOOLEAN
  BY <1>a DEF Asks, Fields
<1>c. Confirmed(s) => Truthy(s)
  BY DEF Confirmed, Truthy
<1>d. Asks(slot, sure)
  BY <1>a, <1>b DEF Asks
<1>e. Keeps(slot, sure, register)
  BY <1>a, <1>b DEF Keeps
<1>1. CASE call.at = "target"
  <2>1. WriteOf = <<"target", call.target>>
    BY <1>1 DEF WriteOf
  <2>2. CASE ~Truthy(s)
    <3>1. rest = Ended("no")
      BY <1>1, <2>2 DEF Onwards
    <3> QED BY <3>1, EndedIdle DEF Good
  <2>3. CASE Truthy(s)
    <3>1. rest = WriteSlot(call)
      BY <1>1, <2>3 DEF Onwards
    <3>2. /\ register.target = call.target /\ Now(register) = call.old /\ call.kind = "plan"
          /\ ~call.restore /\ ~Trails
      BY <1>1, <2>1, <2>3 DEF Good
    <3> QED BY <1>a, <3>1, <3>2, WriteSlotGood
  <2> QED BY <2>2, <2>3
<1>2. CASE call.at = "off"
  <2>1. WriteOf = <<"switch", "off">>
    BY <1>2 DEF WriteOf
  <2>2. CASE ~Confirmed(s)
    <3>1. rest = Ended(IF Truthy(s) THEN "unsure" ELSE "no")
      BY <1>2, <2>2 DEF Onwards
    <3> QED BY <3>1, EndedIdle DEF Good
  <2>3. CASE Confirmed(s)
    <3>1. rest = SendWindow(call)
      BY <1>2, <2>3 DEF Onwards
    <3>2. register.switch = "off" /\ Now(register) = call.old
      BY <1>2, <1>c, <2>1, <2>3 DEF Good
    <3>3. call.kind = "plan" => register.target = call.target
      BY <1>a, <1>2 DEF Keeps
    <3>4. SendWindow(call).at = "idle" => SendWindow(call).result = "no"
      BY <1>2, <1>a, <3>2, <3>3, SendGood
    <3> QED BY <1>2, <1>a, <3>1, <3>2, <3>3, <3>4, SendGood
  <2> QED BY <2>2, <2>3
<1>3. CASE call.at = "first"
  <2> DEFINE e == call.order[1]
             d == [sure EXCEPT !.at = "second"]
  <2>1. WriteOf = <<e, call.window[IF e = "start" THEN 1 ELSE 2]>>
    BY <1>3 DEF WriteOf
  <2>2. CASE ~Truthy(s)
    <3>1. rest = Ended("no")
      BY <1>3, <2>2 DEF Onwards
    <3> QED BY <3>1, EndedIdle DEF Good
  <2>3. CASE Truthy(s)
    <3>1. rest = d
      BY <1>3, <2>3 DEF Onwards
    <3>2. /\ DOMAIN d = Fields /\ d.at = "second" /\ d.kind = sure.kind
          /\ d.window = sure.window /\ d.target = sure.target /\ d.restore = sure.restore
          /\ d.old = sure.old /\ d.was = sure.was /\ d.order = sure.order
          /\ d.ordered = sure.ordered /\ d.sure = sure.sure
      BY <1>b DEF Fields
    <3>3. Moving(call) /\ (Now(register) = call.old \/ Now(register) = Halfway(call))
          /\ (slot = "discharge" => register.switch = "off")
      BY <1>3 DEF Good
    <3>4. register[e] = call.window[IF e = "start" THEN 1 ELSE 2]
      BY <2>1, <2>3
    <3>5. Now(register) = Halfway(call)
      <4>1. CASE call.order = <<"end", "start">>
        <5>1. e = "end" /\ register.end = call.window[2]
          BY <3>4, <4>1
        <5>2. Halfway(call) = <<call.old[1], call.window[2]>>
          BY <4>1 DEF Halfway
        <5> QED BY <3>3, <5>1, <5>2 DEF Now
      <4>2. CASE call.order = <<"start", "end">>
        <5>1. e = "start" /\ register.start = call.window[1]
          BY <3>4, <4>2
        <5>2. Halfway(call) = <<call.window[1], call.old[2]>>
          BY <4>2 DEF Halfway
        <5> QED BY <3>3, <5>1, <5>2 DEF Now
      <4> QED BY <3>3, <4>1, <4>2 DEF Moving
    <3> HIDE DEF d, sure
    <3>6. Moving(d) /\ Halfway(d) = Halfway(call)
      BY <1>b, <3>2, <3>3 DEF Moving, Halfway
    <3>7. Asks(slot, d) /\ Keeps(slot, d, register)
      BY <1>3, <1>b, <1>d, <1>e, <3>2 DEF Asks, Keeps
    <3> QED BY <3>1, <3>2, <3>3, <3>5, <3>6, <3>7 DEF Good
  <2> QED BY <2>2, <2>3
<1>4. CASE call.at = "second"
  <2> DEFINE e == call.order[2]
             d == [call EXCEPT !.at = "on"]
  <2>1. WriteOf = <<e, call.window[IF e = "start" THEN 1 ELSE 2]>>
    BY <1>4 DEF WriteOf
  <2>2. CASE ~Truthy(s)
    <3>1. rest = Ended("no")
      BY <1>4, <2>2 DEF Onwards
    <3> QED BY <3>1, EndedIdle DEF Good
  <2>3. ASSUME Truthy(s) PROVE Now(register) = call.window
    <3>3. Moving(call) /\ (Now(register) = Halfway(call) \/ Now(register) = call.window)
      BY <1>4 DEF Good
    <3>4. register[e] = call.window[IF e = "start" THEN 1 ELSE 2]
      BY <2>1, <2>3
    <3>5. call.window = <<call.window[1], call.window[2]>>
      BY <1>a, WholeTyped DEF Asks
    <3>6. CASE call.order = <<"end", "start">>
      <4>1. e = "start" /\ register.start = call.window[1]
        BY <3>4, <3>6
      <4>2. Halfway(call) = <<call.old[1], call.window[2]>>
        BY <3>6 DEF Halfway
      <4> QED BY <3>3, <3>5, <4>1, <4>2 DEF Now
    <3>7. CASE call.order = <<"start", "end">>
      <4>1. e = "end" /\ register.end = call.window[2]
        BY <3>4, <3>7
      <4>2. Halfway(call) = <<call.window[1], call.old[2]>>
        BY <3>7 DEF Halfway
      <4> QED BY <3>3, <3>5, <4>1, <4>2 DEF Now
    <3> QED BY <3>3, <3>6, <3>7 DEF Moving
  <2>4. CASE Truthy(s) /\ call.restore /\ sure.sure
    <3>1. rest = d
      BY <1>4, <2>4 DEF Onwards
    <3>2. /\ DOMAIN d = Fields /\ d.at = "on" /\ d.kind = call.kind
          /\ d.window = call.window /\ d.target = call.target /\ d.restore = call.restore
          /\ d.old = call.old /\ d.was = call.was /\ d.sure = call.sure
      BY <1>a DEF Asks, Fields
    <3> HIDE DEF d
    <3>3. Asks(slot, d) /\ Keeps(slot, d, register)
      BY <1>4, <1>a, <3>2 DEF Asks, Keeps
    <3> QED BY <2>3, <2>4, <3>1, <3>2, <3>3 DEF Good
  <2>5. CASE Truthy(s) /\ ~(call.restore /\ sure.sure)
    <3>1. rest = SlotDone(sure)
      BY <1>4, <2>5 DEF Onwards
    <3>2. Now(register) = sure.window /\ (sure.kind = "plan" => register.target = sure.target)
      BY <1>4, <1>b, <1>e, <2>3, <2>5 DEF Keeps
    <3> HIDE DEF sure
    <3>3. /\ Good(slot, SlotDone(sure), register, l)
          /\ SlotDone(sure).at = "idle"
               => sure.kind = "slot" /\ SlotDone(sure).result = IF sure.sure THEN "sure" ELSE "unsure"
      BY <1>d, <3>2, DoneGood
    <3>4. slot = "discharge" => register.switch = "off"
      BY <1>4 DEF Good
    <3>5. ASSUME rest.at = "idle", rest.result = "sure" PROVE register.switch = call.was
      <4>1. sure.sure /\ ~call.restore /\ call.kind = "slot"
        BY <1>b, <2>5, <3>1, <3>3, <3>5
      <4> QED BY <1>a, <3>4, <4>1 DEF Keeps
    <3> QED BY <1>b, <3>1, <3>2, <3>3, <3>5
  <2> QED BY <2>2, <2>4, <2>5
<1>5. CASE call.at = "on"
  <2>1. WriteOf = <<"switch", "on">>
    BY <1>5 DEF WriteOf
  <2>2. CASE ~Truthy(s)
    <3>1. rest = Ended("no")
      BY <1>5, <2>2 DEF Onwards
    <3> QED BY <3>1, EndedIdle DEF Good
  <2>3. CASE Truthy(s)
    <3>1. rest = SlotDone(sure)
      BY <1>5, <2>3 DEF Onwards
    <3>2. /\ Now(register) = sure.window /\ (sure.kind = "plan" => register.target = sure.target)
          /\ call.restore /\ register.switch = "on" /\ Now(register) = call.window
      BY <1>5, <1>b, <1>e, <2>1, <2>3 DEF Keeps, Good
    <3> HIDE DEF sure
    <3>3. /\ Good(slot, SlotDone(sure), register, l)
          /\ SlotDone(sure).at = "idle" => sure.kind = "slot"
      BY <1>d, <3>2, DoneGood
    <3>4. call.kind = "slot" => call.was = "on"
      BY <1>a, <3>2 DEF Asks, Keeps
    <3> QED BY <1>b, <3>1, <3>2, <3>3, <3>4
  <2> QED BY <2>2, <2>3
<1>6. CASE call.at = "enable"
  <2>1. WriteOf = <<"switch", "on">>
    BY <1>6 DEF WriteOf
  <2>2. rest = Ended(IF Confirmed(s) THEN "sure" ELSE IF Truthy(s) THEN "unsure" ELSE "no")
    BY <1>6 DEF Onwards
  <2>3. rest.at = "idle" /\ (rest.result = "sure" => Confirmed(s))
    BY <2>2, EndedIdle
  <2>4. call.kind = "plan" /\ Now(register) = call.window /\ register.target = call.target
    BY <1>6, <1>a DEF Good, Keeps
  <2> QED BY <1>c, <2>1, <2>3, <2>4 DEF Good
<1> QED BY <1>1, <1>2, <1>3, <1>4, <1>5, <1>6 DEF Good
-----------------------------------------------------------------------------
(* A force lasts no longer than asked. *)
LEMMA Longest ==
  ASSUME NEW S \in SUBSET Nat, NEW m \in Nat, S # {}, \A x \in S : x <= m
  PROVE  \E p \in S : \A q \in S : p >= q
<1> DEFINE R == {pair \in Nat \X Nat : pair[1] < pair[2]}
           T == {m - x : x \in S}
<1>1. OpToRel(<, Nat) = R
  BY Zenon DEF OpToRel
<1>2. IsWellFoundedOn(R, Nat)
  BY <1>1, NatLessThanWellFounded
<1>3. T \in SUBSET Nat /\ T # {}
  <2>1. \A x \in S : x \in Nat /\ m - x \in Nat
    OBVIOUS
  <2> QED BY <2>1
<1>4. PICK y \in T : \A z \in T : ~(<<z, y>> \in R)
  BY <1>2, <1>3, WFMin
<1>5. PICK p \in S : y = m - p
  OBVIOUS
<1>6. ASSUME NEW q \in S PROVE p >= q
  <2>1. m - q \in T /\ y \in Nat /\ m - q \in Nat
    BY <1>3
  <2>2. ~(m - q < y)
    BY <1>4, <2>1
  <2> QED BY <1>5, <2>2
<1> QED BY <1>6

LEMMA ForceFits ==
  ASSUME NEW m \in Nat, NEW P \in SUBSET Nat, NEW n \in Nat
  PROVE  ForceFor(m, P, n) \in Nat /\ ForceFor(m, P, n) <= m
<1> DEFINE fits == {p \in P : p <= m}
<1>1. CASE fits = {}
  BY <1>1 DEF ForceFor
<1>2. CASE fits # {}
  <2>1. \E p \in fits : \A q \in fits : p >= q
    BY <1>2, Longest
  <2>2. (CHOOSE p \in fits : \A q \in fits : p >= q) \in fits
    BY <2>1
  <2> DEFINE best == CHOOSE p \in fits : \A q \in fits : p >= q
  <2>3. best \in Nat /\ best <= m
    BY <2>2
  <2>4. ForceFor(m, P, n) = m \/ ForceFor(m, P, n) = best
    BY <1>2, Zenon DEF ForceFor
  <2> HIDE DEF best
  <2> QED BY <2>3, <2>4
<1> QED BY <1>1, <1>2

-----------------------------------------------------------------------------
(* Every step keeps what a call knows. *)
LEMMA ExportStarts == ExportInit => ExportInv
<1> SUFFICES ASSUME ExportInit PROVE ExportInv
  OBVIOUS
<1>1. /\ call.at = "idle" /\ forced.asked = 0 /\ forced.sent = 0 /\ lock = "free" /\ stop = "none"
      /\ doubt = FALSE /\ displayed = register /\ slot \in {"charge", "discharge", "bare"}
  BY DEF ExportInit, Resting
<1>2. PICK w \in WholeWindows, t \in DischargeTargets, s \in {"on", "off"} :
        register = [target |-> t, start |-> w[1], end |-> w[2], switch |-> s]
  BY DEF ExportInit
<1>3. Held = w
  BY <1>2, WholeTyped DEF Held
<1>4. DOMAIN register = Entities /\ register.switch = s
  BY <1>2 DEF Entities
<1>5. RunsWhole
  BY <1>3 DEF RunsWhole
<1>6. Good(slot, call, register, lock)
  BY <1>1 DEF Good
<1>7. register.switch \in {"on", "off"} /\ DOMAIN displayed = Entities
  BY <1>1, <1>4
<1>8. forced.asked \in Nat /\ forced.sent \in Nat /\ forced.sent <= forced.asked
  BY <1>1
<1> QED BY <1>1, <1>4, <1>5, <1>6, <1>7, <1>8 DEF ExportInv

LEMMA AskKeeps ==
  ASSUME ExportInv, NEW kind \in {"slot", "plan"}, NEW w \in WholeWindows, NEW t,
         kind = "plan" => slot # "charge", Ask(kind, w, t)
  PROVE  ExportInv'
<1> DEFINE new == [Resting EXCEPT !.kind = kind, !.window = w, !.target = t,
                               !.old = <<register.start, register.end>>, !.was = register.switch]
           d == [new EXCEPT !.at = "target"]
<1>1. UNCHANGED <<slot, register, displayed, reachable, stop, lock, recent, forced>>
      /\ call.at = "idle"
  BY DEF Ask, inverterSide
<1>2. /\ DOMAIN new = Fields /\ new.kind = kind /\ new.window = w /\ new.target = t
      /\ new.old = Now(register) /\ new.was = register.switch /\ ~new.restore
      /\ new.restore \in BOOLEAN /\ new.sure \in BOOLEAN
  BY DEF Resting, Fields, Now
<1>3. /\ DOMAIN d = Fields /\ d.at = "target" /\ d.kind = kind /\ d.window = w
      /\ d.old = Now(register) /\ ~d.restore /\ d.restore \in BOOLEAN /\ d.sure \in BOOLEAN
  BY DEF Resting, Fields, Now
<1>4. IF kind = "plan" THEN call' = d /\ doubt' = doubt
      ELSE call' = WriteSlot(new) /\ doubt' = (doubt \/ Trails)
  BY DEF Ask
<1>5. lock # "call"
  BY <1>1 DEF ExportInv
<1> HIDE DEF new, d
<1>6. CASE kind = "plan"
  <2>1. Asks(slot, d) /\ Keeps(slot, d, register)
    BY <1>3, <1>6 DEF Asks, Keeps
  <2>2. Good(slot, d, register, lock)
    BY <1>3, <1>6, <2>1 DEF Good
  <2> QED BY <1>1, <1>4, <1>5, <1>6, <2>2 DEF ExportInv, RunsWhole, Held
<1>7. CASE kind = "slot"
  <2>1. Asks(slot, new)
    BY <1>2, <1>7 DEF Asks
  <2>2. ASSUME ~Trails PROVE Good(slot, call', register, lock)
    <3>1. register.switch \in {"on", "off"} /\ slot \in {"charge", "discharge", "bare"}
      BY DEF ExportInv
    <3> QED BY <1>2, <1>4, <1>7, <2>1, <2>2, <3>1, WriteSlotGood
  <2>3. doubt' \in BOOLEAN /\ (~doubt' => ~doubt /\ ~Trails)
    BY <1>4, <1>7 DEF ExportInv, Trails
  <2> QED BY <1>1, <1>5, <2>2, <2>3 DEF ExportInv, RunsWhole, Held
<1> QED BY <1>6, <1>7

(* A write that went on with a status. *)
LEMMA GoesOnKeeps ==
  ASSUME ExportInv, NEW s, call.at # "idle", GoesOn(s), lock' = "free",
         UNCHANGED <<inverterSide, stop, forced>>
  PROVE  ExportInv'
<1>1. UNCHANGED <<slot, register, displayed, reachable, stop, forced>>
  BY DEF inverterSide
<1>2. call' = Onwards(call, s)
  BY DEF GoesOn
<1>3. doubt' \in BOOLEAN /\ (~doubt' => /\ ~doubt /\ (Truthy(s) => register[WriteOf[1]] = WriteOf[2])
                                         /\ (call.at \in {"target", "off"} => ~Trails))
  BY DEF GoesOn, Relied, ExportInv
<1>4. ASSUME ~doubt' PROVE Good(slot, call', register, "free")
  <2>1. /\ Good(slot, call, register, lock) /\ register.switch \in {"on", "off"}
        /\ slot \in {"charge", "discharge", "bare"}
    BY <1>3, <1>4 DEF ExportInv
  <2> QED BY <1>2, <1>3, <1>4, <2>1, OnwardsGood
<1> QED BY <1>1, <1>3, <1>4 DEF ExportInv, RunsWhole, Held
(* A write of the call that is sent, and may have reached the inverter. *)
LEMMA SendKeeps ==
  ASSUME ExportInv, ~doubt, call.at # "idle", lock = "free",
         register' \in {register, [register EXCEPT ![WriteOf[1]] = WriteOf[2]]}, lock' = "call",
         UNCHANGED <<slot, displayed, call, stop, doubt, forced>>
  PROVE  ExportInv'
<1>1. /\ DOMAIN register = Entities /\ register.switch \in {"on", "off"} /\ lock # "call"
      /\ Good(slot, call, register, lock) /\ RunsWhole /\ DOMAIN register' = Entities
  BY DEF ExportInv
<1>a. Asks(slot, call) /\ Keeps(slot, call, register)
  BY <1>1 DEF Good
<1>2. SUFFICES /\ register'.switch \in {"on", "off"}
               /\ slot = "discharge" /\ register'.switch = "on" => Now(register') \in WholeWindows
               /\ Good(slot, call, register', "call")
  BY <1>1 DEF ExportInv, RunsWhole, Held, Now
<1>3. slot = "discharge" /\ register.switch = "on" => Now(register) \in WholeWindows
  BY <1>1 DEF RunsWhole, Held, Now, ExportInv
<1>4. CASE register' = register
  <2>1. Good(slot, call, register, "call")
    BY <1>1 DEF Good
  <2> QED BY <1>1, <1>3, <1>4, <2>1
<1>5. CASE register' = [register EXCEPT ![WriteOf[1]] = WriteOf[2]] /\ call.at = "target"
  <2>1. WriteOf = <<"target", call.target>>
    BY <1>5 DEF WriteOf
  <2>2. register'.start = register.start /\ register'.end = register.end
        /\ register'.switch = register.switch
    BY <1>1, <1>5, <2>1 DEF Entities
  <2>3. Keeps(slot, call, register')
    BY <1>a, <1>5, <2>2 DEF Keeps
  <2> QED BY <1>1, <1>3, <1>5, <2>2, <2>3 DEF Good, Now
<1>6. CASE register' = [register EXCEPT ![WriteOf[1]] = WriteOf[2]] /\ call.at \in {"off", "on", "enable"}
  <2>1. WriteOf[1] = "switch" /\ WriteOf[2] \in {"on", "off"} /\ (WriteOf[2] = "on" => call.at # "off")
    BY <1>6 DEF WriteOf
  <2>2. /\ register'.start = register.start /\ register'.end = register.end
        /\ register'.target = register.target /\ register'.switch = WriteOf[2]
    BY <1>1, <1>6, <2>1 DEF Entities
  <2>3. Keeps(slot, call, register')
    <3>1. call.kind = "slot" => slot = "discharge"
      BY <1>1, <1>6 DEF Good, Asks
    <3> QED BY <1>a, <1>6, <2>2, <3>1 DEF Keeps
  <2>4. Now(register') = Now(register)
    BY <2>2 DEF Now
  <2>5. call.at \in {"on", "enable"} => Now(register) \in WholeWindows
    BY <1>1 DEF Good, Asks
  <2> QED BY <1>1, <1>6, <2>1, <2>2, <2>3, <2>4, <2>5 DEF Good
<1>7. CASE register' = [register EXCEPT ![WriteOf[1]] = WriteOf[2]] /\ call.at \in {"first", "second"}
  <2> DEFINE e == call.order[IF call.at = "first" THEN 1 ELSE 2]
             v == call.window[IF e = "start" THEN 1 ELSE 2]
  <2>1. WriteOf = <<e, v>>
    BY <1>7 DEF WriteOf
  <2>2. Moving(call) /\ (slot = "discharge" => register.switch = "off")
    BY <1>1, <1>7 DEF Good
  <2>3. call.order = <<"end", "start">> \/ call.order = <<"start", "end">>
    BY <2>2 DEF Moving
  <2>4. e \in {"start", "end"}
    BY <1>7, <2>3
  <2>5. register' = [register EXCEPT ![e] = v]
    BY <1>7, <2>1
  <2>6. register'.switch = register.switch /\ register'.target = register.target
    BY <1>1, <2>4, <2>5 DEF Entities
  <2>7. Keeps(slot, call, register')
    BY <1>a, <2>6 DEF Keeps
  <2>8. call.window = <<call.window[1], call.window[2]>>
    BY <1>a, WholeTyped DEF Asks
  <2>9. IF e = "start" THEN register'.start = call.window[1] /\ register'.end = register.end
                       ELSE register'.end = call.window[2] /\ register'.start = register.start
    BY <1>1, <2>4, <2>5 DEF Entities
  <2>10. CASE call.at = "first"
    <3>1. Now(register) = call.old
      BY <1>1, <2>10 DEF Good
    <3>2. register.start = call.old[1] /\ register.end = call.old[2]
      BY <3>1 DEF Now
    <3>3. e = IF call.order = <<"end", "start">> THEN "end" ELSE "start"
      BY <2>3, <2>10
    <3>4. Now(register') = Halfway(call)
      BY <2>9, <3>2, <3>3 DEF Now, Halfway
    <3> QED BY <1>1, <1>a, <2>2, <2>6, <2>7, <2>10, <3>4 DEF Good
  <2>11. CASE call.at = "second"
    <3>1. Now(register) = Halfway(call)
      BY <1>1, <2>11 DEF Good
    <3>3. e = IF call.order = <<"end", "start">> THEN "start" ELSE "end"
      BY <2>3, <2>11
    <3>4. Now(register') = call.window
      BY <2>8, <2>9, <3>1, <3>3 DEF Now, Halfway
    <3> QED BY <1>1, <1>a, <2>2, <2>6, <2>7, <2>11, <3>4 DEF Good
  <2> QED BY <1>7, <2>10, <2>11
<1>8. call.at \in {"target", "off", "first", "second", "on", "enable"}
  BY <1>1 DEF Good
<1> QED BY <1>4, <1>5, <1>6, <1>7, <1>8

(* A switch that is turned off, and a call that goes on with its step. *)
LEMMA QuietKeeps ==
  ASSUME ExportInv, lock # "call", lock' # "call",
         register' = register \/ (slot = "discharge" /\ register' = [register EXCEPT !.switch = "off"]),
         stop' # "none" => slot = "discharge", DOMAIN displayed' = Entities,
         UNCHANGED <<slot, call, doubt, forced>>
  PROVE  ExportInv'
<1>1. /\ DOMAIN register = Entities /\ register.switch \in {"on", "off"}
  BY DEF ExportInv
<1>2. /\ register'.start = register.start /\ register'.end = register.end
      /\ register'.target = register.target /\ DOMAIN register' = Entities
      /\ register'.switch = register.switch \/ (slot = "discharge" /\ register'.switch = "off")
  BY <1>1 DEF Entities
<1>3. ASSUME Good(slot, call, register, lock) PROVE Good(slot, call, register', lock')
  <2>1. Now(register') = Now(register)
    BY <1>2 DEF Now
  <2>2. Keeps(slot, call, register) => Keeps(slot, call, register')
    BY <1>2 DEF Keeps
  <2> QED BY <1>2, <1>3, <2>1, <2>2 DEF Good
<1>4. RunsWhole'
  BY <1>2 DEF ExportInv, RunsWhole, Held
<1> QED BY <1>1, <1>2, <1>3, <1>4 DEF ExportInv
LEMMA UntouchedKeeps ==
  ASSUME ExportInv, DOMAIN displayed' = Entities,
         UNCHANGED <<slot, register, call, stop, lock, doubt, forced>>
  PROVE  ExportInv'
BY DEF ExportInv, RunsWhole, Held

LEMMA ForceKeeps ==
  ASSUME ExportInv, forced'.asked \in Nat, forced'.sent \in Nat, forced'.sent <= forced'.asked,
         UNCHANGED <<slot, register, displayed, call, stop, lock, doubt>>
  PROVE  ExportInv'
BY DEF ExportInv, RunsWhole, Held

\* A write of the call that comes back.
Returns == \E s : GoesOn(s) /\ call.at # "idle" /\ lock' = "free"
                  /\ UNCHANGED <<inverterSide, stop, forced>>

LEMMA WritesOrReturns ==
  ASSUME CallWrites, DOMAIN register = Entities
  PROVE  \/ Returns
         \/ /\ call.at # "idle" /\ lock = "free" /\ lock' = "call"
            /\ register' \in {register, [register EXCEPT ![WriteOf[1]] = WriteOf[2]]}
            /\ UNCHANGED <<slot, displayed, call, stop, doubt, forced>>
BY Zenon DEF CallWrites, Returns, inverterSide

LEMMA OthersReturn ==
  ASSUME CallRaises \/ CallReadsBack, ExportInv
  PROVE  Returns
<1>1. call.at # "idle"
  BY DEF CallRaises, CallReadsBack, ExportInv
<1> QED BY <1>1, Zenon DEF CallRaises, CallReadsBack, Returns

LEMMA ExportKeeps == ExportInv /\ [ExportNext]_exportVars => ExportInv'
<1> SUFFICES ASSUME ExportInv, [ExportNext]_exportVars PROVE ExportInv'
  OBVIOUS
<1>0. DOMAIN register = Entities /\ DOMAIN displayed = Entities
  BY DEF ExportInv
<1>1. ASSUME NEW w \in WholeWindows, Ask("slot", w, Nothing) PROVE ExportInv'
  BY <1>1, AskKeeps
<1>2. ASSUME NEW w \in ExportWindows, NEW t \in DischargeTargets, slot # "charge", Ask("plan", w, t)
      PROVE  ExportInv'
  BY <1>2, AskKeeps DEF WholeWindows
<1>3. ASSUME Returns PROVE ExportInv'
  <2>1. PICK s : GoesOn(s) /\ call.at # "idle" /\ lock' = "free"
                 /\ UNCHANGED <<inverterSide, stop, forced>>
    BY <1>3 DEF Returns
  <2> QED BY <2>1, GoesOnKeeps
<1>4. ASSUME ~doubt, CallWrites PROVE ExportInv'
  BY <1>0, <1>3, <1>4, WritesOrReturns, SendKeeps
<1>5. ASSUME CallRaises \/ CallReadsBack PROVE ExportInv'
  BY <1>3, <1>5, OthersReturn
<1>6. ASSUME AskStop PROVE ExportInv'
  BY <1>6 DEF AskStop, ExportInv, RunsWhole, Held, inverterSide
<1>7. ASSUME StopWrites PROVE ExportInv'
  <2>1. /\ slot = "discharge" /\ lock # "call" /\ lock' # "call"
        /\ register' = register \/ register' = [register EXCEPT !.switch = "off"]
        /\ UNCHANGED <<slot, displayed, call, doubt, forced>>
    BY <1>7 DEF StopWrites, ExportInv
  <2> QED BY <1>0, <2>1, QuietKeeps
<1>8. ASSUME StopEnds PROVE ExportInv'
  <2>1. /\ lock # "call" /\ lock' # "call" /\ stop' = "none" /\ register' = register
        /\ UNCHANGED <<slot, displayed, call, doubt, forced>>
    BY <1>8 DEF StopEnds, inverterSide
  <2> QED BY <1>0, <2>1, QuietKeeps
<1>9. ASSUME NEW m \in Asked, NEW p \in Presets, NEW n \in NumberLimits, StartForce(m, p, n)
      PROVE  ExportInv'
  <2>1. m \in Nat /\ p \in SUBSET Nat /\ n \in Nat
    BY ExportAssumption
  <2>2. /\ forced' = [asked |-> m, sent |-> ForceFor(m, p, n)]
        /\ UNCHANGED <<slot, register, displayed, call, stop, lock, doubt>>
    BY <1>9 DEF StartForce, inverterSide
  <2>3. forced'.asked \in Nat /\ forced'.sent \in Nat /\ forced'.sent <= forced'.asked
    BY <2>1, <2>2, ForceFits
  <2> QED BY <2>2, <2>3, ForceKeeps
<1>10. ASSUME EndForce PROVE ExportInv'
  <2>1. forced'.asked = 0 /\ forced'.sent = 0
        /\ UNCHANGED <<slot, register, displayed, call, stop, lock, doubt>>
    BY <1>10 DEF EndForce, inverterSide
  <2> QED BY <2>1, ForceKeeps
<1>11. ASSUME Publish \/ Cool \/ Reach PROVE ExportInv'
  BY <1>0, <1>11, UntouchedKeeps DEF Publish, Cool, Reach, inverterSide
<1>12. ASSUME NEW w \in WholeWindows, NEW s \in {"on", "off"}, App(w, s) PROVE ExportInv'
  <2>1. /\ register'.start = w[1] /\ register'.end = w[2] /\ register'.switch = s
        /\ DOMAIN register' = Entities
    BY <1>0, <1>12 DEF App, Entities
  <2>2. Held' = w
    BY <2>1, WholeTyped DEF Held
  <2>3. call'.at = "idle" /\ lock' = "free" /\ stop' = "none" /\ doubt' = FALSE
        /\ UNCHANGED <<slot, displayed, forced>>
    BY <1>12 DEF App, Resting
  <2> QED BY <2>1, <2>2, <2>3 DEF ExportInv, RunsWhole, Good
<1>13. ASSUME UNCHANGED exportVars PROVE ExportInv'
  BY <1>0, <1>13, UntouchedKeeps DEF exportVars
<1> QED BY <1>1, <1>2, <1>4, <1>5, <1>6, <1>7, <1>8, <1>9, <1>10, <1>11, <1>12, <1>13
        DEF ExportNext, Calls, StopCalls

-----------------------------------------------------------------------------
(* What it promises. *)
LEMMA InvIsSafe == ExportInv => RunsWhole /\ NeverAGap /\ forced.sent <= forced.asked
<1> SUFFICES ASSUME ExportInv PROVE NeverAGap
  BY DEF ExportInv
<1> SUFFICES ASSUME call.at \in {"first", "second"}, call.ordered, call.old \in WholeWindows, ~doubt
             PROVE  Covers(Held, call.old) \/ Covers(Held, call.window)
  BY DEF NeverAGap
<1>1. /\ call.window \in WholeWindows /\ Moving(call)
      /\ Held = call.old \/ Held = Halfway(call) \/ Held = call.window
  BY DEF ExportInv, Good, Asks, Held, Now
<1>2. ASSUME NEW w PROVE Covers(w, w)
  BY DEF Covers
<1>3. CASE call.order = <<"end", "start">>
  BY <1>1, <1>2, <1>3, EndFirstCovers DEF Moving, Halfway
<1>4. CASE call.order = <<"start", "end">>
  <2>1. <<"end", "start">> # <<"start", "end">>
    OBVIOUS
  <2> QED BY <1>1, <1>2, <1>4, <2>1, StartFirstCovers DEF Moving, Halfway
<1> QED BY <1>1, <1>3, <1>4 DEF Moving

LEMMA ReturnsOrNot ==
  ASSUME ExportInv, [ExportNext]_exportVars
  PROVE  \/ ~doubt /\ Returns
         \/ call.at = "idle"
         \/ call'.at # "idle"
         \/ call'.result = "none"
<1>1. ASSUME CallWrites PROVE Returns \/ call' = call
  BY <1>1, WritesOrReturns DEF ExportInv
<1>2. ASSUME CallRaises \/ CallReadsBack PROVE Returns
  BY <1>2, OthersReturn
<1>3. ASSUME NEW k, NEW w, NEW t, Ask(k, w, t) PROVE call.at = "idle"
  BY <1>3 DEF Ask
<1>4. ASSUME StopCalls \/ Publish \/ Cool \/ Reach \/ EndForce \/ UNCHANGED exportVars
      PROVE call' = call
  BY <1>4 DEF StopCalls, AskStop, StopWrites, StopEnds, Publish, Cool, Reach, EndForce, exportVars
<1>5. ASSUME NEW m, NEW p, NEW n, StartForce(m, p, n) PROVE call' = call
  BY <1>5 DEF StartForce
<1>6. ASSUME NEW w, NEW s, App(w, s) PROVE call'.result = "none"
  BY <1>6 DEF App, Resting
<1> QED BY <1>1, <1>2, <1>3, <1>4, <1>5, <1>6, Zenon DEF ExportNext, Calls

LEMMA StepsAreSafe ==
  ASSUME ExportInv, [ExportNext]_exportVars
  PROVE  LeavesAsAsked /\ StaysOff
<1> SUFFICES ASSUME ~doubt, Returns, ~doubt', call.at # "idle", call'.at = "idle"
             PROVE  LeavesAsAsked /\ StaysOff
  BY ReturnsOrNot DEF LeavesAsAsked, StaysOff
<1>1. PICK s : GoesOn(s) /\ UNCHANGED <<inverterSide, stop, forced>>
  BY DEF Returns
<1>2. register' = register /\ call' = Onwards(call, s)
  BY <1>1 DEF GoesOn, inverterSide
<1>3. /\ Truthy(s) => register[WriteOf[1]] = WriteOf[2]
      /\ call.at \in {"target", "off"} => ~Trails
  BY <1>1 DEF GoesOn, Relied
<1>4. /\ Good(slot, call, register, lock) /\ register.switch \in {"on", "off"}
      /\ slot \in {"charge", "discharge", "bare"}
  BY DEF ExportInv
<1>5. LeavesAsAsked
  BY <1>2, <1>3, <1>4, OnwardsGood DEF LeavesAsAsked, Held, Now
<1>6. StaysOff
  BY <1>2, <1>4 DEF StaysOff, Good, Asks
<1> QED BY <1>5, <1>6

\* A schedule never runs on a mix of two windows, between the two writes of a window the inverter holds
\* at least the old one or the new one, a call that is known to have worked leaves what was asked, one
\* that was not confirmed leaves the schedule off (schedules.py, windows.py, controls.py), and no force
\* is longer than asked (force.py): for every day, window, preset and limit, whatever write fails or is
\* lost, as long as no step relied on an entity that did not show its register.
THEOREM ExportSafe == ExportSpec => ExportIsSafe
<1>1. ExportInv /\ [ExportNext]_exportVars => [LeavesAsAsked /\ StaysOff]_exportVars
  BY StepsAreSafe
<1> QED BY <1>1, ExportStarts, ExportKeeps, InvIsSafe, PTL DEF ExportSpec, ExportIsSafe

-----------------------------------------------------------------------------
(* The controls of a user, over starts and stops. *)
Temps == {"target", "min"}

\* A control is put back from the store, or from nowhere as it was made.
InStore(e) == store[e] = wish[e] \/ (store[e] = Unset /\ wish[e] = Factory[e])

Valued(u) == /\ DOMAIN u = Controls
             /\ \A e \in Switches : u[e] \in {"on", "off"}
             /\ u["target"] \in Int /\ u["min"] \in Int
             /\ u["level"] \in ChargeLevels

ControlsTyped ==
  /\ running \in {"down", "adding", "up"} /\ added \subseteq Controls
  /\ lost \in {"nothing", "switches", "all"}
  /\ {unsaved, blank, available, refresh, answering} \subseteq BOOLEAN
  /\ DOMAIN used = {"control", "skip"} /\ Valued(used.control) /\ Valued(face) /\ Valued(wish)
  /\ DOMAIN entryData = Temps
  /\ DOMAIN store = Controls
  /\ \A e \in Switches : store[e] \in {"on", "off", "unavailable", Unset}
  /\ \A e \in Temps : store[e] \in Int \cup {Unset}
  /\ store["level"] \in ChargeLevels \cup {Unset}
  /\ running = "up" => added = Controls
  /\ running = "down" => added = {}

\* The temperatures: what is saved is what was asked for, and what is used keeps the gap.
TempsKept ==
  /\ \A e \in Temps : entryData[e] = wish[e] \/ (entryData[e] = Unset /\ wish[e] = Factory[e])
  /\ wish["min"] < wish["target"]
  /\ running # "down" => used.control["min"] < used.control["target"]
  /\ running # "down" /\ lost # "all" => \A e \in Temps : used.control[e] = wish[e]

\* A control that is not back yet is as it was made.
NotBackYet ==
  running = "adding" =>
    \A e \in Controls \ added : face[e] = Factory[e] /\ (e \notin Temps => used.control[e] = Factory[e])

\* What the store has of a control it will be asked for.
StoreKept ==
  /\ lost # "all" => \A e \in NumberKeys : e \notin added \/ ~unsaved => InStore(e)
  /\ lost = "nothing" => \A e \in Switches :
                           /\ e \notin added => InStore(e)
                           /\ ~unsaved => InStore(e) \/ (blank /\ store[e] = "unavailable")
  /\ lost # "all" => \A e \in {"enabled", "schedule"} :
                       e \notin added \/ ~unsaved => (store[e] = "on" => wish[e] = "on")

ShownIsUsed == \A e \in Switches \cap added : face[e] = used.control[e]

PlanSettled == running # "down" /\ available /\ ~refresh => acted = Decided(used.control, used.skip)

ControlInv == /\ ControlsTyped /\ TempsKept /\ NotBackYet /\ StoreKept /\ ShownIsUsed
              /\ AsAsked /\ NothingTurnsOn /\ PlanSettled

LEMMA FactoryValued == Valued(Factory) /\ Factory["min"] < Factory["target"]
BY UserControlsAssumption DEF Valued, Factory, Controls, Switches, NumberKeys

LEMMA ControlStarts == ControlInit => ControlInv
<1> SUFFICES ASSUME ControlInit PROVE ControlInv
  OBVIOUS
<1>1. /\ running = "up" /\ added = Controls /\ used = [control |-> Factory, skip |-> FALSE]
      /\ face = Factory /\ entryData = NoData /\ store = NotStored
      /\ answering = TRUE /\ available = TRUE /\ refresh = FALSE /\ acted = Decided(Factory, FALSE)
      /\ wish = Factory /\ unsaved = FALSE /\ blank = FALSE /\ lost = "nothing"
  BY DEF ControlInit
<1>2. used.control = Factory /\ used.skip = FALSE /\ DOMAIN used = {"control", "skip"}
  BY <1>1
<1>3. ControlsTyped
  BY <1>1, <1>2, FactoryValued DEF ControlsTyped, NoData, NotStored, Temps, Controls, Switches, NumberKeys
<1>4. TempsKept
  BY <1>1, <1>2, FactoryValued DEF TempsKept, Temps, NoData
<1>5. StoreKept
  BY <1>1, UserControlsAssumption DEF StoreKept, InStore, NotStored, Controls, Switches, NumberKeys
<1>6. AsAsked /\ ShownIsUsed /\ NothingTurnsOn
  BY <1>1, <1>2 DEF AsAsked, ShownIsUsed, NothingTurnsOn
<1>7. NotBackYet /\ PlanSettled
  BY <1>1, <1>2 DEF NotBackYet, PlanSettled
<1> QED BY <1>3, <1>4, <1>5, <1>6, <1>7 DEF ControlInv
-----------------------------------------------------------------------------
(* Every step keeps it. *)
LEMMA ClampedKeepsGap ==
  ASSUME ControlInv, NEW e \in Temps, NEW v \in Int
  PROVE  /\ Clamped(e, v) \in Int
         /\ e = "target" => used.control["min"] < Clamped(e, v)
         /\ e = "min" => Clamped(e, v) < used.control["target"]
         /\ (e = "target" /\ used.control["min"] < v) \/ (e = "min" /\ v < used.control["target"])
              => Clamped(e, v) = v
<1>1. used.control["min"] \in Int /\ used.control["target"] \in Int
  BY DEF ControlInv, ControlsTyped, Valued
<1>2. "target" # "min"
  OBVIOUS
<1> QED BY <1>1, <1>2 DEF Clamped, Temps

\* A number is set while nothing that matters is lost: the listener copies back what is in use.
LEMMA SetNumberWrites ==
  ASSUME ControlInv, running # "down", lost # "all", NEW e \in NumberKeys, NEW v, SetNumber(e, v),
         IF e = "level" THEN v \in ChargeLevels ELSE v \in Int
  PROVE  /\ used' = [used EXCEPT !.control = [used.control EXCEPT ![e] = Clamped(e, v)]]
         /\ face' = [face EXCEPT ![e] = Clamped(e, v)] /\ wish' = [wish EXCEPT ![e] = Clamped(e, v)]
         /\ e \in Temps => entryData' = [entryData EXCEPT ![e] = Clamped(e, v)] /\ Clamped(e, v) \in Int
         /\ e = "level" => UNCHANGED entryData /\ Clamped(e, v) \in ChargeLevels
         /\ refresh' = TRUE
<1> DEFINE w == Clamped(e, v)
           anew == [used.control EXCEPT ![e] = w]
           d == IF e = "level" THEN entryData ELSE [entryData EXCEPT ![e] = w]
<1>1. /\ used' = [used EXCEPT !.control = IF d = entryData THEN anew ELSE CopyTemps(anew, d)]
      /\ face' = [face EXCEPT ![e] = w] /\ wish' = [wish EXCEPT ![e] = w] /\ entryData' = d
      /\ refresh' = TRUE
  BY DEF SetNumber
<1>2. CASE e = "level"
  <2>1. w = v
    BY <1>2 DEF Clamped
  <2> QED BY <1>1, <1>2, <2>1 DEF Temps
<1>3. CASE e \in Temps
  <2>1. w \in Int /\ v \in Int
    BY <1>3, ClampedKeepsGap DEF Temps
  <2>2. /\ DOMAIN used.control = Controls /\ DOMAIN entryData = Temps
        /\ \A k \in Temps : used.control[k] = wish[k]
        /\ \A k \in Temps : entryData[k] = wish[k] \/ entryData[k] = Unset
    BY DEF ControlInv, ControlsTyped, Valued, TempsKept
  <2> HIDE DEF w
  <2>3. d = [entryData EXCEPT ![e] = w]
    BY <1>3 DEF Temps
  <2>4. CopyTemps(anew, d) = anew
    <3>1. DOMAIN CopyTemps(anew, d) = Controls /\ DOMAIN anew = Controls
      BY <2>2 DEF CopyTemps
    <3>2. \A k \in Temps : d[k] = Unset \/ d[k] = anew[k]
      BY <1>3, <2>2, <2>3 DEF Temps, Controls, NumberKeys
    <3>3. ASSUME NEW k \in Controls PROVE CopyTemps(anew, d)[k] = anew[k]
      BY <3>1, <3>2 DEF CopyTemps, Temps
    <3> HIDE DEF anew, d
    <3>4. CopyTemps(anew, d) = [k \in Controls |-> CopyTemps(anew, d)[k]]
      BY <3>1 DEF CopyTemps
    <3>5. anew = [k \in Controls |-> anew[k]]
      BY <3>1 DEF anew
    <3> QED BY <3>3, <3>4, <3>5
  <2>5. (IF d = entryData THEN anew ELSE CopyTemps(anew, d)) = anew
    <3> HIDE DEF anew, d
    <3> QED BY <2>4
  <2>6. used' = [used EXCEPT !.control = anew]
    BY <1>1, <2>5
  <2> QED BY <1>1, <1>3, <2>1, <2>3, <2>6 DEF Temps, w
<1> QED BY <1>2, <1>3 DEF NumberKeys, Temps

\* A control that is asked for.
LEMMA AskedKeeps ==
  ASSUME ControlInv, running # "down", available, lost # "all", NEW e \in added, NEW w,
         used' = [used EXCEPT !.control = [used.control EXCEPT ![e] = w]],
         face' = [face EXCEPT ![e] = w], wish' = [wish EXCEPT ![e] = w],
         e \in Switches => w \in {"on", "off"} /\ UNCHANGED entryData,
         e = "level" => w \in ChargeLevels /\ UNCHANGED entryData,
         e \in Temps => w \in Int /\ entryData' = [entryData EXCEPT ![e] = w],
         e = "target" => used.control["min"] < w,
         e = "min" => w < used.control["target"],
         refresh' \in BOOLEAN, refresh' \/ (e = "auto" /\ refresh' = refresh), unsaved' = TRUE,
         UNCHANGED <<running, added, store, answering, available, acted, blank, lost>>
  PROVE  ControlInv'
<1>1. /\ e \in Controls /\ DOMAIN used.control = Controls /\ DOMAIN face = Controls
      /\ DOMAIN wish = Controls /\ DOMAIN used = {"control", "skip"} /\ DOMAIN entryData = Temps
  BY DEF ControlInv, ControlsTyped, Valued
<1>2. used'.control = [used.control EXCEPT ![e] = w] /\ used'.skip = used.skip
      /\ DOMAIN used' = {"control", "skip"}
  BY <1>1
<1>3. /\ used'.control[e] = w /\ face'[e] = w /\ wish'[e] = w
      /\ \A k \in Controls \ {e} : used'.control[k] = used.control[k] /\ face'[k] = face[k] /\ wish'[k] = wish[k]
      /\ DOMAIN used'.control = Controls /\ DOMAIN face' = Controls /\ DOMAIN wish' = Controls
  BY <1>1, <1>2
<1> HIDE DEF Valued
<1>4. Valued(used.control) /\ Valued(face) /\ Valued(wish)
  BY DEF ControlInv, ControlsTyped
<1>5. Valued(used'.control) /\ Valued(face') /\ Valued(wish')
  BY <1>1, <1>3, <1>4 DEF Valued, Controls, Switches, NumberKeys, Temps
<1>6. DOMAIN entryData' = Temps
  BY <1>1 DEF Controls, NumberKeys, Temps
<1>7. ControlsTyped'
  BY <1>2, <1>5, <1>6 DEF ControlInv, ControlsTyped
<1>8. TempsKept'
  <2>1. \A k \in Temps : entryData'[k] = wish'[k] \/ (entryData'[k] = Unset /\ wish'[k] = Factory[k])
    BY <1>1, <1>3 DEF ControlInv, TempsKept, Temps, Controls, NumberKeys, Switches
  <2>2. \A k \in Temps : used'.control[k] = wish'[k]
    BY <1>3 DEF ControlInv, TempsKept, Temps, Controls, NumberKeys
  <2>3. used'.control["min"] < used'.control["target"]
    BY <1>3, <1>4 DEF ControlInv, TempsKept, Temps, Controls, NumberKeys
  <2> QED BY <2>1, <2>2, <2>3 DEF TempsKept, Temps
<1>9. NotBackYet'
  BY <1>3 DEF ControlInv, NotBackYet
<1>10. StoreKept'
  BY <1>3 DEF ControlInv, StoreKept, InStore, Controls, NumberKeys, Switches
<1>11. ShownIsUsed'
  BY <1>3 DEF ControlInv, ShownIsUsed, Controls
<1>12. AsAsked'
  BY <1>3 DEF ControlInv, ControlsTyped, AsAsked
<1>13. NothingTurnsOn'
  BY <1>3 DEF ControlInv, ControlsTyped, NothingTurnsOn
<1>14. PlanSettled'
  <2>1. CASE refresh'
    BY <2>1 DEF PlanSettled
  <2>2. CASE e = "auto" /\ refresh' = refresh
    <3>1. used'.control["enabled"] = used.control["enabled"] /\ used'.control["level"] = used.control["level"]
      BY <1>3, <2>2 DEF Controls, NumberKeys, Switches
    <3>2. Decided(used'.control, used'.skip) = Decided(used.control, used.skip)
      BY <1>2, <3>1 DEF Decided, ManualTarget
    <3> QED BY <2>2, <3>2 DEF ControlInv, PlanSettled
  <2> QED BY <2>1, <2>2
<1> QED BY <1>7, <1>8, <1>9, <1>10, <1>11, <1>12, <1>13, <1>14 DEF ControlInv
LEMMA UserAsksKeeps ==
  ASSUME ControlInv, UserAsks, lost # "all" PROVE ControlInv'
<1>1. /\ running # "down" /\ available /\ unsaved' = TRUE /\ added \subseteq Controls
      /\ UNCHANGED <<running, added, store, answering, available, acted, blank, lost>>
  BY DEF UserAsks, ControlInv, ControlsTyped
<1>2. ASSUME NEW e \in NumberKeys, e \in added, NEW v, SetNumber(e, v),
             IF e = "level" THEN v \in ChargeLevels ELSE v \in Int
      PROVE  ControlInv'
  <2> DEFINE w == Clamped(e, v)
  <2>1. /\ used' = [used EXCEPT !.control = [used.control EXCEPT ![e] = w]]
        /\ face' = [face EXCEPT ![e] = w] /\ wish' = [wish EXCEPT ![e] = w]
        /\ e \in Temps => entryData' = [entryData EXCEPT ![e] = w] /\ w \in Int
        /\ e = "level" => UNCHANGED entryData /\ w \in ChargeLevels
        /\ refresh' = TRUE
    BY <1>1, <1>2, SetNumberWrites
  <2>2. e \in Temps => v \in Int
    BY <1>2 DEF Temps
  <2>3. /\ e = "target" => used.control["min"] < w
        /\ e = "min" => w < used.control["target"]
    BY <2>2, ClampedKeepsGap DEF Temps
  <2>4. e \notin Switches
    BY DEF NumberKeys, Switches
  <2> HIDE DEF w
  <2> QED BY <1>1, <1>2, <2>1, <2>3, <2>4, AskedKeeps
<1>3. ASSUME NEW e \in Switches, e \in added, NEW s \in {"on", "off"}, TurnSwitch(e, s) PROVE ControlInv'
  <2>1. /\ used' = [used EXCEPT !.control = [used.control EXCEPT ![e] = s]]
        /\ face' = [face EXCEPT ![e] = s] /\ wish' = [wish EXCEPT ![e] = s] /\ UNCHANGED entryData
    BY <1>3 DEF TurnSwitch
  <2>2. refresh' \in BOOLEAN /\ (refresh' \/ (e = "auto" /\ refresh' = refresh))
    BY <1>3, Zenon DEF TurnSwitch, ControlInv, ControlsTyped
  <2>3. e \notin Temps /\ e # "level" /\ e # "target" /\ e # "min"
    BY DEF Temps, Switches
  <2> QED BY <1>1, <1>3, <2>1, <2>2, <2>3, AskedKeeps
<1>4. TargetRange \subseteq Int /\ MinRange \subseteq Int
  BY UserControlsAssumption
<1>5. "target" \in NumberKeys /\ "min" \in NumberKeys /\ "level" \in NumberKeys
  BY DEF NumberKeys
<1> QED BY <1>2, <1>3, <1>4, <1>5 DEF UserAsks

LEMMA TurnSkipKeeps == ASSUME ControlInv, TurnSkip PROVE ControlInv'
<1>1. /\ used'.control = used.control /\ DOMAIN used' = {"control", "skip"} /\ refresh' = TRUE
      /\ UNCHANGED <<running, added, face, entryData, store, answering, available, acted, wish,
                     unsaved, blank, lost>>
  BY DEF TurnSkip, ControlInv, ControlsTyped
<1>2. ControlsTyped' /\ TempsKept' /\ NotBackYet'
  BY <1>1 DEF ControlInv, ControlsTyped, TempsKept, NotBackYet
<1>3. StoreKept' /\ ShownIsUsed' /\ AsAsked' /\ NothingTurnsOn' /\ PlanSettled'
  BY <1>1 DEF ControlInv, StoreKept, InStore, ShownIsUsed, AsAsked, NothingTurnsOn, PlanSettled
<1> QED BY <1>2, <1>3 DEF ControlInv

LEMMA CycleKeeps == ASSUME ControlInv, ControlCycle PROVE ControlInv'
<1>1. /\ refresh' = FALSE /\ available' = answering
      /\ acted' = IF answering THEN Decided(used.control, used.skip) ELSE acted
      /\ UNCHANGED <<running, added, used, face, entryData, store, answering, wish, unsaved, blank, lost>>
  BY DEF ControlCycle
<1>2. ControlsTyped' /\ TempsKept' /\ NotBackYet'
  BY <1>1 DEF ControlInv, ControlsTyped, TempsKept, NotBackYet
<1>3. StoreKept' /\ ShownIsUsed' /\ AsAsked' /\ NothingTurnsOn' /\ PlanSettled'
  BY <1>1 DEF ControlInv, StoreKept, InStore, ShownIsUsed, AsAsked, NothingTurnsOn, PlanSettled
<1> QED BY <1>2, <1>3 DEF ControlInv

LEMMA LastStatesOf ==
  ASSUME ControlInv
  PROVE  /\ DOMAIN LastStates = Controls
         /\ \A e \in Controls \ added : LastStates[e] = store[e]
         /\ \A e \in added : LastStates[e] = face[e] \/ (e \in Switches /\ ~available /\ LastStates[e] = "unavailable")
         /\ \A e \in Switches : LastStates[e] \in {"on", "off", "unavailable", Unset}
         /\ \A e \in Temps : LastStates[e] \in Int \cup {Unset}
         /\ LastStates["level"] \in ChargeLevels \cup {Unset}
<1>1. added \subseteq Controls /\ Switches \subseteq Controls /\ Temps \subseteq Controls /\ "level" \in Controls
      /\ Temps \cap Switches = {} /\ "level" \notin Switches
  BY DEF ControlInv, ControlsTyped, Controls, Temps, NumberKeys, Switches
<1>2. /\ DOMAIN LastStates = Controls
      /\ \A e \in Controls : LastStates[e] = IF e \notin added THEN store[e]
                                             ELSE IF e \in Switches THEN IF available THEN face[e] ELSE "unavailable"
                                             ELSE face[e]
  BY DEF LastStates
<1>3. /\ \A e \in Switches : store[e] \in {"on", "off", "unavailable", Unset} /\ face[e] \in {"on", "off"}
      /\ \A e \in Temps : store[e] \in Int \cup {Unset} /\ face[e] \in Int
      /\ store["level"] \in ChargeLevels \cup {Unset} /\ face["level"] \in ChargeLevels
  BY DEF ControlInv, ControlsTyped, Valued, Temps
<1> HIDE DEF LastStates
<1>4. \A e \in Controls \ added : LastStates[e] = store[e]
  BY <1>2
<1>5. \A e \in added : LastStates[e] = face[e] \/ (e \in Switches /\ ~available /\ LastStates[e] = "unavailable")
  BY <1>1, <1>2
<1>6. \A e \in Switches : LastStates[e] \in {"on", "off", "unavailable", Unset}
  BY <1>1, <1>2, <1>3
<1>7. \A e \in Temps : LastStates[e] \in Int \cup {Unset}
  BY <1>1, <1>2, <1>3
<1>8. LastStates["level"] \in ChargeLevels \cup {Unset}
  BY <1>1, <1>2, <1>3
<1> QED BY <1>2, <1>4, <1>5, <1>6, <1>7, <1>8

LEMMA DumpKeeps == ASSUME ControlInv, Dump PROVE ControlInv'
<1>1. /\ running = "up" /\ store' = LastStates /\ unsaved' = FALSE /\ blank' = ~available
      /\ UNCHANGED <<running, added, used, face, entryData, answering, available, refresh, acted, wish, lost>>
  BY DEF Dump
<1>2. added = Controls /\ Switches \subseteq Controls /\ NumberKeys \subseteq Controls
      /\ NumberKeys \cap Switches = {}
  BY <1>1 DEF ControlInv, ControlsTyped, Controls, NumberKeys, Switches
<1> HIDE DEF LastStates
<1>3. ControlsTyped'
  <2>1. blank' \in BOOLEAN
    BY <1>1
  <2> QED BY <1>1, <2>1, LastStatesOf DEF ControlInv, ControlsTyped
<1>4. TempsKept' /\ NotBackYet' /\ ShownIsUsed' /\ AsAsked' /\ NothingTurnsOn' /\ PlanSettled'
  BY <1>1 DEF ControlInv, TempsKept, NotBackYet, ShownIsUsed, AsAsked, NothingTurnsOn, PlanSettled
<1>5. StoreKept'
  <2>1. \A e \in added : LastStates[e] = face[e] \/ (e \in Switches /\ ~available /\ LastStates[e] = "unavailable")
    BY LastStatesOf
  <2>2. lost # "all" => \A e \in NumberKeys : LastStates[e] = wish[e]
    BY <1>2, <2>1 DEF ControlInv, ControlsTyped, AsAsked
  <2>3. lost = "nothing" => \A e \in Switches : LastStates[e] = wish[e] \/ (~available /\ LastStates[e] = "unavailable")
    BY <1>2, <2>1 DEF ControlInv, AsAsked
  <2>4. lost # "all" => \A e \in {"enabled", "schedule"} : LastStates[e] = "on" => wish[e] = "on"
    BY <1>2, <2>1 DEF ControlInv, ShownIsUsed, NothingTurnsOn, Switches
  <2> QED BY <1>1, <1>2, <2>2, <2>3, <2>4 DEF StoreKept, InStore
<1> QED BY <1>3, <1>4, <1>5 DEF ControlInv

LEMMA HaltKeeps == ASSUME ControlInv, NEW orderly \in BOOLEAN, Halt(orderly) PROVE ControlInv'
<1> DEFINE gone == IF orderly THEN ~available ELSE blank
<1>1. /\ running' = "down" /\ added' = {} /\ store' = (IF orderly THEN LastStates ELSE store)
      /\ lost' = IF lost = "all" \/ (unsaved /\ ~orderly) THEN "all"
                 ELSE IF lost = "switches" \/ gone THEN "switches" ELSE "nothing"
      /\ unsaved' = FALSE /\ blank' = gone /\ refresh' = FALSE
      /\ UNCHANGED <<used, face, entryData, answering, available, acted, wish>>
  BY DEF Halt
<1>2. lost \in {"nothing", "switches", "all"} /\ gone \in BOOLEAN
      /\ Switches \subseteq Controls /\ NumberKeys \subseteq Controls /\ added \subseteq Controls
      /\ NumberKeys \cap Switches = {}
  BY DEF ControlInv, ControlsTyped, Controls, NumberKeys, Switches
<1> HIDE DEF LastStates
<1>3. ControlsTyped'
  <2>1. lost' \in {"nothing", "switches", "all"} /\ blank' \in BOOLEAN
    BY <1>1, <1>2
  <2> QED BY <1>1, <2>1, LastStatesOf DEF ControlInv, ControlsTyped
<1>4. TempsKept' /\ NotBackYet' /\ ShownIsUsed' /\ AsAsked' /\ NothingTurnsOn' /\ PlanSettled'
  BY <1>1 DEF ControlInv, TempsKept, NotBackYet, ShownIsUsed, AsAsked, NothingTurnsOn, PlanSettled
<1>5. lost' # "all" => lost # "all" /\ (orderly \/ ~unsaved)
  BY <1>1, <1>2
<1>6. lost' = "nothing" => lost = "nothing" /\ ~gone
  BY <1>1, <1>2
<1>7. ASSUME orderly PROVE StoreKept'
  <2>1. /\ \A e \in added : LastStates[e] = face[e] \/ (e \in Switches /\ ~available /\ LastStates[e] = "unavailable")
        /\ \A e \in Controls \ added : LastStates[e] = store[e]
    BY LastStatesOf
  <2>2. lost' # "all" => \A e \in NumberKeys : LastStates[e] = wish[e] \/ (LastStates[e] = Unset /\ wish[e] = Factory[e])
    BY <1>2, <1>5, <2>1 DEF ControlInv, AsAsked, StoreKept, InStore
  <2>3. lost' = "nothing" => \A e \in Switches : LastStates[e] = wish[e] \/ (LastStates[e] = Unset /\ wish[e] = Factory[e])
    BY <1>2, <1>6, <1>7, <2>1 DEF ControlInv, AsAsked, StoreKept, InStore
  <2>4. lost' # "all" => \A e \in {"enabled", "schedule"} : LastStates[e] = "on" => wish[e] = "on"
    <3>1. {"enabled", "schedule"} \subseteq Controls /\ {"enabled", "schedule"} \subseteq Switches
      BY DEF Controls, Switches
    <3> QED BY <1>5, <2>1, <3>1 DEF ControlInv, ShownIsUsed, NothingTurnsOn, StoreKept
  <2> QED BY <1>1, <1>7, <2>2, <2>3, <2>4 DEF StoreKept, InStore
<1>8. ASSUME ~orderly PROVE StoreKept'
  <2>1. store' = store /\ wish' = wish
    BY <1>1, <1>8
  <2>2. lost' # "all" => \A e \in NumberKeys : InStore(e)
    BY <1>5, <1>8 DEF ControlInv, StoreKept
  <2>3. lost' = "nothing" => \A e \in Switches : InStore(e)
    BY <1>1, <1>2, <1>5, <1>6, <1>8 DEF ControlInv, StoreKept
  <2>4. lost' # "all" => \A e \in {"enabled", "schedule"} : store[e] = "on" => wish[e] = "on"
    BY <1>5, <1>8 DEF ControlInv, StoreKept
  <2> QED BY <2>1, <2>2, <2>3, <2>4 DEF StoreKept, InStore
<1> QED BY <1>3, <1>4, <1>7, <1>8 DEF ControlInv

LEMMA StartKeeps == ASSUME ControlInv, StartControls PROVE ControlInv'
<1>1. /\ running = "down" /\ running' = "adding" /\ available' = TRUE
      /\ used' = [control |-> Fresh, skip |-> FALSE] /\ acted' = Decided(Fresh, FALSE) /\ face' = Factory
      /\ UNCHANGED <<added, entryData, store, answering, refresh, wish, unsaved, blank, lost>>
  BY DEF StartControls
<1>2. added = {}
  BY <1>1 DEF ControlInv, ControlsTyped
<1>3. Fresh["target"] = wish["target"] /\ Fresh["min"] = wish["min"] /\ DOMAIN Fresh = Controls
      /\ \A e \in Controls \ Temps : Fresh[e] = Factory[e]
  <2>1. DOMAIN Factory = Controls
    BY DEF Factory, Controls, Switches, NumberKeys
  <2>2. Saved("target") = wish["target"] /\ Saved("min") = wish["min"]
    BY UserControlsAssumption DEF ControlInv, ControlsTyped, Valued, TempsKept, Temps, Saved
  <2> QED BY <2>1, <2>2 DEF Fresh, Temps, Controls, NumberKeys
<1>4. Valued(Fresh)
  <2>1. wish["target"] \in Int /\ wish["min"] \in Int
    BY DEF ControlInv, ControlsTyped, Valued
  <2> QED BY <1>3, <2>1, FactoryValued DEF Valued, Temps, Switches, Controls, NumberKeys
<1>5. used'.control = Fresh /\ used'.skip = FALSE /\ DOMAIN used' = {"control", "skip"}
  BY <1>1
<1> HIDE DEF Fresh
<1>6. ControlsTyped'
  BY <1>1, <1>2, <1>4, <1>5, FactoryValued DEF ControlInv, ControlsTyped
<1>7. TempsKept'
  BY <1>1, <1>3, <1>5 DEF ControlInv, TempsKept, Temps
<1>8. NotBackYet' /\ PlanSettled'
  BY <1>1, <1>3, <1>5 DEF NotBackYet, PlanSettled
<1>9. StoreKept'
  BY <1>1 DEF ControlInv, StoreKept, InStore
<1>10. ShownIsUsed' /\ AsAsked' /\ NothingTurnsOn'
  BY <1>1, <1>2 DEF ShownIsUsed, AsAsked, NothingTurnsOn
<1> QED BY <1>6, <1>7, <1>8, <1>9, <1>10 DEF ControlInv
\* A control is added with what was stored of it, or as it was made.
LEMMA BackKeeps ==
  ASSUME ControlInv, NEW e \in Controls \ added, NEW w, running = "adding",
         added' = added \cup {e}, running' \in {"adding", "up"}, running' = "up" <=> added' = Controls,
         \/ /\ used' = [used EXCEPT !.control = [used.control EXCEPT ![e] = w]]
            /\ face' = [face EXCEPT ![e] = w]
         \/ /\ used' = used /\ face' = face /\ used.control[e] = w /\ e \notin Switches
            /\ lost # "all" => face[e] = w,
         e \in Switches => w \in {"on", "off"}, e = "level" => w \in ChargeLevels, e \in Temps => w \in Int,
         e = "target" => used.control["min"] < w,
         e = "min" => w < used.control["target"],
         lost = "nothing" \/ (lost = "switches" /\ e \in NumberKeys) => w = wish[e],
         e \in {"enabled", "schedule"} /\ lost # "all" /\ w = "on" => wish[e] = "on",
         refresh' \in BOOLEAN, refresh => refresh',
         \/ refresh' \/ e \notin {"enabled", "level"}
         \/ w = used.control[e]
         \/ (e = "level" /\ used.control["enabled"] = "off"),
         UNCHANGED <<entryData, store, answering, available, acted, wish, unsaved, blank, lost>>
  PROVE  ControlInv'
<1>1. /\ e \in Controls /\ DOMAIN used.control = Controls /\ DOMAIN face = Controls
      /\ DOMAIN used = {"control", "skip"} /\ e \notin added /\ added \subseteq Controls
  BY DEF ControlInv, ControlsTyped, Valued
<1>3. /\ used'.control[e] = w /\ (lost # "all" \/ e \in Switches => face'[e] = w)
      /\ \A k \in Controls \ {e} : used'.control[k] = used.control[k] /\ face'[k] = face[k]
      /\ DOMAIN used'.control = Controls /\ DOMAIN face' = Controls
      /\ used'.skip = used.skip /\ DOMAIN used' = {"control", "skip"}
  BY <1>1
<1>4. Valued(used.control) /\ Valued(face)
  BY DEF ControlInv, ControlsTyped
<1>2. face'[e] = w \/ face' = face
  BY <1>1
<1>5. Valued(used'.control) /\ Valued(face')
  BY <1>1, <1>2, <1>3, <1>4 DEF Valued, Controls, Switches, NumberKeys, Temps
<1>6. ControlsTyped'
  BY <1>1, <1>3, <1>5 DEF ControlInv, ControlsTyped
<1>7. TempsKept'
  <2>1. used'.control["min"] < used'.control["target"]
    BY <1>3, <1>4 DEF ControlInv, TempsKept, Temps, Controls, NumberKeys
  <2>2. lost # "all" => \A k \in Temps : used'.control[k] = wish[k]
    <3>1. lost # "all" => lost = "nothing" \/ lost = "switches"
      BY DEF ControlInv, ControlsTyped
    <3> QED BY <1>3, <3>1 DEF ControlInv, TempsKept, Temps, Controls, NumberKeys
  <2> QED BY <2>1, <2>2 DEF ControlInv, TempsKept
<1>8. NotBackYet'
  BY <1>3 DEF ControlInv, NotBackYet
<1>9. StoreKept'
  BY DEF ControlInv, StoreKept, InStore
<1>10. ShownIsUsed'
  BY <1>1, <1>3 DEF ControlInv, ShownIsUsed
<1>11. AsAsked'
  BY <1>1, <1>3 DEF ControlInv, AsAsked
<1>12. NothingTurnsOn'
  BY <1>1, <1>3 DEF ControlInv, NothingTurnsOn
<1>13. PlanSettled'
  <2> SUFFICES ASSUME available, ~refresh' PROVE acted = Decided(used'.control, used'.skip)
    BY DEF PlanSettled
  <2>1. acted = Decided(used.control, used.skip)
    BY DEF ControlInv, PlanSettled
  <2>2. "enabled" \in Controls /\ "level" \in Controls /\ "enabled" # "level"
    BY DEF Controls, Switches, NumberKeys
  <2>3. \/ used'.control["enabled"] = used.control["enabled"] /\ used'.control["level"] = used.control["level"]
        \/ used'.control["enabled"] = "off" /\ used.control["enabled"] = "off"
    BY <1>3, <2>2
  <2>4. ManualTarget(used'.control) = ManualTarget(used.control)
    BY <2>3 DEF ManualTarget
  <2> QED BY <1>3, <2>1, <2>4 DEF Decided
<1> QED BY <1>6, <1>7, <1>8, <1>9, <1>10, <1>11, <1>12, <1>13 DEF ControlInv

LEMMA AddKeeps == ASSUME ControlInv, NEW e \in Controls, AddEntity(e) PROVE ControlInv'
<1>1. /\ running = "adding" /\ e \in Controls \ added /\ added' = added \cup {e}
      /\ running' = IF added' = Controls THEN "up" ELSE "adding"
      /\ UNCHANGED <<entryData, store, answering, available, acted, wish, unsaved, blank, lost>>
  BY DEF AddEntity
<1>a. running' \in {"adding", "up"} /\ (running' = "up" <=> added' = Controls)
  BY <1>1
<1>b. lost # "all" => lost = "nothing" \/ lost = "switches"
  BY DEF ControlInv, ControlsTyped
<1>2. CASE e \in Switches
  <2> DEFINE back == IF store[e] = Unset THEN Factory[e] ELSE IF store[e] = "on" THEN "on" ELSE "off"
  <2>1. /\ used' = [used EXCEPT !.control = [used.control EXCEPT ![e] = back]]
        /\ face' = [face EXCEPT ![e] = back]
        /\ refresh' = (refresh \/ (e = "enabled" /\ back = "on"))
    BY <1>2 DEF AddEntity, RestoreSwitch
  <2>2. refresh' \in BOOLEAN /\ (refresh => refresh') /\ (e = "enabled" /\ back = "on" => refresh')
    BY <2>1, Zenon DEF ControlInv, ControlsTyped
  <2>3. Factory[e] \in {"on", "off"} /\ (e \in {"enabled", "schedule"} => Factory[e] = "off")
    BY <1>2, FactoryValued DEF Valued, Factory
  <2>4. back \in {"on", "off"}
    BY <2>3
  <2>5. lost = "nothing" => back = wish[e]
    <3>1. ASSUME lost = "nothing" PROVE InStore(e)
      BY <1>1, <1>2, <3>1 DEF ControlInv, StoreKept
    <3>2. wish[e] \in {"on", "off"} /\ Unset # "on" /\ Unset # "off"
      BY <1>2, UserControlsAssumption DEF ControlInv, ControlsTyped, Valued
    <3> QED BY <3>1, <3>2 DEF InStore
  <2>6. e \in {"enabled", "schedule"} /\ lost # "all" /\ back = "on" => wish[e] = "on"
    BY <1>1, <2>3 DEF ControlInv, StoreKept
  <2>7. e = "enabled" /\ back = "off" => back = used.control[e]
    BY <1>1, <2>3 DEF ControlInv, NotBackYet, Temps
  <2>8. e \notin NumberKeys /\ e \notin Temps /\ e # "level" /\ e # "target" /\ e # "min"
    BY <1>2 DEF Switches, NumberKeys, Temps
  <2> HIDE DEF back
  <2>9. refresh' \/ e \notin {"enabled", "level"} \/ back = used.control[e]
    BY <2>2, <2>4, <2>7, <2>8
  <2> QED BY <1>1, <1>a, <2>1, <2>2, <2>4, <2>5, <2>6, <2>8, <2>9, BackKeeps
<1>3. CASE e \in NumberKeys /\ store[e] # Unset
  <2> DEFINE back == Clamped(e, store[e])
  <2>1. /\ used' = [used EXCEPT !.control = [used.control EXCEPT ![e] = back]]
        /\ face' = [face EXCEPT ![e] = back]
        /\ refresh' = (refresh \/ RefreshAfter(e)) /\ e \notin Switches
    BY <1>3 DEF AddEntity, RestoreNumber, NumberKeys, Switches
  <2>2. refresh' \in BOOLEAN /\ (refresh => refresh')
        /\ (e = "level" /\ used.control["enabled"] = "on" => refresh')
    BY <2>1, Zenon DEF ControlInv, ControlsTyped, RefreshAfter
  <2>3. used.control["enabled"] \in {"on", "off"}
    BY DEF ControlInv, ControlsTyped, Valued, Switches
  <2>4. e \in Temps => store[e] \in Int
    BY <1>3 DEF ControlInv, ControlsTyped
  <2>5. /\ e \in Temps => back \in Int
        /\ e = "target" => used.control["min"] < back
        /\ e = "min" => back < used.control["target"]
    BY <2>4, ClampedKeepsGap DEF Temps
  <2>6. e = "level" => back = store[e] /\ back \in ChargeLevels
    BY <1>3 DEF Clamped, ControlInv, ControlsTyped
  <2>7. ASSUME lost # "all" PROVE back = wish[e]
    <3>1. store[e] = wish[e]
      BY <1>1, <1>3, <2>7 DEF ControlInv, StoreKept, InStore
    <3>2. /\ used.control["min"] = wish["min"] /\ used.control["target"] = wish["target"]
          /\ wish["min"] < wish["target"]
      BY <1>1, <2>7 DEF ControlInv, TempsKept, Temps
    <3>3. e \in Temps => Clamped(e, store[e]) = store[e]
      BY <2>4, <3>1, <3>2, ClampedKeepsGap DEF Temps
    <3> QED BY <1>3, <2>6, <3>1, <3>3 DEF NumberKeys, Temps
  <2> HIDE DEF back
  <2>8. refresh' \/ e \notin {"enabled", "level"} \/ (e = "level" /\ used.control["enabled"] = "off")
    BY <2>1, <2>2, <2>3 DEF Switches
  <2>9. e \notin {"enabled", "schedule"}
    BY <2>1 DEF Switches
  <2> QED BY <1>1, <1>a, <1>b, <2>1, <2>2, <2>5, <2>6, <2>7, <2>8, <2>9, BackKeeps
<1>4. CASE e \in NumberKeys /\ store[e] = Unset
  <2>1. used' = used /\ face' = face /\ refresh' = refresh /\ e \notin Switches
    BY <1>4 DEF AddEntity, RestoreNumber, NumberKeys, Switches
  <2>2. face[e] = Factory[e] /\ (e = "level" => used.control[e] = Factory[e])
    BY <1>1 DEF ControlInv, NotBackYet, Temps
  <2>3. wish[e] # Unset
    BY <1>4, UserControlsAssumption DEF ControlInv, ControlsTyped, Valued, NumberKeys
  <2>4. ASSUME lost # "all" PROVE Factory[e] = wish[e] /\ used.control[e] = wish[e]
    <3>1. Factory[e] = wish[e]
      BY <1>1, <1>4, <2>3, <2>4 DEF ControlInv, StoreKept, InStore
    <3>2. e \in Temps => used.control[e] = wish[e]
      BY <1>1, <2>4 DEF ControlInv, TempsKept
    <3> QED BY <1>4, <2>2, <3>1, <3>2 DEF NumberKeys, Temps
  <2>5. /\ e = "level" => used.control[e] \in ChargeLevels
        /\ e \in Temps => used.control[e] \in Int
        /\ e = "target" => used.control["min"] < used.control[e]
        /\ e = "min" => used.control[e] < used.control["target"]
        /\ refresh \in BOOLEAN
    BY <1>1 DEF ControlInv, ControlsTyped, TempsKept, Valued, Temps
  <2>6. e \notin {"enabled", "schedule"}
    BY <2>1 DEF Switches
  <2> QED BY <1>1, <1>a, <1>b, <2>1, <2>2, <2>4, <2>5, <2>6, BackKeeps
<1> QED BY <1>2, <1>3, <1>4 DEF Controls
LEMMA AnswersKeeps == ASSUME ControlInv, InverterAnswers PROVE ControlInv'
<1>1. /\ answering' = ~answering
      /\ UNCHANGED <<running, added, used, face, entryData, store, available, refresh, acted, wish,
                     unsaved, blank, lost>>
  BY DEF InverterAnswers
<1>2. ControlsTyped'
  <2>1. answering' \in BOOLEAN
    BY <1>1
  <2> QED BY <1>1, <2>1 DEF ControlInv, ControlsTyped
<1>3. TempsKept' /\ NotBackYet' /\ StoreKept' /\ ShownIsUsed' /\ AsAsked' /\ NothingTurnsOn' /\ PlanSettled'
  BY <1>1 DEF ControlInv, TempsKept, NotBackYet, StoreKept, InStore, ShownIsUsed, AsAsked, NothingTurnsOn,
              PlanSettled
<1> QED BY <1>2, <1>3 DEF ControlInv

LEMMA StillKeeps == ASSUME ControlInv, UNCHANGED controlVars PROVE ControlInv'
<1>1. UNCHANGED <<running, added, used, face, entryData, store, answering, available, refresh, acted, wish,
                  unsaved, blank, lost>>
  BY DEF controlVars
<1>2. ControlsTyped'
  BY <1>1 DEF ControlInv, ControlsTyped
<1>3. TempsKept' /\ NotBackYet' /\ StoreKept' /\ ShownIsUsed' /\ AsAsked' /\ NothingTurnsOn' /\ PlanSettled'
  BY <1>1 DEF ControlInv, TempsKept, NotBackYet, StoreKept, InStore, ShownIsUsed, AsAsked, NothingTurnsOn,
              PlanSettled
<1> QED BY <1>2, <1>3 DEF ControlInv

LEMMA ControlKeeps == ControlInv /\ [ControlNext]_controlVars => ControlInv'
BY UserAsksKeeps, TurnSkipKeeps, CycleKeeps, DumpKeeps, HaltKeeps, StartKeeps, AddKeeps, AnswersKeeps,
   StillKeeps DEF ControlNext

\* What a user last set is what the controls show and the integration applies, over restarts, reloads
\* and stops half-way (switch.py, number.py): unless the store was never written, or was written while
\* the entities were unavailable.
THEOREM ControlsKept == ControlSpec => ControlsAreKept
<1>1. ControlInv => AsAsked /\ GapKept /\ NothingTurnsOn /\ Settled
  <2>1. ControlInv => AsAsked /\ NothingTurnsOn
    BY DEF ControlInv
  <2>2. ControlInv => GapKept
    BY DEF ControlInv, TempsKept, GapKept
  <2>3. ControlInv => Settled
    BY DEF ControlInv, PlanSettled, Settled
  <2> QED BY <2>1, <2>2, <2>3
<1>2. ControlInv' => [GapAfterStart]_controlVars
  BY DEF ControlInv, TempsKept, GapAfterStart
<1> QED BY <1>1, <1>2, ControlStarts, ControlKeeps, PTL DEF ControlSpec, ControlsAreKept

-----------------------------------------------------------------------------
(* The settings and their values. *)
LEMMA KeysOf ==
  /\ Pages = {"battery", "charge_planning", "forecast", "hot_water", "ev"}
  /\ PageKeys["battery"] = {"capacity", "capacity_entity", "battery_cost"}
  /\ PageKeys["charge_planning"] = {"min_soc", "winter", "shoulder"}
  /\ PageKeys["forecast"] = {"forecast_entity"}
  /\ PageKeys["hot_water"] = {"temp_sensor", "lower_sensor", "ready_times", "alt_enabled", "alt_label", "alt_cost"}
  /\ PageKeys["ev"] = {"efficiency", "car"}
BY DEF Pages, PageKeys

AllSettings == {"capacity", "capacity_entity", "battery_cost", "min_soc", "winter", "shoulder",
                "forecast_entity", "temp_sensor", "lower_sensor", "ready_times", "alt_enabled",
                "alt_label", "alt_cost", "efficiency", "car", "floor"}

LEMMA SettingsAre == PageSettings = AllSettings /\ \A p \in Pages : PageKeys[p] \subseteq PageSettings
<1>1. \A p \in Pages : PageKeys[p] \subseteq PageSettings
  BY DEF PageSettings
<1>2. "floor" \in PageSettings
  BY DEF PageSettings
<1>3. AllSettings \subseteq PageSettings
  BY <1>1, <1>2, KeysOf DEF AllSettings
<1>4. ASSUME NEW p \in Pages PROVE PageKeys[p] \subseteq AllSettings
  BY KeysOf DEF AllSettings
<1>5. PageSettings \subseteq AllSettings
  BY <1>4 DEF PageSettings, AllSettings
<1> QED BY <1>1, <1>3, <1>5

LEMMA SomeValue ==
  ASSUME NEW v \in SUBSET (0..9) PROVE v # NotSet
BY SettingsAssumption

LEMMA SmallValues ==
  /\ NotSet # {} /\ NotSet # {0} /\ NotSet # {1} /\ NotSet # {2} /\ NotSet # {3} /\ NotSet # {7}
  /\ NotSet # {1, 3}
<1>1. /\ {} \in SUBSET (0..9) /\ {0} \in SUBSET (0..9) /\ {1} \in SUBSET (0..9) /\ {2} \in SUBSET (0..9)
      /\ {3} \in SUBSET (0..9) /\ {7} \in SUBSET (0..9) /\ {1, 3} \in SUBSET (0..9)
  OBVIOUS
<1> QED BY <1>1, SomeValue

LEMMA ChoicesAre ==
  ASSUME NEW k \in PageSettings, NEW v \in FieldChoices[k]
  PROVE  /\ v = NotSet => k \in Optional
         /\ v = {} => k \in {"winter", "shoulder"}
<1>1. FieldChoices[k] =
       CASE k \in {"capacity", "efficiency", "min_soc"} -> {{1}, {2}}
         [] k \in {"battery_cost", "alt_enabled"} -> {{0}, {1}}
         [] k = "winter" -> {{}, {1}, {2}}
         [] k = "shoulder" -> {{}, {2}, {1, 3}}
         [] k = "forecast_entity" -> {NotSet, {1}, {Odd}}
         [] k = "ready_times" -> {NotSet, {Typo}, {7}}
         [] k = "alt_label" -> {{Blank}, {1}, {TooLong}}
         [] k = "floor" -> {{0}, {1}}
         [] OTHER -> {NotSet, {1}}
  BY DEF FieldChoices
<1>2. k \in AllSettings
  BY SettingsAre
<1>3. CASE k \in {"capacity", "efficiency", "min_soc"}
  BY <1>1, <1>3, SmallValues
<1>4. CASE k \in {"battery_cost", "alt_enabled"}
  BY <1>1, <1>4, SmallValues
<1>5. CASE k = "winter"
  BY <1>1, <1>5, SmallValues
<1>6. CASE k = "shoulder"
  BY <1>1, <1>6, SmallValues
<1>7. CASE k = "forecast_entity"
  BY <1>1, <1>7, SmallValues DEF Optional, Odd
<1>8. CASE k = "ready_times"
  BY <1>1, <1>8, SmallValues DEF Optional, Typo
<1>9. CASE k = "alt_label"
  BY <1>1, <1>9, SmallValues DEF Blank, TooLong
<1>10. CASE k = "floor"
  BY <1>1, <1>10, SmallValues
<1>11. CASE k \in {"capacity_entity", "temp_sensor", "lower_sensor", "alt_cost", "car"}
  <2>1. FieldChoices[k] = {NotSet, {1}}
    BY <1>1, <1>11
  <2> QED BY <1>11, <2>1, SmallValues DEF Optional
<1> QED BY <1>2, <1>3, <1>4, <1>5, <1>6, <1>7, <1>8, <1>9, <1>10, <1>11 DEF AllSettings

LEMMA DefaultsAre ==
  ASSUME NEW k \in PageSettings
  PROVE  /\ KeyDefaults[k] = NotSet <=> k \in Optional
         /\ KeyDefaults[k] # {}
<1>1. KeyDefaults[k] =
       CASE k \in Optional -> NotSet
         [] k \in {"battery_cost", "alt_enabled", "floor"} -> {0}
         [] k = "shoulder" -> {2}
         [] OTHER -> {1}
  BY DEF KeyDefaults
<1>2. CASE k \in Optional
  BY <1>1, <1>2, SmallValues DEF Optional
<1>3. CASE k \notin Optional
  <2>1. KeyDefaults[k] \in {{0}, {1}, {2}}
    BY <1>1, <1>3
  <2> QED BY <1>3, <2>1, SmallValues
<1> QED BY <1>2, <1>3

(* What is in force of a setting that always has a value. *)
Stored(values) == /\ DOMAIN values = PageSettings /\ values = [k \in PageSettings |-> values[k]]
                  /\ \A k \in PageSettings \ MayBeEmpty : values[k] # {}

LEMMA InForceIs ==
  ASSUME Stored(stored), setup \in SetupData, NEW k \in PageSettings
  PROVE  /\ k \notin Optional => Effective(stored)[k] # NotSet
         /\ k \notin MayBeEmpty => ~IsUnset(Effective(stored)[k])
         /\ DOMAIN Effective(stored) = PageSettings
<1>1. Effective(stored)[k] = IF InForceNow(stored)[k] = NotSet THEN KeyDefaults[k] ELSE InForceNow(stored)[k]
  BY DEF Effective, OrDefault
<1>2. InForceNow(stored)[k] = IF stored[k] = NotSet THEN setup[k] ELSE stored[k]
  BY DEF InForceNow
<1>3. k \notin MayBeEmpty => setup[k] # {} /\ stored[k] # {}
  BY SetupAssumption DEF Stored
<1>4. DOMAIN Effective(stored) = PageSettings
  BY DEF Effective, OrDefault
<1> QED BY <1>1, <1>2, <1>3, <1>4, DefaultsAre DEF IsUnset, MayBeEmpty
-----------------------------------------------------------------------------
(* The forms and what is submitted of them. *)
LEMMA ShownIs ==
  ASSUME NEW p \in Pages, NEW k \in PageSettings
  PROVE  /\ DOMAIN Shown(p) = PageSettings /\ Shown(p) = [x \in PageSettings |-> Shown(p)[x]]
         /\ k \notin PageKeys[p] => Shown(p)[k] = NotSet
         /\ k \in PageKeys[p] => Shown(p)[k] = IF k \in Optional THEN Suggested(k) ELSE StartsAt(k)
<1>1. PageKeys[p] \subseteq PageSettings
  BY SettingsAre
<1>2. DOMAIN Forms[p] = PageKeys[p]
      /\ \A x \in PageKeys[p] : Forms[p][x] = IF x \in Optional THEN Suggested(x) ELSE StartsAt(x)
  <2>0. /\ Forms["battery"] = BatteryForm /\ Forms["charge_planning"] = ChargePlanningForm
        /\ Forms["forecast"] = ForecastForm /\ Forms["hot_water"] = HotWaterForm /\ Forms["ev"] = EVForm
    BY DEF Forms
  <2>1. CASE p = "battery"
    BY <2>0, <2>1, KeysOf DEF BatteryForm, Optional
  <2>2. CASE p = "charge_planning"
    BY <2>0, <2>2, KeysOf DEF ChargePlanningForm, Optional
  <2>3. CASE p = "forecast"
    BY <2>0, <2>3, KeysOf DEF ForecastForm, Optional
  <2>4. CASE p = "hot_water"
    BY <2>0, <2>4, KeysOf DEF HotWaterForm, Optional
  <2>5. CASE p = "ev"
    BY <2>0, <2>5, KeysOf DEF EVForm, Optional
  <2> QED BY <2>1, <2>2, <2>3, <2>4, <2>5, KeysOf
<1>3. Shown(p) = [x \in PageSettings |-> IF x \in PageKeys[p] THEN Forms[p][x] ELSE NotSet]
  BY DEF Shown
<1> QED BY <1>1, <1>2, <1>3

Dropped == [k \in PageSettings |-> IF k \in AltHeatSection THEN NotSet ELSE Shown("hot_water")[k]]

LEMMA FormIs ==
  ASSUME NEW p \in Pages, NEW form \in Submissions(p)
  PROVE  \/ form = Shown(p)
         \/ \E k \in PageKeys[p] : \E v \in FieldChoices[k] : form = [Shown(p) EXCEPT ![k] = v]
         \/ p = "hot_water" /\ form = Dropped
BY DEF Submissions, Dropped

\* A field of a form is empty only if it may be.
LEMMA FormHas ==
  ASSUME NEW p \in Pages, NEW form \in Submissions(p), Stored(stored), setup \in SetupData,
         NEW k \in PageSettings
  PROVE  /\ DOMAIN form = PageSettings
         /\ k \notin PageKeys[p] => form[k] = NotSet
         /\ k \in PageKeys[p] /\ k \notin Optional /\ form[k] = NotSet
              => p = "hot_water" /\ form = Dropped
         /\ form[k] = {} => k \in {"winter", "shoulder"}
<1>1. \A x \in PageSettings :
         /\ x \notin PageKeys[p] => Shown(p)[x] = NotSet
         /\ x \in PageKeys[p] => Shown(p)[x] = IF x \in Optional THEN Suggested(x) ELSE StartsAt(x)
  BY ShownIs
<1>2. DOMAIN Shown(p) = PageSettings /\ PageKeys[p] \subseteq PageSettings
  BY ShownIs, SettingsAre
<1>3. \A x \in PageSettings :
         /\ x \notin Optional => Effective(stored)[x] # NotSet
         /\ x \notin MayBeEmpty => ~IsUnset(Effective(stored)[x])
  BY InForceIs
<1>4. \A x \in PageSettings : Suggested(x) # {}
  BY SmallValues DEF Suggested, IsUnset
<1>5. \A x \in PageSettings : Shown(p)[x] = {} => x \in {"winter", "shoulder"}
  BY <1>1, <1>3, <1>4, SmallValues DEF StartsAt, IsUnset, MayBeEmpty
<1>6. \A x \in PageKeys[p] \ Optional : Shown(p)[x] # NotSet
  BY <1>1, <1>2, <1>3 DEF StartsAt
<1>7. CASE form = Shown(p)
  BY <1>1, <1>2, <1>5, <1>6, <1>7
<1>8. ASSUME NEW x \in PageKeys[p], NEW v \in FieldChoices[x], form = [Shown(p) EXCEPT ![x] = v]
      PROVE  /\ DOMAIN form = PageSettings
             /\ k \notin PageKeys[p] => form[k] = NotSet
             /\ k \in PageKeys[p] /\ k \notin Optional => form[k] # NotSet
             /\ form[k] = {} => k \in {"winter", "shoulder"}
  <2>1. (v = NotSet => x \in Optional) /\ (v = {} => x \in {"winter", "shoulder"}) /\ x \in PageSettings
    BY <1>2, ChoicesAre
  <2>2. DOMAIN form = PageSettings /\ form[x] = v /\ (k # x => form[k] = Shown(p)[k])
    BY <1>2, <1>8
  <2> QED BY <1>1, <1>5, <1>6, <2>1, <2>2
<1>9. CASE p = "hot_water" /\ form = Dropped
  <2>1. DOMAIN form = PageSettings /\ form[k] = IF k \in AltHeatSection THEN NotSet ELSE Shown(p)[k]
    BY <1>9 DEF Dropped
  <2> QED BY <1>1, <1>5, <1>9, <2>1, SmallValues
<1> QED BY <1>7, <1>8, <1>9, FormIs
-----------------------------------------------------------------------------
(* What a page that is taken stores. *)
Takes(p, form, k) == k \in PageKeys[p] /\ ~(k \in AltHeatSection /\ form.alt_enabled = NotSet)
Told(form, k) ==
  IF form[k] = NotSet THEN {} ELSE IF k = "alt_label" THEN CleanLabel(form[k]) ELSE form[k]

LEMMA CleanIs ==
  ASSUME NEW p \in Pages, NEW form \in Submissions(p), Stored(stored), setup \in SetupData,
         NEW k \in PageSettings
  PROVE  /\ Clean(p, form)[k] = IF Takes(p, form, k) THEN Told(form, k) ELSE NotSet
         /\ Told(form, k) # NotSet
<1>1. \A x \in PageSettings :
         /\ DOMAIN form = PageSettings
         /\ x \notin PageKeys[p] => form[x] = NotSet
         /\ x \in PageKeys[p] /\ x \notin Optional /\ form[x] = NotSet
              => p = "hot_water" /\ form = Dropped
         /\ form[x] = {} => x \in {"winter", "shoulder"}
  BY FormHas
<1>2. Told(form, k) # NotSet
  BY SmallValues DEF Told, CleanLabel
<1>3. \A keys : OrEmpty(form, keys)[k] = IF k \in keys /\ form[k] = NotSet THEN {} ELSE form[k]
  BY DEF OrEmpty
<1>4. p # "hot_water" => PageKeys[p] \cap (AltHeatSection \cup {"alt_label"}) = {}
  BY KeysOf DEF AltHeatSection
<1>5. p # "hot_water" /\ k \in PageKeys[p] =>
        Takes(p, form, k) /\ Told(form, k) = IF form[k] = NotSet THEN {} ELSE form[k]
  BY <1>4 DEF Takes, Told
<1>6. p # "hot_water" /\ k \in PageKeys[p] /\ k \notin Optional => form[k] # NotSet
  BY <1>1
<1>7. k \notin PageKeys[p] => ~Takes(p, form, k) /\ form[k] = NotSet
  BY <1>1 DEF Takes
<1>8. CASE p = "battery"
  <2>1. Clean(p, form)[k] = IF k = "capacity_entity" /\ form[k] = NotSet THEN {} ELSE form[k]
    BY <1>3, <1>8 DEF Clean, CleanBattery
  <2>2. k \in PageKeys[p] /\ k # "capacity_entity" => k \notin Optional
    BY <1>8, KeysOf DEF Optional
  <2>3. "capacity_entity" \in PageKeys[p]
    BY <1>8, KeysOf
  <2> QED BY <1>2, <1>5, <1>6, <1>7, <1>8, <2>1, <2>2, <2>3
<1>9. CASE p = "charge_planning"
  <2>1. Clean(p, form)[k] = form[k]
    BY <1>9 DEF Clean, CleanChargePlanning
  <2>2. k \in PageKeys[p] => k \notin Optional
    BY <1>9, KeysOf DEF Optional
  <2> QED BY <1>2, <1>5, <1>6, <1>7, <1>9, <2>1, <2>2
<1>10. CASE p = "forecast"
  <2>1. Clean(p, form)[k] = IF k \in PageKeys[p] /\ form[k] = NotSet THEN {} ELSE form[k]
    BY <1>3, <1>10 DEF Clean, CleanForecast
  <2> QED BY <1>2, <1>5, <1>7, <1>10, <2>1
<1>11. CASE p = "ev"
  <2>1. Clean(p, form)[k] = IF k = "car" /\ form[k] = NotSet THEN {} ELSE form[k]
    BY <1>3, <1>11 DEF Clean, CleanEV
  <2>2. k \in PageKeys[p] /\ k # "car" => k \notin Optional
    BY <1>11, KeysOf DEF Optional
  <2>3. "car" \in PageKeys[p]
    BY <1>11, KeysOf
  <2> QED BY <1>2, <1>5, <1>6, <1>7, <1>11, <2>1, <2>2, <2>3
<1>12. CASE p = "hot_water"
  <2> DEFINE sensors == {"temp_sensor", "lower_sensor", "ready_times"}
  <2>1. /\ Clean(p, form) = OrEmpty(CleanAltHeat(form), sensors)
        /\ PageKeys[p] = sensors \cup AltHeatSection /\ sensors \cap AltHeatSection = {}
        /\ "alt_enabled" \in AltHeatSection /\ "alt_enabled" \in PageSettings
        /\ "alt_enabled" \notin Optional /\ "alt_label" \in AltHeatSection
    BY <1>12, KeysOf, SettingsAre DEF Clean, CleanHotWater, AltHeatSection, Optional, AllSettings
  <2>2. Clean(p, form)[k] =
          IF k \in sensors /\ CleanAltHeat(form)[k] = NotSet THEN {} ELSE CleanAltHeat(form)[k]
    BY <2>1 DEF OrEmpty
  <2>3. CASE form.alt_enabled = NotSet
    <3>1. form = Dropped
      BY <1>1, <1>12, <2>1, <2>3
    <3>2. \A x \in AltHeatSection : form[x] = NotSet
      <4>1. AltHeatSection \subseteq PageSettings
        BY SettingsAre DEF AltHeatSection, AllSettings
      <4> QED BY <3>1, <4>1 DEF Dropped
    <3>3. CleanAltHeat(form) = form
      BY <3>2 DEF CleanAltHeat
    <3>4. Takes(p, form, k) <=> k \in sensors
      BY <1>12, <2>1, <2>3 DEF Takes
    <3>5. k \in sensors => k # "alt_label"
      OBVIOUS
    <3>6. k \notin sensors => form[k] = NotSet
      BY <1>7, <2>1, <3>2
    <3> QED BY <1>2, <2>2, <3>3, <3>4, <3>5, <3>6 DEF Told
  <2>4. CASE form.alt_enabled # NotSet
    <3> DEFINE named == OrEmpty(form, {"alt_cost"})
    <3>1. CleanAltHeat(form) = [named EXCEPT !.alt_label = CleanLabel(@)]
      BY <2>1, <2>4 DEF CleanAltHeat
    <3>2. named[k] = (IF k = "alt_cost" /\ form[k] = NotSet THEN {} ELSE form[k]) /\ DOMAIN named = PageSettings
      BY <1>3 DEF OrEmpty
    <3> HIDE DEF named
    <3>3. CleanAltHeat(form)[k] = IF k = "alt_label" THEN CleanLabel(named[k]) ELSE named[k]
      BY <3>1, <3>2
    <3>4. Takes(p, form, k) <=> k \in PageKeys[p]
      BY <2>4 DEF Takes
    <3>5. form # Dropped
      BY <2>1, <2>4 DEF Dropped
    <3>6. k \in PageKeys[p] /\ k \notin sensors /\ k # "alt_cost" => form[k] # NotSet
      BY <1>1, <2>1, <3>5 DEF AltHeatSection, Optional
    <3>7. "alt_label" \notin sensors \cup {"alt_cost"} /\ "alt_cost" \in PageKeys[p] /\ "alt_cost" \notin sensors
      BY <2>1 DEF AltHeatSection
    <3>8. sensors \subseteq PageKeys[p] /\ "alt_label" \in PageKeys[p]
      BY <2>1
    <3> HIDE DEF sensors
    <3> QED BY <1>2, <1>7, <2>2, <3>2, <3>3, <3>4, <3>6, <3>7, <3>8, SmallValues DEF Told
  <2> QED BY <2>3, <2>4
<1> QED BY <1>8, <1>9, <1>10, <1>11, <1>12, KeysOf

\* No month twice, a name, nothing empty that needs a value, and nothing new from a form as shown.
LEMMA CleanHas ==
  ASSUME NEW p \in Pages, NEW form \in Submissions(p), ~Errors(p, form), Stored(stored),
         setup \in SetupData, Agrees(Effective(stored)), NEW k \in PageSettings
  PROVE  /\ Clean(p, form)[k] = {} => k \in MayBeEmpty
         /\ Clean(p, form).alt_label \notin {{Blank}, {TooLong}}
         /\ Clean(p, form).winter = NotSet <=> Clean(p, form).shoulder = NotSet
         /\ Clean(p, form).winter # NotSet => Clean(p, form).winter \cap Clean(p, form).shoulder = {}
         /\ form = Shown(p) /\ Clean(p, form)[k] # NotSet => SameValue(Clean(p, form)[k], Effective(stored)[k])
<1>1. \A x \in PageSettings :
        Clean(p, form)[x] = IF Takes(p, form, x) THEN Told(form, x) ELSE NotSet
  BY CleanIs
<1>2. \A x \in PageSettings :
         /\ DOMAIN form = PageSettings
         /\ x \notin PageKeys[p] => form[x] = NotSet
         /\ x \in PageKeys[p] /\ x \notin Optional /\ form[x] = NotSet
              => p = "hot_water" /\ form = Dropped
         /\ form[x] = {} => x \in {"winter", "shoulder"}
  BY FormHas
<1>3. \A x \in PageSettings : Told(form, x) # NotSet
  BY CleanIs
<1>4. Clean(p, form)[k] = {} => k \in MayBeEmpty
  <2>1. SUFFICES ASSUME Clean(p, form)[k] = {} PROVE k \in MayBeEmpty
    OBVIOUS
  <2>2. Takes(p, form, k) /\ Told(form, k) = {}
    BY <1>1, <2>1, SmallValues
  <2>3. CASE form[k] = NotSet
    <3>1. k \notin Optional => p = "hot_water" /\ form = Dropped
      BY <1>2, <2>2, <2>3 DEF Takes
    <3>2. form = Dropped => form["alt_enabled"] = NotSet
      BY SettingsAre DEF Dropped, AltHeatSection, AllSettings
    <3>3. p = "hot_water" /\ k \notin Optional /\ k \in PageKeys[p] => k \in AltHeatSection
      BY KeysOf DEF Optional, AltHeatSection
    <3> QED BY <2>2, <3>1, <3>2, <3>3 DEF Takes, MayBeEmpty
  <2>4. CASE form[k] # NotSet
    <3>1. form[k] = {}
      BY <2>2, <2>4 DEF Told, CleanLabel
    <3> QED BY <1>2, <3>1 DEF MayBeEmpty
  <2> QED BY <2>3, <2>4
<1>5. Clean(p, form).alt_label \notin {{Blank}, {TooLong}}
  <2>1. "alt_label" \in PageSettings
    BY SettingsAre DEF AllSettings
  <2>2. {Blank} # {} /\ {TooLong} # {} /\ {1} # {Blank} /\ {1} # {TooLong}
    BY DEF Blank, TooLong
  <2>3. NotSet \notin {{Blank}, {TooLong}}
    BY SmallValues DEF Blank, TooLong
  <2>4. Told(form, "alt_label") \notin {{Blank}, {TooLong}}
    BY <2>2 DEF Told, CleanLabel
  <2> QED BY <1>1, <2>1, <2>3, <2>4
<1>6. "winter" \in PageSettings /\ "shoulder" \in PageSettings
  BY SettingsAre DEF AllSettings
<1>7. p # "charge_planning" => Clean(p, form).winter = NotSet /\ Clean(p, form).shoulder = NotSet
  <2>1. p # "charge_planning" => "winter" \notin PageKeys[p] /\ "shoulder" \notin PageKeys[p]
    BY KeysOf
  <2> QED BY <1>1, <1>6, <2>1 DEF Takes
<1>8. p = "charge_planning" =>
        /\ Clean(p, form).winter # NotSet /\ Clean(p, form).shoulder # NotSet
        /\ Clean(p, form).winter \cap Clean(p, form).shoulder = {}
  <2>1. SUFFICES ASSUME p = "charge_planning"
                 PROVE  /\ Clean(p, form).winter # NotSet /\ Clean(p, form).shoulder # NotSet
                        /\ Clean(p, form).winter \cap Clean(p, form).shoulder = {}
    OBVIOUS
  <2>2. form.winter # NotSet /\ form.shoulder # NotSet
    BY <1>2, <1>6, <2>1, KeysOf DEF Optional
  <2>3. Takes(p, form, "winter") /\ Takes(p, form, "shoulder")
    BY <2>1, KeysOf DEF Takes, AltHeatSection
  <2>4. Told(form, "winter") = form.winter /\ Told(form, "shoulder") = form.shoulder
    BY <2>2 DEF Told
  <2>5. form.winter \cap form.shoulder = {}
    BY <2>1 DEF Errors, OverlappingMonths
  <2> QED BY <1>1, <1>6, <2>2, <2>3, <2>4, <2>5
<1>9. form = Shown(p) /\ Clean(p, form)[k] # NotSet => SameValue(Clean(p, form)[k], Effective(stored)[k])
  <2>1. SUFFICES ASSUME form = Shown(p), Clean(p, form)[k] # NotSet
                 PROVE  SameValue(Clean(p, form)[k], Effective(stored)[k])
    OBVIOUS
  <2>2. Takes(p, form, k) /\ Clean(p, form)[k] = Told(form, k) /\ k \in PageKeys[p]
    BY <1>1, <2>1 DEF Takes
  <2>3. form[k] = IF k \in Optional THEN Suggested(k) ELSE StartsAt(k)
    BY <2>1, <2>2, ShownIs
  <2>4. k \notin Optional => Effective(stored)[k] # NotSet
    BY InForceIs
  <2>5. k = "alt_label" => k \notin Optional /\ CleanLabel(StartsAt(k)) = StartsAt(k)
    BY DEF Optional, CleanLabel, StartsAt, Agrees
  <2> QED BY <2>2, <2>3, <2>4, <2>5 DEF Told, Suggested, StartsAt, SameValue, IsUnset
<1> QED BY <1>4, <1>5, <1>7, <1>8, <1>9
-----------------------------------------------------------------------------
(* What a save does. *)
LEMMA SameIsEqual ==
  /\ \A a, b : SameValue(a, b) => SameValue(b, a)
  /\ \A a, b, c : SameValue(a, b) /\ SameValue(b, c) => SameValue(a, c)
  /\ \A a : SameValue(a, a)
  /\ \A a, b : SameValue(a, b) /\ a # NotSet /\ b # NotSet => a = b
BY DEF SameValue, IsUnset

Changes(k) == entered[k] # NotSet /\ ~SameValue(entered[k], Effective(stored)[k])

LEMMA SavedIs ==
  ASSUME NEW k \in PageSettings
  PROVE  /\ DOMAIN SavedOptions = PageSettings /\ SavedOptions = [x \in PageSettings |-> SavedOptions[x]]
         /\ SavedOptions[k] = IF Changes(k) THEN entered[k] ELSE stored[k]
         /\ Effective(SavedOptions)[k] = IF Changes(k) THEN entered[k] ELSE Effective(stored)[k]
         /\ entered[k] # NotSet => SameValue(Effective(SavedOptions)[k], entered[k])
         /\ entered[k] = NotSet => Effective(SavedOptions)[k] = Effective(stored)[k]
<1>1. ChangedValues(entered, Effective(stored))[k] = IF Changes(k) THEN entered[k] ELSE NotSet
  BY DEF ChangedValues, Changes
<1>2. /\ DOMAIN SavedOptions = PageSettings /\ SavedOptions = [x \in PageSettings |-> SavedOptions[x]]
      /\ SavedOptions[k] = IF Changes(k) THEN entered[k] ELSE stored[k]
  BY <1>1 DEF SavedOptions, Changes
<1>3. \A opts : Effective(opts)[k] =
         IF opts[k] # NotSet THEN opts[k] ELSE IF setup[k] # NotSet THEN setup[k] ELSE KeyDefaults[k]
  BY DEF Effective, OrDefault, InForceNow
<1>4. Effective(SavedOptions)[k] = IF Changes(k) THEN entered[k] ELSE Effective(stored)[k]
  BY <1>2, <1>3 DEF Changes
<1> QED BY <1>2, <1>4, SameIsEqual DEF Changes

-----------------------------------------------------------------------------
(* The invariant. *)
EnteredSound ==
  /\ entered = ticked /\ entered = [k \in PageSettings |-> entered[k]]
  /\ \A k \in PageSettings : entered[k] = {} => k \in MayBeEmpty
  /\ entered.alt_label \notin {{Blank}, {TooLong}}
  /\ entered.winter = NotSet <=> entered.shoulder = NotSet
  /\ entered.winter # NotSet => entered.winter \cap entered.shoulder = {}

NothingNew ==
  page # "closed" /\ ~altered =>
    \A k \in PageSettings : entered[k] # NotSet => SameValue(entered[k], Effective(stored)[k])

PagesInv ==
  /\ setup \in SetupData
  /\ Stored(stored)
  /\ believed = [k \in PageSettings |-> believed[k]]
  /\ altered \in BOOLEAN
  /\ EnteredSound /\ NothingNew /\ SettingsHold /\ SettingsAgree

LEMMA NothingIs ==
  ASSUME NEW k \in PageSettings
  PROVE  NothingTicked[k] = NotSet
BY DEF NothingTicked

LEMMA NothingEntered ==
  ASSUME entered = NothingTicked, ticked = NothingTicked
  PROVE  EnteredSound /\ NothingNew
<1>1. \A k \in PageSettings : entered[k] = NotSet
  BY NothingIs
<1>2. entered = [k \in PageSettings |-> entered[k]]
  BY DEF NothingTicked
<1>3. {"winter", "shoulder", "alt_label"} \subseteq PageSettings
  BY SettingsAre DEF AllSettings
<1>4. entered.winter = NotSet /\ entered.shoulder = NotSet /\ entered.alt_label = NotSet
  BY <1>1, <1>3
<1> QED BY <1>1, <1>2, <1>4, SmallValues DEF EnteredSound, NothingNew, Blank, TooLong

LEMMA PagesStart ==
  ASSUME SettingsInit
  PROVE  PagesInv
<1>1. setup \in SetupData /\ stored = NothingTicked /\ believed = Effective(stored) /\ altered \in BOOLEAN
  BY DEF SettingsInit
<1>2. EnteredSound /\ NothingNew
  BY NothingEntered DEF SettingsInit
<1>3. Stored(stored)
  BY <1>1, SmallValues DEF Stored, NothingTicked
<1>4. believed = [k \in PageSettings |-> believed[k]]
  BY <1>1 DEF Effective, OrDefault
<1>5. SettingsHold
  BY <1>1, SameIsEqual DEF SettingsHold
<1>6. SettingsAgree
  <2>1. Effective(stored) = OrDefault(setup)
    <3>1. \A k \in PageSettings : InForceNow(stored)[k] = setup[k]
      BY <1>1, NothingIs DEF InForceNow
    <3>2. Effective(stored) = [k \in PageSettings |->
             IF InForceNow(stored)[k] = NotSet THEN KeyDefaults[k] ELSE InForceNow(stored)[k]]
      BY DEF Effective, OrDefault
    <3>3. OrDefault(setup) = [k \in PageSettings |-> IF setup[k] = NotSet THEN KeyDefaults[k] ELSE setup[k]]
      BY DEF OrDefault
    <3> QED BY <3>1, <3>2, <3>3
  <2> QED BY <1>1, <2>1, SetupAssumption DEF SettingsAgree
<1> QED BY <1>1, <1>2, <1>3, <1>4, <1>5, <1>6 DEF PagesInv

LEMMA SubmitKeeps ==
  ASSUME PagesInv, SubmitSettings
  PROVE  PagesInv'
<1>1. /\ page \in Pages
      /\ UNCHANGED <<setup, stored, believed, moves>>
  BY DEF SubmitSettings
<1>2. page # "closed"
  BY <1>1, KeysOf
<1>3. Effective(stored)' = Effective(stored)
  BY <1>1 DEF Effective, OrDefault, InForceNow
<1>4. /\ setup' \in SetupData /\ Stored(stored)' /\ (believed = [k \in PageSettings |-> believed[k]])'
      /\ SettingsHold' /\ SettingsAgree'
  BY <1>1, <1>3 DEF PagesInv, Stored, SettingsHold, SettingsAgree
<1>5. PICK form \in Submissions(page) :
        IF Errors(page, form) THEN UNCHANGED <<page, entered, warned, ticked, altered>>
        ELSE IF Warnings(page, form) # {} /\ warned[page] # Warnings(page, form)
             THEN UNCHANGED <<page, entered, ticked, altered>>
             ELSE /\ entered' = [k \in PageSettings |-> IF Clean(page, form)[k] = NotSet THEN entered[k]
                                                        ELSE Clean(page, form)[k]]
                  /\ ticked' =
                        [k \in PageSettings |->
                           IF k \notin PageKeys[page] \/ (k \in AltHeatSection /\ form.alt_enabled = NotSet)
                           THEN ticked[k]
                           ELSE IF form[k] = NotSet THEN {}
                           ELSE IF k = "alt_label" THEN CleanLabel(form[k]) ELSE form[k]]
                  /\ altered' = (altered \/ form # Shown(page))
  BY DEF SubmitSettings
<1>6. CASE UNCHANGED <<page, entered, ticked, altered>>
  <2>1. EnteredSound' /\ NothingNew' /\ altered' \in BOOLEAN
    BY <1>3, <1>6 DEF PagesInv, EnteredSound, NothingNew
  <2> QED BY <1>4, <2>1 DEF PagesInv
<1>7. CASE ~UNCHANGED <<page, entered, ticked, altered>>
  <2>1. /\ ~Errors(page, form)
        /\ entered' = [k \in PageSettings |-> IF Clean(page, form)[k] = NotSet THEN entered[k]
                                              ELSE Clean(page, form)[k]]
        /\ ticked' =
              [k \in PageSettings |->
                 IF k \notin PageKeys[page] \/ (k \in AltHeatSection /\ form.alt_enabled = NotSet)
                 THEN ticked[k]
                 ELSE IF form[k] = NotSet THEN {}
                 ELSE IF k = "alt_label" THEN CleanLabel(form[k]) ELSE form[k]]
        /\ altered' = (altered \/ form # Shown(page))
    BY <1>5, <1>7
  <2>2. Stored(stored) /\ setup \in SetupData /\ Agrees(Effective(stored))
    BY DEF PagesInv, SettingsAgree
  <2>3. \A k \in PageSettings :
          /\ Clean(page, form)[k] = IF Takes(page, form, k) THEN Told(form, k) ELSE NotSet
          /\ Told(form, k) # NotSet
    BY <1>1, <2>2, CleanIs
  <2>4. \A k \in PageSettings :
         /\ Clean(page, form)[k] = {} => k \in MayBeEmpty
         /\ Clean(page, form).alt_label \notin {{Blank}, {TooLong}}
         /\ Clean(page, form).winter = NotSet <=> Clean(page, form).shoulder = NotSet
         /\ Clean(page, form).winter # NotSet => Clean(page, form).winter \cap Clean(page, form).shoulder = {}
         /\ form = Shown(page) /\ Clean(page, form)[k] # NotSet
              => SameValue(Clean(page, form)[k], Effective(stored)[k])
    BY <1>1, <2>1, <2>2, CleanHas
  <2> DEFINE cleaned == Clean(page, form)
  <2>5. {"winter", "shoulder", "alt_label"} \subseteq PageSettings
    BY SettingsAre DEF AllSettings
  <2>6. ticked' = [k \in PageSettings |-> IF Takes(page, form, k) THEN Told(form, k) ELSE ticked[k]]
    BY <2>1 DEF Takes, Told
  <2>7. entered' = ticked'
    <3>1. ASSUME NEW k \in PageSettings
          PROVE  (IF Clean(page, form)[k] = NotSet THEN entered[k] ELSE Clean(page, form)[k])
                   = IF Takes(page, form, k) THEN Told(form, k) ELSE ticked[k]
      BY <2>3 DEF PagesInv, EnteredSound
    <3> QED BY <2>1, <2>6, <3>1
  <2>8. \A k \in PageSettings : entered'[k] = IF cleaned[k] = NotSet THEN entered[k] ELSE cleaned[k]
    BY <2>1
  <2>9. entered' = [k \in PageSettings |-> entered'[k]]
    BY <2>1
  <2>10. \A k \in PageSettings : entered'[k] = {} => k \in MayBeEmpty
    BY <2>4, <2>8 DEF PagesInv, EnteredSound
  <2>11. entered'.alt_label \notin {{Blank}, {TooLong}}
    BY <2>4, <2>5, <2>8 DEF PagesInv, EnteredSound
  <2>12. /\ entered'.winter = NotSet <=> entered'.shoulder = NotSet
         /\ entered'.winter # NotSet => entered'.winter \cap entered'.shoulder = {}
    <3>1. CASE cleaned.winter = NotSet
      BY <2>4, <2>5, <2>8, <3>1 DEF PagesInv, EnteredSound
    <3>2. CASE cleaned.winter # NotSet
      BY <2>4, <2>5, <2>8, <3>2
    <3> QED BY <3>1, <3>2
  <2>13. EnteredSound'
    BY <2>7, <2>9, <2>10, <2>11, <2>12 DEF EnteredSound
  <2>14. altered' \in BOOLEAN /\ (~altered' => ~altered /\ form = Shown(page))
    BY <2>1, Zenon DEF PagesInv
  <2>15. ASSUME ~altered', NEW k \in PageSettings, entered'[k] # NotSet
         PROVE  SameValue(entered'[k], Effective(stored)[k])
    <3>1. CASE cleaned[k] = NotSet
      BY <1>2, <2>8, <2>14, <2>15, <3>1 DEF PagesInv, NothingNew
    <3>2. CASE cleaned[k] # NotSet
      BY <2>4, <2>8, <2>14, <2>15, <3>2
    <3> QED BY <3>1, <3>2
  <2>16. NothingNew'
    BY <1>3, <2>15 DEF NothingNew
  <2> QED BY <1>4, <2>13, <2>14, <2>16 DEF PagesInv
<1> QED BY <1>6, <1>7

LEMMA SaveKeeps ==
  ASSUME PagesInv, SaveSettings
  PROVE  PagesInv'
<1>1. /\ page' = "closed" /\ stored' = SavedOptions
      /\ believed' = [k \in PageSettings |-> IF ticked[k] = NotSet THEN believed[k] ELSE ticked[k]]
      /\ UNCHANGED <<setup, entered, ticked, altered>>
  BY DEF SaveSettings
<1>2. Effective(stored)' = Effective(SavedOptions)
  BY <1>1 DEF Effective, OrDefault, InForceNow
<1>3. \A k \in PageSettings :
         /\ SavedOptions[k] = IF Changes(k) THEN entered[k] ELSE stored[k]
         /\ Effective(SavedOptions)[k] = IF Changes(k) THEN entered[k] ELSE Effective(stored)[k]
         /\ entered[k] # NotSet => SameValue(Effective(SavedOptions)[k], entered[k])
         /\ entered[k] = NotSet => Effective(SavedOptions)[k] = Effective(stored)[k]
  BY SavedIs
<1>4. DOMAIN SavedOptions = PageSettings /\ SavedOptions = [x \in PageSettings |-> SavedOptions[x]]
  BY DEF SavedOptions
<1>5. Stored(stored)'
  BY <1>1, <1>3, <1>4 DEF PagesInv, EnteredSound, Stored
<1>6. EnteredSound' /\ NothingNew' /\ setup' \in SetupData /\ altered' \in BOOLEAN
      /\ (believed = [k \in PageSettings |-> believed[k]])'
  BY <1>1 DEF PagesInv, EnteredSound, NothingNew
<1>7. SettingsHold'
  <2>1. ASSUME NEW k \in PageSettings PROVE SameValue(Effective(SavedOptions)[k], believed'[k])
    <3>1. believed'[k] = IF entered[k] = NotSet THEN believed[k] ELSE entered[k]
      BY <1>1 DEF PagesInv, EnteredSound
    <3> QED BY <1>3, <3>1 DEF PagesInv, SettingsHold
  <2> QED BY <1>2, <2>1 DEF SettingsHold
<1>8. SettingsAgree'
  <2>1. {"winter", "shoulder", "alt_label"} \subseteq PageSettings /\ {"winter", "shoulder"} \cap Optional = {}
    BY SettingsAre DEF AllSettings, Optional
  <2>2. \A k \in {"winter", "shoulder"} : Effective(stored)[k] # NotSet
    BY <2>1, InForceIs DEF PagesInv
  <2>3. \A k \in {"winter", "shoulder"} :
          Effective(SavedOptions)[k] = IF entered[k] = NotSet THEN Effective(stored)[k] ELSE entered[k]
    BY <1>3, <2>1, <2>2, SameIsEqual DEF Changes
  <2>4. Effective(SavedOptions).winter \cap Effective(SavedOptions).shoulder = {}
    BY <2>3 DEF PagesInv, EnteredSound, SettingsAgree, Agrees
  <2>5. Effective(SavedOptions).alt_label \notin {{Blank}, {TooLong}}
    BY <1>3, <2>1 DEF PagesInv, EnteredSound, SettingsAgree, Agrees
  <2> QED BY <1>2, <2>4, <2>5 DEF SettingsAgree, Agrees
<1> QED BY <1>5, <1>6, <1>7, <1>8 DEF PagesInv

\* An option set elsewhere to a value that is there.
LEMMA SetElsewhere ==
  ASSUME PagesInv, NEW k \in PageSettings, NEW v, v # NotSet, v # {}, k \notin {"winter", "shoulder", "alt_label"},
         stored' = [stored EXCEPT ![k] = v], believed' = [believed EXCEPT ![k] = v], altered' = TRUE,
         UNCHANGED <<setup, entered, ticked>>
  PROVE  PagesInv'
<1>1. \A x \in PageSettings : /\ stored'[x] = IF x = k THEN v ELSE stored[x]
                              /\ believed'[x] = IF x = k THEN v ELSE believed[x]
  BY DEF PagesInv, Stored
<1>2. Stored(stored)'
  BY <1>1 DEF PagesInv, Stored
<1>3. (believed = [x \in PageSettings |-> believed[x]])'
  BY DEF PagesInv
<1>4. \A x \in PageSettings : Effective(stored)'[x] = IF x = k THEN v ELSE Effective(stored)[x]
  <2>1. \A x \in PageSettings : Effective(stored)[x] =
         IF stored[x] # NotSet THEN stored[x] ELSE IF setup[x] # NotSet THEN setup[x] ELSE KeyDefaults[x]
    BY DEF Effective, OrDefault, InForceNow
  <2>2. \A x \in PageSettings : Effective(stored)'[x] =
         IF stored'[x] # NotSet THEN stored'[x] ELSE IF setup[x] # NotSet THEN setup[x] ELSE KeyDefaults[x]
    BY DEF Effective, OrDefault, InForceNow
  <2>3. ASSUME NEW x \in PageSettings
        PROVE  Effective(stored)'[x] = IF x = k THEN v ELSE Effective(stored)[x]
    <3>1. CASE x = k
      BY <1>1, <2>2, <3>1
    <3>2. CASE x # k
      BY <1>1, <2>1, <2>2, <3>2
    <3> QED BY <3>1, <3>2
  <2> QED BY <2>3
<1>5. SettingsHold'
  <2>1. ASSUME NEW x \in PageSettings
        PROVE  SameValue(Effective(stored)'[x], believed'[x])
    <3>1. CASE x = k
      BY <1>1, <1>4, <3>1, SameIsEqual
    <3>2. CASE x # k
      <4>1. SameValue(Effective(stored)[x], believed[x])
        BY DEF PagesInv, SettingsHold
      <4> QED BY <1>1, <1>4, <3>2, <4>1
    <3> QED BY <3>1, <3>2
  <2> QED BY <2>1 DEF SettingsHold, SameValue, IsUnset
<1>6. {"winter", "shoulder", "alt_label"} \subseteq PageSettings
  BY SettingsAre DEF AllSettings
<1>7. SettingsAgree'
  BY <1>4, <1>6 DEF PagesInv, SettingsAgree, Agrees
<1>8. EnteredSound' /\ NothingNew' /\ setup' \in SetupData /\ altered' \in BOOLEAN
  BY DEF PagesInv, EnteredSound, NothingNew
<1> QED BY <1>2, <1>3, <1>5, <1>7, <1>8 DEF PagesInv

LEMMA ElsewhereKeeps ==
  ASSUME PagesInv, NEW k \in {"floor", "battery_cost"}, MoveElsewhere(k) \/ AdoptSensor
  PROVE  PagesInv'
<1>1. {"floor", "battery_cost", "capacity_entity"} \subseteq PageSettings
  BY SettingsAre DEF AllSettings
<1>2. CASE MoveElsewhere(k)
  <2>1. PICK v \in FieldChoices[k] : stored' = [stored EXCEPT ![k] = v] /\ believed' = [believed EXCEPT ![k] = v]
    BY <1>2 DEF MoveElsewhere
  <2>2. v # NotSet /\ v # {}
    BY <1>1, ChoicesAre DEF Optional
  <2>3. altered' = TRUE /\ UNCHANGED <<setup, entered, ticked>>
    BY <1>2 DEF MoveElsewhere
  <2> QED BY <1>1, <2>1, <2>2, <2>3, SetElsewhere
<1>3. CASE AdoptSensor
  <2>1. /\ stored' = [stored EXCEPT !["capacity_entity"] = {1}]
        /\ believed' = [believed EXCEPT !["capacity_entity"] = {1}]
        /\ altered' = TRUE /\ UNCHANGED <<setup, entered, ticked>>
    BY <1>3 DEF AdoptSensor
  <2> QED BY <1>1, <2>1, SmallValues, SetElsewhere
<1> QED BY <1>2, <1>3

LEMMA PagesKept ==
  ASSUME PagesInv, [SettingsNext]_settingsVars
  PROVE  PagesInv'
<1>1. ASSUME UNCHANGED <<setup, stored, entered, ticked, believed, altered>>,
             page' # "closed" => page # "closed"
      PROVE  PagesInv'
  <2>1. Effective(stored)' = Effective(stored)
    BY <1>1 DEF Effective, OrDefault, InForceNow
  <2>2. EnteredSound' /\ SettingsHold' /\ SettingsAgree' /\ Stored(stored)'
    BY <1>1, <2>1 DEF PagesInv, EnteredSound, SettingsHold, SettingsAgree, Stored
  <2>3. NothingNew'
    BY <1>1, <2>1 DEF PagesInv, NothingNew
  <2> QED BY <1>1, <2>2, <2>3 DEF PagesInv
<1>2. CASE OpenPages
  <2>1. entered' = NothingTicked /\ ticked' = NothingTicked /\ altered' = FALSE
        /\ UNCHANGED <<setup, stored, believed>>
    BY <1>2 DEF OpenPages
  <2>2. Effective(stored)' = Effective(stored)
    BY <2>1 DEF Effective, OrDefault, InForceNow
  <2>3. \A k \in PageSettings : entered'[k] = NotSet
    BY <2>1, NothingIs
  <2>4. entered' = [k \in PageSettings |-> entered'[k]]
    BY <2>1 DEF NothingTicked
  <2>5. {"winter", "shoulder", "alt_label"} \subseteq PageSettings
    BY SettingsAre DEF AllSettings
  <2>6. entered'.winter = NotSet /\ entered'.shoulder = NotSet /\ entered'.alt_label = NotSet
    BY <2>3, <2>5
  <2>7. EnteredSound' /\ NothingNew'
    BY <2>1, <2>3, <2>4, <2>6, SmallValues DEF EnteredSound, NothingNew, Blank, TooLong
  <2>8. SettingsHold' /\ SettingsAgree' /\ Stored(stored)'
    BY <2>1, <2>2 DEF PagesInv, SettingsHold, SettingsAgree, Stored
  <2> QED BY <2>1, <2>7, <2>8 DEF PagesInv
<1>3. CASE SubmitSettings
  BY <1>3, SubmitKeeps
<1>4. CASE AskToSave \/ ClosePages
  BY <1>1, <1>4 DEF AskToSave, ClosePages
<1>5. CASE SaveSettings
  BY <1>5, SaveKeeps
<1>6. CASE AdoptSensor \/ \E k \in {"floor", "battery_cost"} : MoveElsewhere(k)
  BY <1>6, ElsewhereKeeps
<1>7. CASE \E p \in Pages : ShowPage(p)
  BY <1>1, <1>7 DEF ShowPage
<1>8. CASE UNCHANGED settingsVars
  BY <1>1, <1>8 DEF settingsVars
<1> QED BY <1>2, <1>3, <1>4, <1>5, <1>6, <1>7, <1>8 DEF SettingsNext
-----------------------------------------------------------------------------
(* What the invariant promises. *)
LEMMA ConfirmIsTrue ==
  ASSUME PagesInv, NEW k \in PageSettings
  PROVE  Merged(stored)[k] # Merged(SavedOptions)[k]
           <=> ~SameValue(Effective(SavedOptions)[k], Effective(stored)[k])
<1> DEFINE was == InForceNow(stored)[k]
           is == InForceNow(SavedOptions)[k]
           default == KeyDefaults[k]
           Told2(value) == IF value = {} /\ k \notin Lists THEN NotSet
                           ELSE IF value = NotSet /\ k \in {"winter", "shoulder"} THEN default ELSE value
<1>1. \A opts : InForceNow(opts)[k] = IF opts[k] = NotSet THEN setup[k] ELSE opts[k]
  BY DEF InForceNow
<1>2. Merged(stored)[k] = Told2(was) /\ Merged(SavedOptions)[k] = Told2(is)
  BY DEF Merged
<1>3. Effective(stored)[k] = IF was = NotSet THEN default ELSE was
  BY DEF Effective, OrDefault
<1>4. /\ SavedOptions[k] = IF Changes(k) THEN entered[k] ELSE stored[k]
      /\ Effective(SavedOptions)[k] = IF Changes(k) THEN entered[k] ELSE Effective(stored)[k]
  BY SavedIs
<1>5. CASE ~Changes(k)
  <2>1. was = is
    BY <1>1, <1>4, <1>5
  <2> HIDE DEF was, is, Told2
  <2> QED BY <1>2, <1>4, <1>5, <2>1, SameIsEqual
<1>6. CASE Changes(k)
  <2>1. entered[k] # NotSet /\ ~SameValue(entered[k], Effective(stored)[k]) /\ is = entered[k]
    BY <1>1, <1>4, <1>6 DEF Changes
  <2>2. entered[k] = {} => k \in MayBeEmpty
    BY DEF PagesInv, EnteredSound
  <2>3. (default = NotSet <=> k \in Optional) /\ default # {}
    BY DefaultsAre
  <2>4. MayBeEmpty = Optional \cup {"winter", "shoulder"} /\ {"winter", "shoulder"} \subseteq Lists
        /\ "winter" \notin Optional /\ "shoulder" \notin Optional
    BY DEF MayBeEmpty, Lists, Optional
  <2> HIDE DEF was, is, default
  <2>5. Told2(was) # Told2(is)
    BY <1>3, <2>1, <2>2, <2>3, <2>4, SmallValues DEF SameValue, IsUnset
  <2> HIDE DEF Told2
  <2> QED BY <1>2, <1>4, <1>6, <2>1, <2>5
<1> QED BY <1>5, <1>6

LEMMA InvIsSound ==
  ASSUME PagesInv
  PROVE  PagesAreSound
<1>1. UntouchedSavesNothing
  <2>1. SUFFICES ASSUME page # "closed", ~altered PROVE SavedOptions = stored
    BY DEF UntouchedSavesNothing
  <2>2. \A k \in PageSettings : ~Changes(k)
    BY <2>1 DEF PagesInv, NothingNew, Changes
  <2>3. \A k \in PageSettings : SavedOptions[k] = stored[k]
    BY <2>2, SavedIs
  <2>4. SavedOptions = [k \in PageSettings |-> SavedOptions[k]]
    BY DEF SavedOptions
  <2> QED BY <2>3, <2>4 DEF PagesInv, Stored
<1>2. ConfirmTellsTheTruth
  <2>1. Described = {k \in PageSettings : Merged(stored)[k] # Merged(SavedOptions)[k]}
    BY DEF Described
  <2> QED BY <2>1, ConfirmIsTrue DEF ConfirmTellsTheTruth
<1> QED BY <1>1, <1>2 DEF PagesInv, PagesAreSound

\* The settings pages lose no setting and invent none (wizard/options_flow.py, core/wizard_pages.py):
\* for any set-up, any number of pages and any option moved elsewhere meanwhile.
THEOREM PagesSound == SettingsSpec => []PagesAreSound
<1>1. SettingsInit => PagesInv
  BY PagesStart
<1>2. PagesInv /\ [SettingsNext]_settingsVars => PagesInv'
  BY PagesKept
<1>3. PagesInv => PagesAreSound
  BY InvIsSound
<1> QED BY <1>1, <1>2, <1>3, PTL DEF SettingsSpec

\* A property of some numbers and of each next one is one of all.
LEMMA LeastOut ==
  ASSUME NEW S \in SUBSET Nat, NEW n \in Nat, n \notin S, 0 \in S
  PROVE  \E k \in Nat : k \in S /\ k + 1 \notin S /\ k < n
<1> DEFINE out == {i \in Nat : i \notin S}
           R == {p \in Nat \X Nat : p[1] < p[2]}
<1>1. OpToRel(<, Nat) = R
  BY Zenon DEF OpToRel
<1>2. IsWellFoundedOn(R, Nat)
  BY <1>1, NatLessThanWellFounded
<1>3. out \subseteq Nat /\ out # {}
  OBVIOUS
<1> HIDE DEF R, out
<1>4. PICK least \in out : \A i \in out : <<i, least>> \notin R
  BY <1>2, <1>3, WFMin
<1>5. least \in Nat /\ least \notin S
  BY <1>4 DEF out
<1>6. \A i \in Nat : i < least => i \in S
  BY <1>4, <1>5 DEF R, out
<1>7. least # 0 /\ least - 1 \in Nat /\ least - 1 < least
  BY <1>5
<1>8. least - 1 \in S
  BY <1>6, <1>7
<1>9. least <= n
  BY <1>5, <1>6
<1> WITNESS least - 1 \in Nat
<1> QED
  BY <1>5, <1>7, <1>8, <1>9

-----------------------------------------------------------------------------
(* What rows cost together. *)
Costed(rows) == Len(rows) \in Nat /\ \A i \in 1..Len(rows) : rows[i].cost \in Int
UpTo(rows, partial) ==
  partial = [i \in 0..Len(rows) |-> IF i = 0 THEN 0 ELSE partial[i - 1] + rows[i].cost]
AddedUp(rows, n, partial) ==
  /\ partial \in [0..n -> Int]
  /\ partial[0] = 0
  /\ \A i \in 1..n : partial[i] = partial[i - 1] + rows[i].cost

LEMMA CostIsAdded ==
  ASSUME NEW rows
  PROVE  CostOfRows(rows) = (CHOOSE partial : UpTo(rows, partial))[Len(rows)]
BY DEF CostOfRows, UpTo

LEMMA AddedIsThere ==
  ASSUME NEW rows, Costed(rows)
  PROVE  \E partial : AddedUp(rows, Len(rows), partial)
<1> DEFINE S == {n \in Nat : n <= Len(rows) => \E partial : AddedUp(rows, n, partial)}
<1>1. Len(rows) \in Nat /\ \A i \in 1..Len(rows) : rows[i].cost \in Int
  BY DEF Costed
<1>2. 0 \in S
  <2>1. AddedUp(rows, 0, [i \in 0..0 |-> 0])
    BY DEF AddedUp
  <2> QED
    BY <2>1
<1>3. ASSUME NEW k \in Nat, k \in S
      PROVE  k + 1 \in S
  <2>1. SUFFICES ASSUME k + 1 <= Len(rows)
                 PROVE  \E partial : AddedUp(rows, k + 1, partial)
    OBVIOUS
  <2>2. PICK partial : AddedUp(rows, k, partial)
    BY <1>1, <1>3, <2>1
  <2> DEFINE more == [i \in 0..(k + 1) |-> IF i = k + 1 THEN partial[k] + rows[k + 1].cost ELSE partial[i]]
  <2>3. rows[k + 1].cost \in Int
    BY <1>1, <2>1
  <2>4. AddedUp(rows, k + 1, more)
    <3>1. partial \in [0..k -> Int] /\ partial[0] = 0 /\ \A i \in 1..k : partial[i] = partial[i - 1] + rows[i].cost
      BY <2>2 DEF AddedUp
    <3>2. more \in [0..(k + 1) -> Int] /\ more[0] = 0
      BY <2>3, <3>1
    <3>3. \A i \in 0..k : more[i] = partial[i]
      OBVIOUS
    <3>4. more[k + 1] = more[k] + rows[k + 1].cost
      BY <3>3
    <3>5. \A i \in 1..k : more[i] = more[i - 1] + rows[i].cost
      BY <3>1, <3>3
    <3> HIDE DEF more
    <3>6. \A i \in 1..(k + 1) : more[i] = more[i - 1] + rows[i].cost
      BY <3>4, <3>5
    <3> QED
      BY <3>2, <3>6 DEF AddedUp
  <2> QED
    BY <2>4
<1> HIDE DEF S
<1>4. Len(rows) \in S
  <2>1. S \in SUBSET Nat
    BY DEF S
  <2> QED
    BY <1>1, <1>2, <1>3, <2>1, LeastOut
<1> QED
  BY <1>1, <1>4 DEF S

LEMMA CostIsLast ==
  ASSUME NEW rows, Costed(rows)
  PROVE  \E partial : AddedUp(rows, Len(rows), partial) /\ CostOfRows(rows) = partial[Len(rows)]
<1>1. Len(rows) \in Nat
  BY DEF Costed
<1>2. \E partial : UpTo(rows, partial)
  <2>1. PICK partial : AddedUp(rows, Len(rows), partial)
    BY AddedIsThere
  <2>2. partial = [i \in 0..Len(rows) |-> IF i = 0 THEN 0 ELSE partial[i - 1] + rows[i].cost]
    BY <1>1, <2>1 DEF AddedUp
  <2> QED
    BY <2>2 DEF UpTo
<1> DEFINE chosen == CHOOSE s : UpTo(rows, s)
<1>3. UpTo(rows, chosen)
  BY <1>2
<1>4. CostOfRows(rows) = chosen[Len(rows)]
  BY CostIsAdded
<1> HIDE DEF chosen
<1>5. PICK known : AddedUp(rows, Len(rows), known)
  BY AddedIsThere
<1>6. /\ chosen[0] = 0
      /\ \A i \in 1..Len(rows) : chosen[i] = chosen[i - 1] + rows[i].cost
      /\ chosen = [i \in 0..Len(rows) |-> chosen[i]]
  BY <1>1, <1>3 DEF UpTo
<1> DEFINE S == {k \in Nat : k <= Len(rows) => chosen[k] = known[k]}
<1>7. 0 \in S
  BY <1>5, <1>6 DEF AddedUp
<1>8. ASSUME NEW k \in Nat, k \in S
      PROVE  k + 1 \in S
  <2>1. SUFFICES ASSUME k + 1 <= Len(rows)
                 PROVE  chosen[k + 1] = known[k + 1]
    OBVIOUS
  <2>2. k + 1 \in 1..Len(rows) /\ chosen[k] = known[k] /\ (k + 1) - 1 = k
    BY <1>1, <1>8, <2>1
  <2>3. known[k + 1] = known[k] + rows[k + 1].cost
    BY <1>5, <2>2 DEF AddedUp
  <2>4. chosen[k + 1] = chosen[k] + rows[k + 1].cost
    BY <1>6, <2>2
  <2> QED
    BY <2>2, <2>3, <2>4
<1>9. S \in SUBSET Nat
  OBVIOUS
<1> HIDE DEF S
<1>10. Len(rows) \in S
  BY <1>1, <1>7, <1>8, <1>9, LeastOut
<1>11. CostOfRows(rows) = known[Len(rows)]
  BY <1>1, <1>4, <1>10 DEF S
<1> QED
  BY <1>5, <1>11

\* Only the cost of a row counts.
LEMMA CostGiven ==
  ASSUME NEW rows, Costed(rows), NEW total, NEW partial, AddedUp(rows, Len(rows), partial), total = partial[Len(rows)]
  PROVE  CostOfRows(rows) = total
<1>1. Len(rows) \in Nat
  BY DEF Costed
<1>2. PICK known : AddedUp(rows, Len(rows), known) /\ CostOfRows(rows) = known[Len(rows)]
  BY CostIsLast
<1> DEFINE S == {k \in Nat : k <= Len(rows) => partial[k] = known[k]}
<1>3. 0 \in S
  BY <1>2 DEF AddedUp
<1>4. ASSUME NEW k \in Nat, k \in S
      PROVE  k + 1 \in S
  <2>1. SUFFICES ASSUME k + 1 <= Len(rows)
                 PROVE  partial[k + 1] = known[k + 1]
    OBVIOUS
  <2>2. k + 1 \in 1..Len(rows) /\ partial[k] = known[k] /\ (k + 1) - 1 = k
    BY <1>1, <1>4, <2>1
  <2>3. known[k + 1] = known[k] + rows[k + 1].cost
    BY <1>2, <2>2 DEF AddedUp
  <2>4. partial[k + 1] = partial[k] + rows[k + 1].cost
    BY <2>2 DEF AddedUp
  <2> QED
    BY <2>2, <2>3, <2>4
<1>5. S \in SUBSET Nat
  OBVIOUS
<1> HIDE DEF S
<1>6. Len(rows) \in S
  BY <1>1, <1>3, <1>4, <1>5, LeastOut
<1> QED
  BY <1>1, <1>2, <1>6 DEF S

LEMMA CostTyped ==
  ASSUME NEW rows, Costed(rows)
  PROVE  CostOfRows(rows) \in Int
<1>1. PICK known : AddedUp(rows, Len(rows), known) /\ CostOfRows(rows) = known[Len(rows)]
  BY CostIsLast
<1> QED
  BY <1>1 DEF AddedUp, Costed

\* The cost of some rows and then others is that of both.
LEMMA CostOfBoth ==
  ASSUME NEW T, NEW s \in Seq(T), NEW t \in Seq(T), \A x \in T : x.cost \in Int
  PROVE  Costed(s) /\ Costed(t) /\ Costed(s \o t) /\ CostOfRows(s \o t) = CostOfRows(s) + CostOfRows(t)
<1> DEFINE m == Len(s)
           n == Len(t)
           both == s \o t
<1>1. m \in Nat /\ n \in Nat /\ both \in Seq(T) /\ Len(both) = m + n
  BY ConcatProperties
<1>2. /\ \A i \in 1..m : s[i] \in T /\ both[i] = s[i]
      /\ \A i \in 1..n : t[i] \in T /\ both[m + i] = t[i]
  BY ConcatProperties, ElementOfSeq
<1>3. Costed(s) /\ Costed(t)
  BY <1>1, <1>2 DEF Costed
<1>4. \A i \in 1..Len(both) : both[i] \in T
  BY <1>1, ElementOfSeq
<1>5. Costed(both)
  BY <1>1, <1>4 DEF Costed
<1>6. PICK f : AddedUp(s, m, f) /\ CostOfRows(s) = f[m]
  BY <1>3, CostIsLast
<1>7. PICK g : AddedUp(t, n, g) /\ CostOfRows(t) = g[n]
  BY <1>3, CostIsLast
<1> HIDE DEF both
<1>8. PICK h : AddedUp(both, m + n, h) /\ CostOfRows(both) = h[m + n]
  BY <1>1, <1>5, CostIsLast
<1> HIDE DEF m, n
<1> DEFINE S == {k \in Nat : k <= m => h[k] = f[k]}
           U == {k \in Nat : k <= n => h[m + k] = f[m] + g[k]}
<1>9. m \in S
  <2>1. 0 \in S
    BY <1>6, <1>8 DEF AddedUp
  <2>2. ASSUME NEW k \in Nat, k \in S PROVE k + 1 \in S
    <3>1. SUFFICES ASSUME k + 1 <= m PROVE h[k + 1] = f[k + 1]
      OBVIOUS
    <3>2. k + 1 \in 1..m /\ k + 1 \in 1..(m + n) /\ h[k] = f[k] /\ (k + 1) - 1 = k
      BY <1>1, <2>2, <3>1
    <3>3. f[k + 1] = f[k] + s[k + 1].cost
      BY <1>6, <3>2 DEF AddedUp
    <3>4. h[k + 1] = h[k] + both[k + 1].cost
      BY <1>8, <3>2 DEF AddedUp
    <3> QED
      BY <1>2, <3>2, <3>3, <3>4
  <2>3. S \in SUBSET Nat
    OBVIOUS
  <2> HIDE DEF S
  <2> QED
    BY <1>1, <2>1, <2>2, <2>3, LeastOut
<1>10. f[m] \in Int /\ h[m] = f[m]
  BY <1>1, <1>6, <1>9 DEF AddedUp
<1>11. n \in U
  <2>1. 0 \in U
    BY <1>1, <1>7, <1>10 DEF AddedUp
  <2>2. ASSUME NEW k \in Nat, k \in U PROVE k + 1 \in U
    <3>1. SUFFICES ASSUME k + 1 <= n PROVE h[m + (k + 1)] = f[m] + g[k + 1]
      OBVIOUS
    <3>2. /\ k + 1 \in 1..n /\ m + (k + 1) \in 1..(m + n) /\ h[m + k] = f[m] + g[k]
          /\ (k + 1) - 1 = k /\ (m + (k + 1)) - 1 = m + k
      BY <1>1, <2>2, <3>1
    <3>3. g[k + 1] = g[k] + t[k + 1].cost
      BY <1>7, <3>2 DEF AddedUp
    <3>4. h[m + (k + 1)] = h[m + k] + both[m + (k + 1)].cost
      BY <1>8, <3>2 DEF AddedUp
    <3>5. both[m + (k + 1)] = t[k + 1] /\ t[k + 1].cost \in Int
      BY <1>2, <3>2
    <3>6. g[k] \in Int
      BY <1>1, <1>7, <3>1 DEF AddedUp
    <3> QED
      BY <1>10, <3>2, <3>3, <3>4, <3>5, <3>6
  <2>3. U \in SUBSET Nat
    OBVIOUS
  <2> HIDE DEF U
  <2> QED
    BY <1>1, <2>1, <2>2, <2>3, LeastOut
<1>12. CostOfRows(both) = CostOfRows(s) + CostOfRows(t)
  BY <1>1, <1>6, <1>7, <1>8, <1>11 DEF U
<1> QED
  BY <1>3, <1>5, <1>12 DEF both

\* From the last to the first they cost the same.
LEMMA CostTurned ==
  ASSUME NEW rows, NEW turned, Costed(rows), Len(turned) = Len(rows),
         \A i \in 1..Len(rows) : turned[i].cost = rows[Len(rows) + 1 - i].cost
  PROVE  Costed(turned) /\ CostOfRows(turned) = CostOfRows(rows)
<1> DEFINE n == Len(rows)
<1>1. n \in Nat /\ \A i \in 1..n : rows[i].cost \in Int
  BY DEF Costed
<1>2. Costed(turned)
  <2>1. ASSUME NEW i \in 1..n PROVE turned[i].cost \in Int
    <3>1. n + 1 - i \in 1..n
      BY <1>1
    <3> QED
      BY <1>1, <3>1
  <2> QED
    BY <1>1, <2>1 DEF Costed
<1>3. PICK f : AddedUp(rows, n, f) /\ CostOfRows(rows) = f[n]
  BY CostIsLast
<1>4. PICK g : AddedUp(turned, n, g) /\ CostOfRows(turned) = g[n]
  BY <1>2, CostIsLast
<1>5. \A i \in 1..n : turned[i].cost = rows[n + 1 - i].cost
  OBVIOUS
<1> HIDE DEF n
<1> DEFINE S == {k \in Nat : k <= n => g[k] = f[n] - f[n - k]}
<1>6. f[n] \in Int /\ f[0] = 0
  BY <1>1, <1>3 DEF AddedUp
<1>7. n \in S
  <2>1. 0 \in S
    BY <1>1, <1>4, <1>6 DEF AddedUp
  <2>2. ASSUME NEW k \in Nat, k \in S PROVE k + 1 \in S
    <3>1. SUFFICES ASSUME k + 1 <= n PROVE g[k + 1] = f[n] - f[n - (k + 1)]
      OBVIOUS
    <3>2. /\ k + 1 \in 1..n /\ n - k \in 1..n /\ g[k] = f[n] - f[n - k]
          /\ (k + 1) - 1 = k /\ (n - k) - 1 = n - (k + 1) /\ n + 1 - (k + 1) = n - k
          /\ n - (k + 1) \in 0..n
      BY <1>1, <2>2, <3>1
    <3>3. g[k + 1] = g[k] + turned[k + 1].cost
      BY <1>4, <3>2 DEF AddedUp
    <3>4. f[n - k] = f[n - (k + 1)] + rows[n - k].cost
      BY <1>3, <3>2 DEF AddedUp
    <3>5. turned[k + 1].cost = rows[n - k].cost /\ rows[n - k].cost \in Int
      BY <1>1, <1>5, <3>2
    <3>6. f[n - (k + 1)] \in Int /\ f[n - k] \in Int
      BY <1>3, <3>2 DEF AddedUp
    <3>7. \A all, here, before, cost \in Int :
            here = before + cost => (all - here) + cost = all - before
      OBVIOUS
    <3>8. g[k + 1] = (f[n] - f[n - k]) + rows[n - k].cost
      BY <3>2, <3>3, <3>5
    <3> QED
      BY <1>6, <3>4, <3>5, <3>6, <3>7, <3>8
  <2>3. S \in SUBSET Nat
    OBVIOUS
  <2> HIDE DEF S
  <2> QED
    BY <1>1, <2>1, <2>2, <2>3, LeastOut
<1>8. g[n] = f[n]
  BY <1>1, <1>6, <1>7
<1> QED
  BY <1>2, <1>3, <1>4, <1>8

-----------------------------------------------------------------------------
(* The rows of a period, and the tariff each has. *)
Paid == Prices \cup {NoTariffYet}
BillRow == [date: Nat, cost: Nat, was: Paid, tariff: Paid]
BillPeriod == [rows: Seq(BillRow), cost: Nat, start: Nat, end: Nat]
Book == [today: Nat, rows: Seq(BillRow), month: Nat, archive: Seq(BillPeriod), start: Nat, reset: Nat,
         earlier: Nat]

\* A row has a tariff of its own where it is not that of the day before.
KnownOn(rows, i) == IF rows[i].was = NoTariffYet THEN TariffInEffect(SubSeq(rows, 1, i - 1)) ELSE rows[i].was
RowKeeps(rows, i) ==
  rows[i].tariff = IF TariffInEffect(SubSeq(rows, 1, i - 1)) = KnownOn(rows, i) THEN NoTariffYet
                   ELSE KnownOn(rows, i)
RowsKeep(rows) == \A i \in 1..Len(rows) : RowKeeps(rows, i)
InDays(rows, from, to) ==
  /\ \A i \in 1..Len(rows) : rows[i].date \in from..to
  /\ \A i, j \in 1..Len(rows) : i < j => rows[i].date < rows[j].date
  /\ Len(rows) <= to - from + 1

LEMMA FirstOnes ==
  ASSUME NEW S, NEW s \in Seq(S), NEW k \in Nat, k <= Len(s)
  PROVE  /\ SubSeq(s, 1, k) \in Seq(S) /\ Len(SubSeq(s, 1, k)) = k
         /\ \A j \in 1..k : SubSeq(s, 1, k)[j] = s[j]
<1>1. Len(s) \in Nat
  OBVIOUS
<1>2. \A j \in 1..k : s[j] \in S
  BY <1>1, ElementOfSeq
<1>3. /\ SubSeq(s, 1, k) \in Seq(S)
      /\ Len(SubSeq(s, 1, k)) = IF 1 <= k THEN k - 1 + 1 ELSE 0
      /\ \A j \in 1..(k - 1 + 1) : SubSeq(s, 1, k)[j] = s[1 + j - 1]
  BY <1>2, SubSeqProperties
<1>4. k - 1 + 1 = k /\ \A j \in 1..k : 1 + j - 1 = j
  OBVIOUS
<1> QED
  BY <1>3, <1>4

LEMMA EffectOfNone == TariffInEffect(<<>>) = NoTariffYet
<1>1. {i \in DOMAIN <<>> : HasTariff(<<>>[i])} = {}
  OBVIOUS
<1> QED
  BY <1>1 DEF TariffInEffect

LEMMA EffectAppended ==
  ASSUME NEW T, NEW rows \in Seq(T), NEW row \in T
  PROVE  TariffInEffect(Append(rows, row)) = IF HasTariff(row) THEN row.tariff ELSE TariffInEffect(rows)
<1> DEFINE more == Append(rows, row)
           n == Len(rows)
           S == {i \in DOMAIN rows : HasTariff(rows[i])}
           U == {i \in DOMAIN more : HasTariff(more[i])}
<1>1. /\ n \in Nat /\ DOMAIN rows = 1..n /\ DOMAIN more = 1..(n + 1)
      /\ \A i \in 1..n : more[i] = rows[i]
      /\ more[n + 1] = row
  BY AppendProperties
<1>2. TariffInEffect(more) = IF U = {} THEN NoTariffYet ELSE more[Max(U)].tariff
  BY DEF TariffInEffect
<1>3. TariffInEffect(rows) = IF S = {} THEN NoTariffYet ELSE rows[Max(S)].tariff
  BY DEF TariffInEffect
<1>4. CASE HasTariff(row)
  <2>1. n + 1 \in U /\ \A i \in U : i \in Nat /\ i <= n + 1
    BY <1>1, <1>4
  <2> HIDE DEF U
  <2>2. Max(U) = n + 1
    BY <1>1, <2>1 DEF Max
  <2> QED
    BY <1>1, <1>2, <1>4, <2>1, <2>2
<1>5. CASE ~HasTariff(row)
  <2>1. U = S
    BY <1>1, <1>5
  <2>2. CASE S = {}
    BY <1>2, <1>3, <1>5, <2>1, <2>2
  <2>3. CASE S # {}
    <3>1. \A i \in S : i \in 1..n
      BY <1>1
    <3> HIDE DEF S, U
    <3>2. Max(S) \in S
      <4> DEFINE R == {p \in Nat \X Nat : p[1] < p[2]}
                 T2 == {n - x : x \in S}
      <4>1. OpToRel(<, Nat) = R
        BY Zenon DEF OpToRel
      <4>2. IsWellFoundedOn(R, Nat)
        BY <4>1, NatLessThanWellFounded
      <4>3. T2 \in SUBSET Nat /\ T2 # {}
        <5>1. \A x \in S : n - x \in Nat
          BY <1>1, <3>1
        <5> QED
          BY <2>3, <5>1
      <4>4. PICK y \in T2 : \A z \in T2 : <<z, y>> \notin R
        BY <4>2, <4>3, WFMin
      <4>5. PICK p \in S : y = n - p
        OBVIOUS
      <4>6. ASSUME NEW q \in S PROVE p >= q
        <5>1. n - q \in T2 /\ y \in Nat /\ n - q \in Nat /\ q \in Nat /\ p \in Nat
          BY <3>1, <4>3
        <5>2. ~(n - q < y)
          BY <4>4, <5>1
        <5> QED
          BY <1>1, <4>5, <5>1, <5>2
      <4> QED
        BY <4>5, <4>6 DEF Max
    <3>3. more[Max(S)] = rows[Max(S)]
      BY <1>1, <3>1, <3>2
    <3> QED
      BY <1>2, <1>3, <1>5, <2>1, <2>3, <3>3
  <2> QED
    BY <2>2, <2>3
<1> QED
  BY <1>4, <1>5

LEMMA EffectOfDay ==
  ASSUME NEW rows \in Seq(BillRow), NEW i \in 1..Len(rows)
  PROVE  /\ TariffForDay(rows, i) = IF HasTariff(rows[i]) THEN rows[i].tariff
                                     ELSE TariffInEffect(SubSeq(rows, 1, i - 1))
         /\ SubSeq(rows, 1, i - 1) \in Seq(BillRow)
<1>1. Len(rows) \in Nat /\ i \in Nat /\ rows[i] \in BillRow
  BY ElementOfSeq
<1>2. SubSeq(rows, 1, i - 1) \in Seq(BillRow)
  <2>1. \A j \in 1..(i - 1) : rows[j] \in BillRow
    BY <1>1, ElementOfSeq
  <2> QED
    BY <1>1, <2>1, SubSeqProperties
<1>3. SubSeq(rows, 1, i) = SubSeq(rows, 1, i - 1) \o <<rows[i]>>
  BY <1>1, SubSeqRecursiveSecond
<1>4. SubSeq(rows, 1, i - 1) \o <<rows[i]>> = Append(SubSeq(rows, 1, i - 1), rows[i])
  BY <1>1, <1>2, AppendIsConcat
<1>5. TariffInEffect(Append(SubSeq(rows, 1, i - 1), rows[i]))
        = IF HasTariff(rows[i]) THEN rows[i].tariff ELSE TariffInEffect(SubSeq(rows, 1, i - 1))
  BY <1>1, <1>2, EffectAppended
<1> QED
  BY <1>2, <1>3, <1>4, <1>5 DEF TariffForDay

LEMMA EffectTyped ==
  ASSUME NEW rows \in Seq(BillRow)
  PROVE  TariffInEffect(rows) \in Paid
<1> DEFINE S == {k \in Nat : k <= Len(rows) => TariffInEffect(SubSeq(rows, 1, k)) \in Paid}
<1>1. Len(rows) \in Nat
  OBVIOUS
<1>2. 0 \in S
  <2>1. SubSeq(rows, 1, 0) = <<>>
    BY SubSeqEmpty
  <2> QED
    BY <2>1, EffectOfNone DEF Paid
<1>3. ASSUME NEW k \in Nat, k \in S PROVE k + 1 \in S
  <2>1. SUFFICES ASSUME k + 1 <= Len(rows) PROVE TariffInEffect(SubSeq(rows, 1, k + 1)) \in Paid
    OBVIOUS
  <2>2. k + 1 \in 1..Len(rows) /\ (k + 1) - 1 = k /\ TariffInEffect(SubSeq(rows, 1, k)) \in Paid
    BY <1>1, <1>3, <2>1
  <2>3. rows[k + 1] \in BillRow
    BY <2>2, ElementOfSeq
  <2>4. TariffForDay(rows, k + 1) = IF HasTariff(rows[k + 1]) THEN rows[k + 1].tariff
                                    ELSE TariffInEffect(SubSeq(rows, 1, k))
    BY <2>2, EffectOfDay
  <2> QED
    BY <2>2, <2>3, <2>4 DEF TariffForDay, BillRow
<1>4. S \in SUBSET Nat
  OBVIOUS
<1> HIDE DEF S
<1>5. Len(rows) \in S
  BY <1>1, <1>2, <1>3, <1>4, LeastOut
<1>6. SubSeq(rows, 1, Len(rows)) = rows
  BY SubSeqFull
<1>7. TariffInEffect(SubSeq(rows, 1, Len(rows))) \in Paid
  BY <1>1, <1>5 DEF S
<1> QED
  BY <1>6, <1>7

\* What a row that keeps it says of the tariff of its day, and of where it changed.
LEMMA KeptTariff ==
  ASSUME AuditAssumption, NEW rows \in Seq(BillRow), NEW i \in 1..Len(rows), RowKeeps(rows, i)
  PROVE  /\ TariffForDay(rows, i) = IF rows[i].was # NoTariffYet THEN rows[i].was
                                     ELSE IF i = 1 THEN NoTariffYet ELSE TariffForDay(rows, i - 1)
         /\ HasTariff(rows[i]) => rows[i].was # TariffInEffect(SubSeq(rows, 1, i - 1))
<1> DEFINE before == TariffInEffect(SubSeq(rows, 1, i - 1))
           known == KnownOn(rows, i)
<1>1. TariffForDay(rows, i) = IF HasTariff(rows[i]) THEN rows[i].tariff ELSE before
  BY EffectOfDay
<1>2. rows[i].tariff = IF before = known THEN NoTariffYet ELSE known
  BY DEF RowKeeps
<1>3. known = IF rows[i].was = NoTariffYet THEN before ELSE rows[i].was
  BY DEF KnownOn
<1>4. ASSUME i = 1 PROVE before = NoTariffYet
  <2>1. SubSeq(rows, 1, 0) = <<>> /\ i - 1 = 0
    BY <1>4, SubSeqEmpty
  <2> QED
    BY <2>1, EffectOfNone
<1>5. before = TariffForDay(rows, i - 1)
  BY DEF TariffForDay
<1> HIDE DEF before, known
<1>6. TariffForDay(rows, i) = known
  BY <1>1, <1>2, <1>3 DEF HasTariff
<1>7. HasTariff(rows[i]) => rows[i].was # before
  BY <1>2, <1>3 DEF HasTariff
<1> QED
  BY <1>3, <1>4, <1>5, <1>6, <1>7 DEF before

-----------------------------------------------------------------------------
(* The row of a day. *)
LEMMA AppendedKeeps ==
  ASSUME NEW rows \in Seq(BillRow), RowsKeep(rows), NEW row \in BillRow,
         row.tariff = IF TariffInEffect(rows) = (IF row.was = NoTariffYet THEN TariffInEffect(rows) ELSE row.was)
                      THEN NoTariffYet
                      ELSE (IF row.was = NoTariffYet THEN TariffInEffect(rows) ELSE row.was)
  PROVE  Append(rows, row) \in Seq(BillRow) /\ RowsKeep(Append(rows, row))
<1> DEFINE more == Append(rows, row)
           n == Len(rows)
<1>1. /\ n \in Nat /\ more \in Seq(BillRow) /\ Len(more) = n + 1 /\ more[n + 1] = row
      /\ \A i \in 1..n : more[i] = rows[i]
  BY AppendProperties
<1>2. ASSUME NEW i \in 1..(n + 1)
      PROVE  SubSeq(more, 1, i - 1) = SubSeq(rows, 1, i - 1)
  <2> DEFINE a == SubSeq(more, 1, i - 1)
             b == SubSeq(rows, 1, i - 1)
  <2>1. i - 1 \in Nat /\ i - 1 <= n
    BY <1>1
  <2>2. /\ \A j \in 1..(i - 1) : rows[j] \in BillRow
        /\ \A j \in 1..(i - 1) : more[j] \in BillRow /\ more[j] = rows[j]
    BY <1>1, <2>1, ElementOfSeq
  <2>3. /\ a \in Seq(BillRow) /\ Len(a) = i - 1 /\ \A j \in 1..(i - 1) : a[j] = more[j]
    BY <1>1, <2>1, FirstOnes
  <2>4. /\ b \in Seq(BillRow) /\ Len(b) = i - 1 /\ \A j \in 1..(i - 1) : b[j] = rows[j]
    BY <1>1, <2>1, FirstOnes
  <2> HIDE DEF a, b
  <2>5. a = b
    BY <2>2, <2>3, <2>4, SeqEqual
  <2> QED
    BY <2>5 DEF a, b
<1>3. ASSUME NEW i \in 1..n PROVE RowKeeps(more, i)
  <2>1. i \in 1..(n + 1) /\ more[i] = rows[i] /\ RowKeeps(rows, i)
    BY <1>1 DEF RowsKeep
  <2>2. SubSeq(more, 1, i - 1) = SubSeq(rows, 1, i - 1)
    BY <1>2, <2>1
  <2> HIDE DEF more
  <2> QED
    BY <2>1, <2>2 DEF RowKeeps, KnownOn
<1>4. RowKeeps(more, n + 1)
  <2>1. SubSeq(more, 1, (n + 1) - 1) = SubSeq(rows, 1, (n + 1) - 1) /\ (n + 1) - 1 = n
    BY <1>1, <1>2
  <2>2. SubSeq(rows, 1, n) = rows
    BY SubSeqFull
  <2> HIDE DEF more
  <2> QED
    BY <1>1, <2>1, <2>2 DEF RowKeeps, KnownOn
<1> HIDE DEF more
<1>5. RowsKeep(more)
  BY <1>1, <1>3, <1>4 DEF RowsKeep
<1> QED
  BY <1>1, <1>5 DEF more

LEMMA AppendedDays ==
  ASSUME NEW rows \in Seq(BillRow), NEW from \in Nat, NEW to \in Int, NEW day \in Nat, InDays(rows, from, to),
         NEW row \in BillRow, row.date = day, to < day, from <= day
  PROVE  InDays(Append(rows, row), from, day)
<1> DEFINE more == Append(rows, row)
           n == Len(rows)
<1>1. /\ n \in Nat /\ Len(more) = n + 1 /\ more[n + 1] = row
      /\ \A i \in 1..n : more[i] = rows[i]
  BY AppendProperties
<1>2. /\ \A i \in 1..n : rows[i].date \in from..to
      /\ \A i, j \in 1..n : i < j => rows[i].date < rows[j].date
      /\ n <= to - from + 1
  BY DEF InDays
<1> HIDE DEF more, n
<1>3. \A i \in 1..(n + 1) : more[i].date \in from..day
  BY <1>1, <1>2
<1>4. ASSUME NEW i \in 1..(n + 1), NEW j \in 1..(n + 1), i < j
      PROVE  more[i].date < more[j].date
  <2>1. i \in 1..n /\ more[i] = rows[i]
    BY <1>1, <1>4
  <2>2. CASE j = n + 1
    BY <1>1, <1>2, <2>1, <2>2
  <2>3. CASE j \in 1..n
    BY <1>1, <1>2, <1>4, <2>1, <2>3
  <2> QED
    BY <1>1, <2>2, <2>3
<1>5. n + 1 <= day - from + 1
  BY <1>1, <1>2
<1> QED
  BY <1>1, <1>3, <1>4, <1>5 DEF InDays, more

LEMMA RowsCost ==
  ASSUME NEW rows \in Seq(BillRow)
  PROVE  /\ Costed(rows) /\ CostOfRows(rows) \in Int
         /\ \A row \in BillRow : Costed(Append(rows, row)) /\ CostOfRows(Append(rows, row)) = CostOfRows(rows) + row.cost
<1>1. \A x \in BillRow : x.cost \in Int
  BY DEF BillRow
<1>2. Costed(rows)
  BY <1>1, ElementOfSeq DEF Costed
<1>3. ASSUME NEW row \in BillRow
      PROVE  Costed(Append(rows, row)) /\ CostOfRows(Append(rows, row)) = CostOfRows(rows) + row.cost
  <2>1. Append(rows, row) = rows \o <<row>> /\ <<row>> \in Seq(BillRow)
    BY AppendIsConcat
  <2>2. /\ Costed(<<row>>) /\ Costed(rows \o <<row>>)
        /\ CostOfRows(rows \o <<row>>) = CostOfRows(rows) + CostOfRows(<<row>>)
    BY <1>1, <2>1, CostOfBoth
  <2>3. CostOfRows(<<row>>) = row.cost
    <3> DEFINE f == [i \in 0..1 |-> IF i = 0 THEN 0 ELSE row.cost]
               one == <<row>>
    <3>1. row.cost \in Int /\ Len(one) = 1 /\ one[1] = row
      BY <1>1
    <3>2. f \in [0..1 -> Int] /\ f[0] = 0 /\ f[1] = f[0] + row.cost
      BY <3>1
    <3> HIDE DEF f, one
    <3>3. AddedUp(one, Len(one), f) /\ row.cost = f[Len(one)]
      BY <3>1, <3>2 DEF AddedUp
    <3>4. Costed(one)
      BY <2>2 DEF one
    <3>5. CostOfRows(one) = row.cost
      BY <3>3, <3>4, CostGiven
    <3> QED
      BY <3>5 DEF one
  <2> QED
    BY <2>1, <2>2, <2>3
<1> QED
  BY <1>2, <1>3, CostTyped

LEMMA NothingCosts == Costed(<<>>) /\ CostOfRows(<<>>) = 0
<1>1. Costed(<<>>)
  BY DEF Costed
<1>2. AddedUp(<<>>, Len(<<>>), [i \in 0..0 |-> 0])
  BY DEF AddedUp
<1>3. [i \in 0..0 |-> 0][Len(<<>>)] = 0
  OBVIOUS
<1> QED
  BY <1>1, <1>2, <1>3, CostGiven

-----------------------------------------------------------------------------
(* The books over a midnight. *)
EarlierUse(from, earlier) == IF from = 0 THEN earlier ELSE 0
PeriodKept(rows, cost, from, to, earlier) ==
  /\ rows \in Seq(BillRow) /\ RowsKeep(rows) /\ InDays(rows, from, to)
  /\ cost = CostOfRows(rows) + EarlierUse(from, earlier)
\* The periods follow each other.
InChain(archive, start) ==
  /\ \A i \in 1..Len(archive) : archive[i].start <= archive[i].end /\ archive[i].start < start
  /\ \A i \in 1..Len(archive) :
       archive[i].end + 1 = IF i = Len(archive) THEN start ELSE archive[i + 1].start
  /\ \A i, j \in 1..Len(archive) : i < j => archive[i].start < archive[j].start
\* Each that began after the bill day was moved has the days of a month.
OfAMonth(archive, start, m) ==
  /\ Len(archive) <= MonthsKept
  /\ \A i \in 1..Len(archive) :
       m < archive[i].start => start - archive[i].start = (Len(archive) - i + 1) * MonthLen
\* No bill has been due since it began.
Running(start, reset, bd, m) ==
  m < start => /\ start % MonthLen = bd
               /\ \A d \in (start + 1)..reset : d % MonthLen # bd
BooksKept(b, bd, m) ==
  /\ b \in Book /\ b.start <= b.reset
  /\ PeriodKept(b.rows, b.month - b.today, b.start, b.reset - 1, b.earlier)
  /\ \A i \in 1..Len(b.archive) :
       PeriodKept(b.archive[i].rows, b.archive[i].cost, b.archive[i].start, b.archive[i].end, b.earlier)
  /\ InChain(b.archive, b.start)
  /\ OfAMonth(b.archive, b.start, m)
  /\ Running(b.start, b.reset, bd, m)

LEMMA GreaterOne ==
  ASSUME NEW a \in Int, NEW b \in Int
  PROVE  Max({a, b}) = IF a >= b THEN a ELSE b
<1>1. CASE a >= b
  <2>1. a \in {a, b} /\ \A y \in {a, b} : a >= y
    BY <1>1
  <2>2. \A x \in {a, b} : (\A y \in {a, b} : x >= y) => x = a
    BY <1>1
  <2> QED
    BY <1>1, <2>1, <2>2 DEF Max
<1>2. CASE ~(a >= b)
  <2>1. b \in {a, b} /\ \A y \in {a, b} : b >= y
    BY <1>2
  <2>2. \A x \in {a, b} : (\A y \in {a, b} : x >= y) => x = b
    BY <1>2
  <2> QED
    BY <1>2, <2>1, <2>2 DEF Max
<1> QED
  BY <1>1, <1>2

\* From one day on which a bill starts to the next is a month.
LEMMA MonthTurns ==
  ASSUME NEW D \in Nat \ {0}, NEW from \in Nat, NEW day \in Nat, from < day, day % D = from % D,
         \A d \in (from + 1)..(day - 1) : d % D # from % D
  PROVE  day - from = D
<1> DEFINE q == from \div D
           u == day \div D
           r == from % D
<1>1. q \in Int /\ u \in Int /\ r \in 0..(D - 1) /\ from = D * q + r /\ day = D * u + r
  BY Divided
<1>2. (from + D) % D = r
  <2> DEFINE v == (from + D) \div D
             s == (from + D) % D
  <2>1. v \in Int /\ s \in 0..(D - 1) /\ from + D = D * v + s
    <3>1. from + D \in Int
      OBVIOUS
    <3> QED
      BY <3>1, Divided
  <2>2. D * (q + 1) = D * q + D /\ q + 1 \in Int
    BY <1>1
  <2> HIDE DEF q, r, v, s
  <2>3. D * (q + 1) + r = D * v + s
    BY <1>1, <2>1, <2>2
  <2>4. r = s
    BY <1>1, <2>1, <2>2, <2>3, RemainderUnique
  <2> QED
    BY <2>4 DEF s
<1>3. day <= from + D
  <2>1. SUFFICES ASSUME from + D < day PROVE FALSE
    OBVIOUS
  <2>2. from + D \in (from + 1)..(day - 1)
    BY <2>1
  <2> QED
    BY <1>2, <2>2
<1> HIDE DEF q, u, r
<1>4. u > q
  <2>1. SUFFICES ASSUME u <= q PROVE FALSE
    BY <1>1
  <2>2. D * (q - u) >= 0
    BY <1>1, <2>1
  <2>3. D * (q - u) = D * q - D * u
    BY <1>1
  <2>4. D * q \in Int /\ D * u \in Int
    BY <1>1
  <2>5. \A a, c \in Int : (a - c >= 0 /\ from = a + r /\ day = c + r) => FALSE
    BY <1>1
  <2> QED
    BY <1>1, <2>2, <2>3, <2>4, <2>5
<1>5. D * (u - q) >= D
  BY <1>1, <1>4
<1>6. D * (u - q) = D * u - D * q
  BY <1>1
<1>7. D * q \in Int /\ D * u \in Int
  BY <1>1
<1>8. \A a, c \in Int : (c - a >= D /\ from = a + r /\ day = c + r) => day - from = D
  BY <1>1, <1>3
<1> QED
  BY <1>1, <1>5, <1>6, <1>7, <1>8

LEMMA MoreDays ==
  ASSUME NEW rows \in Seq(BillRow), NEW from \in Int, NEW to \in Int, NEW later \in Int, to <= later,
         InDays(rows, from, to)
  PROVE  InDays(rows, from, later)
<1>1. Len(rows) \in Nat
  OBVIOUS
<1>2. \A x \in from..to : x \in from..later
  OBVIOUS
<1>3. \A l \in Nat : l <= to - from + 1 => l <= later - from + 1
  OBVIOUS
<1> QED
  BY <1>1, <1>2, <1>3 DEF InDays

\* The rows after the day that ended.
LEMMA DayRecorded ==
  ASSUME AuditAssumption, NEW b \in Book, b.start <= b.reset, NEW tariff \in Paid,
         PeriodKept(b.rows, b.month - b.today, b.start, b.reset - 1, b.earlier)
  PROVE  PeriodKept(RecordBillDay(b, b.reset, tariff), b.month, b.start, b.reset, b.earlier)
<1> DEFINE known == IF tariff = NoTariffYet THEN TariffInEffect(b.rows) ELSE tariff
           row == [date |-> b.reset, cost |-> b.today, was |-> tariff, tariff |-> StoredWith(b.rows, known)]
<1>1. /\ b.today \in Nat /\ b.month \in Nat /\ b.start \in Nat /\ b.reset \in Nat /\ b.earlier \in Nat
      /\ b.rows \in Seq(BillRow)
  BY DEF Book
<1>2. /\ RowsKeep(b.rows) /\ InDays(b.rows, b.start, b.reset - 1)
      /\ b.month - b.today = CostOfRows(b.rows) + EarlierUse(b.start, b.earlier)
  BY DEF PeriodKept
<1>3. EarlierUse(b.start, b.earlier) \in Int /\ CostOfRows(b.rows) \in Int
  BY <1>1, RowsCost DEF EarlierUse
<1>4. CASE b.today = 0
  <2>1. RecordBillDay(b, b.reset, tariff) = b.rows
    BY <1>4 DEF RecordBillDay
  <2>2. InDays(b.rows, b.start, b.reset)
    <3>1. b.start \in Int /\ b.reset - 1 \in Int /\ b.reset \in Int /\ b.reset - 1 <= b.reset
      BY <1>1
    <3> QED
      BY <1>1, <1>2, <3>1, MoreDays
  <2> QED
    BY <1>1, <1>2, <1>4, <2>1, <2>2 DEF PeriodKept
<1>5. CASE b.today # 0
  <2>1. RecordBillDay(b, b.reset, tariff) = Append(b.rows, row)
    BY <1>5, Zenon DEF RecordBillDay
  <2>2. TariffInEffect(b.rows) \in Paid /\ known \in Paid
    BY <1>1, EffectTyped
  <2>3. StoredWith(b.rows, known) = IF TariffInEffect(b.rows) = known THEN NoTariffYet ELSE known
    BY DEF StoredWith
  <2>4. row \in BillRow
    <3>1. StoredWith(b.rows, known) \in Paid
      BY <2>2, <2>3 DEF Paid
    <3> HIDE DEF known
    <3> QED
      BY <1>1, <3>1 DEF BillRow
  <2>5. row.tariff = IF TariffInEffect(b.rows) = (IF row.was = NoTariffYet THEN TariffInEffect(b.rows) ELSE row.was)
                     THEN NoTariffYet
                     ELSE (IF row.was = NoTariffYet THEN TariffInEffect(b.rows) ELSE row.was)
    BY <2>3
  <2>6. row.date = b.reset /\ row.cost = b.today
    OBVIOUS
  <2> HIDE DEF row, known
  <2>7. Append(b.rows, row) \in Seq(BillRow) /\ RowsKeep(Append(b.rows, row))
    BY <1>1, <1>2, <2>4, <2>5, AppendedKeeps
  <2>8. InDays(Append(b.rows, row), b.start, b.reset)
    <3>1. b.reset - 1 \in Int /\ b.reset - 1 < b.reset
      BY <1>1
    <3> QED
      BY <1>1, <1>2, <2>4, <2>6, <3>1, AppendedDays
  <2>9. CostOfRows(Append(b.rows, row)) = CostOfRows(b.rows) + b.today
    BY <1>1, <2>4, <2>6, RowsCost
  <2>10. b.month = CostOfRows(Append(b.rows, row)) + EarlierUse(b.start, b.earlier)
    <3>1. \A month, today, cost, booked \in Int : month - today = cost + booked => month = (cost + today) + booked
      OBVIOUS
    <3>2. b.month \in Int /\ b.today \in Int
      BY <1>1
    <3> QED
      BY <1>2, <1>3, <2>9, <3>1, <3>2
  <2> QED
    BY <2>1, <2>7, <2>8, <2>10 DEF PeriodKept
<1> QED
  BY <1>4, <1>5

\* A period put after the last l of those that are kept.
FiledAfter(archive, filed, closing, l, s, n) ==
  /\ archive \in Seq(BillPeriod) /\ filed \in Seq(BillPeriod) /\ closing \in BillPeriod
  /\ l \in Nat /\ s \in Nat /\ n \in Nat
  /\ Len(archive) = n /\ Len(filed) = l + 1 /\ s + l = n /\ filed[l + 1] = closing
  /\ \A i \in 1..l : filed[i] = archive[s + i]

LEMMA PeriodFiled ==
  ASSUME NEW archive, NEW filed, NEW closing, NEW n, NEW l, NEW s, NEW day \in Nat,
         FiledAfter(archive, filed, closing, l, s, n),
         InChain(archive, closing.start), closing.start <= closing.end, closing.end + 1 = day
  PROVE  InChain(filed, day)
<1>0. /\ archive \in Seq(BillPeriod) /\ filed \in Seq(BillPeriod) /\ closing \in BillPeriod
      /\ l \in Nat /\ s \in Nat /\ n \in Nat
      /\ Len(archive) = n /\ Len(filed) = l + 1 /\ s + l = n /\ filed[l + 1] = closing
      /\ \A i \in 1..l : filed[i] = archive[s + i]
  BY DEF FiledAfter
<1> USE <1>0
<1>1. \A i \in 1..l : s + i \in 1..n
  OBVIOUS
<1>2. /\ closing.start \in Nat /\ closing.end \in Nat
      /\ \A i \in 1..n : archive[i].start \in Nat /\ archive[i].end \in Nat
  <2>1. \A i \in 1..n : archive[i] \in BillPeriod
    BY ElementOfSeq
  <2> QED
    BY <2>1 DEF BillPeriod
<1>3. /\ \A i \in 1..n : archive[i].start <= archive[i].end /\ archive[i].start < closing.start
      /\ \A i \in 1..n : archive[i].end + 1 = IF i = n THEN closing.start ELSE archive[i + 1].start
      /\ \A i, j \in 1..n : i < j => archive[i].start < archive[j].start
  BY DEF InChain
<1>4. ASSUME NEW i \in 1..(l + 1)
      PROVE  filed[i].start <= filed[i].end /\ filed[i].start < day
  <2>1. CASE i = l + 1
    BY <1>2, <2>1
  <2>2. CASE i \in 1..l
    <3>1. filed[i] = archive[s + i] /\ s + i \in 1..n
      BY <1>1, <2>2
    <3>2. filed[i].start \in Nat /\ filed[i].start <= filed[i].end /\ filed[i].start < closing.start
      BY <1>2, <1>3, <3>1
    <3> QED
      BY <1>2, <3>2
  <2> QED
    BY <2>1, <2>2
<1>5. ASSUME NEW i \in 1..(l + 1)
      PROVE  filed[i].end + 1 = IF i = l + 1 THEN day ELSE filed[i + 1].start
  <2>1. CASE i = l + 1
    BY <2>1
  <2>2. CASE i = l /\ i # 0
    <3>1. filed[i] = archive[n] /\ n \in 1..n /\ i # l + 1 /\ filed[i + 1] = closing
      BY <2>2
    <3> QED
      BY <1>3, <3>1
  <2>3. CASE i < l
    <3>1. /\ i \in 1..l /\ i + 1 \in 1..l /\ s + (i + 1) = (s + i) + 1 /\ s + i \in 1..n
          /\ s + i # n /\ i # l + 1
      BY <2>3
    <3>2. filed[i] = archive[s + i] /\ filed[i + 1] = archive[(s + i) + 1]
      BY <3>1
    <3>3. archive[s + i].end + 1 = archive[(s + i) + 1].start
      BY <1>3, <3>1
    <3> QED
      BY <3>1, <3>2, <3>3
  <2> QED
    BY <2>1, <2>2, <2>3
<1>6. ASSUME NEW i \in 1..(l + 1), NEW j \in 1..(l + 1), i < j
      PROVE  filed[i].start < filed[j].start
  <2>1. i \in 1..l /\ s + i \in 1..n /\ filed[i] = archive[s + i]
    BY <1>6
  <2>2. CASE j = l + 1
    BY <1>3, <2>1, <2>2
  <2>3. CASE j \in 1..l
    <3>1. s + i < s + j /\ s + j \in 1..n /\ filed[j] = archive[s + j]
      BY <1>6, <2>3
    <3> QED
      BY <1>3, <2>1, <3>1
  <2> QED
    BY <2>2, <2>3
<1> QED
  BY <1>4, <1>5, <1>6 DEF InChain

LEMMA MonthFiled ==
  ASSUME MonthLen \in Nat, MonthsKept \in Nat,
         NEW archive, NEW filed, NEW closing, NEW n, NEW l, NEW s, NEW day \in Nat, NEW m \in Int,
         FiledAfter(archive, filed, closing, l, s, n), l + 1 <= MonthsKept,
         InChain(archive, closing.start), OfAMonth(archive, closing.start, m),
         m < closing.start => day - closing.start = MonthLen
  PROVE  OfAMonth(filed, day, m)
<1>0. /\ archive \in Seq(BillPeriod) /\ filed \in Seq(BillPeriod) /\ closing \in BillPeriod
      /\ l \in Nat /\ s \in Nat /\ n \in Nat
      /\ Len(archive) = n /\ Len(filed) = l + 1 /\ s + l = n /\ filed[l + 1] = closing
      /\ \A i \in 1..l : filed[i] = archive[s + i]
  BY DEF FiledAfter
<1> USE <1>0
<1>1. /\ closing.start \in Nat
      /\ \A i \in 1..n : archive[i].start \in Nat /\ archive[i].start < closing.start
      /\ \A i \in 1..n : m < archive[i].start => closing.start - archive[i].start = (n - i + 1) * MonthLen
  <2>1. \A i \in 1..n : archive[i] \in BillPeriod
    BY ElementOfSeq
  <2>2. closing.start \in Nat /\ \A i \in 1..n : archive[i].start \in Nat
    BY <2>1 DEF BillPeriod
  <2>3. \A i \in 1..n : archive[i].start < closing.start
    BY DEF InChain
  <2>4. \A i \in 1..n : m < archive[i].start => closing.start - archive[i].start = (n - i + 1) * MonthLen
    BY DEF OfAMonth
  <2> QED
    BY <2>2, <2>3, <2>4
<1>2. ASSUME NEW i \in 1..(l + 1), m < filed[i].start
      PROVE  day - filed[i].start = ((l + 1) - i + 1) * MonthLen
  <2>1. CASE i = l + 1
    <3>1. (l + 1) - i + 1 = 1 /\ 1 * MonthLen = MonthLen
      BY <2>1
    <3> QED
      BY <1>2, <2>1, <3>1
  <2>2. CASE i \in 1..l
    <3> DEFINE began == archive[s + i].start
    <3>0. \A a, c, d, j \in Int : a + c = d => d - (a + j) + 1 = (c - j) + 1
      OBVIOUS
    <3>1. filed[i] = archive[s + i] /\ s + i \in 1..n /\ n - (s + i) + 1 = (l - i) + 1
      BY <2>2, <3>0
    <3>2. began \in Nat /\ began < closing.start /\ m < began
      BY <1>1, <1>2, <3>1
    <3>3. m < closing.start
      BY <1>1, <3>2
    <3>4. closing.start - began = ((l - i) + 1) * MonthLen
      BY <1>1, <3>1, <3>2
    <3>5. day - closing.start = MonthLen
      BY <3>3
    <3>6. ((l + 1) - i + 1) * MonthLen = ((l - i) + 1) * MonthLen + MonthLen
      <4>1. \A x \in Int : (x + 1) * MonthLen = x * MonthLen + MonthLen
        OBVIOUS
      <4>2. (l - i) + 1 \in Int /\ (l + 1) - i + 1 = ((l - i) + 1) + 1
        OBVIOUS
      <4> QED
        BY <4>1, <4>2
    <3>7. ((l - i) + 1) * MonthLen \in Int
      OBVIOUS
    <3>8. \A x, from, to \in Int : (to - from = x /\ day - to = MonthLen) => day - from = x + MonthLen
      OBVIOUS
    <3> HIDE DEF began
    <3>9. day - began = ((l - i) + 1) * MonthLen + MonthLen
      BY <1>1, <3>2, <3>4, <3>5, <3>7, <3>8
    <3> QED
      BY <3>1, <3>6, <3>9 DEF began
  <2> QED
    BY <2>1, <2>2
<1> QED
  BY <1>2 DEF OfAMonth

Filed(archive, closing) ==
  Append(SubSeq(archive, Max({1, Len(archive) - MonthsKept + 2}), Len(archive)), closing)

EndsOn(archive, closing, day, m) ==
  /\ archive \in Seq(BillPeriod) /\ closing \in BillPeriod /\ day \in Nat /\ m \in Int
  /\ InChain(archive, closing.start) /\ OfAMonth(archive, closing.start, m)
  /\ closing.start <= closing.end /\ closing.end + 1 = day
  /\ m < closing.start => day - closing.start = MonthLen

LEMMA ArchiveFiled ==
  ASSUME AuditAssumption, NEW archive, NEW closing, NEW day, NEW m, EndsOn(archive, closing, day, m)
  PROVE  /\ Filed(archive, closing) \in Seq(BillPeriod)
         /\ InChain(Filed(archive, closing), day) /\ OfAMonth(Filed(archive, closing), day, m)
         /\ \A i \in 1..Len(Filed(archive, closing)) :
              \/ Filed(archive, closing)[i] = closing
              \/ \E j \in 1..Len(archive) : Filed(archive, closing)[i] = archive[j]
         /\ Len(Filed(archive, closing)) \in Nat \ {0}
         /\ Filed(archive, closing)[Len(Filed(archive, closing))] = closing
<1> DEFINE n == Len(archive)
           k == Max({1, Len(archive) - MonthsKept + 2})
           kept == SubSeq(archive, k, n)
           filed == Append(kept, closing)
           s == k - 1
           l == n - s
<1>0. /\ archive \in Seq(BillPeriod) /\ closing \in BillPeriod /\ day \in Nat /\ m \in Int
      /\ InChain(archive, closing.start) /\ OfAMonth(archive, closing.start, m)
      /\ closing.start <= closing.end /\ closing.end + 1 = day
      /\ (m < closing.start => day - closing.start = MonthLen)
  BY DEF EndsOn
<1> USE <1>0
<1>1. n \in Nat /\ MonthsKept \in Nat \ {0} /\ MonthLen \in Nat \ {0} /\ n <= MonthsKept
  BY DEF AuditAssumption, OfAMonth
<1>2. k \in Nat /\ s \in Nat /\ l \in Nat /\ s + l = n /\ l + 1 <= MonthsKept /\ k = s + 1
  <2>1. n - MonthsKept + 2 \in Int
    BY <1>1
  <2>2. k = IF 1 >= n - MonthsKept + 2 THEN 1 ELSE n - MonthsKept + 2
    BY <2>1, GreaterOne
  <2> HIDE DEF n, k
  <2> QED
    BY <1>1, <2>2
<1>3. kept \in Seq(BillPeriod) /\ Len(kept) = l /\ \A i \in 1..l : kept[i] = archive[s + i]
  <2>1. \A i \in k..n : archive[i] \in BillPeriod
    <3>1. \A i \in k..n : i \in 1..n
      BY <1>1, <1>2
    <3> QED
      BY <3>1, ElementOfSeq
  <2> HIDE DEF n, k
  <2>2. /\ kept \in Seq(BillPeriod) /\ Len(kept) = IF k <= n THEN n - k + 1 ELSE 0
        /\ \A i \in 1..(n - k + 1) : kept[i] = archive[k + i - 1]
    <3>1. archive \in Seq(BillPeriod)
      OBVIOUS
    <3>2. k \in Int /\ n \in Int
      BY <1>1, <1>2
    <3> HIDE <1>0
    <3> QED
      BY <2>1, <3>1, <3>2, SubSeqProperties
  <2> HIDE DEF kept
  <2>3. n - k + 1 = l /\ l = IF k <= n THEN n - k + 1 ELSE 0
    BY <1>1, <1>2
  <2>4. \A i \in 1..l : k + i - 1 = s + i
    BY <1>1, <1>2
  <2> QED
    BY <2>2, <2>3, <2>4
<1>4. /\ filed \in Seq(BillPeriod) /\ Len(filed) = l + 1 /\ filed[l + 1] = closing
      /\ \A i \in 1..l : filed[i] = kept[i]
  <2> HIDE DEF kept, l
  <2> QED
    BY <1>3, AppendProperties
<1> HIDE DEF n, k, kept, s, l, filed
<1>5. \A i \in 1..l : filed[i] = archive[s + i] /\ s + i \in 1..n
  BY <1>1, <1>2, <1>3, <1>4
<1>6. Len(archive) = n
  BY DEF n
<1>a. FiledAfter(archive, filed, closing, l, s, n)
  BY <1>1, <1>2, <1>4, <1>5, <1>6 DEF FiledAfter
<1>7. InChain(filed, day)
  BY <1>a, PeriodFiled
<1>8. OfAMonth(filed, day, m)
  BY <1>1, <1>2, <1>a, MonthFiled
<1>9. \A i \in 1..(l + 1) : filed[i] = closing \/ \E j \in 1..n : filed[i] = archive[j]
  <2>1. \A i \in 1..(l + 1) : i = l + 1 \/ i \in 1..l
    BY <1>2
  <2> QED
    BY <1>4, <1>5, <2>1
<1>10. l + 1 \in Nat \ {0}
  BY <1>2
<1>11. /\ filed \in Seq(BillPeriod) /\ InChain(filed, day) /\ OfAMonth(filed, day, m)
       /\ \A i \in 1..Len(filed) : filed[i] = closing \/ \E j \in 1..Len(archive) : filed[i] = archive[j]
       /\ Len(filed) \in Nat \ {0} /\ filed[Len(filed)] = closing
  BY <1>4, <1>6, <1>7, <1>8, <1>9, <1>10
<1>12. Filed(archive, closing) = filed
  BY DEF filed, kept, k, n, Filed
<1> QED
  BY <1>11, <1>12

BookRecorded(b, rows, day) == [b EXCEPT !.rows = rows, !.today = 0, !.reset = day]
BookClosed(b, filed, day) == [b EXCEPT !.archive = filed, !.rows = <<>>, !.month = 0, !.start = day]

LEMMA RecordedBook ==
  ASSUME NEW b \in Book, NEW rows \in Seq(BillRow), NEW day \in Nat
  PROVE  LET r == BookRecorded(b, rows, day) IN
         /\ r \in Book /\ r.today = 0 /\ r.rows = rows /\ r.month = b.month /\ r.archive = b.archive
         /\ r.start = b.start /\ r.reset = day /\ r.earlier = b.earlier
BY DEF Book, BookRecorded

LEMMA ClosedBook ==
  ASSUME NEW b \in Book, NEW filed \in Seq(BillPeriod), NEW day \in Nat
  PROVE  LET r == BookClosed(b, filed, day) IN
         /\ r \in Book /\ r.today = b.today /\ r.rows = <<>> /\ r.month = 0 /\ r.archive = filed
         /\ r.start = day /\ r.reset = b.reset /\ r.earlier = b.earlier
<1>1. <<>> \in Seq(BillRow)
  OBVIOUS
<1> QED
  BY <1>1 DEF Book, BookClosed

LEMMA MidnightKeeps ==
  ASSUME AuditAssumption, billDay \in 0..(MonthLen - 1), NEW b, NEW m \in Int, BooksKept(b, billDay, m),
         NEW tariff \in Paid
  PROVE  /\ BooksKept(AuditMidnight(b, b.reset + 1, tariff), billDay, m)
         /\ AuditMidnight(b, b.reset + 1, tariff).reset = b.reset + 1
         /\ AuditMidnight(b, b.reset + 1, tariff).today = 0
         /\ AuditMidnight(b, b.reset + 1, tariff).earlier = b.earlier
<1> DEFINE day == b.reset + 1
           rows == RecordBillDay(b, b.reset, tariff)
           recorded == BookRecorded(b, rows, day)
           closing == [rows |-> rows, cost |-> b.month, start |-> b.start, end |-> b.reset]
           filed == Filed(b.archive, closing)
           closed == BookClosed(recorded, filed, day)
           after == AuditMidnight(b, day, tariff)
<1>1. /\ b \in Book /\ b.start <= b.reset
      /\ PeriodKept(b.rows, b.month - b.today, b.start, b.reset - 1, b.earlier)
      /\ \A i \in 1..Len(b.archive) :
           PeriodKept(b.archive[i].rows, b.archive[i].cost, b.archive[i].start, b.archive[i].end, b.earlier)
      /\ InChain(b.archive, b.start) /\ OfAMonth(b.archive, b.start, m) /\ Running(b.start, b.reset, billDay, m)
  BY DEF BooksKept
<1>2. /\ b.today \in Nat /\ b.month \in Nat /\ b.start \in Nat /\ b.reset \in Nat /\ b.earlier \in Nat
      /\ b.rows \in Seq(BillRow) /\ b.archive \in Seq(BillPeriod)
  BY <1>1 DEF Book
<1>3. MonthLen \in Nat \ {0} /\ MonthsKept \in Nat \ {0}
  BY DEF AuditAssumption
<1>4. day \in Nat /\ day - 1 = b.reset
  <2>1. b.reset \in Nat
    BY <1>2
  <2> QED
    BY <2>1
<1>5. PeriodKept(rows, b.month, b.start, b.reset, b.earlier)
  <2>1. /\ b \in Book /\ b.start <= b.reset
        /\ PeriodKept(b.rows, b.month - b.today, b.start, b.reset - 1, b.earlier)
    BY <1>1
  <2> QED
    BY <2>1, DayRecorded
<1>6. rows \in Seq(BillRow)
  BY <1>5 DEF PeriodKept
<1>7. /\ recorded \in Book /\ recorded.today = 0 /\ recorded.rows = rows /\ recorded.month = b.month
      /\ recorded.archive = b.archive /\ recorded.start = b.start /\ recorded.reset = day
      /\ recorded.earlier = b.earlier
  <2>1. b \in Book /\ day \in Nat
    BY <1>1, <1>4
  <2> HIDE DEF rows, day
  <2> QED
    BY <1>6, <2>1, RecordedBook, SMTT(30)
<1>8. after = IF DayOfMonth(day) = billDay THEN ResetMonth(recorded, day) ELSE recorded
  <2>1. RecordBillDay(b, day - 1, tariff) = rows
    BY <1>4
  <2>2. recorded = [b EXCEPT !.rows = rows, !.today = 0, !.reset = day]
    BY DEF BookRecorded
  <2> HIDE DEF rows, day, recorded
  <2> QED
    BY <2>1, <2>2, Zenon DEF AuditMidnight
<1>9. CASE DayOfMonth(day) # billDay
  <2> DEFINE r == recorded
  <2>1. /\ r.today = 0 /\ r.rows = rows /\ r.month = b.month /\ r.archive = b.archive /\ r.start = b.start
        /\ r.reset = day /\ r.earlier = b.earlier
    BY <1>7
  <2>2. r \in Book
    BY <1>7
  <2>3. after = r
    BY <1>8, <1>9
  <2> HIDE DEF r, after, rows, recorded, day, filed, closed, closing
  <2>4. r.month - r.today = b.month /\ r.reset - 1 = b.reset /\ r.start <= r.reset
    <3>1. b.month - 0 = b.month /\ day - 1 = b.reset /\ b.start <= day
      <4>1. \A x, y, z \in Nat : z <= x /\ y - 1 = x => z <= y
        OBVIOUS
      <4>2. \A x \in Nat : x - 0 = x
        OBVIOUS
      <4>3. b.month \in Nat /\ b.start \in Nat /\ b.reset \in Nat /\ b.start <= b.reset
        BY <1>1, <1>2
      <4> QED
        BY <1>4, <4>1, <4>2, <4>3
    <3> QED
      BY <2>1, <3>1
  <2>5. PeriodKept(r.rows, r.month - r.today, r.start, r.reset - 1, r.earlier)
    BY <1>5, <2>1, <2>4
  <2>6. Running(r.start, r.reset, billDay, m)
    <3>1. \A d \in (b.start + 1)..day : d = day \/ d \in (b.start + 1)..b.reset
      BY <1>2, <1>4
    <3>2. day % MonthLen # billDay
      BY <1>9 DEF DayOfMonth
    <3> QED
      BY <1>1, <2>1, <3>1, <3>2 DEF Running
  <2>7. BooksKept(r, billDay, m)
    BY <1>1, <2>1, <2>2, <2>4, <2>5, <2>6 DEF BooksKept
  <2> QED
    BY <2>1, <2>3, <2>7 DEF after, day
<1>10. CASE DayOfMonth(day) = billDay
  <2> DEFINE r == closed
  <2>1. ResetMonth(recorded, day) = closed
    <3>1. [rows |-> recorded.rows, cost |-> recorded.month, start |-> recorded.start, end |-> day - 1] = closing
      <4> HIDE DEF rows, day, recorded
      <4> QED
        BY <1>4, <1>7
    <3>2. recorded.archive = b.archive
      BY <1>7
    <3> HIDE DEF recorded, day, closing
    <3> QED
      BY <3>1, <3>2 DEF ResetMonth, Filed, BookClosed
  <2>4. /\ closing \in BillPeriod /\ closing.start = b.start /\ closing.end = b.reset /\ closing.rows = rows
        /\ closing.cost = b.month
    <3> HIDE DEF rows
    <3> QED
      BY <1>2, <1>6 DEF BillPeriod
  <2>5. after = r
    BY <1>8, <1>10, <2>1
  <2>6. day % MonthLen = billDay
    BY <1>10 DEF DayOfMonth
  <2> HIDE DEF closing, rows, recorded, closed, after
  <2>7. m < b.start => day - b.start = MonthLen
    <3>1. SUFFICES ASSUME m < b.start PROVE day - b.start = MonthLen
      OBVIOUS
    <3>2. b.start % MonthLen = billDay /\ \A d \in (b.start + 1)..b.reset : d % MonthLen # billDay
      BY <1>1, <3>1 DEF Running
    <3>3. b.start < day /\ day % MonthLen = b.start % MonthLen
      BY <1>1, <1>2, <2>6, <3>2
    <3>4. \A d \in (b.start + 1)..(day - 1) : d % MonthLen # b.start % MonthLen
      BY <1>4, <3>2
    <3> HIDE DEF day
    <3> QED
      BY <1>2, <1>3, <1>4, <3>3, <3>4, MonthTurns
  <2> HIDE DEF day
  <2>8. /\ filed \in Seq(BillPeriod) /\ InChain(filed, day) /\ OfAMonth(filed, day, m)
        /\ \A i \in 1..Len(filed) : filed[i] = closing \/ \E j \in 1..Len(b.archive) : filed[i] = b.archive[j]
    <3>1. closing.start <= closing.end /\ closing.end + 1 = day
      BY <1>1, <2>4 DEF day
    <3>2. m < closing.start => day - closing.start = MonthLen
      BY <2>4, <2>7
    <3>3. InChain(b.archive, closing.start) /\ OfAMonth(b.archive, closing.start, m)
      BY <1>1, <2>4
    <3> QED
      <4>1. EndsOn(b.archive, closing, day, m)
        BY <1>2, <1>4, <2>4, <3>1, <3>2, <3>3 DEF EndsOn
      <4>2. /\ Filed(b.archive, closing) \in Seq(BillPeriod)
            /\ InChain(Filed(b.archive, closing), day) /\ OfAMonth(Filed(b.archive, closing), day, m)
        BY <4>1, ArchiveFiled
      <4>3. \A i \in 1..Len(Filed(b.archive, closing)) :
              \/ Filed(b.archive, closing)[i] = closing
              \/ \E j \in 1..Len(b.archive) : Filed(b.archive, closing)[i] = b.archive[j]
        BY <4>1, ArchiveFiled
      <4> QED
        BY <4>2, <4>3
  <2> HIDE DEF filed
  <2>9. r \in Book
    BY <1>4, <1>7, <2>8, ClosedBook DEF closed
  <2>3. /\ r.today = 0 /\ r.rows = <<>> /\ r.month = 0 /\ r.archive = filed /\ r.start = day
        /\ r.reset = day /\ r.earlier = b.earlier
    <3>1. /\ r.today = recorded.today /\ r.rows = <<>> /\ r.month = 0 /\ r.archive = filed /\ r.start = day
          /\ r.reset = recorded.reset /\ r.earlier = recorded.earlier
      <4>1. recorded \in Book /\ filed \in Seq(BillPeriod) /\ day \in Nat
        BY <1>4, <1>7, <2>8
      <4> QED
        BY <4>1, ClosedBook, SMTT(30) DEF closed
    <3> QED
      BY <1>7, <3>1
  <2> HIDE DEF r
  <2>10. PeriodKept(r.rows, r.month - r.today, r.start, r.reset - 1, r.earlier)
    <3>1. r.rows = <<>> /\ r.month - r.today = 0 /\ r.start = day /\ r.reset - 1 = b.reset /\ day # 0 /\ day = b.reset + 1
      <4>1. day # 0
        BY <1>2 DEF day
      <4> QED
        BY <1>4, <2>3, <4>1 DEF day
    <3>2. EarlierUse(day, r.earlier) = 0
      BY <3>1 DEF EarlierUse
    <3>3. InDays(<<>>, day, b.reset) /\ RowsKeep(<<>>)
      BY <1>2, <3>1 DEF InDays, RowsKeep
    <3>4. <<>> \in Seq(BillRow)
      OBVIOUS
    <3> QED
      BY <3>1, <3>2, <3>3, <3>4, NothingCosts DEF PeriodKept
  <2>11. \A i \in 1..Len(r.archive) :
           PeriodKept(r.archive[i].rows, r.archive[i].cost, r.archive[i].start, r.archive[i].end, r.earlier)
    <3>1. SUFFICES ASSUME NEW i \in 1..Len(filed)
                   PROVE PeriodKept(filed[i].rows, filed[i].cost, filed[i].start, filed[i].end, b.earlier)
      BY <2>3
    <3>2. CASE filed[i] = closing
      BY <1>5, <2>4, <3>2
    <3>3. CASE filed[i] # closing
      <4>1. PICK j \in 1..Len(b.archive) : filed[i] = b.archive[j]
        BY <2>8, <3>3
      <4> QED
        BY <1>1, <4>1
    <3> QED
      BY <3>2, <3>3
  <2>12. Running(r.start, r.reset, billDay, m)
    BY <1>4, <2>3, <2>6 DEF Running
  <2>13. r.start <= r.reset
    BY <1>4, <2>3
  <2>14. BooksKept(r, billDay, m)
    BY <2>3, <2>8, <2>9, <2>10, <2>11, <2>12, <2>13 DEF BooksKept
  <2> QED
    BY <2>3, <2>5, <2>14 DEF after, day
<1> QED
  BY <1>9, <1>10

-----------------------------------------------------------------------------
(* Any number of midnights. *)
RollsOver(b, day, after) ==
  after = [d \in b.reset..day |-> IF d = b.reset THEN b ELSE AuditMidnight(after[d - 1], d, NoTariffYet)]

LEMMA RolledIs ==
  ASSUME NEW b, NEW day
  PROVE  RolledForward(b, day) = (CHOOSE after : RollsOver(b, day, after))[day]
BY DEF RolledForward, RollsOver

LEMMA RollKeeps ==
  ASSUME AuditAssumption, billDay \in 0..(MonthLen - 1), NEW b, NEW m \in Int, BooksKept(b, billDay, m),
         NEW day \in Nat, b.reset <= day
  PROVE  /\ BooksKept(RolledForward(b, day), billDay, m)
         /\ RolledForward(b, day).reset = day
         /\ RolledForward(b, day).earlier = b.earlier
<1> DEFINE from == b.reset
           Over(n, f) == /\ f = [d \in from..(from + n) |-> f[d]]
                         /\ f[from] = b
                         /\ \A d \in (from + 1)..(from + n) : f[d] = AuditMidnight(f[d - 1], d, NoTariffYet)
           S == {n \in Nat : \E f : Over(n, f)}
<1>1. from \in Nat
  BY DEF BooksKept, Book
<1>2. NoTariffYet \in Paid
  BY DEF Paid
<1>3. 0 \in S
  <2>1. Over(0, [d \in from..from |-> b])
    BY <1>1
  <2> QED
    BY <2>1
<1>4. ASSUME NEW k \in Nat, k \in S PROVE k + 1 \in S
  <2>1. PICK f : Over(k, f)
    BY <1>4
  <2> DEFINE more == [d \in from..(from + (k + 1)) |->
                        IF d = from + (k + 1) THEN AuditMidnight(f[from + k], d, NoTariffYet) ELSE f[d]]
  <2>2. from \in from..(from + (k + 1)) /\ from # from + (k + 1)
    BY <1>1
  <2>3. more[from] = b
    BY <2>1, <2>2
  <2>4. ASSUME NEW d \in (from + 1)..(from + (k + 1))
        PROVE  more[d] = AuditMidnight(more[d - 1], d, NoTariffYet)
    <3>1. d - 1 \in from..(from + (k + 1)) /\ d - 1 # from + (k + 1) /\ d \in from..(from + (k + 1))
      BY <1>1
    <3>2. more[d - 1] = f[d - 1]
      BY <3>1
    <3>3. CASE d = from + (k + 1)
      <4>1. d - 1 = from + k
        BY <1>1, <3>3
      <4> QED
        BY <3>1, <3>2, <3>3, <4>1
    <3>4. CASE d # from + (k + 1)
      <4>1. d \in (from + 1)..(from + k)
        BY <1>1, <3>4
      <4>2. f[d] = AuditMidnight(f[d - 1], d, NoTariffYet)
        BY <2>1, <4>1
      <4>3. more[d] = f[d]
        BY <3>1, <3>4
      <4> HIDE DEF more
      <4> QED
        BY <3>2, <4>2, <4>3
    <3> QED
      BY <3>3, <3>4
  <2>5. more = [d \in from..(from + (k + 1)) |-> more[d]]
    OBVIOUS
  <2> HIDE DEF more
  <2>6. Over(k + 1, more)
    BY <2>3, <2>4, <2>5
  <2> HIDE DEF Over
  <2> QED
    BY <2>6
<1>5. S \in SUBSET Nat
  OBVIOUS
<1>6. day - from \in Nat /\ from + (day - from) = day
  BY <1>1
<1>7. \E f : Over(day - from, f)
  <2> HIDE DEF S
  <2>1. day - from \in S
    BY <1>3, <1>4, <1>5, <1>6, LeastOut
  <2> QED
    BY <2>1 DEF S
<1> DEFINE chosen == CHOOSE after : RollsOver(b, day, after)
<1>8. RollsOver(b, day, chosen)
  <2>1. PICK f : Over(day - from, f)
    BY <1>7
  <2>2. /\ f = [d \in from..day |-> f[d]]
        /\ f[from] = b
        /\ \A d \in (from + 1)..day : f[d] = AuditMidnight(f[d - 1], d, NoTariffYet)
    BY <1>6, <2>1
  <2>3. \A d \in from..day : f[d] = IF d = from THEN b ELSE AuditMidnight(f[d - 1], d, NoTariffYet)
    <3>1. \A d \in from..day : d = from \/ d \in (from + 1)..day
      BY <1>1
    <3> QED
      BY <2>2, <3>1
  <2>4. f = [d \in from..day |-> IF d = from THEN b ELSE AuditMidnight(f[d - 1], d, NoTariffYet)]
    BY <2>2, <2>3
  <2>5. RollsOver(b, day, f)
    BY <2>4 DEF RollsOver
  <2> QED
    BY <2>5
<1>9. RolledForward(b, day) = chosen[day]
  BY RolledIs
<1> HIDE DEF chosen, S
<1>10. \A d \in from..day : chosen[d] = IF d = from THEN b ELSE AuditMidnight(chosen[d - 1], d, NoTariffYet)
  BY <1>8 DEF RollsOver
<1> DEFINE Kept(d) == BooksKept(chosen[d], billDay, m) /\ chosen[d].reset = d /\ chosen[d].earlier = b.earlier
           U == {n \in Nat : n <= day - from => Kept(from + n)}
<1>11. 0 \in U
  <2>1. chosen[from] = b /\ from + 0 = from
    BY <1>1, <1>10
  <2> QED
    BY <2>1
<1>12. ASSUME NEW k \in Nat, k \in U PROVE k + 1 \in U
  <2>1. SUFFICES ASSUME k + 1 <= day - from PROVE Kept(from + (k + 1))
    OBVIOUS
  <2>2. k <= day - from
    BY <1>6, <2>1
  <2>3. Kept(from + k)
    BY <1>12, <2>2
  <2>4. from + (k + 1) \in from..day /\ from + (k + 1) # from /\ (from + (k + 1)) - 1 = from + k /\ (from + k) + 1 = from + (k + 1)
    BY <1>1, <2>1
  <2>5. chosen[from + (k + 1)] = AuditMidnight(chosen[from + k], (from + k) + 1, NoTariffYet)
    BY <1>10, <2>4
  <2>6. /\ BooksKept(AuditMidnight(chosen[from + k], (from + k) + 1, NoTariffYet), billDay, m)
        /\ AuditMidnight(chosen[from + k], (from + k) + 1, NoTariffYet).reset = (from + k) + 1
        /\ AuditMidnight(chosen[from + k], (from + k) + 1, NoTariffYet).earlier = b.earlier
    BY <1>2, <2>3, MidnightKeeps
  <2> QED
    BY <2>4, <2>5, <2>6
<1>13. U \in SUBSET Nat
  OBVIOUS
<1>14. Kept(from + (day - from))
  <2> HIDE DEF U
  <2>1. day - from \in U
    BY <1>6, <1>11, <1>12, <1>13, LeastOut
  <2> QED
    BY <1>6, <2>1 DEF U
<1> QED
  BY <1>6, <1>9, <1>14

AuditInv ==
  /\ date \in Nat /\ billDay \in 0..(MonthLen - 1) /\ moved \in Int /\ moved <= books.reset
  /\ stopped \in BOOLEAN
  /\ options.price \in Prices /\ (options.change # NoTariffYet => options.change.price \in Prices)
  /\ BooksKept(books, billDay, moved)
  /\ books.reset <= date /\ (~stopped => books.reset = date)
  /\ shown.start \in Nat /\ shown.cost \in Nat /\ shown.start <= books.start
  /\ shown.start = books.start => shown.cost = books.month

LEMMA LeastPrice ==
  ASSUME NEW S \in SUBSET Nat, S # {}
  PROVE  Min(S) \in S
<1> DEFINE R == {p \in Nat \X Nat : p[1] < p[2]}
<1>1. OpToRel(<, Nat) = R
  BY Zenon DEF OpToRel
<1>2. IsWellFoundedOn(R, Nat)
  BY <1>1, NatLessThanWellFounded
<1>3. PICK least \in S : \A z \in S : <<z, least>> \notin R
  BY <1>2, WFMin
<1>4. ASSUME NEW z \in S PROVE least <= z
  <2>1. <<z, least>> \notin R /\ z \in Nat /\ least \in Nat
    BY <1>3
  <2>2. ~(z < least)
    BY <2>1
  <2> QED
    BY <2>1, <2>2
<1> QED
  BY <1>4 DEF Min

LEMMA BooksType ==
  ASSUME NEW b, NEW bd, NEW m, BooksKept(b, bd, m)
  PROVE  /\ b \in Book /\ b.today \in Nat /\ b.month \in Nat /\ b.start \in Nat /\ b.reset \in Nat /\ b.earlier \in Nat
         /\ b.rows \in Seq(BillRow) /\ b.archive \in Seq(BillPeriod) /\ b.start <= b.reset
BY DEF BooksKept, Book

LEMMA MonthShown ==
  ASSUME NEW b \in Book
  PROVE  MonthOf(b).start = b.start /\ MonthOf(b).cost = b.month
BY DEF MonthOf

LEMMA AuditStarts ==
  ASSUME AuditAssumption, AuditInit
  PROVE  AuditInv
<1>1. MonthLen \in Nat \ {0} /\ MonthsKept \in Nat \ {0} /\ Prices \in SUBSET Nat /\ Prices # {} /\ Earlier \subseteq Nat
  BY DEF AuditAssumption
<1>2. PICK cost \in Earlier : books = Opened(cost)
  BY DEF AuditInit
<1>3. /\ books.today = 0 /\ books.rows = <<>> /\ books.month = cost /\ books.archive = <<>> /\ books.start = 0
      /\ books.reset = 0 /\ books.earlier = cost /\ cost \in Nat
  BY <1>1, <1>2 DEF Opened
<1>4. books \in Book
  <2>1. <<>> \in Seq(BillRow) /\ <<>> \in Seq(BillPeriod)
    OBVIOUS
  <2> QED
    BY <1>2, <1>3, <2>1 DEF Book, Opened
<1>5. PeriodKept(books.rows, books.month - books.today, books.start, books.reset - 1, books.earlier)
  <2>1. cost - 0 = cost /\ cost = 0 + cost /\ 0 - 1 = -1
    BY <1>3
  <2>2. EarlierUse(0, cost) = cost
    BY DEF EarlierUse
  <2>3. InDays(<<>>, 0, -1) /\ RowsKeep(<<>>)
    BY DEF InDays, RowsKeep
  <2>4. <<>> \in Seq(BillRow)
    OBVIOUS
  <2> QED
    BY <1>3, <2>1, <2>2, <2>3, <2>4, NothingCosts DEF PeriodKept
<1>6. InChain(books.archive, books.start) /\ OfAMonth(books.archive, books.start, moved)
  BY <1>1, <1>3 DEF InChain, OfAMonth
<1>7. date = 0 /\ billDay = 0 /\ stopped = FALSE /\ moved = -1 /\ shown = MonthOf(books)
      /\ options = [price |-> Min(Prices), change |-> NoTariffYet]
  BY DEF AuditInit, NoMove
<1>8. Running(books.start, books.reset, billDay, moved)
  <2>1. 0 % MonthLen = 0
    BY <1>1
  <2> QED
    BY <1>3, <1>7, <2>1 DEF Running
<1>9. BooksKept(books, billDay, moved)
  BY <1>3, <1>4, <1>5, <1>6, <1>8 DEF BooksKept
<1>10. Min(Prices) \in Prices
  BY <1>1, LeastPrice
<1>11. shown.start = books.start /\ shown.cost = books.month
  BY <1>4, <1>7, MonthShown
<1>12. /\ date \in Nat /\ billDay \in 0..(MonthLen - 1) /\ moved \in Int /\ moved <= books.reset
       /\ books.reset <= date /\ books.reset = date /\ stopped \in BOOLEAN
  <2>1. \A n \in Nat \ {0} : 0 \in 0..(n - 1)
    OBVIOUS
  <2>2. date = 0 /\ billDay = 0 /\ stopped = FALSE /\ moved = -1 /\ books.reset = 0
    BY <1>3, <1>7
  <2>3. billDay \in 0..(MonthLen - 1)
    BY <1>1, <2>1, <2>2
  <2>4. moved \in Int /\ moved <= books.reset
    BY <2>2
  <2>5. date \in Nat /\ books.reset <= date /\ books.reset = date
    BY <2>2
  <2>6. stopped \in BOOLEAN
    BY <2>2
  <2> QED
    BY <2>3, <2>4, <2>5, <2>6
<1>13. options.price \in Prices /\ options.change = NoTariffYet
  BY <1>7, <1>10
<1>14. shown.start \in Nat /\ shown.cost \in Nat /\ shown.start <= books.start
  BY <1>3, <1>11
<1> QED
  BY <1>9, <1>11, <1>12, <1>13, <1>14 DEF AuditInv

LEMMA InForcePaid ==
  ASSUME AuditInv, NEW d
  PROVE  InForceOnDate(options, d) \in Prices
BY DEF AuditInv, InForceOnDate

BookUsed(b, price) == [b EXCEPT !.today = price, !.month = b.month + price]

\* What a cycle books changes the day and the month by the same.
LEMMA UsedKept ==
  ASSUME NEW b, NEW bd, NEW m, BooksKept(b, bd, m), b.today = 0, NEW price \in Nat
  PROVE  /\ BooksKept(BookUsed(b, price), bd, m) /\ BookUsed(b, price).reset = b.reset
         /\ BookUsed(b, price).start = b.start
<1> DEFINE after == BookUsed(b, price)
<1>1. /\ b \in Book /\ b.today \in Nat /\ b.month \in Nat
  BY BooksType
<1>2. b.month + price \in Nat
  BY <1>1
<1>3. after \in Book
  BY <1>1, <1>2 DEF Book, BookUsed
<1>4. /\ after.today = price /\ after.rows = b.rows /\ after.month = b.month + price /\ after.archive = b.archive
      /\ after.start = b.start /\ after.reset = b.reset /\ after.earlier = b.earlier
  BY <1>1 DEF Book, BookUsed
<1> HIDE DEF after
<1>5. after.month - after.today = b.month - b.today
  BY <1>1, <1>4
<1>6. BooksKept(after, bd, m)
  BY <1>3, <1>4, <1>5 DEF BooksKept
<1> QED
  BY <1>4, <1>6 DEF after

LEMMA AuditKeeps ==
  ASSUME AuditAssumption, AuditInv, [AuditNext]_auditVars
  PROVE  AuditInv'
<1>1. /\ date \in Nat /\ billDay \in 0..(MonthLen - 1) /\ moved \in Int /\ moved <= books.reset
      /\ stopped \in BOOLEAN
      /\ options.price \in Prices /\ (options.change # NoTariffYet => options.change.price \in Prices)
      /\ BooksKept(books, billDay, moved)
      /\ books.reset <= date /\ (~stopped => books.reset = date)
      /\ shown.start \in Nat /\ shown.cost \in Nat /\ shown.start <= books.start
      /\ (shown.start = books.start => shown.cost = books.month)
  BY DEF AuditInv
<1>2. /\ books \in Book /\ books.today \in Nat /\ books.month \in Nat /\ books.start \in Nat /\ books.reset \in Nat
      /\ books.start <= books.reset
  BY <1>1, BooksType
<1>3. Prices \subseteq Nat /\ MonthLen \in Nat \ {0}
  BY DEF AuditAssumption
<1>4. CASE UseEnergy
  <2> DEFINE price == InForceOnDate(options, date)
             after == BookUsed(books, price)
  <2>1. price \in Nat
    BY <1>3, InForcePaid
  <2>2. /\ ~stopped /\ books.today = 0 /\ books' = after /\ shown' = MonthOf(books')
        /\ UNCHANGED <<date, options, billDay, stopped, moved, course>>
    BY <1>4 DEF UseEnergy, BookUsed
  <2> HIDE DEF price
  <2>3. BooksKept(after, billDay, moved) /\ after.reset = books.reset /\ after.start = books.start
    BY <1>1, <2>1, <2>2, UsedKept
  <2> HIDE DEF after
  <2>4. BooksKept(books', billDay', moved')
    BY <2>2, <2>3
  <2>5. /\ books' \in Book /\ books'.month \in Nat /\ books'.start \in Nat
    BY <2>4, BooksType
  <2>6. shown'.start = books'.start /\ shown'.cost = books'.month
    BY <2>2, <2>5, MonthShown
  <2> QED
    BY <1>1, <2>2, <2>3, <2>4, <2>5, <2>6 DEF AuditInv
<1>5. CASE LiveMidnight
  <2> DEFINE tariff == InForceOnDate(options, date)
             after == AuditMidnight(books, books.reset + 1, tariff)
  <2>1. tariff \in Paid
    BY InForcePaid DEF Paid
  <2>2. /\ ~stopped /\ date' = date + 1 /\ UNCHANGED <<options, billDay, shown, stopped, moved>>
        /\ books' = AuditMidnight(books, date + 1, tariff)
    BY <1>5 DEF LiveMidnight
  <2>3. books' = after /\ books.reset = date
    BY <1>1, <2>2
  <2> HIDE DEF tariff
  <2>4. BooksKept(after, billDay, moved) /\ after.reset = books.reset + 1
    BY <1>1, <2>1, MidnightKeeps
  <2>5. (after.start = books.start /\ after.month = books.month) \/ after.start = books.reset + 1
    <3> DEFINE rows == RecordBillDay(books, (books.reset + 1) - 1, tariff)
               recorded == BookRecorded(books, rows, books.reset + 1)
    <3>1. after = IF DayOfMonth(books.reset + 1) = billDay THEN ResetMonth(recorded, books.reset + 1) ELSE recorded
      BY DEF AuditMidnight, BookRecorded
    <3>2. recorded.start = books.start /\ recorded.month = books.month /\ recorded = [f \in DOMAIN books |-> recorded[f]]
          /\ "start" \in DOMAIN books
      BY <1>2 DEF BookRecorded, Book
    <3> HIDE DEF recorded
    <3>3. ResetMonth(recorded, books.reset + 1).start = books.reset + 1
      BY <3>2 DEF ResetMonth
    <3> QED
      BY <3>1, <3>2, <3>3
  <2> HIDE DEF after
  <2>6. BooksKept(books', billDay', moved') /\ books'.reset = date'
    BY <2>2, <2>3, <2>4
  <2>7. shown'.start <= books'.start /\ (shown'.start = books'.start => shown'.cost = books'.month)
    <3>1. CASE after.start = books.start /\ after.month = books.month
      BY <1>1, <2>2, <2>3, <3>1
    <3>2. CASE after.start = books.reset + 1
      <4>1. shown.start < books.reset + 1
        BY <1>1, <1>2
      <4> QED
        BY <1>1, <1>2, <2>2, <2>3, <3>2, <4>1
    <3> QED
      BY <2>5, <3>1, <3>2
  <2>8. date' \in Nat /\ moved' <= books'.reset /\ books'.reset <= date'
    BY <1>1, <1>2, <2>2, <2>3, <2>6
  <2> QED
    BY <1>1, <2>2, <2>6, <2>7, <2>8 DEF AuditInv
<1>6. CASE SaveRates
  <2>1. PICK price \in Prices \ {options.price} :
          options' = [price |-> price,
                      change |-> IF options.change # NoTariffYet /\ options.change.from > date
                                 THEN options.change ELSE NoTariffYet]
    BY <1>6 DEF SaveRates
  <2>2. options'.price \in Prices /\ (options'.change # NoTariffYet => options'.change.price \in Prices)
    BY <1>1, <2>1
  <2>3. UNCHANGED <<date, billDay, books, shown, stopped, moved>>
    BY <1>6 DEF SaveRates
  <2> QED
    BY <1>1, <2>2, <2>3 DEF AuditInv
<1>7. CASE ScheduleRates
  <2>1. PICK price \in Prices \ {options.price} :
          options' = [options EXCEPT !.change = [from |-> date + 1, price |-> price]]
    BY <1>7 DEF ScheduleRates
  <2>2. options'.price = options.price /\ (options'.change = options.change \/ options'.change.price \in Prices)
    BY <2>1
  <2>3. UNCHANGED <<date, billDay, books, shown, stopped, moved>>
    BY <1>7 DEF ScheduleRates
  <2> QED
    BY <1>1, <2>2, <2>3 DEF AuditInv
<1>8. CASE MoveBillDay
  <2>1. /\ ~stopped /\ billDay' \in 0..(MonthLen - 1) /\ moved' = date
        /\ UNCHANGED <<date, options, books, shown, stopped>>
    BY <1>8 DEF MoveBillDay
  <2>2. books.reset = date
    BY <1>1, <2>1
  <2>3. ~(date < books.start)
    BY <1>1, <1>2, <2>2
  <2>4. Running(books.start, books.reset, billDay', date)
    BY <2>3 DEF Running
  <2>5. OfAMonth(books.archive, books.start, date)
    <3>1. \A i \in 1..Len(books.archive) : books.archive[i].start < books.start
      BY <1>1 DEF BooksKept, InChain
    <3>2. \A i \in 1..Len(books.archive) : books.archive[i].start \in Nat
      <4>1. books.archive \in Seq(BillPeriod)
        BY <1>1, BooksType
      <4>2. \A i \in 1..Len(books.archive) : books.archive[i] \in BillPeriod
        BY <4>1, ElementOfSeq
      <4> QED
        BY <4>2 DEF BillPeriod
    <3>3. \A i \in 1..Len(books.archive) : ~(date < books.archive[i].start)
      <4>1. books.start \in Nat /\ books.start <= date /\ date \in Nat
        BY <1>1, <1>2, <2>2
      <4>2. \A from \in Nat : from < books.start => ~(date < from)
        BY <4>1
      <4> QED
        BY <3>1, <3>2, <4>2
    <3>4. Len(books.archive) <= MonthsKept
      BY <1>1 DEF BooksKept, OfAMonth
    <3> QED
      BY <3>3, <3>4 DEF OfAMonth
  <2>6. BooksKept(books, billDay', date)
    BY <1>1, <2>4, <2>5 DEF BooksKept
  <2>7. BooksKept(books', billDay', moved')
    BY <2>1, <2>6
  <2> QED
    BY <1>1, <2>1, <2>2, <2>7 DEF AuditInv
<1>9. CASE GoDown
  <2>1. stopped' = TRUE /\ UNCHANGED <<date, options, billDay, books, shown, moved>>
    BY <1>9 DEF GoDown
  <2> QED
    BY <1>1, <2>1 DEF AuditInv
<1>10. CASE DayPasses
  <2>1. stopped /\ date' = date + 1 /\ UNCHANGED <<options, billDay, books, shown, stopped, moved, course>>
    BY <1>10 DEF DayPasses
  <2>2. date' \in Nat /\ books'.reset <= date' /\ (~stopped' => books'.reset = date')
    BY <1>1, <1>2, <2>1
  <2> QED
    BY <1>1, <2>1, <2>2 DEF AuditInv
<1>11. CASE ComeUp
  <2> DEFINE after == RolledForward(books, date)
  <2>1. /\ stopped' = FALSE /\ books' = after /\ shown' = MonthOf(books')
        /\ UNCHANGED <<date, options, billDay, moved, course>>
    BY <1>11 DEF ComeUp
  <2>2. BooksKept(after, billDay, moved) /\ after.reset = date
    BY <1>1, RollKeeps
  <2> HIDE DEF after
  <2>3. BooksKept(books', billDay', moved') /\ books'.reset = date'
    BY <2>1, <2>2
  <2>4. books' \in Book /\ books'.month \in Nat /\ books'.start \in Nat
    BY <2>3, BooksType
  <2>5. shown'.start = books'.start /\ shown'.cost = books'.month
    BY <2>1, <2>4, MonthShown
  <2>6. /\ date' \in Nat /\ moved' \in Int /\ moved' <= books'.reset /\ books'.reset <= date'
        /\ billDay' \in 0..(MonthLen - 1) /\ stopped' \in BOOLEAN
    <3>1. /\ date' = date /\ moved' = moved /\ billDay' = billDay /\ stopped' = FALSE
          /\ books'.reset = date
      BY <2>1, <2>3
    <3>2. moved <= date
      BY <1>1, <1>2
    <3>3. billDay' \in 0..(MonthLen - 1) /\ stopped' \in BOOLEAN
      BY <1>1, <3>1, Zenon
    <3>4. date' \in Nat /\ moved' \in Int
      BY <1>1, <3>1, Zenon
    <3>5. moved' <= books'.reset
      BY <3>1, <3>2, Zenon
    <3>6. books'.reset <= date'
      <4>1. date <= date
        BY <1>1
      <4> QED
        BY <3>1, <4>1, Zenon
    <3> QED
      BY <3>3, <3>4, <3>5, <3>6
  <2>7. shown'.start \in Nat /\ shown'.cost \in Nat /\ shown'.start <= books'.start
    BY <2>4, <2>5
  <2>8. options'.price \in Prices /\ (options'.change # NoTariffYet => options'.change.price \in Prices)
    BY <1>1, <2>1
  <2> QED
    BY <2>3, <2>5, <2>6, <2>7, <2>8 DEF AuditInv
<1>12. CASE UNCHANGED auditVars
  BY <1>1, <1>12 DEF auditVars, AuditInv
<1> QED
  BY <1>4, <1>5, <1>6, <1>7, <1>8, <1>9, <1>10, <1>11, <1>12 DEF AuditNext

-----------------------------------------------------------------------------
(* The tables of a bill. *)
LEMMA AlsoOf ==
  ASSUME NEW S, NEW T, S \subseteq T, NEW s \in Seq(S)
  PROVE  s \in Seq(T)
<1>1. Len(s) \in Nat /\ s = [i \in 1..Len(s) |-> s[i]] /\ \A i \in 1..Len(s) : s[i] \in S
  BY LenProperties, ElementOfSeq
<1> DEFINE n == Len(s)
<1>2. s \in [1..n -> T]
  BY <1>1
<1> QED
  BY <1>1, <1>2, IsASeq

LEMMA OneCosts ==
  ASSUME NEW x, x.cost \in Int
  PROVE  Costed(<<x>>) /\ CostOfRows(<<x>>) = x.cost
<1> DEFINE f == [i \in 0..1 |-> IF i = 0 THEN 0 ELSE x.cost]
           one == <<x>>
<1>1. Len(one) = 1 /\ one[1] = x
  OBVIOUS
<1>2. f \in [0..1 -> Int] /\ f[0] = 0 /\ f[1] = f[0] + x.cost
  OBVIOUS
<1> HIDE DEF f, one
<1>3. AddedUp(one, Len(one), f) /\ x.cost = f[Len(one)]
  BY <1>1, <1>2 DEF AddedUp
<1>4. Costed(one)
  BY <1>1 DEF Costed
<1>5. CostOfRows(one) = x.cost
  BY <1>3, <1>4, CostGiven
<1> QED
  BY <1>4, <1>5 DEF one

Cell == [day: Int, cost: Int]
\* A period whose table is made: its rows, and today's when it runs.
Listed(p) ==
  /\ p.rows \in Seq(BillRow) /\ p.cost \in Int
  /\ p.live = <<>> \/ \E row \in [date: Nat, cost: Nat] : p.live = <<row>>
  /\ \A i \in 1..Len(p.rows) : \A j \in 1..Len(p.live) : p.rows[i].date < p.live[j].date
  /\ \A i, j \in 1..Len(p.rows) : i < j => p.rows[i].date < p.rows[j].date

LEMMA ListedCosts ==
  ASSUME NEW p, Listed(p)
  PROVE  /\ Costed(p.rows) /\ Costed(p.live) /\ CostOfRows(p.rows) \in Int /\ CostOfRows(p.live) \in Int
         /\ NotItemised(p) = p.cost - (CostOfRows(p.rows) + CostOfRows(p.live))
         /\ NotItemised(p) \in Int
<1> DEFINE T == BillRow \cup [date: Nat, cost: Nat]
<1>1. p.rows \in Seq(BillRow) /\ p.cost \in Int /\ (p.live = <<>> \/ \E row \in [date: Nat, cost: Nat] : p.live = <<row>>)
  BY DEF Listed
<1>2. p.rows \in Seq(T)
  <2>1. BillRow \subseteq T
    OBVIOUS
  <2> HIDE DEF T
  <2> QED
    BY <1>1, <2>1, AlsoOf
<1>3. p.live \in Seq(T)
  <2>1. \A row \in [date: Nat, cost: Nat] : row \in T
    OBVIOUS
  <2> HIDE DEF T
  <2>2. <<>> \in Seq(T) /\ \A row \in T : <<row>> \in Seq(T)
    OBVIOUS
  <2> QED
    BY <1>1, <2>1, <2>2
<1>4. \A x \in T : x.cost \in Int
  BY DEF BillRow
<1> HIDE DEF T
<1>5. /\ Costed(p.rows) /\ Costed(p.live)
      /\ CostOfRows(p.rows \o p.live) = CostOfRows(p.rows) + CostOfRows(p.live)
  BY <1>2, <1>3, <1>4, CostOfBoth
<1>6. CostOfRows(p.rows) \in Int /\ CostOfRows(p.live) \in Int
  BY <1>5, CostTyped
<1>7. NotItemised(p) = p.cost - (CostOfRows(p.rows) + CostOfRows(p.live))
  BY <1>5 DEF NotItemised
<1> QED
  BY <1>1, <1>5, <1>6, <1>7

\* What a table holds, row by row: today, the days from the newest, and what is not itemised.
LiveCells(p) == [i \in DOMAIN p.live |-> Cells(p.live[i])]
RowCells(p) == [i \in DOMAIN p.rows |-> Cells(p.rows[Len(p.rows) + 1 - i])]

LEMMA CellsAre ==
  ASSUME NEW p, Listed(p)
  PROVE  /\ LiveCells(p) \in Seq(Cell) /\ Len(LiveCells(p)) = Len(p.live)
         /\ RowCells(p) \in Seq(Cell) /\ Len(RowCells(p)) = Len(p.rows)
         /\ Remainder(p) \in Seq(Cell)
         /\ Remainder(p) = <<>> \/ (Len(Remainder(p)) = 1 /\ Remainder(p)[1].day = -1)
         /\ Len(p.live) \in {0, 1} /\ Len(p.rows) \in Nat
         /\ \A i \in 1..Len(p.live) : /\ LiveCells(p)[i] = Cells(p.live[i]) /\ LiveCells(p)[i].cost = p.live[i].cost
                                      /\ LiveCells(p)[i].day = p.live[i].date /\ p.live[i].date \in Nat
         /\ \A i \in 1..Len(p.rows) :
              /\ Len(p.rows) + 1 - i \in 1..Len(p.rows)
              /\ RowCells(p)[i] = Cells(p.rows[Len(p.rows) + 1 - i])
              /\ RowCells(p)[i].cost = p.rows[Len(p.rows) + 1 - i].cost
              /\ RowCells(p)[i].day = p.rows[Len(p.rows) + 1 - i].date
              /\ p.rows[i].date \in Nat
<1>1. p.rows \in Seq(BillRow) /\ (p.live = <<>> \/ \E row \in [date: Nat, cost: Nat] : p.live = <<row>>)
  BY DEF Listed
<1> DEFINE n == Len(p.rows)
           a == Len(p.live)
<1>2. n \in Nat /\ DOMAIN p.rows = 1..n /\ \A i \in 1..n : p.rows[i] \in BillRow
  BY <1>1, ElementOfSeq
<1>3. a \in {0, 1} /\ DOMAIN p.live = 1..a /\ \A i \in 1..a : p.live[i] \in [date: Nat, cost: Nat]
  <2>1. CASE p.live = <<>>
    BY <2>1
  <2>2. CASE p.live # <<>>
    <3>1. PICK row \in [date: Nat, cost: Nat] : p.live = <<row>>
      BY <1>1, <2>2
    <3> QED
      BY <3>1
  <2> QED
    BY <2>1, <2>2
<1> HIDE DEF n, a
<1>4. \A r : Cells(r).day = r.date /\ Cells(r).cost = r.cost
  BY DEF Cells
<1>5. \A r : r.date \in Nat /\ r.cost \in Nat => Cells(r) \in Cell
  BY DEF Cells, Cell
<1>6. \A i \in 1..n : n + 1 - i \in 1..n
  BY <1>2
<1>7. \A i \in 1..n : p.rows[i].date \in Nat /\ p.rows[i].cost \in Nat
  BY <1>2 DEF BillRow
<1>8. \A i \in 1..a : p.live[i].date \in Nat /\ p.live[i].cost \in Nat
  BY <1>3
<1>9. LiveCells(p) = [i \in 1..a |-> Cells(p.live[i])]
  BY <1>3 DEF LiveCells
<1>10. RowCells(p) = [i \in 1..n |-> Cells(p.rows[n + 1 - i])]
  BY <1>2 DEF RowCells, n
<1>11. LiveCells(p) \in [1..a -> Cell]
  BY <1>5, <1>8, <1>9
<1>12. RowCells(p) \in [1..n -> Cell]
  <2>1. \A i \in 1..n : Cells(p.rows[n + 1 - i]) \in Cell
    BY <1>5, <1>6, <1>7
  <2> QED
    BY <1>10, <2>1
<1>13. a \in Nat
  BY <1>3
<1>14. LiveCells(p) \in Seq(Cell) /\ Len(LiveCells(p)) = a
  BY <1>11, <1>13, IsASeq, LenProperties
<1>15. RowCells(p) \in Seq(Cell) /\ Len(RowCells(p)) = n
  BY <1>2, <1>12, IsASeq, LenProperties
<1>16. /\ Remainder(p) \in Seq(Cell)
       /\ Remainder(p) = <<>> \/ (Len(Remainder(p)) = 1 /\ Remainder(p)[1].day = -1)
  <2> DEFINE rest == NotItemised(p)
  <2>1. rest \in Int
    BY ListedCosts
  <2>2. Remainder(p) = IF rest = 0 THEN <<>> ELSE <<[day |-> -1, cost |-> rest]>>
    BY DEF Remainder, Before
  <2> HIDE DEF rest
  <2>3. [day |-> -1, cost |-> rest] \in Cell
    BY <2>1 DEF Cell
  <2>4. <<>> \in Seq(Cell) /\ \A c \in Cell : <<c>> \in Seq(Cell)
    OBVIOUS
  <2> QED
    BY <2>2, <2>3, <2>4
<1>17. \A i \in 1..a : /\ LiveCells(p)[i] = Cells(p.live[i]) /\ LiveCells(p)[i].cost = p.live[i].cost
                       /\ LiveCells(p)[i].day = p.live[i].date /\ p.live[i].date \in Nat
  BY <1>4, <1>8, <1>9
<1>18. \A i \in 1..n : /\ n + 1 - i \in 1..n
                       /\ RowCells(p)[i] = Cells(p.rows[n + 1 - i])
                       /\ RowCells(p)[i].cost = p.rows[n + 1 - i].cost
                       /\ RowCells(p)[i].day = p.rows[n + 1 - i].date
                       /\ p.rows[i].date \in Nat
  BY <1>4, <1>6, <1>7, <1>10
<1> QED
  BY <1>2, <1>3, <1>14, <1>15, <1>16, <1>17, <1>18 DEF n, a

LEMMA Joined ==
  ASSUME NEW T, NEW s \in Seq(T), NEW t \in Seq(T)
  PROVE  /\ s \o t \in Seq(T) /\ Len(s) \in Nat /\ Len(t) \in Nat /\ Len(s \o t) = Len(s) + Len(t)
         /\ \A i \in 1..Len(s) : (s \o t)[i] = s[i]
         /\ \A i \in 1..Len(t) : (s \o t)[Len(s) + i] = t[i]
<1>1. Len(s) \in Nat /\ Len(t) \in Nat
  OBVIOUS
<1>2. s \o t \in Seq(T) /\ Len(s \o t) = Len(s) + Len(t)
  BY ConcatProperties
<1>3. \A i \in 1..Len(s) : i \in 1..(Len(s) + Len(t)) /\ i <= Len(s)
  BY <1>1
<1>4. \A i \in 1..Len(t) : Len(s) + i \in 1..(Len(s) + Len(t)) /\ ~(Len(s) + i <= Len(s)) /\ (Len(s) + i) - Len(s) = i
  BY <1>1
<1>5. \A i \in 1..(Len(s) + Len(t)) : (s \o t)[i] = IF i <= Len(s) THEN s[i] ELSE t[i - Len(s)]
  BY ConcatProperties
<1> QED
  BY <1>1, <1>2, <1>3, <1>4, <1>5

\* Three lists of cells, one after the other.
CellLists(a, b, c) == a \in Seq(Cell) /\ b \in Seq(Cell) /\ c \in Seq(Cell)
LEMMA ThreeJoined ==
  ASSUME NEW a, NEW b, NEW c, CellLists(a, b, c)
  PROVE  /\ (a \o b) \o c \in Seq(Cell)
         /\ Len(a) \in Nat /\ Len(b) \in Nat /\ Len(c) \in Nat
         /\ Len((a \o b) \o c) = Len(a) + Len(b) + Len(c)
         /\ \A i \in 1..Len(a) : ((a \o b) \o c)[i] = a[i]
         /\ \A i \in 1..Len(b) : ((a \o b) \o c)[Len(a) + i] = b[i]
         /\ \A i \in 1..Len(c) : ((a \o b) \o c)[Len(a) + Len(b) + i] = c[i]
         /\ CostOfRows((a \o b) \o c) = (CostOfRows(a) + CostOfRows(b)) + CostOfRows(c)
<1>1. a \in Seq(Cell) /\ b \in Seq(Cell) /\ c \in Seq(Cell) /\ \A x \in Cell : x.cost \in Int
  BY DEF CellLists, Cell
<1> DEFINE d == a \o b
<1>2. /\ d \in Seq(Cell) /\ Len(a) \in Nat /\ Len(b) \in Nat /\ Len(d) = Len(a) + Len(b)
      /\ \A i \in 1..Len(a) : d[i] = a[i]
      /\ \A i \in 1..Len(b) : d[Len(a) + i] = b[i]
  BY <1>1, Joined
<1>3. CostOfRows(d) = CostOfRows(a) + CostOfRows(b)
  BY <1>1, CostOfBoth
<1>9. d \in Seq(Cell)
  BY <1>2
<1>10. c \in Seq(Cell)
  BY <1>1
<1> HIDE DEF d
<1>4. /\ d \o c \in Seq(Cell) /\ Len(c) \in Nat /\ Len(d \o c) = Len(d) + Len(c)
      /\ \A i \in 1..Len(d) : (d \o c)[i] = d[i]
      /\ \A i \in 1..Len(c) : (d \o c)[Len(d) + i] = c[i]
  BY <1>9, <1>10, Joined
<1>5. CostOfRows(d \o c) = CostOfRows(d) + CostOfRows(c)
  BY <1>1, <1>2, CostOfBoth
<1>6. /\ \A i \in 1..Len(a) : i \in 1..(Len(a) + Len(b))
      /\ \A i \in 1..Len(b) : Len(a) + i \in 1..(Len(a) + Len(b))
  BY <1>2
<1>7. /\ \A i \in 1..Len(a) : (d \o c)[i] = a[i]
      /\ \A i \in 1..Len(b) : (d \o c)[Len(a) + i] = b[i]
      /\ \A i \in 1..Len(c) : (d \o c)[Len(a) + Len(b) + i] = c[i]
  BY <1>2, <1>4, <1>6
<1>8. CostOfRows(d \o c) = (CostOfRows(a) + CostOfRows(b)) + CostOfRows(c)
  BY <1>3, <1>5
<1> QED
  BY <1>2, <1>4, <1>7, <1>8 DEF d

\* A place in three lists is one in one of them.
LEMMA OneOfThree ==
  ASSUME NEW a \in Nat, NEW b \in Nat, NEW c \in Nat, NEW i \in 1..(a + b + c)
  PROVE  \/ i \in 1..a
         \/ i - a \in 1..b /\ a + (i - a) = i
         \/ i - a - b \in 1..c /\ a + b + (i - a - b) = i
OBVIOUS

TheTable(p) == (LiveCells(p) \o RowCells(p)) \o Remainder(p)

LEMMA TableCosts ==
  ASSUME NEW p, Listed(p)
  PROVE  CostOfRows(TheTable(p)) = p.cost
<1> DEFINE a == LiveCells(p)
           b == RowCells(p)
           c == Remainder(p)
<1>1. CellLists(a, b, c)
  BY CellsAre DEF CellLists
<1>2. CostOfRows(TheTable(p)) = (CostOfRows(a) + CostOfRows(b)) + CostOfRows(c)
  BY <1>1, ThreeJoined DEF TheTable
<1>3. /\ Costed(p.rows) /\ Costed(p.live) /\ CostOfRows(p.rows) \in Int /\ CostOfRows(p.live) \in Int
      /\ NotItemised(p) = p.cost - (CostOfRows(p.rows) + CostOfRows(p.live)) /\ NotItemised(p) \in Int
  BY ListedCosts
<1>4. CostOfRows(a) = CostOfRows(p.live)
  <2>1. Len(a) = Len(p.live) /\ Len(p.live) \in {0, 1} /\ \A i \in 1..Len(p.live) : a[i].cost = p.live[i].cost
    BY CellsAre
  <2>2. \A i \in 1..Len(p.live) : Len(p.live) + 1 - i = i
    BY <2>1
  <2>3. \A i \in 1..Len(p.live) : a[i].cost = p.live[Len(p.live) + 1 - i].cost
    BY <2>1, <2>2
  <2> HIDE DEF a
  <2> QED
    BY <1>3, <2>1, <2>3, CostTurned
<1>5. CostOfRows(b) = CostOfRows(p.rows)
  <2>1. Len(b) = Len(p.rows) /\ \A i \in 1..Len(p.rows) : b[i].cost = p.rows[Len(p.rows) + 1 - i].cost
    BY CellsAre
  <2> HIDE DEF b
  <2> QED
    BY <1>3, <2>1, CostTurned
<1>6. CostOfRows(c) = NotItemised(p)
  <2> DEFINE rest == NotItemised(p)
             cell == [day |-> Before, cost |-> rest]
  <2>1. c = IF rest = 0 THEN <<>> ELSE <<cell>>
    BY DEF Remainder
  <2>2. cell.cost = rest /\ rest \in Int
    BY <1>3
  <2> HIDE DEF rest, cell, c
  <2>3. CostOfRows(<<cell>>) = rest
    BY <2>2, OneCosts
  <2> QED
    BY <2>1, <2>3, NothingCosts DEF rest
<1>7. p.cost \in Int
  BY DEF Listed
<1> HIDE DEF a, b, c
<1>8. \A x, y, z \in Int : (y + x) + (z - (x + y)) = z
  OBVIOUS
<1>9. CostOfRows(TheTable(p)) = (CostOfRows(p.live) + CostOfRows(p.rows)) + (p.cost - (CostOfRows(p.rows) + CostOfRows(p.live)))
  BY <1>2, <1>3, <1>4, <1>5, <1>6
<1> QED
  BY <1>3, <1>7, <1>8, <1>9

LEMMA TableFalls ==
  ASSUME NEW p, Listed(p)
  PROVE  \A i, j \in 1..Len(TheTable(p)) : i < j => TheTable(p)[i].day > TheTable(p)[j].day
<1> DEFINE a == Len(p.live)
           b == Len(p.rows)
           c == Len(Remainder(p))
           t == TheTable(p)
<1>1. CellLists(LiveCells(p), RowCells(p), Remainder(p))
  BY CellsAre DEF CellLists
<1>2. /\ a \in Nat /\ b \in Nat /\ c \in Nat /\ Len(t) = a + b + c /\ a <= 1 /\ c <= 1
      /\ Len(LiveCells(p)) = a /\ Len(RowCells(p)) = b
  <2>1. Len(t) = Len(LiveCells(p)) + Len(RowCells(p)) + Len(Remainder(p)) /\ Len(Remainder(p)) \in Nat
    BY <1>1, ThreeJoined DEF TheTable
  <2>2. a \in {0, 1} /\ b \in Nat /\ Len(LiveCells(p)) = a /\ Len(RowCells(p)) = b
    BY CellsAre
  <2>3. c \in {0, 1}
    <3>1. Len(<<>>) = 0
      OBVIOUS
    <3>2. Remainder(p) = <<>> \/ Len(Remainder(p)) = 1
      BY CellsAre
    <3> QED
      BY <3>1, <3>2
  <2>4. Len(t) = Len(LiveCells(p)) + Len(RowCells(p)) + c
    BY <2>1
  <2> HIDE DEF a, b, c, t
  <2>5. Len(t) = a + b + c
    BY <2>2, <2>4
  <2> QED
    BY <2>2, <2>3, <2>5
<1>3. /\ \A i \in 1..a : t[i] = LiveCells(p)[i]
      /\ \A i \in 1..b : t[a + i] = RowCells(p)[i]
      /\ \A i \in 1..c : t[a + b + i] = Remainder(p)[i]
  <2>1. /\ \A i \in 1..Len(LiveCells(p)) : t[i] = LiveCells(p)[i]
        /\ \A i \in 1..Len(RowCells(p)) : t[Len(LiveCells(p)) + i] = RowCells(p)[i]
        /\ \A i \in 1..c : t[Len(LiveCells(p)) + Len(RowCells(p)) + i] = Remainder(p)[i]
    BY <1>1, ThreeJoined DEF TheTable
  <2>2. Len(LiveCells(p)) = a /\ Len(RowCells(p)) = b
    BY <1>2
  <2> HIDE DEF a, b, c, t
  <2> QED
    BY <2>1, <2>2
<1>4. \A i \in 1..a : t[i].day = p.live[i].date /\ p.live[i].date \in Nat
  BY <1>3, CellsAre
<1>5. \A i \in 1..b : b + 1 - i \in 1..b /\ t[a + i].day = p.rows[b + 1 - i].date /\ p.rows[i].date \in Nat
  <2>1. \A i \in 1..b : /\ b + 1 - i \in 1..b /\ RowCells(p)[i].day = p.rows[b + 1 - i].date
                        /\ p.rows[i].date \in Nat
    BY CellsAre
  <2> HIDE DEF a, b, t
  <2> QED
    BY <1>3, <2>1
<1>6. \A i \in 1..c : t[a + b + i].day = -1
  <2>1. ASSUME NEW i \in 1..c PROVE t[a + b + i].day = -1
    <3>1. i = 1 /\ c # 0
      BY <1>2
    <3>2. Remainder(p) # <<>>
      BY <3>1
    <3>3. Remainder(p)[1].day = -1
      BY <3>2, CellsAre
    <3> QED
      BY <1>3, <3>1, <3>3
  <2> QED
    BY <2>1
<1>7. /\ \A i \in 1..b : \A j \in 1..a : p.rows[i].date < p.live[j].date
      /\ \A i, j \in 1..b : i < j => p.rows[i].date < p.rows[j].date
  BY DEF Listed
<1> HIDE DEF a, b, c, t
<1>8. \A i, j \in 1..b : i < j => t[a + i].day > t[a + j].day
  <2>1. ASSUME NEW i \in 1..b, NEW j \in 1..b, i < j PROVE t[a + i].day > t[a + j].day
    <3>1. b + 1 - j \in 1..b /\ b + 1 - i \in 1..b /\ b + 1 - j < b + 1 - i
      BY <1>2, <2>1
    <3>2. p.rows[b + 1 - j].date < p.rows[b + 1 - i].date /\ p.rows[b + 1 - i].date \in Nat /\ p.rows[b + 1 - j].date \in Nat
      BY <1>5, <1>7, <3>1
    <3> QED
      BY <1>5, <3>2
  <2> QED
    BY <2>1
<1>9. \A i \in 1..a : \A j \in 1..b : t[i].day > t[a + j].day
  <2>1. ASSUME NEW i \in 1..a, NEW j \in 1..b PROVE t[i].day > t[a + j].day
    <3>1. b + 1 - j \in 1..b
      BY <1>5
    <3>2. p.rows[b + 1 - j].date < p.live[i].date /\ p.rows[b + 1 - j].date \in Nat /\ p.live[i].date \in Nat
      BY <1>4, <1>5, <1>7, <3>1
    <3> QED
      BY <1>4, <1>5, <3>2
  <2> QED
    BY <2>1
<1>10. /\ \A i \in 1..a : t[i].day \in Nat
       /\ \A i \in 1..b : t[a + i].day \in Nat
  BY <1>4, <1>5
<1>11. ASSUME NEW i \in 1..(a + b + c), NEW j \in 1..(a + b + c), i < j
       PROVE  t[i].day > t[j].day
  <2>1. \A n \in Nat : n > -1
    OBVIOUS
  <2>2. CASE i \in 1..a /\ j - a \in 1..b /\ a + (j - a) = j
    BY <1>9, <2>2
  <2>3. CASE i - a \in 1..b /\ a + (i - a) = i /\ j - a \in 1..b /\ a + (j - a) = j
    <3>1. i - a < j - a
      BY <1>2, <1>11
    <3>2. t[a + (i - a)].day > t[a + (j - a)].day
      BY <1>8, <2>3, <3>1
    <3> QED
      BY <2>3, <3>2
  <2>4. CASE i \in 1..a /\ j - a - b \in 1..c /\ a + b + (j - a - b) = j
    <3>1. t[j].day = -1
      BY <1>6, <2>4
    <3> QED
      BY <1>10, <2>1, <2>4, <3>1
  <2>5. CASE i - a \in 1..b /\ a + (i - a) = i /\ j - a - b \in 1..c /\ a + b + (j - a - b) = j
    <3>1. t[j].day = -1
      BY <1>6, <2>5
    <3>2. t[i].day \in Nat
      BY <1>10, <2>5
    <3> QED
      BY <2>1, <3>1, <3>2
  <2>6. /\ ~(i \in 1..a /\ j \in 1..a)
        /\ ~(i - a \in 1..b /\ j \in 1..a)
        /\ ~(i - a - b \in 1..c /\ j \in 1..a)
        /\ ~(i - a - b \in 1..c /\ j - a \in 1..b)
        /\ ~(i - a - b \in 1..c /\ j - a - b \in 1..c)
    BY <1>2, <1>11
  <2>7. /\ (i \in 1..a) \/ (i - a \in 1..b /\ a + (i - a) = i) \/ (i - a - b \in 1..c /\ a + b + (i - a - b) = i)
        /\ (j \in 1..a) \/ (j - a \in 1..b /\ a + (j - a) = j) \/ (j - a - b \in 1..c /\ a + b + (j - a - b) = j)
    BY <1>2, OneOfThree
  <2> QED
    BY <2>2, <2>3, <2>4, <2>5, <2>6, <2>7
<1> QED
  BY <1>2, <1>11 DEF t

\* The audit lists what the table does, from the oldest.
LEMMA AuditTurned ==
  ASSUME NEW p, Listed(p)
  PROVE  AuditTable(p) = Rows!Reverse(TheTable(p))
<1> DEFINE a == Len(p.live)
           b == Len(p.rows)
           m == Remainder(p)
           c == Len(m)
           n == a + b + c
           t == TheTable(p)
           listed == p.rows \o p.live
           cells == [i \in DOMAIN listed |-> Cells(listed[i])]
<1>1. /\ LiveCells(p) \in Seq(Cell) /\ RowCells(p) \in Seq(Cell) /\ m \in Seq(Cell)
      /\ Len(LiveCells(p)) = a /\ Len(RowCells(p)) = b
      /\ a \in {0, 1} /\ b \in Nat
      /\ m = <<>> \/ Len(m) = 1
  <2>1. LiveCells(p) \in Seq(Cell) /\ RowCells(p) \in Seq(Cell) /\ Remainder(p) \in Seq(Cell)
    BY CellsAre
  <2>2. /\ Len(LiveCells(p)) = Len(p.live) /\ Len(RowCells(p)) = Len(p.rows)
        /\ Len(p.live) \in {0, 1} /\ Len(p.rows) \in Nat
    BY CellsAre
  <2>3. Remainder(p) = <<>> \/ Len(Remainder(p)) = 1
    BY CellsAre
  <2> QED
    BY <2>1, <2>2, <2>3
<1>2. c \in {0, 1}
  <2>1. Len(<<>>) = 0
    OBVIOUS
  <2> QED
    BY <1>1, <2>1
<1>3. CellLists(LiveCells(p), RowCells(p), m)
  BY <1>1 DEF CellLists
<1>4. /\ t \in Seq(Cell) /\ Len(t) = Len(LiveCells(p)) + Len(RowCells(p)) + c
      /\ \A i \in 1..Len(LiveCells(p)) : t[i] = LiveCells(p)[i]
      /\ \A i \in 1..Len(RowCells(p)) : t[Len(LiveCells(p)) + i] = RowCells(p)[i]
      /\ \A i \in 1..c : t[Len(LiveCells(p)) + Len(RowCells(p)) + i] = m[i]
  BY <1>3, ThreeJoined, SMTT(30) DEF TheTable
<1>5. /\ \A i \in 1..a : LiveCells(p)[i] = Cells(p.live[i])
      /\ \A i \in 1..b : b + 1 - i \in 1..b /\ RowCells(p)[i] = Cells(p.rows[b + 1 - i])
  BY CellsAre
<1>6. /\ listed \in Seq(BillRow \cup [date: Nat, cost: Nat]) /\ Len(listed) = b + a
      /\ \A i \in 1..b : listed[i] = p.rows[i]
      /\ \A i \in 1..a : listed[b + i] = p.live[i]
  <2> DEFINE T == BillRow \cup [date: Nat, cost: Nat]
  <2>1. p.rows \in Seq(BillRow) /\ (p.live = <<>> \/ \E row \in [date: Nat, cost: Nat] : p.live = <<row>>)
    BY DEF Listed
  <2>2. BillRow \subseteq T /\ \A row \in [date: Nat, cost: Nat] : row \in T
    OBVIOUS
  <2> HIDE DEF T
  <2>3. p.rows \in Seq(T)
    BY <2>1, <2>2, AlsoOf
  <2>4. <<>> \in Seq(T) /\ \A row \in T : <<row>> \in Seq(T)
    OBVIOUS
  <2>5. p.live \in Seq(T)
    BY <2>1, <2>2, <2>4
  <2>6. /\ listed \in Seq(T) /\ Len(listed) = b + a
        /\ \A i \in 1..b : listed[i] = p.rows[i]
        /\ \A i \in 1..a : listed[b + i] = p.live[i]
    <3>1. \A q \in Seq(T) : \A r \in Seq(T) :
            /\ q \o r \in Seq(T) /\ Len(q \o r) = Len(q) + Len(r)
            /\ \A i \in 1..Len(q) : (q \o r)[i] = q[i]
            /\ \A i \in 1..Len(r) : (q \o r)[Len(q) + i] = r[i]
      BY Joined
    <3> QED
      BY <2>3, <2>5, <3>1
  <2> QED
    BY <2>6 DEF T
<1>7. DOMAIN listed = 1..(b + a)
  BY <1>6, LenProperties
<1>8. /\ cells \in Seq(Cell) /\ Len(cells) = b + a
      /\ \A i \in 1..b : cells[i] = Cells(p.rows[i])
      /\ \A i \in 1..a : cells[b + i] = Cells(p.live[i])
  <2>1. cells = [i \in 1..(b + a) |-> Cells(listed[i])]
    BY <1>7
  <2>2. \A i \in 1..(b + a) : listed[i] \in BillRow \cup [date: Nat, cost: Nat]
    BY <1>6, ElementOfSeq
  <2>3. \A r \in BillRow \cup [date: Nat, cost: Nat] : Cells(r) \in Cell
    BY DEF BillRow, Cell, Cells
  <2> HIDE DEF listed, cells, a, b
  <2>4. cells \in [1..(b + a) -> Cell]
    BY <2>1, <2>2, <2>3
  <2>5. b + a \in Nat
    BY <1>1
  <2>6. cells \in Seq(Cell) /\ Len(cells) = b + a
    BY <2>4, <2>5, IsASeq, LenProperties
  <2>7. /\ \A i \in 1..b : i \in 1..(b + a)
        /\ \A i \in 1..a : b + i \in 1..(b + a)
    BY <1>1
  <2> QED
    BY <1>6, <2>1, <2>6, <2>7
<1> DEFINE audit == m \o cells
<1>9. AuditTable(p) = audit
  BY DEF AuditTable
<1> HIDE DEF cells, listed, t, a, b, m
<1>10. /\ audit \in Seq(Cell) /\ Len(audit) = c + (b + a)
       /\ \A i \in 1..c : audit[i] = m[i]
       /\ \A i \in 1..(b + a) : audit[c + i] = cells[i]
  <2>1. m \in Seq(Cell)
    BY <1>1
  <2>2. cells \in Seq(Cell)
    BY <1>8
  <2>3. /\ audit \in Seq(Cell) /\ Len(audit) = c + Len(cells)
        /\ \A i \in 1..c : audit[i] = m[i]
        /\ \A i \in 1..Len(cells) : audit[c + i] = cells[i]
    BY <2>1, <2>2, Joined
  <2> QED
    BY <1>8, <2>3
<1> HIDE DEF audit, c, n
<1>11. /\ Len(t) = n /\ n \in Nat
       /\ \A i \in 1..a : t[i] = Cells(p.live[i])
       /\ \A i \in 1..b : t[a + i] = Cells(p.rows[b + 1 - i])
       /\ \A i \in 1..c : t[a + b + i] = m[i]
  BY <1>1, <1>2, <1>4, <1>5 DEF n
<1>12. ASSUME NEW i \in 1..n
       PROVE  audit[i] = t[(n - i) + 1]
  <2>1. i \in 1..(c + b + a) /\ n = a + b + c
    BY <1>1, <1>2 DEF n
  <2>2. CASE i \in 1..c
    <3>1. i = 1 /\ c = 1 /\ (n - i) + 1 = a + b + 1 /\ 1 \in 1..c
      BY <1>1, <1>2, <2>1, <2>2
    <3> QED
      BY <1>10, <1>11, <3>1
  <2>3. CASE i - c \in 1..b /\ c + (i - c) = i
    <3> DEFINE k == i - c
    <3>1. k \in 1..b /\ k \in 1..(b + a) /\ c + k = i
      BY <1>1, <2>3
    <3>2. audit[i] = Cells(p.rows[k])
      <4> HIDE DEF k
      <4>1. audit[c + k] = cells[k] /\ cells[k] = Cells(p.rows[k])
        BY <1>8, <1>10, <3>1
      <4> QED
        BY <3>1, <4>1
    <3>3. b + 1 - k \in 1..b /\ a + (b + 1 - k) = (n - i) + 1 /\ b + 1 - (b + 1 - k) = k
      BY <1>1, <1>2, <2>1, <3>1
    <3> HIDE DEF k
    <3>4. t[a + (b + 1 - k)] = Cells(p.rows[b + 1 - (b + 1 - k)])
      BY <1>11, <3>3
    <3> QED
      BY <3>2, <3>3, <3>4
  <2>4. CASE i - c - b \in 1..a /\ c + b + (i - c - b) = i
    <3>1. i - c - b = 1 /\ i = c + (b + 1) /\ (n - i) + 1 = 1 /\ 1 \in 1..a /\ b + 1 \in 1..(b + a)
      BY <1>1, <1>2, <2>1, <2>4
    <3>2. audit[c + (b + 1)] = cells[b + 1] /\ cells[b + 1] = Cells(p.live[1])
      BY <1>8, <1>10, <3>1
    <3> QED
      BY <1>11, <3>1, <3>2
  <2>5. \/ i \in 1..c
        \/ i - c \in 1..b /\ c + (i - c) = i
        \/ i - c - b \in 1..a /\ c + b + (i - c - b) = i
    BY <1>1, <1>2, <2>1, OneOfThree
  <2> QED
    BY <2>2, <2>3, <2>4, <2>5
<1>13. Rows!Reverse(t) = [i \in 1..n |-> t[(n - i) + 1]]
  BY <1>11 DEF Rows!Reverse
<1>14. audit = [i \in 1..n |-> audit[i]]
  <2>1. Len(audit) = n
    BY <1>1, <1>2, <1>10 DEF n
  <2> QED
    BY <1>10, <2>1, LenProperties
<1>15. audit = Rows!Reverse(t)
  BY <1>12, <1>13, <1>14
<1> QED
  BY <1>9, <1>15 DEF t

LEMMA TableMade ==
  ASSUME NEW p, Listed(p)
  PROVE  Tabled(p)
<1>1. DaysTable(p) = TheTable(p)
  BY DEF DaysTable, TheTable, LiveCells, RowCells
<1>2. BillLines(p).energy = p.cost
  BY DEF BillLines
<1>3. DOMAIN TheTable(p) = 1..Len(TheTable(p))
  <2>1. CellLists(LiveCells(p), RowCells(p), Remainder(p))
    BY CellsAre DEF CellLists
  <2>2. TheTable(p) \in Seq(Cell)
    BY <2>1, ThreeJoined DEF TheTable
  <2> QED
    BY <2>2, LenProperties
<1> QED
  BY <1>1, <1>2, <1>3, TableCosts, TableFalls, AuditTurned DEF Tabled

-----------------------------------------------------------------------------
(* The periods that are kept and the one that runs. *)
LastPeriod == [rows |-> books.rows, cost |-> books.month, start |-> books.start, end |-> books.reset]

LEMMA PeriodsAre ==
  ASSUME AuditAssumption, AuditInv
  PROVE  /\ AuditPeriods = Append(books.archive, LastPeriod)
         /\ Len(books.archive) \in Nat /\ DOMAIN AuditPeriods = 1..(Len(books.archive) + 1)
         /\ \A i \in 1..Len(books.archive) : AuditPeriods[i] = books.archive[i]
         /\ AuditPeriods[Len(books.archive) + 1] = LastPeriod
         /\ \A i \in 1..(Len(books.archive) + 1) :
              /\ AuditPeriods[i].start \in Nat /\ AuditPeriods[i].end \in Nat
              /\ AuditPeriods[i].rows \in Seq(BillRow) /\ RowsKeep(AuditPeriods[i].rows)
              /\ InDays(AuditPeriods[i].rows, AuditPeriods[i].start, AuditPeriods[i].end)
<1> DEFINE n == Len(books.archive)
<1>1. BooksKept(books, billDay, moved)
  BY DEF AuditInv
<1>2. /\ books.month \in Nat /\ books.start \in Nat /\ books.reset \in Nat /\ books.rows \in Seq(BillRow)
      /\ books.archive \in Seq(BillPeriod)
  BY <1>1, BooksType
<1>3. LastPeriod \in BillPeriod /\ LastPeriod.rows = books.rows /\ LastPeriod.start = books.start
      /\ LastPeriod.end = books.reset
  BY <1>2 DEF LastPeriod, BillPeriod
<1>4. AuditPeriods = Append(books.archive, LastPeriod)
  BY DEF AuditPeriods, LastPeriod
<1>5. n \in Nat /\ \A i \in 1..n : books.archive[i] \in BillPeriod
  BY <1>2, ElementOfSeq
<1>6. /\ DOMAIN AuditPeriods = 1..(n + 1) /\ AuditPeriods[n + 1] = LastPeriod
      /\ \A i \in 1..n : AuditPeriods[i] = books.archive[i]
  <2> HIDE DEF n
  <2>1. /\ Append(books.archive, LastPeriod) \in Seq(BillPeriod)
        /\ Len(Append(books.archive, LastPeriod)) = Len(books.archive) + 1
        /\ \A i \in 1..Len(books.archive) : Append(books.archive, LastPeriod)[i] = books.archive[i]
        /\ Append(books.archive, LastPeriod)[Len(books.archive) + 1] = LastPeriod
    BY <1>2, <1>3, AppendProperties
  <2>2. DOMAIN Append(books.archive, LastPeriod) = 1..Len(Append(books.archive, LastPeriod))
    BY <2>1, LenProperties
  <2> QED
    BY <1>4, <2>1, <2>2 DEF n
<1>7. \A i \in 1..n : /\ books.archive[i].start \in Nat /\ books.archive[i].end \in Nat
                      /\ PeriodKept(books.archive[i].rows, books.archive[i].cost, books.archive[i].start,
                                    books.archive[i].end, books.earlier)
  BY <1>1, <1>5 DEF BooksKept, BillPeriod
<1>8. RowsKeep(books.rows) /\ InDays(books.rows, books.start, books.reset)
  <2>1. RowsKeep(books.rows) /\ InDays(books.rows, books.start, books.reset - 1)
    BY <1>1 DEF BooksKept, PeriodKept
  <2>2. books.reset - 1 \in Int /\ books.reset - 1 <= books.reset /\ books.start \in Int /\ books.reset \in Int
    BY <1>2
  <2> QED
    BY <1>2, <2>1, <2>2, MoreDays
<1> HIDE DEF n
<1>9. ASSUME NEW i \in 1..(n + 1)
      PROVE  /\ AuditPeriods[i].start \in Nat /\ AuditPeriods[i].end \in Nat
             /\ AuditPeriods[i].rows \in Seq(BillRow) /\ RowsKeep(AuditPeriods[i].rows)
             /\ InDays(AuditPeriods[i].rows, AuditPeriods[i].start, AuditPeriods[i].end)
  <2>1. CASE i \in 1..n
    BY <1>6, <1>7, <2>1 DEF PeriodKept
  <2>2. CASE i = n + 1
    BY <1>2, <1>3, <1>6, <1>8, <2>2
  <2>3. i \in 1..n \/ i = n + 1
    BY <1>5
  <2> QED
    BY <2>1, <2>2, <2>3
<1> QED
  BY <1>4, <1>5, <1>6, <1>9 DEF n

\* One after the other.
LEMMA PeriodsInChain ==
  ASSUME AuditAssumption, AuditInv
  PROVE  /\ \A i \in 1..Len(books.archive) : AuditPeriods[i].end + 1 = AuditPeriods[i + 1].start
         /\ \A i, j \in 1..(Len(books.archive) + 1) : i < j => AuditPeriods[i].start < AuditPeriods[j].start
<1> DEFINE n == Len(books.archive)
<1>1. /\ \A i \in 1..n : books.archive[i].start < books.start
      /\ \A i \in 1..n : books.archive[i].end + 1 = IF i = n THEN books.start ELSE books.archive[i + 1].start
      /\ \A i, j \in 1..n : i < j => books.archive[i].start < books.archive[j].start
  BY DEF AuditInv, BooksKept, InChain
<1>2. n \in Nat /\ AuditPeriods[n + 1] = LastPeriod /\ \A i \in 1..n : AuditPeriods[i] = books.archive[i]
  BY PeriodsAre
<1>3. LastPeriod.start = books.start
  BY DEF LastPeriod
<1> HIDE DEF n
<1>4. ASSUME NEW i \in 1..n PROVE AuditPeriods[i].end + 1 = AuditPeriods[i + 1].start
  <2>1. CASE i = n
    BY <1>1, <1>2, <1>3, <2>1
  <2>2. CASE i # n
    <3>1. i + 1 \in 1..n
      BY <1>2, <2>2
    <3> QED
      BY <1>1, <1>2, <2>2, <3>1
  <2> QED
    BY <2>1, <2>2
<1>5. ASSUME NEW i \in 1..(n + 1), NEW j \in 1..(n + 1), i < j
      PROVE  AuditPeriods[i].start < AuditPeriods[j].start
  <2>1. i \in 1..n /\ (j = n + 1 \/ j \in 1..n)
    BY <1>2, <1>5
  <2> QED
    BY <1>1, <1>2, <1>3, <1>5, <2>1
<1> QED
  BY <1>4, <1>5 DEF n

LEMMA FollowsKept ==
  ASSUME AuditAssumption, AuditInv
  PROVE  PeriodsFollow
<1> DEFINE n == Len(books.archive)
<1>1. n \in Nat /\ DOMAIN AuditPeriods = 1..(n + 1)
  BY PeriodsAre
<1>2. ASSUME NEW i \in 1..(n + 1)
      PROVE  /\ i > 1 => AuditPeriods[i - 1].end + 1 = AuditPeriods[i].start
             /\ \A j \in DOMAIN AuditPeriods[i].rows :
                  /\ AuditPeriods[i].rows[j].date \in AuditPeriods[i].start..AuditPeriods[i].end
                  /\ j > 1 => AuditPeriods[i].rows[j - 1].date < AuditPeriods[i].rows[j].date
  <2>1. i > 1 => AuditPeriods[i - 1].end + 1 = AuditPeriods[i].start
    <3>1. \A j \in 1..n : AuditPeriods[j].end + 1 = AuditPeriods[j + 1].start
      BY PeriodsInChain
    <3> HIDE DEF n
    <3>2. i > 1 => i - 1 \in 1..n /\ (i - 1) + 1 = i
      BY <1>1
    <3> QED
      BY <3>1, <3>2
  <2> DEFINE rows == AuditPeriods[i].rows
             from == AuditPeriods[i].start
             to == AuditPeriods[i].end
  <2>2. rows \in Seq(BillRow) /\ InDays(rows, from, to)
    BY PeriodsAre
  <2>3. Len(rows) \in Nat /\ DOMAIN rows = 1..Len(rows)
    BY <2>2, LenProperties
  <2> HIDE DEF rows, from, to
  <2>4. ASSUME NEW j \in 1..Len(rows)
        PROVE  rows[j].date \in from..to /\ (j > 1 => rows[j - 1].date < rows[j].date)
    <3>1. j > 1 => j - 1 \in 1..Len(rows) /\ j - 1 < j
      BY <2>3
    <3> QED
      BY <2>2, <3>1 DEF InDays
  <2> QED
    BY <2>1, <2>3, <2>4 DEF rows, from, to
<1> HIDE DEF n
<1> QED
  BY <1>1, <1>2 DEF PeriodsFollow

LEMMA OneOfPeriods ==
  ASSUME AuditAssumption, AuditInv, NEW p \in Range(AuditPeriods)
  PROVE  /\ p.rows \in Seq(BillRow) /\ RowsKeep(p.rows) /\ InDays(p.rows, p.start, p.end)
         /\ Len(p.rows) \in Nat /\ DOMAIN p.rows = 1..Len(p.rows)
         /\ \E i \in 1..(Len(books.archive) + 1) : p = AuditPeriods[i]
<1>1. PICK i \in DOMAIN AuditPeriods : p = AuditPeriods[i]
  BY DEF Range
<1>2. p.rows \in Seq(BillRow) /\ RowsKeep(p.rows) /\ InDays(p.rows, p.start, p.end)
      /\ i \in 1..(Len(books.archive) + 1)
  BY <1>1, PeriodsAre
<1> QED
  BY <1>1, <1>2, LenProperties

LEMMA TariffsKept ==
  ASSUME AuditAssumption, AuditInv
  PROVE  TariffsRecorded
<1>1. ASSUME NEW p \in Range(AuditPeriods), NEW i \in DOMAIN p.rows
      PROVE  TariffForDay(p.rows, i) =
               IF p.rows[i].was # NoTariffYet THEN p.rows[i].was
               ELSE IF i = 1 THEN NoTariffYet ELSE TariffForDay(p.rows, i - 1)
  <2>1. p.rows \in Seq(BillRow) /\ RowsKeep(p.rows) /\ i \in 1..Len(p.rows)
    BY <1>1, OneOfPeriods
  <2>2. RowKeeps(p.rows, i)
    BY <2>1 DEF RowsKeep
  <2> DEFINE rows == p.rows
  <2>3. rows \in Seq(BillRow) /\ i \in 1..Len(rows) /\ RowKeeps(rows, i)
    BY <2>1, <2>2
  <2> HIDE DEF rows
  <2>4. TariffForDay(rows, i) = IF rows[i].was # NoTariffYet THEN rows[i].was
                                ELSE IF i = 1 THEN NoTariffYet ELSE TariffForDay(rows, i - 1)
    BY <2>3, KeptTariff
  <2> QED
    BY <2>4 DEF rows
<1> QED
  BY <1>1 DEF TariffsRecorded

LEMMA ChangesKept ==
  ASSUME AuditAssumption, AuditInv
  PROVE  ChangesAreReal
<1>1. ASSUME NEW p \in Range(AuditPeriods), NEW i \in DOMAIN p.rows,
             i > 1, p.rows[i].date \in TariffChanges(p.rows)
      PROVE  p.rows[i].was # TariffForDay(p.rows, i - 1)
  <2> DEFINE rows == p.rows
  <2>1. /\ rows \in Seq(BillRow) /\ RowsKeep(rows) /\ InDays(rows, p.start, p.end) /\ i \in 1..Len(rows)
        /\ DOMAIN rows = 1..Len(rows) /\ Len(rows) \in Nat
    BY <1>1, OneOfPeriods
  <2>2. i > 1 /\ rows[i].date \in TariffChanges(rows)
    BY <1>1
  <2> HIDE DEF rows
  <2>3. PICK j \in 1..Len(rows) : HasTariff(rows[j]) /\ rows[i].date = rows[j].date
    BY <2>1, <2>2 DEF TariffChanges
  <2>4. j = i
    <3>1. \A k, l \in 1..Len(rows) : k < l => rows[k].date < rows[l].date
      BY <2>1 DEF InDays
    <3>2. rows[i] \in BillRow /\ rows[j] \in BillRow
      BY <2>1, ElementOfSeq
    <3>3. rows[i].date \in Nat /\ rows[j].date \in Nat
      BY <3>2 DEF BillRow
    <3>4. ~(i < j) /\ ~(j < i)
      BY <2>1, <2>3, <3>1, <3>3
    <3> QED
      BY <2>1, <3>4
  <2>5. RowKeeps(rows, i) /\ HasTariff(rows[i])
    BY <2>1, <2>3, <2>4 DEF RowsKeep
  <2>6. rows[i].was # TariffInEffect(SubSeq(rows, 1, i - 1))
    BY <2>1, <2>5, KeptTariff
  <2>7. rows[i].was # TariffForDay(rows, i - 1)
    BY <2>6 DEF TariffForDay
  <2> QED
    BY <2>7 DEF rows
<1> QED
  BY <1>1 DEF ChangesAreReal

-----------------------------------------------------------------------------
(* What a bill lists and charges for. *)
LEMMA RunningListed ==
  ASSUME AuditAssumption, AuditInv
  PROVE  /\ Listed(RunningPeriod)
         /\ NotItemised(RunningPeriod) = EarlierUse(books.start, books.earlier)
<1>1. BooksKept(books, billDay, moved) /\ books.reset <= date /\ date \in Nat
  BY DEF AuditInv
<1>2. /\ books.today \in Nat /\ books.month \in Nat /\ books.start \in Nat /\ books.reset \in Nat
      /\ books.earlier \in Nat /\ books.rows \in Seq(BillRow)
  BY <1>1, BooksType
<1>3. /\ InDays(books.rows, books.start, books.reset - 1)
      /\ books.month - books.today = CostOfRows(books.rows) + EarlierUse(books.start, books.earlier)
  BY <1>1 DEF BooksKept, PeriodKept
<1> DEFINE row == LiveRow(books.today)
           p == RunningPeriod
<1>4. row \in [date: Nat, cost: Nat] /\ row.date = date /\ row.cost = books.today
  BY <1>1, <1>2 DEF LiveRow
<1>5. p.rows = books.rows /\ p.live = <<row>> /\ p.cost = books.month
  BY DEF RunningPeriod
<1> HIDE DEF row, p
<1>6. Len(<<row>>) = 1 /\ <<row>>[1] = row
  OBVIOUS
<1>7. \A i \in 1..Len(books.rows) : books.rows[i].date < date
  <2>1. ASSUME NEW i \in 1..Len(books.rows) PROVE books.rows[i].date < date
    <3>1. books.rows[i].date \in books.start..(books.reset - 1)
      BY <1>3 DEF InDays
    <3> QED
      BY <1>1, <1>2, <3>1
  <2> QED
    BY <2>1
<1>8. \A i \in 1..Len(p.rows) : \A j \in 1..Len(p.live) : p.rows[i].date < p.live[j].date
  <2>1. \A j \in 1..1 : j = 1
    OBVIOUS
  <2> QED
    BY <1>4, <1>5, <1>6, <1>7, <2>1
<1>9. \A i, j \in 1..Len(p.rows) : i < j => p.rows[i].date < p.rows[j].date
  BY <1>3, <1>5 DEF InDays
<1>10. Listed(p)
  <2>1. p.rows \in Seq(BillRow) /\ p.cost \in Int
    BY <1>2, <1>5
  <2>2. p.live = <<>> \/ \E r \in [date: Nat, cost: Nat] : p.live = <<r>>
    BY <1>4, <1>5
  <2> QED
    BY <1>8, <1>9, <2>1, <2>2 DEF Listed
<1>11. NotItemised(p) = p.cost - (CostOfRows(p.rows) + CostOfRows(p.live)) /\ CostOfRows(p.rows) \in Int
  BY <1>10, ListedCosts
<1>12. CostOfRows(<<row>>) = books.today
  <2>1. row.cost \in Int
    BY <1>2, <1>4
  <2> QED
    BY <1>4, <2>1, OneCosts
<1>13. EarlierUse(books.start, books.earlier) \in Int
  BY <1>2 DEF EarlierUse
<1>14. \A c, e, t, m \in Int : m - t = c + e => m - (c + t) = e
  OBVIOUS
<1>15. NotItemised(p) = books.month - (CostOfRows(books.rows) + books.today)
  BY <1>5, <1>11, <1>12
<1>16. CostOfRows(books.rows) \in Int /\ books.today \in Int /\ books.month \in Int
  BY <1>2, <1>5, <1>11
<1>17. NotItemised(p) = EarlierUse(books.start, books.earlier)
  BY <1>3, <1>13, <1>14, <1>15, <1>16
<1> QED
  BY <1>10, <1>17 DEF p

LEMMA ArchivedListed ==
  ASSUME AuditAssumption, NEW q \in BillPeriod, NEW earlier \in Nat,
         PeriodKept(q.rows, q.cost, q.start, q.end, earlier)
  PROVE  /\ Listed(ArchivedPeriod(q))
         /\ NotItemised(ArchivedPeriod(q)) = EarlierUse(q.start, earlier)
         /\ ArchivedPeriod(q).days >= Len(q.rows)
         /\ q.start <= q.end => ArchivedPeriod(q).days = q.end - q.start + 1
<1> DEFINE p == ArchivedPeriod(q)
<1>1. /\ p.rows = q.rows /\ p.live = <<>> /\ p.cost = q.cost
      /\ p.days = Max({1, q.end - q.start + 1})
  BY DEF ArchivedPeriod
<1>2. q.rows \in Seq(BillRow) /\ q.cost \in Nat /\ q.start \in Nat /\ q.end \in Nat
  BY DEF BillPeriod
<1>3. InDays(q.rows, q.start, q.end) /\ q.cost = CostOfRows(q.rows) + EarlierUse(q.start, earlier)
  BY DEF PeriodKept
<1> HIDE DEF p
<1>4. Listed(p)
  <2>1. p.rows \in Seq(BillRow) /\ p.cost \in Int
    BY <1>1, <1>2
  <2>2. \A i, j \in 1..Len(p.rows) : i < j => p.rows[i].date < p.rows[j].date
    BY <1>1, <1>3 DEF InDays
  <2>3. \A j \in 1..Len(p.live) : FALSE
    BY <1>1
  <2> QED
    BY <1>1, <2>1, <2>2, <2>3 DEF Listed
<1>5. NotItemised(p) = p.cost - (CostOfRows(p.rows) + CostOfRows(p.live)) /\ CostOfRows(p.rows) \in Int
  BY <1>4, ListedCosts
<1>6. EarlierUse(q.start, earlier) \in Int
  BY <1>2 DEF EarlierUse
<1>7. NotItemised(p) = EarlierUse(q.start, earlier)
  <2>1. \A c, e \in Int : (c + e) - (c + 0) = e
    OBVIOUS
  <2>2. NotItemised(p) = (CostOfRows(q.rows) + EarlierUse(q.start, earlier)) - (CostOfRows(q.rows) + 0)
    BY <1>1, <1>3, <1>5, NothingCosts
  <2>3. CostOfRows(q.rows) \in Int
    BY <1>1, <1>5
  <2> QED
    BY <1>6, <2>1, <2>2, <2>3
<1>8. p.days = IF 1 >= q.end - q.start + 1 THEN 1 ELSE q.end - q.start + 1
  <2>1. q.end - q.start + 1 \in Int
    BY <1>2
  <2> QED
    BY <1>1, <2>1, GreaterOne
<1>9. Len(q.rows) \in Nat /\ Len(q.rows) <= q.end - q.start + 1
  BY <1>2, <1>3, LenProperties DEF InDays
<1>10. p.days >= Len(q.rows) /\ (q.start <= q.end => p.days = q.end - q.start + 1)
  BY <1>2, <1>8, <1>9
<1> QED
  BY <1>4, <1>7, <1>10 DEF p

LEMMA ArchivedKept ==
  ASSUME AuditAssumption, AuditInv, NEW q \in Range(books.archive)
  PROVE  /\ q \in BillPeriod /\ PeriodKept(q.rows, q.cost, q.start, q.end, books.earlier)
         /\ books.earlier \in Nat /\ q.start <= q.end
<1>1. BooksKept(books, billDay, moved)
  BY DEF AuditInv
<1>2. books.archive \in Seq(BillPeriod) /\ books.earlier \in Nat
  BY <1>1, BooksType
<1>3. DOMAIN books.archive = 1..Len(books.archive)
  BY <1>2, LenProperties
<1>4. PICK i \in 1..Len(books.archive) : q = books.archive[i]
  BY <1>3 DEF Range
<1>5. q \in BillPeriod
  BY <1>2, <1>4, ElementOfSeq
<1>6. q.start <= q.end
  BY <1>1, <1>4 DEF BooksKept, InChain
<1> QED
  BY <1>1, <1>2, <1>4, <1>5, <1>6 DEF BooksKept

\* Days since one on which a bill starts, when none has been since.
LEMMA PeriodDay ==
  ASSUME NEW D \in Nat \ {0}, NEW from \in Nat, NEW day \in Nat, from <= day,
         \A d \in (from + 1)..day : d % D # from % D
  PROVE  (day - (from % D)) % D = day - from
<1> DEFINE q == from \div D
           r == from % D
           k == day - from
           u == (day - r) \div D
           s == (day - r) % D
<1>1. q \in Int /\ r \in 0..(D - 1) /\ from = D * q + r
  BY Divided
<1>2. k \in Nat /\ k < D
  <2>1. SUFFICES ASSUME k >= D PROVE FALSE
    OBVIOUS
  <2>2. from + D \in (from + 1)..day
    BY <2>1
  <2>3. (from + D) % D = from % D
    <3> DEFINE a == from + D
               v == a \div D
               w == a % D
    <3>1. v \in Int /\ w \in 0..(D - 1) /\ a = D * v + w
      <4>1. a \in Int
        OBVIOUS
      <4> HIDE DEF a
      <4> QED
        BY <4>1, Divided
    <3>2. D * (q + 1) + r = D * v + w
      <4>1. D * (q + 1) = D * q + D /\ D * q \in Int
        BY <1>1
      <4> HIDE DEF q, r, v, w
      <4> QED
        BY <1>1, <3>1, <4>1
    <3>3. q + 1 \in Int
      BY <1>1
    <3> HIDE DEF q, r, v, w
    <3>4. r = w
      BY <1>1, <3>1, <3>2, <3>3, RemainderUnique
    <3> QED
      BY <3>4 DEF r, w
  <2> QED
    BY <2>2, <2>3
<1>3. u \in Int /\ s \in 0..(D - 1) /\ day - r = D * u + s
  <2>1. day - r \in Int
    BY <1>1
  <2> HIDE DEF r
  <2> QED
    BY <2>1, Divided
<1>4. D * q + k = D * u + s
  <2>1. D * q \in Int /\ D * u \in Int
    BY <1>1, <1>3
  <2> HIDE DEF q, r, u, s
  <2> QED
    BY <1>1, <1>3, <2>1
<1>5. k \in 0..(D - 1)
  BY <1>2
<1> HIDE DEF k, q, u, s
<1>6. k = s
  BY <1>1, <1>3, <1>4, <1>5, RemainderUnique
<1> QED
  BY <1>6 DEF k, s

LEMMA DaysCounted ==
  ASSUME AuditAssumption, AuditInv, moved < books.start, ~stopped
  PROVE  DaysInPeriod(date) = date - books.start + 1
<1>1. BooksKept(books, billDay, moved) /\ books.reset = date /\ date \in Nat /\ MonthLen \in Nat \ {0}
  BY DEF AuditInv, AuditAssumption
<1>2. books.start \in Nat /\ books.start <= date
  BY <1>1, BooksType
<1>3. books.start % MonthLen = billDay /\ \A d \in (books.start + 1)..date : d % MonthLen # billDay
  BY <1>1 DEF BooksKept, Running
<1>4. (date - (books.start % MonthLen)) % MonthLen = date - books.start
  BY <1>1, <1>2, <1>3, PeriodDay
<1> QED
  BY <1>3, <1>4 DEF DaysInPeriod

LEMMA SumsKept ==
  ASSUME AuditAssumption, AuditInv
  PROVE  AddsUp /\ TablesAreTrue
<1>1. NotItemised(RunningPeriod) = (IF books.start = 0 THEN books.earlier ELSE 0) /\ Listed(RunningPeriod)
  BY RunningListed DEF EarlierUse
<1>2. ASSUME NEW p \in Range(books.archive)
      PROVE  /\ NotItemised(ArchivedPeriod(p)) = (IF p.start = 0 THEN books.earlier ELSE 0)
             /\ ArchivedPeriod(p).days >= Len(p.rows) /\ Listed(ArchivedPeriod(p))
  BY ArchivedKept, ArchivedListed DEF EarlierUse
<1>3. moved < books.start /\ ~stopped => RunningPeriod.days = date - books.start + 1
  BY DaysCounted DEF RunningPeriod
<1>4. AddsUp
  BY <1>1, <1>2, <1>3 DEF AddsUp
<1>5. TablesAreTrue
  BY <1>1, <1>2, TableMade DEF TablesAreTrue
<1> QED
  BY <1>4, <1>5

-----------------------------------------------------------------------------
(* The bill that closes, the year and the export. *)
Closing(b, rows) == [rows |-> rows, cost |-> b.month, start |-> b.start, end |-> b.reset]

LEMMA MidnightIs ==
  ASSUME NEW b \in Book, NEW tariff, RecordBillDay(b, b.reset, tariff) \in Seq(BillRow)
  PROVE  LET rows == RecordBillDay(b, b.reset, tariff)
             after == AuditMidnight(b, b.reset + 1, tariff)
         IN /\ DayOfMonth(b.reset + 1) # billDay => after.rows = rows
            /\ DayOfMonth(b.reset + 1) = billDay => after.archive = Filed(b.archive, Closing(b, rows))
<1> DEFINE day == b.reset + 1
           rows == RecordBillDay(b, b.reset, tariff)
           recorded == BookRecorded(b, rows, day)
           closing == Closing(b, rows)
           after == AuditMidnight(b, day, tariff)
<1>1. day \in Nat /\ day - 1 = b.reset
  BY DEF Book
<1>2. /\ recorded \in Book /\ recorded.rows = rows /\ recorded.month = b.month
      /\ recorded.archive = b.archive /\ recorded.start = b.start
  <2> HIDE DEF rows, day
  <2> QED
    BY <1>1, RecordedBook DEF rows
<1>3. after = IF DayOfMonth(day) = billDay THEN ResetMonth(recorded, day) ELSE recorded
  <2>1. RecordBillDay(b, day - 1, tariff) = rows
    BY <1>1
  <2> HIDE DEF rows, day
  <2> QED
    BY <2>1 DEF AuditMidnight, BookRecorded
<1>4. ResetMonth(recorded, day).archive = Filed(b.archive, closing)
  <2>1. [rows |-> recorded.rows, cost |-> recorded.month, start |-> recorded.start, end |-> day - 1] = closing
    <3> HIDE DEF rows, day, recorded
    <3> QED
      BY <1>1, <1>2 DEF Closing
  <2>2. recorded.archive = b.archive
    BY <1>2
  <2>3. ResetMonth(recorded, day) = BookClosed(recorded, Filed(b.archive, closing), day)
    <3> HIDE DEF recorded, day, closing
    <3> QED
      BY <2>1, <2>2 DEF ResetMonth, Filed, BookClosed
  <2>4. BookClosed(recorded, Filed(b.archive, closing), day).archive = Filed(b.archive, closing)
    <3>1. recorded \in Book
      BY <1>2
    <3> HIDE DEF recorded, day, closing
    <3> QED
      BY <3>1 DEF BookClosed, Book
  <2> QED
    BY <2>3, <2>4
<1> HIDE DEF recorded, closing, after, rows, day
<1>5. /\ DayOfMonth(day) # billDay => after.rows = rows
      /\ DayOfMonth(day) = billDay => after.archive = Filed(b.archive, closing)
  BY <1>2, <1>3, <1>4
<1> QED
  BY <1>5 DEF closing, after, rows, day

\* The row of a day that was seen has the tariff that it was used at.
LEMMA TariffOfToday ==
  ASSUME NEW b \in Book, b.today # 0, NEW tariff \in Prices, NoTariffYet \notin Prices
  PROVE  /\ TariffInEffect(RecordBillDay(b, b.reset, tariff)) = tariff
         /\ RecordBillDay(b, b.reset, tariff) # <<>>
<1> DEFINE row == [date |-> b.reset, cost |-> b.today, was |-> tariff, tariff |-> StoredWith(b.rows, tariff)]
<1>1. b.rows \in Seq(BillRow) /\ b.reset \in Nat /\ b.today \in Nat
  BY DEF Book
<1>2. tariff # NoTariffYet
  OBVIOUS
<1>3. RecordBillDay(b, b.reset, tariff) = Append(b.rows, row)
  BY <1>2 DEF RecordBillDay
<1>4. row.tariff = IF TariffInEffect(b.rows) = tariff THEN NoTariffYet ELSE tariff
  BY DEF StoredWith
<1>5. row \in BillRow
  BY <1>1, <1>4 DEF BillRow, Paid
<1>6. TariffInEffect(Append(b.rows, row)) = IF HasTariff(row) THEN row.tariff ELSE TariffInEffect(b.rows)
  <2> HIDE DEF row
  <2> QED
    BY <1>1, <1>5, EffectAppended
<1>7. HasTariff(row) <=> row.tariff # NoTariffYet
  BY DEF HasTariff
<1> HIDE DEF row
<1>8. TariffInEffect(Append(b.rows, row)) = tariff
  BY <1>2, <1>4, <1>6, <1>7
<1>9. Append(b.rows, row) # <<>>
  <2>1. Len(Append(b.rows, row)) = Len(b.rows) + 1 /\ Len(b.rows) \in Nat
    BY <1>1, <1>5, AppendProperties, LenProperties
  <2>2. Len(<<>>) = 0
    OBVIOUS
  <2>3. Len(b.rows) + 1 # 0
    BY <2>1
  <2> QED
    BY <2>1, <2>2, <2>3
<1> QED
  BY <1>3, <1>8, <1>9

LEMMA Averaged ==
  ASSUME NEW x \in Int, NEW D \in Nat \ {0}
  PROVE  (x * D) \div D = x
<1> DEFINE a == x * D
           q == a \div D
           r == a % D
<1>1. a \in Int
  OBVIOUS
<1>2. q \in Int /\ r \in 0..(D - 1) /\ a = D * q + r
  <2> HIDE DEF a
  <2> QED
    BY <1>1, Divided
<1>3. D * x + 0 = D * q + r
  BY <1>2
<1>4. 0 \in 0..(D - 1)
  OBVIOUS
<1> HIDE DEF q, r, a
<1>5. r = 0
  BY <1>2, <1>3, <1>4, RemainderUnique
<1>6. D * x = D * q
  <2>1. D * x \in Int /\ D * q \in Int
    BY <1>2
  <2> QED
    BY <1>3, <1>5, <2>1
<1>7. x = q
  <2>1. CASE x < q
    <3>1. D * (q - x) > 0
      BY <1>2, <2>1
    <3>2. D * (q - x) = D * q - D * x
      BY <1>2
    <3>3. D * q \in Int /\ D * x \in Int
      BY <1>2
    <3>4. \A m, n \in Int : m = n => ~(m - n > 0)
      OBVIOUS
    <3> QED
      BY <1>6, <3>1, <3>2, <3>3, <3>4
  <2>2. CASE x > q
    <3>1. D * (x - q) > 0
      BY <1>2, <2>2
    <3>2. D * (x - q) = D * x - D * q
      BY <1>2
    <3>3. D * q \in Int /\ D * x \in Int
      BY <1>2
    <3>4. \A m, n \in Int : m = n => ~(m - n > 0)
      OBVIOUS
    <3> QED
      BY <1>6, <3>1, <3>2, <3>3, <3>4
  <2> QED
    BY <1>2, <2>1, <2>2
<1> QED
  BY <1>7 DEF q, a

LEMMA ClosesKept ==
  ASSUME AuditAssumption, AuditInv
  PROVE  ClosesAsShown
<1> DEFINE tariff == InForceOnDate(options, date)
           next == AuditMidnight(books, date + 1, tariff)
           rows == RecordBillDay(books, books.reset, tariff)
           closing == Closing(books, rows)
           runs == RunningPeriod
           closed == ArchivedPeriod(closing)
<1>1. SUFFICES ASSUME ~stopped, books.today # 0, moved < books.start, next.rows = <<>>
               PROVE  /\ BillLines(ArchivedPeriod(Rows!Last(next.archive))) = BillLines(RunningPeriod)
                      /\ ProjectedBill = BillLines(RunningPeriod).total
  BY DEF ClosesAsShown
<1>2. /\ BooksKept(books, billDay, moved) /\ books.reset = date /\ date \in Nat /\ MonthLen \in Nat \ {0}
      /\ Prices \subseteq Nat /\ NoTariffYet \notin Prices /\ moved \in Int
  BY <1>1 DEF AuditInv, AuditAssumption
<1>3. /\ books \in Book /\ books.month \in Nat /\ books.start \in Nat /\ books.start <= date
      /\ books.archive \in Seq(BillPeriod)
  BY <1>2, BooksType
<1>4. tariff \in Prices
  BY InForcePaid
<1>5. rows \in Seq(BillRow)
  <2>1. tariff \in Paid
    BY <1>4 DEF Paid
  <2>2. PeriodKept(books.rows, books.month - books.today, books.start, books.reset - 1, books.earlier)
        /\ books.start <= books.reset
    BY <1>2 DEF BooksKept
  <2> HIDE DEF tariff
  <2>3. PeriodKept(rows, books.month, books.start, books.reset, books.earlier)
    BY <1>3, <2>1, <2>2, DayRecorded
  <2> QED
    BY <2>3 DEF PeriodKept
<1>6. TariffInEffect(rows) = tariff /\ rows # <<>>
  <2> HIDE DEF tariff
  <2> QED
    BY <1>1, <1>2, <1>3, <1>4, TariffOfToday
<1>7. /\ DayOfMonth(date + 1) # billDay => next.rows = rows
      /\ DayOfMonth(date + 1) = billDay => next.archive = Filed(books.archive, closing)
  <2> HIDE DEF tariff, closing
  <2>1. /\ DayOfMonth(books.reset + 1) # billDay => AuditMidnight(books, books.reset + 1, tariff).rows = rows
        /\ DayOfMonth(books.reset + 1) = billDay =>
             AuditMidnight(books, books.reset + 1, tariff).archive = Filed(books.archive, Closing(books, rows))
    BY <1>3, <1>5, MidnightIs
  <2> QED
    BY <1>2, <2>1 DEF closing
<1>8. DayOfMonth(date + 1) = billDay /\ next.archive = Filed(books.archive, closing)
  BY <1>1, <1>6, <1>7
<1>9. (date + 1) - books.start = MonthLen
  <2>1. books.start % MonthLen = billDay /\ \A d \in (books.start + 1)..date : d % MonthLen # billDay
    BY <1>1, <1>2 DEF BooksKept, Running
  <2>2. (date + 1) % MonthLen = billDay
    BY <1>8 DEF DayOfMonth
  <2> DEFINE day == date + 1
  <2>3. day \in Nat /\ books.start < day /\ day - 1 = date
    BY <1>2, <1>3
  <2>4. day % MonthLen = books.start % MonthLen
    BY <2>1, <2>2
  <2>5. \A d \in (books.start + 1)..(day - 1) : d % MonthLen # books.start % MonthLen
    BY <2>1, <2>3
  <2> HIDE DEF day
  <2>6. day - books.start = MonthLen
    BY <1>2, <1>3, <2>3, <2>4, <2>5, MonthTurns
  <2> QED
    BY <2>6 DEF day
<1>10. /\ closing \in BillPeriod /\ closing.start = books.start /\ closing.end = date /\ closing.rows = rows
       /\ closing.cost = books.month
  <2> HIDE DEF rows
  <2> QED
    BY <1>2, <1>3, <1>5 DEF Closing, BillPeriod
<1>11. Rows!Last(next.archive) = closing
  <2>1. EndsOn(books.archive, closing, date + 1, moved)
    <3>1. InChain(books.archive, books.start) /\ OfAMonth(books.archive, books.start, moved)
      BY <1>2 DEF BooksKept
    <3>2. date + 1 \in Nat
      BY <1>2
    <3>3. closing.start <= closing.end /\ closing.end + 1 = date + 1 /\ (date + 1) - closing.start = MonthLen
      BY <1>3, <1>9, <1>10
    <3>4. /\ books.archive \in Seq(BillPeriod) /\ closing \in BillPeriod /\ closing.start = books.start
          /\ moved \in Int
      BY <1>2, <1>3, <1>10
    <3> HIDE DEF closing
    <3> QED
      BY <3>1, <3>2, <3>3, <3>4 DEF EndsOn
  <2> HIDE DEF closing, next
  <2>2. Filed(books.archive, closing)[Len(Filed(books.archive, closing))] = closing
    BY <2>1, ArchiveFiled
  <2> QED
    BY <1>8, <2>2 DEF Rows!Last
<1>12. /\ runs.cost = books.month /\ runs.tariff = tariff /\ runs.length = MonthLen
       /\ runs.days = date - books.start + 1
  BY <1>1, DaysCounted DEF RunningPeriod
<1>13. date - books.start + 1 = MonthLen
  <2>1. \A d, s, l \in Nat : (d + 1) - s = l => d - s + 1 = l
    OBVIOUS
  <2>2. date \in Nat /\ books.start \in Nat /\ MonthLen \in Nat
    BY <1>2, <1>3
  <2> QED
    BY <1>9, <2>1, <2>2
<1>14. closed.cost = books.month /\ closed.tariff = tariff /\ closed.days = date - books.start + 1
  <2>1. closed.cost = closing.cost /\ closed.days = Max({1, closing.end - closing.start + 1})
        /\ closed.tariff = IF TariffInEffect(closing.rows) = NoTariffYet THEN options.price
                           ELSE TariffInEffect(closing.rows)
    BY DEF ArchivedPeriod
  <2> DEFINE days == date - books.start + 1
  <2>2. days \in Int /\ days >= 1
    BY <1>2, <1>3
  <2>3. Max({1, days}) = days
    <3> HIDE DEF days
    <3>1. Max({1, days}) = IF 1 >= days THEN 1 ELSE days
      BY <2>2, GreaterOne
    <3> QED
      BY <2>2, <3>1
  <2>4. tariff # NoTariffYet
    BY <1>2, <1>4
  <2> HIDE DEF tariff, rows, closing, closed
  <2>5. closed.days = days
    BY <1>10, <2>1, <2>3
  <2> QED
    BY <1>6, <1>10, <2>1, <2>4, <2>5
<1> HIDE DEF tariff, next, rows, closing, runs, closed
<1>15. BillLines(closed) = BillLines(runs)
  BY <1>12, <1>14 DEF BillLines
<1>16. ProjectedBill = BillLines(runs).total
  <2> DEFINE total == BillLines(runs).total
  <2>1. total \in Int
    <3>1. total = runs.cost + runs.tariff * runs.days
      BY DEF BillLines
    <3>2. runs.cost \in Int /\ runs.tariff \in Int /\ runs.days \in Int
      BY <1>2, <1>3, <1>4, <1>12
    <3> QED
      BY <3>1, <3>2
  <2>2. ProjectedBill = (total * MonthLen) \div MonthLen
    BY <1>12, <1>13 DEF ProjectedBill, runs
  <2> HIDE DEF total
  <2>3. ProjectedBill = total
    BY <1>2, <2>1, <2>2, Averaged
  <2> QED
    BY <2>3 DEF total
<1> QED
  BY <1>11, <1>15, <1>16 DEF runs, closed

LEMMA YearKept ==
  ASSUME AuditAssumption, AuditInv
  PROVE  SameMonth
<1>1. SUFFICES ASSUME EnoughMonths, moved < SameMonthLastYear.start, shown.start = books.start
               PROVE  /\ shown.start - YearOnYear.start = Year
                      /\ YearOnYear.delta = books.month - SameMonthLastYear.cost
  BY DEF SameMonth
<1>2. BooksKept(books, billDay, moved) /\ shown.cost = books.month
  BY <1>1 DEF AuditInv
<1>3. OfAMonth(books.archive, books.start, moved)
  BY <1>2 DEF BooksKept
<1> DEFINE n == Len(books.archive)
<1>4. n \in Nat /\ MonthsKept \in Nat \ {0} /\ MonthLen \in Nat
  BY <1>2, BooksType, LenProperties DEF AuditAssumption
<1>5. n = MonthsKept
  BY <1>1, <1>3, <1>4 DEF EnoughMonths, OfAMonth
<1>6. /\ \A i \in 1..n : moved < books.archive[i].start =>
                           books.start - books.archive[i].start = (n - i + 1) * MonthLen
  BY <1>3 DEF OfAMonth
<1>7. SameMonthLastYear = books.archive[1]
  <2>1. n - MonthsKept + 1 = 1
    BY <1>4, <1>5
  <2> QED
    BY <2>1 DEF SameMonthLastYear
<1> HIDE DEF n
<1>8. 1 \in 1..n /\ n - 1 + 1 = MonthsKept
  BY <1>4, <1>5
<1>9. books.start - books.archive[1].start = MonthsKept * MonthLen
  <2>1. moved < books.archive[1].start
    BY <1>1, <1>7
  <2> QED
    BY <1>6, <1>8, <2>1
<1>10. MonthsKept * MonthLen = Year
  BY <1>4 DEF Year
<1>11. YearOnYear.start = SameMonthLastYear.start /\ YearOnYear.delta = shown.cost - SameMonthLastYear.cost
  BY <1>1 DEF YearOnYear
<1> QED
  BY <1>1, <1>2, <1>7, <1>9, <1>10, <1>11

LEMMA ExportKept ==
  ASSUME AuditAssumption, AuditInv
  PROVE  ExportIsWhole
<1> DEFINE n == Len(books.archive)
           rows == ExportRows
           kept == [i \in DOMAIN books.archive |->
                      LET p == books.archive[Len(books.archive) + 1 - i]
                      IN [start |-> p.start, cost |-> p.cost]]
           T == {shown} \cup {kept[i] : i \in 1..n}
<1>1. SUFFICES ASSUME shown.start = books.start
               PROVE  \A i \in 2..Len(rows) :
                        /\ rows[i].start < rows[i - 1].start
                        /\ \A p \in Range(AuditPeriods) : p.start \notin (rows[i].start + 1)..(rows[i - 1].start - 1)
  BY DEF ExportIsWhole
<1>2. /\ n \in Nat /\ DOMAIN AuditPeriods = 1..(n + 1) /\ AuditPeriods[n + 1] = LastPeriod
      /\ \A i \in 1..n : AuditPeriods[i] = books.archive[i]
      /\ \A i \in 1..(n + 1) : AuditPeriods[i].start \in Nat
  BY PeriodsAre
<1>3. DOMAIN books.archive = 1..n
  BY BooksType, LenProperties DEF AuditInv
<1>4. \A i \in 1..n : kept[i].start = books.archive[n + 1 - i].start
  BY <1>3
<1>5. kept \in Seq(T) /\ Len(kept) = n
  <2>1. kept = [i \in 1..n |-> kept[i]]
    BY <1>3
  <2>2. \A i \in 1..n : kept[i] \in T
    OBVIOUS
  <2> HIDE DEF kept, T, n
  <2>3. kept \in [1..n -> T]
    BY <2>1, <2>2
  <2> QED
    BY <1>2, <2>3, IsASeq, LenProperties
<1>6. rows = <<shown>> \o kept
  BY DEF ExportRows
<1>7. <<shown>> \in Seq(T) /\ Len(<<shown>>) = 1 /\ <<shown>>[1] = shown
  <2>1. shown \in T
    OBVIOUS
  <2> HIDE DEF T
  <2> QED
    BY <2>1
<1> HIDE DEF kept, T, n, rows
<1>8. /\ Len(rows) = 1 + n /\ rows[1] = shown
      /\ \A i \in 1..n : rows[1 + i] = kept[i]
  <2>1. /\ Len(<<shown>> \o kept) = Len(<<shown>>) + Len(kept)
        /\ \A i \in 1..Len(<<shown>>) : (<<shown>> \o kept)[i] = <<shown>>[i]
        /\ \A i \in 1..Len(kept) : (<<shown>> \o kept)[Len(<<shown>>) + i] = kept[i]
    BY <1>5, <1>7, Joined
  <2>2. 1 \in 1..1
    OBVIOUS
  <2> QED
    BY <1>5, <1>6, <1>7, <2>1, <2>2
<1>9. ASSUME NEW i \in 1..(n + 1)
      PROVE  n + 2 - i \in 1..(n + 1) /\ rows[i].start = AuditPeriods[n + 2 - i].start
  <2>1. n + 2 - i \in 1..(n + 1)
    BY <1>2
  <2>2. CASE i = 1
    <3>1. n + 2 - 1 = n + 1
      BY <1>2
    <3>2. LastPeriod.start = books.start
      BY DEF LastPeriod
    <3> QED
      BY <1>1, <1>2, <1>8, <2>1, <2>2, <3>1, <3>2
  <2>3. CASE i # 1
    <3>1. i - 1 \in 1..n /\ 1 + (i - 1) = i /\ n + 1 - (i - 1) = n + 2 - i /\ n + 2 - i \in 1..n
      BY <1>2, <2>3
    <3>2. rows[1 + (i - 1)] = kept[i - 1] /\ kept[i - 1].start = books.archive[n + 1 - (i - 1)].start
      BY <1>4, <1>8, <3>1
    <3> QED
      BY <1>2, <2>1, <3>1, <3>2
  <2> QED
    BY <2>2, <2>3
<1>10. \A k, l \in 1..(n + 1) : k < l => AuditPeriods[k].start < AuditPeriods[l].start
  BY PeriodsInChain DEF n
<1>11. ASSUME NEW i \in 2..(n + 1)
       PROVE  /\ rows[i].start < rows[i - 1].start
              /\ \A p \in Range(AuditPeriods) : p.start \notin (rows[i].start + 1)..(rows[i - 1].start - 1)
  <2> DEFINE k == n + 2 - i
  <2>1. /\ k \in 1..(n + 1) /\ k + 1 \in 1..(n + 1) /\ k < k + 1 /\ i \in 1..(n + 1) /\ i - 1 \in 1..(n + 1)
        /\ n + 2 - (i - 1) = k + 1
    BY <1>2
  <2>2. rows[i].start = AuditPeriods[k].start
    BY <1>9, <2>1
  <2>3. rows[i - 1].start = AuditPeriods[k + 1].start
    <3>1. rows[i - 1].start = AuditPeriods[n + 2 - (i - 1)].start
      BY <1>9, <2>1
    <3> QED
      BY <2>1, <3>1
  <2> HIDE DEF k
  <2>4. rows[i].start < rows[i - 1].start
    BY <1>10, <2>1, <2>2, <2>3
  <2>5. ASSUME NEW p \in Range(AuditPeriods)
        PROVE  p.start \notin (rows[i].start + 1)..(rows[i - 1].start - 1)
    <3>1. PICK l \in 1..(n + 1) : p = AuditPeriods[l]
      BY <1>2 DEF Range
    <3>2. p.start \in Nat /\ AuditPeriods[k].start \in Nat /\ AuditPeriods[k + 1].start \in Nat
      BY <1>2, <2>1, <3>1
    <3>3. p.start <= AuditPeriods[k].start \/ AuditPeriods[k + 1].start <= p.start
      <4>1. l < k \/ l = k \/ l = k + 1 \/ k + 1 < l
        BY <1>2, <2>1, <3>1
      <4>2. l < k => p.start < AuditPeriods[k].start
        BY <1>10, <2>1, <3>1
      <4>3. k + 1 < l => AuditPeriods[k + 1].start < p.start
        BY <1>10, <2>1, <3>1
      <4>4. \A x, y \in Nat : x < y => x <= y
        OBVIOUS
      <4> QED
        BY <3>1, <3>2, <4>1, <4>2, <4>3, <4>4
    <3>4. \A x, y, z \in Nat : x <= y \/ z <= x => x \notin (y + 1)..(z - 1)
      OBVIOUS
    <3> QED
      BY <2>2, <2>3, <3>2, <3>3, <3>4
  <2> QED
    BY <2>4, <2>5
<1>12. Len(rows) = n + 1
  BY <1>2, <1>8
<1> QED
  BY <1>11, <1>12

\* The books are sound in every state that the invariant allows.
LEMMA BooksFollow ==
  ASSUME AuditAssumption, AuditInv
  PROVE  BooksAreSound
BY FollowsKept, TariffsKept, ChangesKept, SumsKept, ClosesKept, YearKept, ExportKept DEF BooksAreSound

\* The days of a bill are recorded, archived, listed, charged for, compared and exported as they were
\* used (bill_days.py, bill_audit.py, services.py), while the tariff changes, the bill's day is moved
\* and Home Assistant is down over midnights.
THEOREM BooksSound == AuditSpec => []BooksAreSound
<1>1. AuditInit => AuditInv
  BY AuditAssumption, AuditStarts
<1>2. AuditInv /\ [AuditNext]_auditVars => AuditInv'
  BY AuditAssumption, AuditKeeps
<1>3. AuditInv => BooksAreSound
  BY AuditAssumption, BooksFollow
<1> QED
  BY <1>1, <1>2, <1>3, PTL DEF AuditSpec

-----------------------------------------------------------------------------
(* The five side by side. *)
LEMMA PartsAlone ==
  ASSUME [CommandNext]_commandVars
  PROVE  /\ [ControlNext]_controlVars /\ [SettingsNext]_settingsVars /\ [ExportNext]_exportVars
         /\ [AuditNext]_auditVars
<1>1. CASE UNCHANGED commandVars
  BY <1>1 DEF commandVars
<1>2. CASE Given("night") /\ Next
  BY <1>2 DEF Given
<1>3. CASE Given("slots") /\ ExportNext
  BY <1>3 DEF Given
<1>4. CASE Given("controls") /\ ControlNext
  BY <1>4 DEF Given
<1>5. CASE Given("bills") /\ AuditNext
  BY <1>5 DEF Given
<1>6. CASE Given("pages") /\ SettingsNext
  BY <1>6 DEF Given
<1> QED BY <1>1, <1>2, <1>3, <1>4, <1>5, <1>6 DEF CommandNext

\* What the owner sets is kept, by the controls and by the pages of Configure, whatever else is asked
\* of the inverter meanwhile.
THEOREM OwnerKept == CommandSpec => OwnersSettingsKept
<1>1. CommandInit => ControlInit /\ SettingsInit
  BY DEF CommandInit
<1>2. CommandSpec => ControlSpec /\ SettingsSpec
  BY <1>1, PartsAlone, PTL DEF CommandSpec, ControlSpec, SettingsSpec
<1>3. PagesAreSound => (command = "pages" => PagesAreSound)
  OBVIOUS
<1> QED BY <1>2, <1>3, ControlsKept, PagesSound, PTL DEF OwnersSettingsKept

\* A bill adds up to what was used, names the tariff of each day and closes at what was shown,
\* whatever else is asked of the integration meanwhile.
THEOREM AuditHolds == CommandSpec => []AuditIsSound
<1>1. CommandInit => AuditInit
  BY DEF CommandInit
<1>2. CommandSpec => AuditSpec
  BY <1>1, PartsAlone, PTL DEF CommandSpec, AuditSpec
<1>3. BooksAreSound => AuditIsSound
  BY DEF AuditIsSound
<1> QED BY <1>2, <1>3, BooksSound, PTL
=============================================================================
