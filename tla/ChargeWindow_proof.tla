------------------------- MODULE ChargeWindow_proof -------------------------
(***************************************************************************)
(* The charge window stays within the cheap run and holds its charge unless *)
(* the run is too short, and the car's window is the hours its rule allows, *)
(* for every tariff, every length of the day and every rounding.            *)
(*                                                                          *)
(* The battery's invariant is that the run found so far is cheap to its     *)
(* last minute; the work is in the clock, where adding minutes to a time    *)
(* inside a period must not wrap round its end.  The car's invariant is     *)
(* that joining two runs adds no minute and loses none but the one a run    *)
(* of a whole day leaves out; the work is in the circle, where a minute's   *)
(* place after one start follows from its place after another.              *)
(***************************************************************************)
EXTENDS ChargeWindow, SequenceTheorems, TLAPS
LOCAL INSTANCE SequencesExt

USE WindowAssumption

-----------------------------------------------------------------------------
(* Division with remainder, and that its two results are the only ones. *)
LEMMA Divided ==
  ASSUME NEW a \in Int, NEW D \in Nat \ {0}
  PROVE  /\ a % D \in 0..(D - 1)
         /\ a \div D \in Int
         /\ a = D * (a \div D) + (a % D)
OBVIOUS

LEMMA RemainderUnique ==
  ASSUME NEW D \in Nat \ {0}, NEW q \in Int, NEW u \in Int,
         NEW r \in 0..(D - 1), NEW s \in 0..(D - 1), D * q + r = D * u + s
  PROVE  r = s
<1>1. CASE q = u
  BY <1>1
<1>2. CASE q > u
  <2>1. D * (q - u) >= D
    BY <1>2
  <2>2. D * (q - u) = D * q - D * u
    OBVIOUS
  <2> QED BY <2>1, <2>2
<1>3. CASE q < u
  <2>1. D * (u - q) >= D
    BY <1>3
  <2>2. D * (u - q) = D * u - D * q
    OBVIOUS
  <2> QED BY <2>1, <2>2
<1> QED BY <1>1, <1>2, <1>3

(* Later by k minutes is later by k on the clock, short of a full turn. *)
LEMMA Later ==
  ASSUME NEW a \in Int, NEW k \in Int, NEW D \in Nat \ {0},
         (a % D) + k \in 0..(D - 1)
  PROVE  (a + k) % D = (a % D) + k
<1> DEFINE q == a \div D
           r == a % D
           u == (a + k) \div D
           s == (a + k) % D
<1>1. r \in 0..(D - 1) /\ a = D * q + r /\ q \in Int
  BY Divided
<1>2. a + k \in Int
  OBVIOUS
<1>3. s \in 0..(D - 1) /\ a + k = D * u + s /\ u \in Int
  BY <1>2, Divided
<1>4. r + k \in 0..(D - 1)
  OBVIOUS
<1> HIDE DEF q, r, u, s
<1>5. D * q + (r + k) = D * u + s
  BY <1>1, <1>3
<1>6. r + k = s
  BY <1>5, <1>1, <1>3, <1>4, RemainderUnique
<1> QED BY <1>6 DEF r, s

-----------------------------------------------------------------------------
LEMMA PeriodTyped ==
  ASSUME tariff \in Tariffs, NEW i \in DOMAIN tariff.periods
  PROVE  /\ tariff.periods[i] \in Periods
         /\ tariff.periods[i] \in Period
BY DEF Periods

LEMMA CheapTyped ==
  ASSUME tariff \in Tariffs, NEW p \in Cheaper
  PROVE  p \in Period
BY PeriodTyped DEF Cheaper, Periods

LEMMA CheaperStays ==
  ASSUME tariff' = tariff
  PROVE  Cheaper' = Cheaper
BY DEF Cheaper, Periods

LEMMA SpanTyped ==
  ASSUME NEW p \in Period
  PROVE  Span(p) \in 0..(Minutes - 1)
<1>1. p.end - p.start \in Int
  BY DEF Period
<1> QED BY <1>1, Divided DEF Span, Forward

LEMMA ReachTyped ==
  ASSUME NEW p \in Period, NEW minute \in Int
  PROVE  /\ Reach(p, minute) \in 0..(Minutes - 1)
         /\ Forward(p.start, minute) \in 0..(Minutes - 1)
<1>1. minute - p.start \in Int
  BY DEF Period
<1>2. Forward(p.start, minute) \in 0..(Minutes - 1)
  BY <1>1, Divided DEF Forward
<1> QED BY <1>2, SpanTyped DEF Reach

(* A period reaches from each of its minutes as far as from any before it. *)
LEMMA ReachHolds ==
  ASSUME NEW p \in Period, NEW minute \in Int, NEW k \in Nat,
         k < Reach(p, minute)
  PROVE  Reach(p, minute + k) = Reach(p, minute) - k
<1> DEFINE elapsed == Forward(p.start, minute)
<1>1. /\ elapsed \in 0..(Minutes - 1)
      /\ Span(p) \in 0..(Minutes - 1)
  BY ReachTyped, SpanTyped
<1>2. elapsed < Span(p) /\ Reach(p, minute) = Span(p) - elapsed
  BY <1>1 DEF Reach
<1> HIDE DEF elapsed
<1>3. elapsed + k < Span(p)
  BY <1>1, <1>2
<1>4. minute - p.start \in Int /\ (minute + k) - p.start = (minute - p.start) + k
  BY DEF Period
<1>5. Forward(p.start, minute + k) = elapsed + k
  <2>1. ((minute - p.start) % Minutes) + k \in 0..(Minutes - 1)
    BY <1>1, <1>3 DEF elapsed, Forward
  <2>2. ((minute - p.start) + k) % Minutes = ((minute - p.start) % Minutes) + k
    BY <2>1, <1>4, Later
  <2> QED BY <2>2, <1>4 DEF elapsed, Forward
<1> QED BY <1>5, <1>3, <1>2, <1>1 DEF Reach

(* From its start a period reaches over its whole span. *)
LEMMA ReachFromStart ==
  ASSUME NEW p \in Period
  PROVE  Reach(p, p.start) = Span(p)
<1>1. p.start - p.start = 0
  BY DEF Period
<1>2. 0 % Minutes = 0
  OBVIOUS
<1>3. Forward(p.start, p.start) = 0
  BY <1>1, <1>2 DEF Forward
<1> QED BY <1>3, SpanTyped DEF Reach

-----------------------------------------------------------------------------
(* The run found so far is cheap, unless nothing is below the base rate. *)
RunIsCheap ==
  Cheaper # {} => \A offset \in 0..(length - 1) : CheapMinute(from + offset)

RunTyped == /\ from \in 0..(Minutes - 1)
            /\ own \in 0..(Minutes - 1)
            /\ length \in Nat
            /\ own <= length

RunEnded == /\ length <= Minutes - 1
            /\ length = Minutes - 1 \/ ~CheapMinute(from + length)

WindowSized == /\ charge \in Nat
               /\ minutes \in own..length
               /\ minutes >= charge \/ minutes = length

IInv == /\ tariff \in Tariffs
        /\ stage \in {"run", "extent", "planned"} => RunTyped /\ RunIsCheap
        /\ stage \in {"extent", "planned"} => RunEnded
        /\ stage = "planned" => WindowSized

(* A window made as long as the charge needs is not shorter than the charge. *)
LEMMA NeededHolds ==
  ASSUME NEW taken \in Nat
  PROVE  Needed(taken) \in Nat /\ Needed(taken) >= taken
<1> DEFINE tenths == taken * (10 + Margin)
           step == 10 * Rounding
           rounded == tenths + step - 1
           steps == rounded \div step
           rest == rounded % step
<1>1. tenths \in Nat /\ tenths >= 10 * taken
  <2>1. taken * Margin \in Nat
    OBVIOUS
  <2>2. tenths = 10 * taken + taken * Margin
    OBVIOUS
  <2> QED BY <2>1, <2>2
<1>2. step \in Nat \ {0}
  OBVIOUS
<1> HIDE DEF tenths, step
<1>3. rounded \in Int /\ tenths = rounded - step + 1
  BY <1>1, <1>2
<1>4. Needed(taken) = steps * Rounding
  BY DEF Needed, steps, tenths, step
<1> HIDE DEF rounded
<1>5. /\ rounded = step * steps + rest
      /\ rest \in 0..(step - 1) /\ steps \in Int
  BY <1>2, <1>3, Divided
<1> HIDE DEF steps, rest
<1>6. step * steps \in Int /\ step * steps >= tenths
  <2>1. step * steps \in Int
    BY <1>2, <1>5
  <2> QED BY <2>1, <1>1, <1>2, <1>3, <1>5
<1>7. steps \in Nat
  <2> SUFFICES ASSUME steps < 0 PROVE FALSE
    BY <1>5
  <2>1. step * steps < 0
    BY <1>2, <1>5
  <2> QED BY <2>1, <1>6, <1>1
<1>8. step * steps = 10 * (steps * Rounding)
  BY <1>7 DEF step
<1>9. steps * Rounding \in Nat
  BY <1>7
<1>10. 10 * (steps * Rounding) >= 10 * taken
  BY <1>6, <1>8, <1>1, <1>9
<1> QED BY <1>4, <1>9, <1>10

-----------------------------------------------------------------------------
(* The cheapest period is below the base rate when any period is. *)
LEMMA CheapestIsCheap ==
  ASSUME tariff \in Tariffs, NEW i \in DOMAIN tariff.periods, Cheapest(i), Cheaper # {}
  PROVE  tariff.periods[i] \in Cheaper
<1>1. PICK p \in Cheaper : TRUE
  OBVIOUS
<1>2. PICK j \in DOMAIN tariff.periods : p = tariff.periods[j]
  BY DEF Cheaper, Periods
<1>3. tariff.periods[i].rate <= tariff.periods[j].rate
  BY DEF Cheapest
<1>4. tariff.periods[j].rate < tariff.base
  BY <1>1, <1>2 DEF Cheaper
<1>5. /\ tariff.periods[i].rate \in Int /\ tariff.periods[j].rate \in Int
      /\ tariff.base \in Int
  BY PeriodTyped DEF Period
<1>6. tariff.periods[i].rate < tariff.base
  BY <1>3, <1>4, <1>5
<1> QED BY <1>6, PeriodTyped DEF Cheaper

LEMMA StartKeeps ==
  ASSUME IInv, NEW i \in DOMAIN tariff.periods, StartRun(i)
  PROVE  IInv'
<1> DEFINE p == tariff.periods[i]
<1>1. p \in Period
  BY PeriodTyped DEF IInv
<1>2. Span(p) \in 0..(Minutes - 1) /\ Reach(p, p.start) = Span(p) /\ p.start \in 0..(Minutes - 1)
  BY <1>1, SpanTyped, ReachFromStart DEF Period
<1>3. from' = p.start /\ own' = Span(p) /\ length' = Span(p) /\ tariff' = tariff /\ stage' = "run"
  BY DEF StartRun
<1> HIDE DEF p
<1>4. RunTyped'
  BY <1>2, <1>3 DEF RunTyped
<1>5. RunIsCheap'
  <2> SUFFICES ASSUME Cheaper # {}, NEW offset \in 0..(Span(p) - 1)
               PROVE  CheapMinute(p.start + offset)
    BY <1>3, CheaperStays DEF RunIsCheap, CheapMinute
  <2>1. p \in Cheaper
    BY CheapestIsCheap DEF IInv, StartRun, p
  <2>2. Reach(p, p.start + offset) > 0
    BY <1>1, <1>2, ReachHolds
  <2> QED BY <2>1, <2>2 DEF CheapMinute
<1> QED BY <1>3, <1>4, <1>5 DEF IInv

LEMMA ExtendKeeps ==
  ASSUME IInv, NEW p \in Cheaper, ExtendRun(p)
  PROVE  IInv'
<1> DEFINE more == Reach(p, from + length)
<1>1. RunTyped /\ RunIsCheap /\ tariff \in Tariffs /\ stage = "run"
  BY DEF IInv, ExtendRun
<1>2. p \in Period
  BY <1>1, CheapTyped
<1>3. from + length \in Int /\ more \in Nat
  BY <1>1, <1>2, ReachTyped DEF RunTyped
<1>4. /\ length' = length + more /\ from' = from /\ own' = own
      /\ tariff' = tariff /\ stage' = "run"
  BY <1>1 DEF ExtendRun
<1> HIDE DEF more
<1>5. RunTyped'
  BY <1>1, <1>3, <1>4 DEF RunTyped
<1>6. ASSUME Cheaper # {}, NEW offset \in 0..(length + more - 1)
      PROVE  CheapMinute(from + offset)
  <2>1. CASE offset < length
    BY <2>1, <1>1, <1>3, <1>6 DEF RunIsCheap, RunTyped
  <2>2. CASE offset >= length
    <3> DEFINE k == offset - length
    <3>1. k \in Nat /\ k < more /\ from + offset = (from + length) + k
      BY <2>2, <1>1, <1>3 DEF RunTyped
    <3>2. Reach(p, (from + length) + k) = more - k
      BY <3>1, <1>2, <1>3, ReachHolds DEF more
    <3>3. Reach(p, from + offset) > 0
      BY <3>1, <3>2, <1>3
    <3> QED BY <3>3 DEF CheapMinute
  <2> QED BY <2>1, <2>2, <1>1, <1>3 DEF RunTyped
<1>7. RunIsCheap'
  <2>1. Cheaper' = Cheaper
    BY <1>4, CheaperStays
  <2>2. length' = length + more
    BY <1>4
  <2>3. from' = from
    BY <1>4
  <2>4. length' - 1 = length + more - 1
    BY <2>2, <1>1, <1>3 DEF RunTyped
  <2> QED BY <2>1, <2>3, <2>4, <1>6 DEF RunIsCheap, CheapMinute
<1> QED BY <1>1, <1>4, <1>5, <1>7 DEF IInv

LEMMA EndKeeps ==
  ASSUME IInv, EndRun
  PROVE  IInv'
<1>1. RunTyped /\ RunIsCheap /\ tariff \in Tariffs
  BY DEF IInv, EndRun
<1>2. /\ from' = from /\ own' = own /\ tariff' = tariff /\ stage' = "extent"
      /\ length' = Lower(length, Minutes - 1)
  BY DEF EndRun
<1>3. length' \in Nat /\ length' <= length /\ length' <= Minutes - 1
  BY <1>1, <1>2 DEF RunTyped, Lower
<1>4. RunTyped'
  BY <1>1, <1>2, <1>3 DEF RunTyped, Lower
<1>5. RunIsCheap'
  BY <1>1, <1>2, <1>3, CheaperStays DEF RunIsCheap, RunTyped, CheapMinute
<1>6. RunEnded'
  <2>1. CASE length >= Minutes - 1
    <3>1. length' = Minutes - 1
      BY <2>1, <1>1, <1>2 DEF RunTyped, Lower
    <3> QED BY <3>1, <1>3 DEF RunEnded
  <2>2. CASE length < Minutes - 1
    <3>1. length' = length
      BY <2>2, <1>1, <1>2 DEF RunTyped, Lower
    <3>2. ~CheapMinute(from + length)
      BY <2>2, <1>1 DEF EndRun, CheapMinute, RunTyped
    <3> QED BY <3>1, <3>2, <1>2, <1>3, CheaperStays DEF RunEnded, CheapMinute
  <2> QED BY <2>1, <2>2, <1>1 DEF RunTyped
<1> QED BY <1>1, <1>2, <1>4, <1>5, <1>6 DEF IInv

LEMMA PlanKeeps ==
  ASSUME IInv, NEW taken \in Charges, PlanWindow(taken)
  PROVE  IInv'
<1>1. RunTyped /\ RunIsCheap /\ RunEnded /\ tariff \in Tariffs
  BY DEF IInv, PlanWindow
<1>2. UNCHANGED <<tariff, from, own, length>> /\ stage' = "planned" /\ charge' = taken
  BY DEF PlanWindow
<1>3. taken \in Nat /\ Needed(taken) \in Nat /\ Needed(taken) >= taken
  BY NeededHolds
<1>4. WindowSized'
  <2>1. minutes' = IF taken = 0 \/ Needed(taken) <= own THEN own
                   ELSE Lower(Needed(taken), length)
    BY DEF PlanWindow
  <2> QED BY <2>1, <1>1, <1>2, <1>3 DEF WindowSized, RunTyped, Lower
<1>5. RunTyped' /\ RunIsCheap' /\ RunEnded'
  BY <1>1, <1>2, CheaperStays DEF RunTyped, RunIsCheap, RunEnded, CheapMinute
<1> QED BY <1>1, <1>2, <1>4, <1>5 DEF IInv

(* The car's steps leave the charge window alone, which is not planned yet. *)
LEMMA CarKeeps ==
  ASSUME IInv, tariff' = tariff, stage' \in {"join", "joined"}
  PROVE  IInv'
BY DEF IInv

LEMMA Starts == WindowInit => IInv
BY DEF WindowInit, IInv

LEMMA Keeps == IInv /\ [WindowNext]_windowVars => IInv'
<1> SUFFICES ASSUME IInv, [WindowNext]_windowVars PROVE IInv'
  OBVIOUS
<1>1. CASE \E i \in DOMAIN tariff.periods : StartRun(i)
  BY <1>1, StartKeeps
<1>2. CASE \E p \in Cheaper : ExtendRun(p)
  BY <1>2, ExtendKeeps
<1>3. CASE EndRun
  BY <1>3, EndKeeps
<1>4. CASE \E taken \in Charges : PlanWindow(taken)
  BY <1>4, PlanKeeps
<1>5. CASE \E before \in Befores, after \in Afters : StartJoin(before, after)
  BY <1>5, CarKeeps DEF StartJoin
<1>6. CASE \E i, j \in DOMAIN runs : Join(i, j)
  BY <1>6, CarKeeps DEF Join
<1>7. CASE EndJoin
  BY <1>7, CarKeeps DEF EndJoin
<1>8. CASE UNCHANGED windowVars
  BY <1>8, CheaperStays DEF windowVars, IInv, RunTyped, RunIsCheap, RunEnded,
                            WindowSized, CheapMinute
<1> QED BY <1>1, <1>2, <1>3, <1>4, <1>5, <1>6, <1>7, <1>8 DEF WindowNext

THEOREM Invariance == WindowSpec => []IInv
<1> QED BY Starts, Keeps, PTL DEF WindowSpec

(* Every planned charge window lies in cheap hours, so an extension never
   buys at the base rate. *)
THEOREM StaysCheap == WindowSpec => []WindowStaysCheap
<1>1. IInv => WindowStaysCheap
  BY DEF IInv, WindowStaysCheap, RunIsCheap, RunTyped, WindowSized
<1> QED BY <1>1, Invariance, PTL

(* And holds its charge, unless the cheap run or the day is too short. *)
THEOREM HoldsCharge == WindowSpec => []WindowHoldsCharge
<1>1. IInv => WindowHoldsCharge
  BY DEF IInv, WindowHoldsCharge, RunEnded, RunTyped, WindowSized
<1> QED BY <1>1, Invariance, PTL

(* Both at once, as the run checks them. *)
THEOREM WindowSound == WindowSpec => []WindowIsSound
BY StaysCheap, HoldsCharge, PTL DEF WindowIsSound
-----------------------------------------------------------------------------
(* The clock as a circle: where a minute lies after one start, known from   *)
(* where it lies after another.                                             *)
LEMMA ForwardTyped ==
  ASSUME NEW a \in Int, NEW b \in Int
  PROVE  Forward(a, b) \in 0..(Minutes - 1)
<1>1. b - a \in Int
  OBVIOUS
<1> QED BY <1>1, Divided DEF Forward

LEMMA ForwardVia ==
  ASSUME NEW a \in Int, NEW b \in Int, NEW c \in Int
  PROVE  Forward(b, c) = IF Forward(a, c) >= Forward(a, b)
                         THEN Forward(a, c) - Forward(a, b)
                         ELSE Forward(a, c) - Forward(a, b) + Minutes
<1> DEFINE g == (b - a) % Minutes
           f == (c - a) % Minutes
           h == (c - b) % Minutes
           q == (b - a) \div Minutes
           u == (c - a) \div Minutes
           v == (c - b) \div Minutes
<1>1. g \in 0..(Minutes - 1) /\ q \in Int /\ b - a = Minutes * q + g
  <2>1. b - a \in Int
    OBVIOUS
  <2> QED BY <2>1, Divided
<1>2. f \in 0..(Minutes - 1) /\ u \in Int /\ c - a = Minutes * u + f
  <2>1. c - a \in Int
    OBVIOUS
  <2> QED BY <2>1, Divided
<1>3. h \in 0..(Minutes - 1) /\ v \in Int /\ c - b = Minutes * v + h
  <2>1. c - b \in Int
    OBVIOUS
  <2> QED BY <2>1, Divided
<1> HIDE DEF g, f, h, q, u, v
<1>4. Minutes * (u - q) = Minutes * u - Minutes * q
  BY <1>1, <1>2
<1>5. Minutes * (u - q) + (f - g) = Minutes * v + h
  BY <1>1, <1>2, <1>3, <1>4
<1>6. CASE f >= g
  <2>1. f - g \in 0..(Minutes - 1) /\ u - q \in Int
    BY <1>1, <1>2, <1>6
  <2>2. f - g = h
    BY <2>1, <1>3, <1>5, RemainderUnique
  <2> QED BY <2>2, <1>6 DEF Forward, f, g, h
<1>7. CASE f < g
  <2>1. f - g + Minutes \in 0..(Minutes - 1) /\ u - q - 1 \in Int
    BY <1>1, <1>2, <1>7
  <2>2. Minutes * (u - q - 1) = Minutes * (u - q) - Minutes
    BY <1>1, <1>2
  <2>3. Minutes * (u - q - 1) + (f - g + Minutes) = Minutes * v + h
    BY <1>1, <1>2, <1>3, <1>5, <2>2
  <2>4. f - g + Minutes = h
    BY <2>1, <2>3, <1>3, RemainderUnique
  <2>5. ~((c - a) % Minutes >= (b - a) % Minutes)
    BY <1>1, <1>2, <1>7 DEF f, g
  <2> QED BY <2>4, <2>5 DEF Forward, f, g, h
<1> QED BY <1>1, <1>2, <1>6, <1>7

(* A start is the same minute however many days it is off the clock. *)
LEMMA ForwardMod ==
  ASSUME NEW a \in Int, NEW c \in Int
  PROVE  Forward(a % Minutes, c) = Forward(a, c)
<1> DEFINE r == a % Minutes
           q == a \div Minutes
           f == (c - a) % Minutes
           u == (c - a) \div Minutes
           h == (c - r) % Minutes
           v == (c - r) \div Minutes
<1>1. r \in 0..(Minutes - 1) /\ q \in Int /\ a = Minutes * q + r
  BY Divided
<1> HIDE DEF r, q
<1>2. f \in 0..(Minutes - 1) /\ u \in Int /\ c - a = Minutes * u + f
  <2>1. c - a \in Int
    OBVIOUS
  <2> QED BY <2>1, Divided
<1>3. h \in 0..(Minutes - 1) /\ v \in Int /\ c - r = Minutes * v + h
  <2>1. c - r \in Int
    BY <1>1
  <2> QED BY <2>1, Divided
<1> HIDE DEF f, u, h, v
<1>4. Minutes * (u + q) = Minutes * u + Minutes * q /\ u + q \in Int
  BY <1>1, <1>2
<1>5. Minutes * (u + q) + f = Minutes * v + h
  BY <1>1, <1>2, <1>3, <1>4
<1>6. f = h
  BY <1>2, <1>3, <1>4, <1>5, RemainderUnique
<1> QED BY <1>6 DEF Forward, f, h, r

(* The next minute is one further on, or back at the start. *)
LEMMA ForwardNext ==
  ASSUME NEW a \in 0..(Minutes - 1), NEW c \in 0..(Minutes - 1)
  PROVE  Forward(a, (c + 1) % Minutes)
           = IF Forward(a, c) < Minutes - 1 THEN Forward(a, c) + 1 ELSE 0
<1> DEFINE f == (c - a) % Minutes
           u == (c - a) \div Minutes
           n == (c + 1) % Minutes
           w == (c + 1) \div Minutes
           h == (n - a) % Minutes
           v == (n - a) \div Minutes
<1>1. f \in 0..(Minutes - 1) /\ u \in Int /\ c - a = Minutes * u + f
  <2>1. c - a \in Int
    OBVIOUS
  <2> QED BY <2>1, Divided
<1>2. n \in 0..(Minutes - 1) /\ w \in Int /\ c + 1 = Minutes * w + n
  <2>1. c + 1 \in Int
    OBVIOUS
  <2> QED BY <2>1, Divided
<1> HIDE DEF n, w
<1>3. h \in 0..(Minutes - 1) /\ v \in Int /\ n - a = Minutes * v + h
  <2>1. n - a \in Int
    BY <1>2
  <2> QED BY <2>1, Divided
<1> HIDE DEF f, u, h, v
<1>4. Minutes * (u - w) = Minutes * u - Minutes * w /\ u - w \in Int
  BY <1>1, <1>2
<1>5. Minutes * (u - w) + (f + 1) = Minutes * v + h
  BY <1>1, <1>2, <1>3, <1>4
<1>6. CASE f < Minutes - 1
  <2>1. f + 1 \in 0..(Minutes - 1)
    BY <1>1, <1>6
  <2>2. f + 1 = h
    BY <2>1, <1>3, <1>4, <1>5, RemainderUnique
  <2> QED BY <2>2, <1>6 DEF Forward, f, h, n
<1>7. CASE ~(f < Minutes - 1)
  <2>1. f = Minutes - 1 /\ 0 \in 0..(Minutes - 1) /\ u - w + 1 \in Int
    BY <1>1, <1>4, <1>7
  <2>2. Minutes * (u - w + 1) = Minutes * (u - w) + Minutes
    BY <1>4
  <2>3. Minutes * (u - w + 1) + 0 = Minutes * v + h
    BY <2>1, <2>2, <1>3, <1>4, <1>5
  <2>4. 0 = h
    BY <2>1, <2>3, <1>3, RemainderUnique
  <2> QED BY <2>4, <1>7 DEF Forward, f, h, n
<1> QED BY <1>6, <1>7

-----------------------------------------------------------------------------
(* Joining two runs: the run that takes their place holds the same minutes, *)
(* but for the one a run of a whole day leaves out.                         *)
Clock == 0..(Minutes - 1)
Run == [start : Clock, length : Clock]
Whole(run) == run.length = Minutes - 1

LEMMA JoinedTyped ==
  ASSUME NEW one \in Run, NEW other \in Run
  PROVE  /\ Joined(one, other) \in Run
         /\ Joined(one, other).start = one.start
         /\ Joined(one, other).length
              = Lower(Higher(one.length, Forward(one.start, other.start) + other.length),
                      Minutes - 1)
<1>1. Forward(one.start, other.start) \in Clock
  BY ForwardTyped DEF Run, Clock
<1> QED BY <1>1 DEF Joined, Run, Clock, Lower, Higher

LEMMA JoinedHolds ==
  ASSUME NEW one \in Run, NEW other \in Run, NEW minute \in Clock,
         Forward(one.start, other.start) <= one.length
  PROVE  /\ InRun(Joined(one, other), minute) => InRun(one, minute) \/ InRun(other, minute)
         /\ InRun(one, minute) => InRun(Joined(one, other), minute)
         /\ InRun(other, minute) =>
              InRun(Joined(one, other), minute) \/ Whole(Joined(one, other))
         /\ Whole(one) \/ Whole(other) => Whole(Joined(one, other))
<1> DEFINE g == Forward(one.start, other.start)
           f == Forward(one.start, minute)
           h == Forward(other.start, minute)
           J == Joined(one, other)
           n == one.length
           o == other.length
<1>1. one.start \in Int /\ other.start \in Int /\ minute \in Int
  BY DEF Run, Clock
<1>2. n \in Clock /\ o \in Clock
  BY DEF Run
<1>3. g \in Clock /\ f \in Clock /\ h \in Clock
  BY <1>1, ForwardTyped DEF Clock
<1>4. h = IF f >= g THEN f - g ELSE f - g + Minutes
  BY <1>1, ForwardVia
<1>5. J.start = one.start /\ J.length = Lower(Higher(n, g + o), Minutes - 1)
  BY JoinedTyped
<1>6. InRun(J, minute) <=> f < Lower(Higher(n, g + o), Minutes - 1)
  BY <1>5 DEF InRun
<1>7. Whole(J) <=> Lower(Higher(n, g + o), Minutes - 1) = Minutes - 1
  BY <1>5 DEF Whole
<1>8. (InRun(one, minute) <=> f < n) /\ (InRun(other, minute) <=> h < o)
  BY DEF InRun
<1>9. (Whole(one) <=> n = Minutes - 1) /\ (Whole(other) <=> o = Minutes - 1)
  BY DEF Whole
<1>10. g <= n
  OBVIOUS
<1> HIDE DEF g, f, h, n, o
<1> HIDE DEF J
<1>11. InRun(J, minute) => InRun(one, minute) \/ InRun(other, minute)
  BY <1>2, <1>3, <1>4, <1>6, <1>8, <1>10 DEF Clock, Lower, Higher
<1>12. InRun(one, minute) => InRun(J, minute)
  BY <1>2, <1>3, <1>6, <1>8, <1>10 DEF Clock, Lower, Higher
<1>13. InRun(other, minute) => InRun(J, minute) \/ Whole(J)
  BY <1>2, <1>3, <1>4, <1>6, <1>7, <1>8, <1>10 DEF Clock, Lower, Higher
<1>14. Whole(one) \/ Whole(other) => Whole(J)
  BY <1>2, <1>3, <1>7, <1>9 DEF Clock, Lower, Higher
<1> QED BY <1>11, <1>12, <1>13, <1>14 DEF J

(* Two runs of which neither reaches the other's start are apart. *)
LEMMA ApartRuns ==
  ASSUME NEW one \in Run, NEW other \in Run, NEW minute \in Clock,
         Forward(one.start, other.start) > one.length,
         Forward(other.start, one.start) > other.length,
         InRun(one, minute)
  PROVE  ~InRun(other, minute) /\ ~InRun(other, (minute + 1) % Minutes)
<1> DEFINE g == Forward(one.start, other.start)
           b == Forward(other.start, one.start)
           f == Forward(one.start, minute)
           h == Forward(other.start, minute)
           k == Forward(other.start, (minute + 1) % Minutes)
           n == one.length
           o == other.length
<1>1. one.start \in Int /\ other.start \in Int /\ minute \in Int
  BY DEF Run, Clock
<1>2. n \in Clock /\ o \in Clock
  BY DEF Run
<1>3. g \in Clock /\ f \in Clock /\ h \in Clock /\ b \in Clock
  BY <1>1, ForwardTyped DEF Clock
<1>4. h = IF f >= g THEN f - g ELSE f - g + Minutes
  BY <1>1, ForwardVia
<1>5. k = IF h < Minutes - 1 THEN h + 1 ELSE 0
  BY ForwardNext DEF Run, Clock
<1>6. Forward(one.start, one.start) = 0
  <2>1. one.start - one.start = 0 /\ 0 % Minutes = 0
    BY <1>1
  <2> QED BY <2>1 DEF Forward
<1>7. b = IF 0 >= g THEN 0 - g ELSE 0 - g + Minutes
  BY <1>1, <1>6, ForwardVia
<1>8. f < n /\ g > n /\ b > o
  BY DEF InRun
<1>9. (InRun(other, minute) <=> h < o)
      /\ (InRun(other, (minute + 1) % Minutes) <=> k < o)
  BY DEF InRun
<1> HIDE DEF g, b, f, h, k, n, o
<1> QED BY <1>2, <1>3, <1>4, <1>5, <1>7, <1>8, <1>9 DEF Clock
-----------------------------------------------------------------------------
(* Taking one element out of a sequence leaves the others, moved up.        *)
LEMMA Removed ==
  ASSUME NEW S, NEW s \in Seq(S), NEW k \in 1..Len(s)
  PROVE  /\ RemoveAt(s, k) \in Seq(S)
         /\ Len(RemoveAt(s, k)) = Len(s) - 1
         /\ \A x \in 1..(Len(s) - 1) :
               RemoveAt(s, k)[x] = IF x < k THEN s[x] ELSE s[x + 1]
<1> DEFINE head == SubSeq(s, 1, k - 1)
           tail == SubSeq(s, k + 1, Len(s))
<1>1. Len(s) \in Nat /\ k \in Nat /\ k >= 1 /\ k <= Len(s)
  BY LenProperties
<1>2. /\ head \in Seq(S) /\ Len(head) = k - 1
      /\ \A x \in 1..(k - 1) : head[x] = s[x]
  <2>1. \A x \in 1..(k - 1) : x \in 1..Len(s)
    BY <1>1
  <2>2. 1 \in Int /\ k - 1 \in Int
    BY <1>1
  <2> QED BY <1>1, <2>1, <2>2, SubSeqProperties
<1>3. /\ tail \in Seq(S) /\ Len(tail) = Len(s) - k
      /\ \A x \in 1..(Len(s) - k) : tail[x] = s[k + x]
  <2>1. \A x \in (k + 1)..Len(s) : x \in 1..Len(s)
    BY <1>1
  <2>2. k + 1 \in Int /\ Len(s) \in Int
    BY <1>1
  <2> QED BY <1>1, <2>1, <2>2, SubSeqProperties
<1>4. RemoveAt(s, k) = head \o tail
  BY DEF RemoveAt
<1> HIDE DEF head, tail
<1>5. /\ head \o tail \in Seq(S)
      /\ Len(head \o tail) = Len(head) + Len(tail)
      /\ \A x \in 1..(Len(head) + Len(tail)) :
            (head \o tail)[x] = IF x <= Len(head) THEN head[x] ELSE tail[x - Len(head)]
  BY <1>2, <1>3, ConcatProperties
<1>6. ASSUME NEW x \in 1..(Len(s) - 1)
      PROVE  (head \o tail)[x] = IF x < k THEN s[x] ELSE s[x + 1]
  <2>1. CASE x < k
    <3>1. x \in 1..(k - 1) /\ x \in 1..(Len(head) + Len(tail)) /\ x <= Len(head)
      BY <2>1, <1>1, <1>2, <1>3
    <3> QED BY <3>1, <2>1, <1>2, <1>5
  <2>2. CASE x >= k
    <3>1. x - (k - 1) \in 1..(Len(s) - k) /\ ~(x <= k - 1)
      BY <2>2, <1>1
    <3>2. (head \o tail)[x] = tail[x - (k - 1)]
      BY <3>1, <1>1, <1>2, <1>3, <1>5
    <3>3. tail[x - (k - 1)] = s[k + (x - (k - 1))]
      BY <3>1, <1>3
    <3>4. k + (x - (k - 1)) = x + 1
      BY <1>1
    <3> QED BY <3>2, <3>3, <3>4, <2>2, <1>1
  <2>3. x < k \/ x >= k
    BY <1>1
  <2> QED BY <2>1, <2>2, <2>3
<1> QED BY <1>1, <1>2, <1>3, <1>4, <1>5, <1>6

(* Two of the runs make room for one: every other run is still there, and   *)
(* nothing but the others and the new one is.                               *)
Replaced(S, s, lo, hi, e, t) ==
  /\ t \in Seq(S)
  /\ \A x \in DOMAIN t : t[x] = e \/ \E y \in DOMAIN s : y # lo /\ y # hi /\ t[x] = s[y]
  /\ \A y \in DOMAIN s : y # lo /\ y # hi => \E x \in DOMAIN t : t[x] = s[y]
  /\ \E x \in DOMAIN t : t[x] = e

LEMMA TwoForOne ==
  ASSUME NEW S, NEW s \in Seq(S), NEW lo \in 1..Len(s), NEW hi \in 1..Len(s), lo < hi,
         NEW e \in S
  PROVE  Replaced(S, s, lo, hi, e, Append(RemoveAt(RemoveAt(s, hi), lo), e))
<1> DEFINE u == RemoveAt(s, hi)
           v == RemoveAt(u, lo)
           t == Append(v, e)
           n == Len(s)
<1>1. n \in Nat /\ lo \in 1..n /\ hi \in 1..n /\ lo < hi /\ DOMAIN s = 1..n
  BY LenProperties
<1>2. u \in Seq(S) /\ Len(u) = n - 1
      /\ \A x \in 1..(n - 1) : u[x] = IF x < hi THEN s[x] ELSE s[x + 1]
  BY Removed
<1> HIDE DEF u
<1>3. lo \in 1..Len(u)
  BY <1>1, <1>2
<1>4. v \in Seq(S) /\ Len(v) = n - 2
      /\ \A x \in 1..(n - 2) : v[x] = IF x < lo THEN u[x] ELSE u[x + 1]
  <2>1. v \in Seq(S) /\ Len(v) = Len(u) - 1
        /\ \A x \in 1..(Len(u) - 1) : v[x] = IF x < lo THEN u[x] ELSE u[x + 1]
    BY <1>2, <1>3, Removed
  <2> HIDE DEF v
  <2> QED BY <2>1, <1>1, <1>2
<1> HIDE DEF v
<1>5. /\ t \in Seq(S) /\ Len(t) = n - 1
      /\ \A x \in 1..(n - 2) : t[x] = v[x]
      /\ t[n - 1] = e
      /\ DOMAIN t = 1..(n - 1)
  <2>1. /\ t \in Seq(S) /\ Len(t) = Len(v) + 1
        /\ \A x \in 1..Len(v) : t[x] = v[x]
        /\ t[Len(v) + 1] = e
    BY <1>4, AppendProperties
  <2> HIDE DEF t
  <2>2. DOMAIN t = 1..Len(t)
    BY <2>1, LenProperties
  <2> QED BY <2>1, <2>2, <1>1, <1>4
<1> HIDE DEF t
<1> DEFINE Old(x) == IF x < lo THEN x ELSE IF x + 1 < hi THEN x + 1 ELSE x + 2
           New(y) == IF y < lo THEN y ELSE IF y < hi THEN y - 1 ELSE y - 2
<1>6. ASSUME NEW x \in 1..(n - 2)
      PROVE  t[x] = s[Old(x)] /\ Old(x) \in 1..n /\ Old(x) # lo /\ Old(x) # hi
  <2>1. CASE x < lo
    <3>1. x \in 1..(n - 1) /\ x < hi
      BY <2>1, <1>1
    <3>2. t[x] = v[x]
      BY <1>1, <1>5
    <3>3. v[x] = u[x]
      BY <2>1, <3>1, <1>4
    <3>4. u[x] = s[x]
      BY <3>1, <1>2
    <3>5. Old(x) = x /\ x \in 1..n /\ x # lo /\ x # hi
      BY <2>1, <3>1, <1>1
    <3> QED BY <3>2, <3>3, <3>4, <3>5
  <2>2. CASE x >= lo /\ x + 1 < hi
    <3>1. x + 1 \in 1..(n - 1)
      BY <1>1
    <3>2. u[x + 1] = s[x + 1]
      BY <3>1, <2>2, <1>2
    <3>3. t[x] = u[x + 1]
      <4>1. t[x] = v[x] /\ ~(x < lo)
        BY <2>2, <1>1, <1>5
      <4> QED BY <4>1, <1>4
    <3>4. Old(x) = x + 1 /\ x + 1 # lo /\ x + 1 # hi
      BY <2>2, <1>1
    <3> QED BY <3>1, <3>2, <3>3, <3>4, <1>1
  <2>3. CASE x >= lo /\ x + 1 >= hi
    <3>1. x + 1 \in 1..(n - 1) /\ x + 1 + 1 = x + 2
      BY <1>1
    <3>2. u[x + 1] = s[x + 2]
      BY <3>1, <2>3, <1>1, <1>2
    <3>3. t[x] = u[x + 1]
      <4>1. t[x] = v[x] /\ ~(x < lo)
        BY <2>3, <1>1, <1>5
      <4> QED BY <4>1, <1>4
    <3>4. Old(x) = x + 2 /\ x + 2 # lo /\ x + 2 # hi /\ x + 2 \in 1..n
      BY <2>3, <1>1
    <3> QED BY <3>2, <3>3, <3>4
  <2> QED BY <2>1, <2>2, <2>3, <1>1
<1>7. ASSUME NEW y \in 1..n, y # lo, y # hi
      PROVE  New(y) \in 1..(n - 2) /\ Old(New(y)) = y
  BY <1>1, <1>7
<1> HIDE DEF Old, New
<1>8. \A x \in DOMAIN t :
         t[x] = e \/ \E y \in DOMAIN s : y # lo /\ y # hi /\ t[x] = s[y]
  <2> SUFFICES ASSUME NEW x \in 1..(n - 1), t[x] # e
               PROVE  \E y \in DOMAIN s : y # lo /\ y # hi /\ t[x] = s[y]
    BY <1>5
  <2>1. x \in 1..(n - 2)
    BY <1>1, <1>5
  <2> QED BY <2>1, <1>1, <1>6
<1>9. \A y \in DOMAIN s : y # lo /\ y # hi => \E x \in DOMAIN t : t[x] = s[y]
  <2> SUFFICES ASSUME NEW y \in 1..n, y # lo, y # hi
               PROVE  \E x \in DOMAIN t : t[x] = s[y]
    BY <1>1
  <2>1. New(y) \in 1..(n - 2) /\ t[New(y)] = s[y]
    BY <1>6, <1>7
  <2>2. New(y) \in DOMAIN t
    BY <2>1, <1>1, <1>5
  <2> QED BY <2>1, <2>2
<1>10. \E x \in DOMAIN t : t[x] = e
  <2>1. n - 1 \in DOMAIN t
    BY <1>1, <1>5
  <2> QED BY <2>1, <1>5
<1>11. Replaced(S, s, lo, hi, e, t)
  BY <1>5, <1>8, <1>9, <1>10 DEF Replaced
<1> QED BY <1>11 DEF t, v, u
-----------------------------------------------------------------------------
(* The invariant of the car's window: joining adds no minute, loses none    *)
(* but one that a whole run leaves out, and ends with no pair to join.      *)
RunsTyped == /\ runs \in Seq(Run)
             /\ widened.before \in Nat /\ widened.after \in Nat

NoneAdded == \A i \in DOMAIN runs, minute \in Clock :
                InRun(runs[i], minute) => InExtended(minute)

NoneLost == \A minute \in Clock : InExtended(minute) =>
               \/ \E i \in DOMAIN runs : InRun(runs[i], minute)
               \/ \E i \in DOMAIN runs : Whole(runs[i])

AllJoined == \A i, j \in DOMAIN runs : ~Overlap(i, j)

CarInv == /\ tariff \in Tariffs
          /\ stage \in {"join", "joined"} => RunsTyped /\ NoneAdded /\ NoneLost
          /\ stage = "joined" => AllJoined

(* A period widened is the owner's hours around it, but for one minute.     *)
LEMMA WidenedHolds ==
  ASSUME NEW p \in Period, NEW before \in Nat, NEW after \in Nat
  PROVE  LET run == WidenedRun(p, before, after)
             In(minute) == Forward(p.start - before, minute)
                             < Lower(before + Span(p) + after, Minutes)
         IN  /\ run \in Run
             /\ \A minute \in Clock :
                   /\ InRun(run, minute) => In(minute)
                   /\ In(minute) => InRun(run, minute) \/ Whole(run)
<1> DEFINE run == WidenedRun(p, before, after)
           x == before + Span(p) + after
<1>1. x \in Nat /\ p.start - before \in Int
  BY SpanTyped DEF Period
<1>2. /\ run.start = (p.start - before) % Minutes
      /\ run.length = Lower(x, Minutes - 1)
      /\ run = [start |-> run.start, length |-> run.length]
  BY DEF WidenedRun
<1>3. run.start \in Clock
  BY <1>1, <1>2, Divided DEF Clock
<1> HIDE DEF x, run
<1>4. run.length \in Clock
  BY <1>1, <1>2 DEF Clock, Lower
<1>5. run \in Run
  BY <1>2, <1>3, <1>4 DEF Run
<1>6. ASSUME NEW minute \in Clock
      PROVE  LET f == Forward(p.start - before, minute)
             IN  /\ InRun(run, minute) => f < Lower(x, Minutes)
                 /\ f < Lower(x, Minutes) => InRun(run, minute) \/ Whole(run)
  <2> DEFINE f == Forward(p.start - before, minute)
  <2>1. f \in Clock
    <3>1. minute \in Int
      BY <1>6 DEF Clock
    <3> QED BY <3>1, <1>1, ForwardTyped DEF Clock
  <2>2. Forward(run.start, minute) = f
    BY <1>1, <1>2, ForwardMod DEF Clock
  <2> HIDE DEF f
  <2>3. (InRun(run, minute) <=> f < Lower(x, Minutes - 1))
        /\ (Whole(run) <=> Lower(x, Minutes - 1) = Minutes - 1)
    BY <1>2, <2>2 DEF InRun, Whole
  <2>4. /\ InRun(run, minute) => f < Lower(x, Minutes)
        /\ f < Lower(x, Minutes) => InRun(run, minute) \/ Whole(run)
    BY <1>1, <2>1, <2>3 DEF Clock, Lower
  <2> QED BY <2>4 DEF f
<1> QED BY <1>5, <1>6 DEF run, x

LEMMA JoinStarts ==
  ASSUME CarInv, NEW before \in Befores, NEW after \in Afters, StartJoin(before, after)
  PROVE  CarInv'
<1>1. PICK count \in 0..Len(tariff.periods) :
           \E places \in [1..count -> DOMAIN tariff.periods] :
              /\ InOrder(places)
              /\ runs' = [k \in 1..count |-> WidenedRun(tariff.periods[places[k]], before, after)]
  BY DEF StartJoin
<1>2. PICK places \in [1..count -> DOMAIN tariff.periods] :
              /\ InOrder(places)
              /\ runs' = [k \in 1..count |-> WidenedRun(tariff.periods[places[k]], before, after)]
  BY <1>1
<1> DEFINE At(k) == tariff.periods[places[k]]
<1>3. /\ stage' = "join" /\ tariff' = tariff /\ tariff \in Tariffs
      /\ widened' = [before |-> before, after |-> after]
  BY DEF StartJoin, CarInv
<1>4. count \in Nat /\ before \in Nat /\ after \in Nat
  BY <1>3, LenProperties
<1>5. ASSUME NEW k \in 1..count
      PROVE  At(k) \in Period /\ At(k) \in Cheaper
  <2>1. places[k] \in DOMAIN tariff.periods /\ k \in DOMAIN places
    OBVIOUS
  <2>2. At(k) \in Cheaper
    BY <2>1, <1>2 DEF InOrder
  <2> QED BY <2>1, <2>2, <1>3, PeriodTyped
<1>6. ASSUME NEW p \in Cheaper
      PROVE  \E k \in 1..count : At(k) = p
  BY <1>2 DEF InOrder
<1>7. DOMAIN runs' = 1..count
      /\ \A k \in 1..count : runs'[k] = WidenedRun(At(k), before, after)
  BY <1>2
<1> HIDE DEF At
<1>8. \A k \in 1..count : runs'[k] \in Run
  BY <1>4, <1>5, <1>7, WidenedHolds
<1>9. RunsTyped'
  <2>1. runs' \in [1..count -> Run]
    BY <1>2, <1>7, <1>8
  <2>2. runs' \in Seq(Run)
    BY <2>1, <1>4, SeqDef
  <2> QED BY <2>2, <1>3, <1>4 DEF RunsTyped
<1>10. \A minute : InExtended(minute)' <=>
          \E p \in Cheaper : Forward(p.start - before, minute)
                                < Lower(before + Span(p) + after, Minutes)
  BY <1>3, CheaperStays DEF InExtended
<1>11. NoneAdded'
  <2> SUFFICES ASSUME NEW k \in 1..count, NEW minute \in Clock, InRun(runs'[k], minute)
               PROVE  InExtended(minute)'
    BY <1>7 DEF NoneAdded
  <2>1. Forward(At(k).start - before, minute) < Lower(before + Span(At(k)) + after, Minutes)
    BY <1>4, <1>5, <1>7, WidenedHolds
  <2> QED BY <2>1, <1>5, <1>10
<1>12. NoneLost'
  <2> SUFFICES ASSUME NEW minute \in Clock, InExtended(minute)'
               PROVE  \/ \E k \in 1..count : InRun(runs'[k], minute)
                      \/ \E k \in 1..count : Whole(runs'[k])
    BY <1>7 DEF NoneLost
  <2>1. PICK p \in Cheaper : Forward(p.start - before, minute)
                                < Lower(before + Span(p) + after, Minutes)
    BY <1>10
  <2>2. PICK k \in 1..count : At(k) = p
    BY <1>6
  <2>3. InRun(runs'[k], minute) \/ Whole(runs'[k])
    BY <2>1, <2>2, <1>4, <1>5, <1>7, WidenedHolds
  <2> QED BY <2>3
<1> QED BY <1>3, <1>9, <1>11, <1>12 DEF CarInv

LEMMA ExtendedStays ==
  ASSUME tariff' = tariff, widened' = widened
  PROVE  \A minute : InExtended(minute)' <=> InExtended(minute)
BY CheaperStays DEF InExtended

LEMMA JoinKeepsCar ==
  ASSUME CarInv, NEW i \in DOMAIN runs, NEW j \in DOMAIN runs, Join(i, j)
  PROVE  CarInv'
<1> DEFINE J == Joined(runs[i], runs[j])
<1>1. /\ stage = "join" /\ stage' = "join" /\ tariff' = tariff /\ widened' = widened
      /\ RunsTyped /\ NoneAdded /\ NoneLost /\ tariff \in Tariffs
  BY DEF Join, CarInv
<1>2. i # j /\ Forward(runs[i].start, runs[j].start) <= runs[i].length
  BY DEF Join, FirstOverlap, Overlap
<1>3. runs \in Seq(Run) /\ DOMAIN runs = 1..Len(runs) /\ Len(runs) \in Nat
  BY <1>1, LenProperties DEF RunsTyped
<1>4. runs[i] \in Run /\ runs[j] \in Run
  BY <1>3, ElementOfSeq
<1>5. J \in Run
  BY <1>4, JoinedTyped
<1>6. \A minute \in Clock :
         /\ InRun(J, minute) => InRun(runs[i], minute) \/ InRun(runs[j], minute)
         /\ InRun(runs[i], minute) => InRun(J, minute)
         /\ InRun(runs[j], minute) => InRun(J, minute) \/ Whole(J)
         /\ Whole(runs[i]) \/ Whole(runs[j]) => Whole(J)
  BY <1>2, <1>4, JoinedHolds
<1> HIDE DEF J
<1>7. \E lo, hi : /\ {lo, hi} = {i, j}
                  /\ Replaced(Run, runs, lo, hi, J, runs')
  <2> DEFINE lo == Lower(i, j)
             hi == Higher(i, j)
  <2>1. runs' = Append(RemoveAt(RemoveAt(runs, hi), lo), J)
    BY DEF Join, J
  <2>2. lo \in 1..Len(runs) /\ hi \in 1..Len(runs) /\ lo < hi /\ {lo, hi} = {i, j}
    BY <1>2, <1>3 DEF Lower, Higher
  <2> HIDE DEF lo, hi
  <2>3. Replaced(Run, runs, lo, hi, J, Append(RemoveAt(RemoveAt(runs, hi), lo), J))
    BY <2>2, <1>3, <1>5, TwoForOne
  <2>4. Replaced(Run, runs, lo, hi, J, runs')
    BY <2>1, <2>3
  <2> QED BY <2>2, <2>4
<1>8. /\ runs' \in Seq(Run)
      /\ \A x \in DOMAIN runs' :
            runs'[x] = J \/ \E y \in DOMAIN runs : y # i /\ y # j /\ runs'[x] = runs[y]
      /\ \A y \in DOMAIN runs : y # i /\ y # j => \E x \in DOMAIN runs' : runs'[x] = runs[y]
      /\ \E x \in DOMAIN runs' : runs'[x] = J
  <2>1. PICK lo, hi : {lo, hi} = {i, j} /\ Replaced(Run, runs, lo, hi, J, runs')
    BY <1>7
  <2>2. \A y : y # i /\ y # j <=> y # lo /\ y # hi
    BY <2>1
  <2> QED BY <2>1, <2>2 DEF Replaced
<1>9. RunsTyped'
  BY <1>1, <1>8 DEF RunsTyped
<1>10. NoneAdded'
  <2> SUFFICES ASSUME NEW x \in DOMAIN runs', NEW minute \in Clock, InRun(runs'[x], minute)
               PROVE  InExtended(minute)
    BY <1>1, ExtendedStays DEF NoneAdded
  <2> QED BY <1>1, <1>6, <1>8 DEF NoneAdded
<1>11. NoneLost'
  <2> SUFFICES ASSUME NEW minute \in Clock, InExtended(minute)
               PROVE  \/ \E x \in DOMAIN runs' : InRun(runs'[x], minute)
                      \/ \E x \in DOMAIN runs' : Whole(runs'[x])
    BY <1>1, ExtendedStays DEF NoneLost
  <2>1. CASE \E y \in DOMAIN runs : InRun(runs[y], minute)
    <3>1. PICK y \in DOMAIN runs : InRun(runs[y], minute)
      BY <2>1
    <3> QED BY <3>1, <1>6, <1>8
  <2>2. CASE \E y \in DOMAIN runs : Whole(runs[y])
    <3>1. PICK y \in DOMAIN runs : Whole(runs[y])
      BY <2>2
    <3> QED BY <3>1, <1>6, <1>8
  <2> QED BY <2>1, <2>2, <1>1 DEF NoneLost
<1> QED BY <1>1, <1>9, <1>10, <1>11 DEF CarInv

LEMMA CarStays ==
  ASSUME CarInv, UNCHANGED <<tariff, widened, runs>>,
         stage' = stage \/ stage' \notin {"join", "joined"}
                        \/ (stage = "join" /\ stage' = "joined" /\ AllJoined)
  PROVE  CarInv'
<1>1. \A minute : InExtended(minute)' <=> InExtended(minute)
  BY ExtendedStays
<1> QED BY <1>1 DEF CarInv, RunsTyped, NoneAdded, NoneLost, AllJoined, Overlap

LEMMA CarKeepsInv == CarInv /\ [WindowNext]_windowVars => CarInv'
<1> SUFFICES ASSUME CarInv, [WindowNext]_windowVars PROVE CarInv'
  OBVIOUS
<1>1. CASE \E i \in DOMAIN tariff.periods : StartRun(i)
  BY <1>1, CarStays DEF StartRun
<1>2. CASE \E p \in Cheaper : ExtendRun(p)
  BY <1>2, CarStays DEF ExtendRun
<1>3. CASE EndRun
  BY <1>3, CarStays DEF EndRun
<1>4. CASE \E taken \in Charges : PlanWindow(taken)
  BY <1>4, CarStays DEF PlanWindow
<1>5. CASE \E before \in Befores, after \in Afters : StartJoin(before, after)
  BY <1>5, JoinStarts
<1>6. CASE \E i, j \in DOMAIN runs : Join(i, j)
  BY <1>6, JoinKeepsCar
<1>7. CASE EndJoin
  BY <1>7, CarStays DEF EndJoin, AllJoined
<1>8. CASE UNCHANGED windowVars
  BY <1>8, CarStays DEF windowVars
<1> QED BY <1>1, <1>2, <1>3, <1>4, <1>5, <1>6, <1>7, <1>8 DEF WindowNext

THEOREM CarInvariance == WindowSpec => []CarInv
<1>1. WindowInit => CarInv
  BY DEF WindowInit, CarInv
<1> QED BY <1>1, CarKeepsInv, PTL DEF WindowSpec

LEMMA CarInvAgrees == CarInv => CarWindowAgrees
<1> SUFFICES ASSUME CarInv PROVE CarWindowAgrees
  OBVIOUS
<1>1. ASSUME stage \in {"join", "joined"}, NEW minute \in Clock
      PROVE  \/ InExtended(minute) <=> \E i \in DOMAIN runs : InRun(runs[i], minute)
             \/ \E i \in DOMAIN runs : /\ runs[i].length = Minutes - 1
                                       /\ ~InRun(runs[i], minute)
  BY <1>1 DEF CarInv, NoneAdded, NoneLost, Whole
<1>2. ASSUME stage = "joined", NEW i \in DOMAIN runs, NEW j \in DOMAIN runs, i # j,
             NEW minute \in Clock, InRun(runs[i], minute)
      PROVE  ~InRun(runs[j], minute) /\ ~InRun(runs[j], (minute + 1) % Minutes)
  <2>1. runs \in Seq(Run) /\ ~Overlap(i, j) /\ ~Overlap(j, i)
    BY <1>2 DEF CarInv, RunsTyped, AllJoined
  <2>2. runs[i] \in Run /\ runs[j] \in Run
    BY <2>1, ElementOfSeq, LenProperties
  <2>3. Forward(runs[i].start, runs[j].start) \in Int /\ runs[i].length \in Int
        /\ Forward(runs[j].start, runs[i].start) \in Int /\ runs[j].length \in Int
    BY <2>2, ForwardTyped DEF Run, Clock
  <2>4. /\ Forward(runs[i].start, runs[j].start) > runs[i].length
        /\ Forward(runs[j].start, runs[i].start) > runs[j].length
    BY <2>1, <2>3, <1>2 DEF Overlap
  <2> QED BY <2>2, <2>4, <1>2, ApartRuns
<1> QED BY <1>1, <1>2 DEF CarWindowAgrees, Clock

(* The window the car is given is the hours its rule allows, for every tariff
   and whatever the owner adds around the cheap periods. *)
THEOREM CarWindow == WindowSpec => []CarWindowAgrees
BY CarInvariance, CarInvAgrees, PTL
=============================================================================
