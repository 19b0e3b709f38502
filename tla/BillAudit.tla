------------------------------ MODULE BillAudit ------------------------------
(***************************************************************************)
(* The days of a bill period as they are recorded, archived and billed     *)
(* (lib/tariff/bill_days.py, core/bill_audit.py, and the midnight of       *)
(* accumulation.py), and the comparison with a year ago and the export     *)
(* (services.py), while the tariff is changed or scheduled to change, the  *)
(* bill's start day is moved, and Home Assistant is down over midnights.   *)
(*                                                                         *)
(* A tariff is its price, which is also what it charges for a day.  A      *)
(* day's energy is one unit, booked at the price in force when it is used. *)
(* Months are all as long as each other.                                   *)
(***************************************************************************)
EXTENDS Integers, Sequences, FiniteSetsExt, Functions
Rows == INSTANCE SequencesExt

CONSTANTS
    MonthLen,       \* days of a month
    MonthsKept,     \* the months of a year, and the periods kept
    Prices,
    Earlier,        \* what the period held before days were kept
    Courses,        \* bounds: the days a behaviour has, and what may happen in them
    NoTariffYet

ASSUME AuditAssumption ==
    /\ {MonthLen, MonthsKept} \subseteq Nat \ {0}
    /\ Courses \subseteq [days: Nat, events: Nat]
    /\ Prices \subseteq Nat \ {0} /\ Prices # {} /\ Earlier \subseteq Nat
    /\ NoTariffYet \notin Nat

VARIABLES
    date,           \* days since the first bill period began
    options,        \* the saved tariff, and the change that is scheduled
    billDay,        \* the day of the month a bill starts on
    books,          \* today, bill_days, month, monthly_snapshots, month_start and last_reset
    shown,          \* the month of coordinator.data, that of the last cycle
    stopped,        \* Home Assistant is down
    moved,          \* history: the day the bill's start was last moved
    course          \* what is left of it

auditVars == <<date, options, billDay, books, shown, stopped, moved, course>>

NoMove == -1
Before == -1
DayOfMonth(d) == d % MonthLen
Year == MonthLen * MonthsKept

\* tariff_in_force
InForceOnDate(o, d) ==
    IF o.change # NoTariffYet /\ o.change.from <= d THEN o.change.price ELSE o.price

-----------------------------------------------------------------------------
(* The rows                                                                *)

CostOfRows(rows) ==
    LET upTo[i \in 0..Len(rows)] == IF i = 0 THEN 0 ELSE upTo[i - 1] + rows[i].cost
    IN upTo[Len(rows)]
HasTariff(row) == row.tariff # NoTariffYet

\* tariff_in_effect: that of the newest row with one.
TariffInEffect(rows) ==
    LET S == {i \in DOMAIN rows : HasTariff(rows[i])}
    IN IF S = {} THEN NoTariffYet ELSE rows[Max(S)].tariff
TariffForDay(rows, i) == TariffInEffect(SubSeq(rows, 1, i))
TariffChanges(rows) == {rows[i].date : i \in {j \in DOMAIN rows : j > 1 /\ HasTariff(rows[j])}}

\* What with_day would store, if a tariff that any row has were not stored again.
StoredOnce(rows, tariff) ==
    IF \E i \in DOMAIN rows : rows[i].tariff = tariff THEN NoTariffYet ELSE tariff
\* with_day: the tariff is stored when it differs from the one before.
StoredWith(rows, tariff) == IF TariffInEffect(rows) = tariff THEN NoTariffYet ELSE tariff

\* _record_bill_day for the day that ended, with its tariff or, when its midnight is replayed,
\* none.  `was` is history: the tariff in force when the day ended, if anyone looked.
RecordBillDay(b, day, tariff) ==
    LET known == IF tariff = NoTariffYet THEN TariffInEffect(b.rows) ELSE tariff
    IN IF b.today = 0 THEN b.rows
       ELSE Append(b.rows, [date |-> day, cost |-> b.today, was |-> tariff,
                            tariff |-> StoredWith(b.rows, known)])

\* _reset_month
ResetMonth(b, day) ==
    LET closing == [rows |-> b.rows, cost |-> b.month, start |-> b.start, end |-> day - 1]
        kept == SubSeq(b.archive, Max({1, Len(b.archive) - MonthsKept + 2}), Len(b.archive))
    IN [b EXCEPT !.archive = Append(kept, closing), !.rows = <<>>, !.month = 0, !.start = day]

\* on_midnight of the day that begins.
AuditMidnight(b, day, tariff) ==
    LET recorded == [b EXCEPT !.rows = RecordBillDay(b, day - 1, tariff),
                              !.today = 0, !.reset = day]
    IN IF DayOfMonth(day) = billDay THEN ResetMonth(recorded, day) ELSE recorded

\* roll_forward: the midnights that were missed, with no tariff.
RolledForward(b, day) ==
    LET after[d \in b.reset..day] ==
          IF d = b.reset THEN b ELSE AuditMidnight(after[d - 1], d, NoTariffYet)
    IN after[day]

-----------------------------------------------------------------------------
(* The bills                                                               *)

\* days_in_current_bill_period, of the bill's start day alone.
DaysInPeriod(d) == ((d - billDay) % MonthLen) + 1

\* _not_itemised
NotItemised(period) == period.cost - CostOfRows(period.rows \o period.live)

\* live_row: today so far.
LiveRow(cost) == [date |-> date, cost |-> cost]

\* running_period, and archived_period with its fallback.
RunningPeriod ==
    [rows |-> books.rows, live |-> <<LiveRow(books.today)>>, cost |-> books.month,
     days |-> DaysInPeriod(date), length |-> MonthLen, tariff |-> InForceOnDate(options, date)]
ArchivedPeriod(p) ==
    LET length == Max({1, p.end - p.start + 1})
    IN [rows |-> p.rows, live |-> <<>>, cost |-> p.cost, days |-> length, length |-> length,
        tariff |-> IF TariffInEffect(p.rows) = NoTariffYet THEN options.price
                   ELSE TariffInEffect(p.rows)]

\* The table of build_bill_audit, and that of days_table: today, the days from the newest, and what
\* was used before they were kept.
Cells(row) == [day |-> row.date, cost |-> row.cost]
Remainder(period) ==
    LET rest == NotItemised(period)
    IN IF rest = 0 THEN <<>> ELSE <<[day |-> Before, cost |-> rest]>>
AuditTable(period) ==
    LET listed == period.rows \o period.live
    IN Remainder(period) \o [i \in DOMAIN listed |-> Cells(listed[i])]
DaysTable(period) ==
    [i \in DOMAIN period.live |-> Cells(period.live[i])]
      \o [i \in DOMAIN period.rows |-> Cells(period.rows[Len(period.rows) + 1 - i])]
      \o Remainder(period)

\* _bill_lines, of figures; the last is the total, which accrued_bill is too.
BillLines(period) ==
    LET charges == period.tariff * period.days
    IN [energy |-> period.cost, charges |-> charges, total |-> period.cost + charges]
ProjectedBill == (BillLines(RunningPeriod).total * RunningPeriod.length) \div RunningPeriod.days

\* year_on_year_summary: what was shown last beside the periods kept now.
EnoughMonths == Len(books.archive) >= MonthsKept
SameMonthLastYear == books.archive[Len(books.archive) - MonthsKept + 1]
YearOnYear ==
    IF EnoughMonths
    THEN [start |-> SameMonthLastYear.start, delta |-> shown.cost - SameMonthLastYear.cost]
    ELSE [start |-> NoMove, needed |-> MonthsKept - Len(books.archive)]

\* _export_rows: this month, then the periods kept from the newest.
ExportRows ==
    <<shown>> \o [i \in DOMAIN books.archive |->
                    LET p == books.archive[Len(books.archive) + 1 - i]
                    IN [start |-> p.start, cost |-> p.cost]]

\* coordinator.data.month after a cycle.
MonthOf(b) == [start |-> b.start, cost |-> b.month]

-----------------------------------------------------------------------------
(* Steps                                                                   *)

\* The books of a period in which this much was used before days were kept.
Opened(cost) ==
    [today |-> 0, rows |-> <<>>, month |-> cost, archive |-> <<>>, start |-> 0, reset |-> 0,
     earlier |-> cost]

AuditInit ==
    /\ date = 0 /\ billDay = 0 /\ stopped = FALSE /\ moved = NoMove
    /\ options = [price |-> Min(Prices), change |-> NoTariffYet]
    /\ books \in {Opened(cost) : cost \in Earlier} /\ shown = MonthOf(books)
    /\ course \in Courses

Event == course.events > 0 /\ course' = [course EXCEPT !.events = @ - 1]

\* A cycle books the day's energy.
UseEnergy ==
    /\ ~stopped /\ books.today = 0
    /\ LET price == InForceOnDate(options, date)
       IN books' = [books EXCEPT !.today = price, !.month = @ + price]
    /\ shown' = MonthOf(books')
    /\ UNCHANGED <<date, options, billDay, stopped, moved, course>>

\* _midnight_reset: the saved tariff in force on the day that ended.  Idle is a day on which no
\* cycle succeeded.
LiveMidnight ==
    /\ ~stopped /\ date < course.days
    /\ IF books.today = 0 THEN Event ELSE UNCHANGED course
    /\ date' = date + 1
    /\ books' = AuditMidnight(books, date + 1, InForceOnDate(options, date))
    /\ UNCHANGED <<options, billDay, shown, stopped, moved>>

\* The rates page and the schedule page of Configure.
SaveRates ==
    /\ Event
    /\ \E price \in Prices \ {options.price} :
         options' = [price |-> price,
                     change |-> IF options.change # NoTariffYet /\ options.change.from > date
                                THEN options.change ELSE NoTariffYet]
    /\ ~stopped /\ UNCHANGED <<date, billDay, books, shown, stopped, moved>>

ScheduleRates ==
    /\ options.change = NoTariffYet /\ Event
    /\ \E price \in Prices \ {options.price} :
         options' = [options EXCEPT !.change = [from |-> date + 1, price |-> price]]
    /\ ~stopped /\ UNCHANGED <<date, billDay, books, shown, stopped, moved>>

\* update_bill_start_day
MoveBillDay ==
    /\ ~stopped /\ Event
    /\ billDay' \in (0..(MonthLen - 1)) \ {billDay} /\ moved' = date
    /\ UNCHANGED <<date, options, books, shown, stopped>>

GoDown ==
    /\ ~stopped /\ stopped' = TRUE /\ Event
    /\ UNCHANGED <<date, options, billDay, books, shown, moved>>

DayPasses ==
    /\ stopped /\ date < course.days /\ date' = date + 1
    /\ UNCHANGED <<options, billDay, books, shown, stopped, moved, course>>

ComeUp ==
    /\ stopped /\ stopped' = FALSE
    /\ books' = RolledForward(books, date) /\ shown' = MonthOf(books')
    /\ UNCHANGED <<date, options, billDay, moved, course>>

AuditNext ==
    \/ UseEnergy \/ LiveMidnight \/ SaveRates \/ ScheduleRates \/ MoveBillDay
    \/ GoDown \/ DayPasses \/ ComeUp

AuditSpec == AuditInit /\ [][AuditNext]_auditVars

-----------------------------------------------------------------------------
(* Properties                                                              *)

AuditPeriods ==
    Append(books.archive, [rows |-> books.rows, cost |-> books.month, start |-> books.start,
                           end |-> books.reset])

\* The periods follow each other without a gap or a day in two, and each holds the rows of its
\* own days in their order.
PeriodsFollow ==
    LET periods == AuditPeriods
    IN \A i \in DOMAIN periods :
         LET p == periods[i]
         IN /\ i > 1 => periods[i - 1].end + 1 = p.start
            /\ \A j \in DOMAIN p.rows : /\ p.rows[j].date \in p.start..p.end
                                        /\ j > 1 => p.rows[j - 1].date < p.rows[j].date

\* "a tariff that changes mid-bill is recorded on the day it changed and an old period keeps the
\* rates it was billed at" (docs/concepts.md:479): a day whose midnight was seen has the tariff in
\* force when it ended, also after the tariff went and came back; a replayed one has that of the
\* day before it.
TariffsRecorded ==
    \A p \in Range(AuditPeriods) : \A i \in DOMAIN p.rows :
      TariffForDay(p.rows, i) =
        IF p.rows[i].was # NoTariffYet THEN p.rows[i].was
        ELSE IF i = 1 THEN NoTariffYet ELSE TariffForDay(p.rows, i - 1)

\* The audit names a change on no day whose tariff is that of the day before, if the first day's
\* midnight was seen.
ChangesAreReal ==
    \A p \in Range(AuditPeriods) : \A i \in DOMAIN p.rows :
      i > 1 /\ HasTariff(p.rows[1]) /\ p.rows[i].date \in TariffChanges(p.rows)
        => p.rows[i].was # TariffForDay(p.rows, i - 1)

\* What is not itemised is what was used before days were kept, and in a later period nothing;
\* and a bill is for at least the days it lists.
AddsUp ==
    /\ NotItemised(RunningPeriod) = (IF books.start = 0 THEN books.earlier ELSE 0)
    /\ \A p \in Range(books.archive) :
         /\ NotItemised(ArchivedPeriod(p)) = (IF p.start = 0 THEN books.earlier ELSE 0)
         /\ ArchivedPeriod(p).days >= Len(p.rows)
    /\ moved < books.start /\ ~stopped => RunningPeriod.days = date - books.start + 1

\* "makes the rows add up to the totals" (bill_audit.py:10): each day stands once in a table, the
\* newest first in the one, and together they cost what the bill does for its energy.
Tabled(period) ==
    LET table == DaysTable(period)
    IN /\ CostOfRows(table) = BillLines(period).energy
       /\ \A i, j \in DOMAIN table : i < j => table[i].day > table[j].day
       /\ AuditTable(period) = Rows!Reverse(table)
TablesAreTrue ==
    /\ ~stopped => Tabled(RunningPeriod)
    /\ \A p \in Range(books.archive) : Tabled(ArchivedPeriod(p))

\* The audit of a period that has ended is the bill that was shown on its last day, which is also
\* what was projected, if the bill's start day was not moved and its last day was seen.
ClosesAsShown ==
    LET next == AuditMidnight(books, date + 1, InForceOnDate(options, date))
    IN ~stopped /\ books.today # 0 /\ moved < books.start /\ next.rows = <<>> =>
         /\ BillLines(ArchivedPeriod(Rows!Last(next.archive))) = BillLines(RunningPeriod)
         /\ ProjectedBill = BillLines(RunningPeriod).total

\* "Compares this bill period with the same period one year ago" (docs/actions.md:105), unless the
\* bill's start day was moved since, or no cycle has succeeded since the period began.
SameMonth ==
    EnoughMonths /\ moved < SameMonthLastYear.start /\ shown.start = books.start
      => /\ shown.start - YearOnYear.start = Year
         /\ YearOnYear.delta = books.month - SameMonthLastYear.cost

\* The export lists no period twice and leaves none out between the first and the last of those it
\* lists, once a cycle has succeeded in this one.
ExportIsWhole ==
    shown.start = books.start =>
      LET rows == ExportRows
      IN \A i \in 2..Len(rows) :
           /\ rows[i].start < rows[i - 1].start
           /\ \A p \in Range(AuditPeriods) : p.start \notin (rows[i].start + 1)..(rows[i - 1].start - 1)

BooksAreSound ==
    /\ PeriodsFollow /\ TariffsRecorded /\ ChangesAreReal /\ AddsUp
    /\ TablesAreTrue /\ ClosesAsShown /\ SameMonth /\ ExportIsWhole
=============================================================================
