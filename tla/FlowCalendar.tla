------------------------------ MODULE FlowCalendar ------------------------------
(***************************************************************************)
(* The month a bank income belongs to: server/src/flow.ts.  A flow month    *)
(* begins on the anchor day; only a fixed main income that lands before the *)
(* anchor waits for the month it funds.  What counts as one is learned from *)
(* the rows, so every arrival may move rows that are already there.         *)
(*                                                                          *)
(* A month is its number, a day its distance from the first of month 0: the *)
(* months keep their real lengths.  Amounts are in thousands of shekels.    *)
(* The rows are completed bank incomes that nothing else excludes; the test *)
(* of those conditions, the same in every operator, is left out.            *)
(***************************************************************************)
EXTENDS Integers, FiniteSets, FiniteSetsExt

CONSTANTS LastMonth,   \* the calendar months are 0 .. LastMonth
          FirstDay,    \* the day each of them begins
          Anchors,     \* the anchor days a household may choose
          Shifts,      \* by how many days the salary's payday may miss the anchor
          Salary,      \* its amount
          Gifts,       \* amounts another sender may transfer
          MaxRows      \* bound on the rows

FlowAssumption ==
  /\ LastMonth \in Nat \ {0, 1} /\ FirstDay \in [0 .. LastMonth -> Nat]
  /\ \A m \in 1 .. LastMonth : FirstDay[m] - FirstDay[m - 1] \in 28 .. 31
  /\ Anchors \subseteq 1 .. 28
  /\ Shifts \subseteq -16 .. 11 /\ Gifts \subseteq Nat /\ Salary \in Nat \ {0}

VARIABLES anchor, rows, cal, paid, today
vars == <<anchor, rows, cal, paid, today>>

PULL_DAYS == 16
MAIN_INCOME_FLOOR == 1
FIXED_INCOME_WINDOW == 12
RECURRING_MIN_MONTHS == 2
NoCalendar == [median |-> 0, fixed |-> {}]

CalendarMonth(day) ==
  CHOOSE m \in 0 .. LastMonth - 1 : FirstDay[m] <= day /\ day < FirstDay[m + 1]
DayOfMonth(day) == day - FirstDay[CalendarMonth(day)] + 1

\* flowMonthOf: the window [anchor .. anchor) that contains the day.
flowMonthOf(day) ==
  IF anchor > 1 /\ DayOfMonth(day) < anchor THEN CalendarMonth(day) - 1 ELSE CalendarMonth(day)
startOf(month) == FirstDay[month] + anchor - 1

\* Twice the median of the months' largest incomes.
TwiceMedian(incomes) ==
  LET largest == {i \in incomes : \A j \in incomes : j.month = i.month => j.amount <= i.amount}
      maxes == {[month |-> i.month, amount |-> i.amount] : i \in largest}
      n == Cardinality(maxes)
      Ranked(k) == Min({x.amount : x \in {x \in maxes : Cardinality({y \in maxes : y.amount <= x.amount}) >= k}})
  IN Ranked((n + 1) \div 2) + Ranked((n + 2) \div 2)

\* What the rows teach: the size of a main income and who pays
\* a fixed one, in 60% of the recent months that have an income at all, rounded up.
buildFlowCalendar(rs) ==
  LET incomes == {[month |-> flowMonthOf(r.day), merchant |-> r.merchant, amount |-> r.amount] : r \in rs}
      median == TwiceMedian(incomes)
      big == {i \in incomes : i.amount >= MAIN_INCOME_FLOOR /\ 8 * i.amount >= median}
      newest == Max({i.month : i \in big})
      window == newest - FIXED_INCOME_WINDOW + 1 .. newest
      n == Cardinality({i.month : i \in incomes} \cap window)
      need == Max({RECURRING_MIN_MONTHS, (6 * n + 9) \div 10})
      PaidIn(mk) == {i.month : i \in {x \in big : x.merchant = mk}} \cap window
  IN IF anchor = 1 \/ rs = {} THEN NoCalendar
     ELSE [median |-> median,
           fixed |-> IF big = {} THEN {} ELSE {mk \in {i.merchant : i \in big} : Cardinality(PaidIn(mk)) >= need}]

\* At least the floor, and a quarter of the median.
Main(amount) == cal # NoCalendar /\ amount >= MAIN_INCOME_FLOOR /\ 8 * amount >= cal.median
Fixed(merchant) == cal # NoCalendar /\ merchant \in cal.fixed

\* Faulty variant: the zone is measured from the anchor of the month the day is in.
WaitsFromOwn(day) == day >= startOf(flowMonthOf(day)) + PULL_DAYS
\* monthOfRow: a fixed main income in the waiting zone funds the month that opens next.
Waits(day) == day >= startOf(flowMonthOf(day) + 1) - PULL_DAYS
monthOfRow(r) ==
  IF Main(r.amount) /\ Fixed(r.merchant) /\ Waits(r.day) THEN flowMonthOf(r.day) + 1
  ELSE flowMonthOf(r.day)

\* opensNext: what keeps an expected income out of a month it will not count in.
opensNext(month, day, amount) ==
  Main(amount) /\ day >= startOf(month + 1) - PULL_DAYS

\* applyLens: a row of a month that has not begun does not count yet.
Counts(r) == monthOfRow(r) <= flowMonthOf(today)

-----------------------------------------------------------------------------
Init == /\ anchor \in Anchors /\ rows = {} /\ cal = NoCalendar /\ paid = 1 /\ today = FirstDay[1]

Row(merchant, day, amount, funds) == [merchant |-> merchant, day |-> day, amount |-> amount, funds |-> funds]
Arrive(r) == /\ Cardinality(rows) < MaxRows
             /\ r.day >= today /\ r.day < FirstDay[LastMonth - 1]
             /\ rows' = rows \cup {r} /\ today' = r.day
             /\ cal' = buildFlowCalendar(rows')

\* The employer pays for the next month, around the day it opens.
PaySalary == \E shift \in Shifts :
               /\ Arrive(Row("work", startOf(paid) + shift, Salary, paid))
               /\ paid' = paid + 1
               /\ UNCHANGED anchor
\* Somebody transfers money, on this day or in the middle of the salary's month.
Transfer == \E amount \in Gifts, day \in {today, startOf(paid) + 9} :
              /\ Arrive(Row("friend", day, amount, flowMonthOf(day)))
              /\ UNCHANGED <<anchor, paid>>
\* The anchor day comes.
OpenMonth == /\ today' = startOf(flowMonthOf(today) + 1)
             /\ today' < FirstDay[LastMonth - 1]
             /\ UNCHANGED <<anchor, rows, cal, paid>>

Next == PaySalary \/ Transfer \/ OpenMonth
Spec == Init /\ [][Next]_vars
-----------------------------------------------------------------------------
(* Once the salary counts as a fixed income, every one of them belongs to   *)
(* the month it was paid for, whatever the length of the months and on      *)
(* whichever side of the anchor it landed, and it counts from the day that  *)
(* month opens: no month shows two salaries and the next one none           *)
(* (flow.ts:78-79, buildFlowCalendar and applyLens).                        *)
SalaryFundsItsMonth ==
  Fixed("work") => \A r \in rows : r.merchant = "work" =>
    /\ monthOfRow(r) = r.funds
    /\ Counts(r) <=> today >= startOf(r.funds)

(* The plan leaves an expected income out of a month exactly when the row,  *)
(* once it arrives, will belong to the next one: opensNext and monthOfRow   *)
(* agree about a fixed income, or the same money is expected in two months  *)
(* or in none (flow.ts:106-109, routes.ts:1533).                            *)
FixedTailAgrees ==
  \A r \in rows : Fixed(r.merchant) =>
    (opensNext(flowMonthOf(r.day), r.day, r.amount) <=> monthOfRow(r) # flowMonthOf(r.day))

(* The same of every income: flow.ts:106 promises that opensNext is true    *)
(* when an income of this size would wait for the next month.  It never     *)
(* asks whether the income is a fixed one.                                  *)
TailAgrees ==
  \A r \in rows : opensNext(flowMonthOf(r.day), r.day, r.amount) <=> monthOfRow(r) # flowMonthOf(r.day)
=============================================================================
