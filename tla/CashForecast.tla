----------------------------- MODULE CashForecast ------------------------------
(****************************************************************************)
(* What the forecast of the bank balance expects: projectEvents and         *)
(* forecastBalance of server/src/forecast.ts over the streams that          *)
(* recurring.ts detects in the rows of the last sync, the debits of the     *)
(* cards that are known in advance and the pending rows, as                 *)
(* cashflowAnalysis of routes.ts puts them together.                        *)
(*                                                                          *)
(* A bill is a bank merchant that charges one amount once a month, around   *)
(* its day; a card may charge under several names. Months are numbers and   *)
(* days count from the first of month 0, as in FlowCalendar, so that months *)
(* keep their lengths. The sums, the variable spending and the band around  *)
(* the path are left out: the model asks which movements are expected.      *)
(****************************************************************************)
EXTENDS Integers, FiniteSets, FiniteSetsExt

CONSTANTS
  LastMonth, FirstDay,  \* the months 0 .. LastMonth and the day each begins
  Bills,
  DueDay,               \* the day of the month each falls due
  Late,                 \* by how many days each may be posted late, or early
  Slow,                 \* the bills that may be pending for a while
  New,                  \* the bills without a history
  CardOf, NoCard,       \* settlementCompany: the card whose debit a bill is
  Past,                 \* the months of the history
  LastDay,              \* bound on the days
  Horizon               \* how many days the forecast looks ahead

VARIABLES
  now,     \* today
  bank,    \* the rows at the bank
  stored,  \* the rows of the last sync
  known    \* the debit days of the cards the syncs have brought
vars == <<now, bank, stored, known>>

MonthLength(month) == FirstDay[month + 1] - FirstDay[month]
MonthOf(day) == CHOOSE m \in 0 .. LastMonth - 1 : FirstDay[m] <= day /\ day < FirstDay[m + 1]
\* The day of a month, or its last day.
On(month, day) == FirstDay[month] + Min({day, MonthLength(month)}) - 1
Due(bill, month) == On(month, DueDay[bill])
Cards == {CardOf[b] : b \in Bills} \ {NoCard}

\* The calendar reaches beyond all that is forecast; the history ends before the last day.
CalendarIsLongEnough ==
  /\ LastMonth \in Nat /\ LastDay \in Nat /\ Horizon \in Nat
  /\ FirstDay \in [0 .. LastMonth -> Nat]
  /\ \A m \in 0 .. LastMonth - 1 : MonthLength(m) \in 28 .. 31
  /\ LastDay + Horizon < FirstDay[LastMonth]
  /\ Past # {} /\ Past \subseteq 0 .. LastMonth - 2
  /\ FirstDay[Max(Past) + 1] <= LastDay

\* A bill is posted in the month it belongs to, and at most two days off. What is charged under
\* the names of one card is one debit: it has one day, and does not come before it.
BillsAreRegular ==
  /\ IsFiniteSet(Bills)
  /\ \A b \in Bills :
       /\ DueDay[b] \in 1 .. 31 /\ Late[b] # {} /\ Late[b] \subseteq -2 .. 2
       /\ \A m \in 0 .. LastMonth - 1, n \in Late[b] :
            FirstDay[m] <= Due(b, m) + n /\ Due(b, m) + n < FirstDay[m + 1]
  /\ \A b \in Bills : CardOf[b] # NoCard =>
       /\ Late[b] \subseteq 0 .. 2
       /\ \A c \in Bills : CardOf[c] = CardOf[b] => DueDay[c] = DueDay[b]
       /\ \E m \in 0 .. LastMonth - 1 : Due(b, m) > LastDay

ForecastAssumption == CalendarIsLongEnough /\ BillsAreRegular

Row(bill, day, status) == [bill |-> bill, day |-> day, status |-> status]

Init ==
  \E early \in [(Bills \ New) \X Past -> UNION {Late[b] : b \in Bills}] :
    /\ \A x \in DOMAIN early : early[x] \in Late[x[1]]
    /\ bank = {Row(x[1], Due(x[1], x[2]) + early[x], "completed") : x \in DOMAIN early}
    /\ now = FirstDay[Max(Past) + 1]
    /\ stored = bank
    /\ known = {}

----------------------------------------------------------------------------
(* detectRecurring.                                                         *)

RowsOf(bill) == {r \in stored : r.bill = bill /\ r.status = "completed"}
LastOf(bill) == Max({r.day : r \in RowsOf(bill)})

DayOf(r) == r.day - FirstDay[MonthOf(r.day)] + 1

\* Twice the median of the days of the month.
TwiceMedian(rows) ==
  LET n == Cardinality(rows)
      Ranked(k) == Min({DayOf(r) : r \in {r \in rows :
                          Cardinality({q \in rows : DayOf(q) <= DayOf(r)}) >= k}})
  IN  Ranked((n + 1) \div 2) + Ranked((n + 2) \div 2)
dayOfMonth(bill) == (TwiceMedian(RowsOf(bill)) + 1) \div 2

\* Two thirds of the gaps lie in the monthly band.
MonthlyGaps(bill) ==
  LET rows == RowsOf(bill)
      Gap(r) == r.day - Max({q.day : q \in {q \in rows : q.day < r.day}})
      later == {r \in rows : \E q \in rows : q.day < r.day}
  IN  3 * Cardinality({r \in later : Gap(r) \in 25 .. 35}) >= 2 * Cardinality(later)

\* monthlyStreamItem, where three quarters of the charges keep their day.
SteadyDay(bill) ==
  LET rows == RowsOf(bill)
      near == {r \in rows : 2 * DayOf(r) - TwiceMedian(rows) \in -6 .. 6}
  IN  Cardinality(rows) >= 3 /\ 4 * Cardinality(near) >= 3 * Cardinality(rows)

isActive(bill) == LastOf(bill) + 45 >= now

\* Amounts are identical, so that two charges are enough for the forecast.
Eligible(bill) ==
  Cardinality(RowsOf(bill)) >= 2 /\ (MonthlyGaps(bill) \/ SteadyDay(bill)) /\ isActive(bill)

----------------------------------------------------------------------------
(* The events of a forecast, each with the bills it stands for.             *)

Event(bills, day, source) == [bills |-> bills, day |-> day, source |-> source]
Ahead(day) == now < day /\ day <= now + Horizon

addMonthsClamped(day, months, ofMonth) == On(MonthOf(day) + months, ofMonth)

\* An occurrence that is not ahead is passed over.
Projected(bill) ==
  LET last == LastOf(bill)
      day == dayOfMonth(bill)
      Occurrence(k) == addMonthsClamped(last, k, day)
  IN  {Event({bill}, Occurrence(k), "recurring") :
         k \in {k \in 1 .. LastMonth - 1 - MonthOf(last) : Ahead(Occurrence(k))}}
projectEvents == UNION {Projected(b) : b \in {b \in Bills : Eligible(b)}}

\* Faulty variant: a debit that is known replaces one projected debit, not those of every name.
ConsumesOne(k, e) ==
  e.bills = {CHOOSE b \in Bills : CardOf[b] = k.card} /\ e.day - k.day \in -7 .. 7
\* The projected debits a known one replaces.
Consumes(k, e) == (\E b \in e.bills : CardOf[b] = k.card) /\ e.day - k.day \in -7 .. 7

Known == {k \in known : Ahead(k.day)}

PendingEvents ==
  {Event({r.bill}, IF r.day > now THEN r.day ELSE now + 1, "pending") :
     r \in {r \in stored : /\ r.status = "pending" /\ CardOf[r.bill] = NoCard
                           /\ ~Eligible(r.bill) /\ r.day >= now - 14}}

forecastBalance ==
  {e \in projectEvents : \A k \in Known : ~Consumes(k, e)}
  \union {Event({b \in Bills : CardOf[b] = k.card}, k.day, "known") : k \in Known}
  \union {e \in PendingEvents : Ahead(e.day)}

----------------------------------------------------------------------------
(* The bank, and the syncs.                                                 *)

Has(bill, month) == \E r \in bank : r.bill = bill /\ MonthOf(r.day) = month

Post(bill, status) ==
  /\ ~Has(bill, MonthOf(now)) /\ now - Due(bill, MonthOf(now)) \in Late[bill]
  /\ status = "completed" \/ bill \in Slow
  /\ bank' = bank \union {Row(bill, now, status)}
  /\ UNCHANGED <<now, stored, known>>

\* The row keeps its day.
Complete(r) ==
  /\ r \in bank /\ r.status = "pending"
  /\ bank' = (bank \ {r}) \union {[r EXCEPT !.status = "completed"]}
  /\ UNCHANGED <<now, stored, known>>

\* A bank posts a bill as late as its last day, and a row is pending for two days at most.
NextDay ==
  /\ now < LastDay
  /\ \A b \in Bills : Has(b, MonthOf(now)) \/ now < Due(b, MonthOf(now)) + Max(Late[b])
  /\ \A r \in bank : r.status = "pending" => now < r.day + 2
  /\ now' = now + 1
  /\ UNCHANGED <<bank, stored, known>>

\* The next debit of a card: its purchases name the day.
NextDebit(card) ==
  LET b == CHOOSE b \in Bills : CardOf[b] = card
  IN  Min({Due(b, m) : m \in {m \in 0 .. LastMonth - 1 : Due(b, m) > now}})

\* Whether a card has purchases in the cycle is open.
Sync ==
  \E cards \in SUBSET Cards :
    /\ stored' = bank
    /\ known' = known \union {[card |-> c, day |-> NextDebit(c)] : c \in cards}
    /\ UNCHANGED <<now, bank>>

Next ==
  \/ \E b \in Bills, status \in {"completed", "pending"} : Post(b, status)
  \/ \E r \in bank : Complete(r)
  \/ NextDay \/ Sync

Spec == Init /\ [][Next]_vars

----------------------------------------------------------------------------
(* Properties.                                                              *)

\* How far an event may be from the day the bill falls due.
Near == 5
For(e, bill, month) == bill \in e.bills /\ e.day - Due(bill, month) \in -Near .. Near
Posted(bill, month) == \E r \in RowsOf(bill) : MonthOf(r.day) = month
Months == 0 .. LastMonth - 1

\* A bill of a stream that is seen and falls due ahead is expected, however many names its card
\* has, whatever is known or pending, and whatever the lengths of the months (forecast.ts:519-521).
NothingIsMissed(events) ==
  \A b \in Bills, m \in Months :
    now + Near < Due(b, m) /\ Due(b, m) + Near <= now + Horizon /\ ~Posted(b, m) /\ Eligible(b)
      => \E e \in events : For(e, b, m)

\* No bill is expected twice, nor once it is in the balance (routes.ts:1255-1257).
NothingIsExpectedTwice(events) ==
  /\ \A e, f \in events :
       e # f => \A b \in e.bills \intersect f.bills : f.day - e.day \notin -20 .. 20
  /\ \A e \in events : \A b \in e.bills, m \in Months : For(e, b, m) => ~Posted(b, m)

\* Both, of one forecast.
ForecastIsExact ==
  LET events == forecastBalance IN NothingIsMissed(events) /\ NothingIsExpectedTwice(events)

\* A pending row is "free information for the next days" (routes.ts:1254) unless it is
\* "already projected" (routes.ts:1256).
PendingIsCounted ==
  \A r \in stored : r.status = "pending" /\ CardOf[r.bill] = NoCard /\ r.day >= now - 14
    => \E e \in forecastBalance :
         r.bill \in e.bills /\ (e.source = "pending" \/ For(e, r.bill, MonthOf(r.day)))
================================================================================
