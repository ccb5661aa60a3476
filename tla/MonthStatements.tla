---------------------------- MODULE MonthStatements ----------------------------
(****************************************************************************)
(* What the statements say of a month, and what the household is advised     *)
(* from them: the summary and the categories (txns.ts), the year (year.ts),  *)
(* the overview (overview.ts), the frame it declares with its proposal,      *)
(* split and drift (frame.ts), its savings target (target.ts), and what the  *)
(* plan and the review of a month take from these (routes.ts).  Every        *)
(* statement is computed from the rows by a filter and a sum of its own.     *)
(*                                                                          *)
(* Amounts are whole shekels, shares are thousandths, and what the code      *)
(* rounds to hundredths is rounded to these units.  Months are numbers.      *)
(****************************************************************************)
EXTENDS Integers, FiniteSets, FiniteSetsExt, Functions

CONSTANTS
  Rows, Month, Merchant, Category, Amount,  \* the facts of each row; an expense is negative
  Excluded,                   \* the rows the exclusion engine flags
  Slow,                       \* the rows that may be delivered pending
  Pasts,                      \* what of them a household may begin with
  Coming,                     \* the rows that are still to come
  Histories,                  \* and the frames it may have declared
  Essential, Unsteerable,     \* categories: not to be dropped; without a row of their own
  Other, Uncategorized, None,
  Monthly,                    \* the monthly equivalent of each merchant that has a stream
  Liquid,                     \* the bank and the liquid assets
  Frames, Rates,              \* what is declared
  YearLength,                 \* 12 in the code
  Window,                     \* monthsRequested
  FirstMonth, LastMonth       \* the running month at first, and at last

Months == 1 .. LastMonth
Year(m) == (m - 1) \div YearLength
MinMonths == 3
MaxSplit == 4                 \* maxRows

VARIABLES
  running,           \* cal.monthOf(today)
  status,            \* of each row: absent, pending, completed
  streams,           \* the merchants the detector knows
  live,              \* those of them that still charge
  frame_history,
  savingsTargetRate
vars == <<running, status, streams, live, frame_history, savingsTargetRate>>

StatementsAssumption ==
  /\ LastMonth \in Nat /\ FirstMonth \in Months /\ YearLength \in Nat \ {0} /\ Window \in Nat
  /\ IsFiniteSet(Rows) /\ IsFiniteSet(Essential) /\ IsFiniteSet(Unsteerable)
  /\ Month \in [Rows -> Months] /\ Amount \in [Rows -> Int]
  /\ DOMAIN Monthly \subseteq {Merchant[r] : r \in Rows} /\ \A m \in DOMAIN Monthly : Monthly[m] \in Nat
  /\ \A p \in Pasts : \A r \in p : Month[r] < FirstMonth
  /\ Coming \subseteq Rows
  /\ \A h \in Histories : DOMAIN h \subseteq 1 .. FirstMonth - 1
  /\ Rates \subseteq Int /\ Liquid \in Int \union {None}

Init ==
  /\ running = FirstMonth
  /\ \E p \in Pasts : status = [r \in Rows |-> IF r \in p THEN "completed" ELSE "absent"]
  /\ streams = {} /\ live = {}
  /\ frame_history \in Histories
  /\ savingsTargetRate = None

(* A sync brings a row, of this month or late of an earlier one, and later  *)
(* the completed one in place of a pending one.                             *)
Deliver(r) ==
  /\ status[r] = "absent" /\ Month[r] <= running
  /\ \E s \in {"completed"} \cup (IF r \in Slow THEN {"pending"} ELSE {}) : status' = [status EXCEPT ![r] = s]
  /\ UNCHANGED <<running, streams, live, frame_history, savingsTargetRate>>
Settle(r) ==
  /\ status[r] = "pending" /\ status' = [status EXCEPT ![r] = "completed"]
  /\ UNCHANGED <<running, streams, live, frame_history, savingsTargetRate>>
NextMonth ==
  /\ running < LastMonth /\ running' = running + 1
  /\ UNCHANGED <<status, streams, live, frame_history, savingsTargetRate>>
\* The detector finds a stream, or that it has not charged for too long: when, is left open.
Detect(m) ==
  /\ m \notin live /\ streams' = streams \cup {m} /\ live' = live \cup {m}
  /\ UNCHANGED <<running, status, frame_history, savingsTargetRate>>
Stops(m) ==
  /\ m \in live /\ live' = live \ {m}
  /\ UNCHANGED <<running, status, streams, frame_history, savingsTargetRate>>

Declared(m, a) == [k \in DOMAIN frame_history \cup {m} |-> IF k = m THEN a ELSE frame_history[k]]
\* None switches the frame off.
PutFrame(a) ==
  /\ frame_history' = Declared(running, a)
  /\ UNCHANGED <<running, status, streams, live, savingsTargetRate>>
\* Whole percents, and None for no target.
PutTarget(t) ==
  /\ t = None \/ t \in 10 .. 600
  /\ savingsTargetRate' = IF t = None THEN None ELSE ((t + 5) \div 10) * 10
  /\ UNCHANGED <<running, status, streams, live, frame_history>>

Next ==
  \/ NextMonth
  \/ \E r \in Coming : Deliver(r) \/ Settle(r)
  \/ \E m \in DOMAIN Monthly : Detect(m) \/ Stops(m)
  \/ \E a \in Frames \cup {None} : PutFrame(a)
  \/ \E t \in Rates \cup {None} : PutTarget(t)
Spec == Init /\ [][Next]_vars
--------------------------------------------------------------------------------
(* Sums and statistics of a set of months.                                  *)

In(S) == SumFunctionOnSet(Amount, {r \in S : Amount[r] > 0})
Out(S) == SumFunctionOnSet([r \in Rows |-> -Amount[r]], {r \in S : Amount[r] < 0})
Larger(a, b) == IF a > b THEN a ELSE b
Smaller(a, b) == IF a < b THEN a ELSE b
\* Math.round of n / d.
Rounded(n, d) == (2 * n + d) \div (2 * d)
\* The k-th smallest value of a function.
Nth(f, k) ==
  LET graph == {<<m, f[m]>> : m \in DOMAIN f}
  IN CHOOSE x \in {p[2] : p \in graph} :
       /\ Cardinality({p \in graph : p[2] < x}) < k /\ k <= Cardinality({p \in graph : p[2] <= x})
TwiceMedian(f) ==
  LET n == Cardinality(DOMAIN f) IN
  IF n = 0 THEN 0 ELSE Nth(f, (n + 1) \div 2) + Nth(f, n \div 2 + 1)
median(f) == Rounded(TwiceMedian(f), 2)
\* What is reached in three of four months: the interpolated quarter.
reliableOf(f) ==
  LET i == Cardinality(DOMAIN f) - 1
      low == Nth(f, i \div 4 + 1)
  IN IF i < 0 THEN 0
     ELSE IF i % 4 = 0 THEN low
     ELSE Rounded(4 * low + (Nth(f, i \div 4 + 2) - low) * (i % 4), 4)
\* A round intention: fifties, and hundreds from 5000 on.
roundFrame(n, d) ==
  IF n <= 0 THEN 0
  ELSE LET step == IF n < 5000 * d THEN 50 ELSE 100 IN Rounded(n, d * step) * step
--------------------------------------------------------------------------------
(* The statements: each with its own filter, as in its own file.            *)

\* toMonthlySummary
SummaryRows(m) == {r \in Rows : Month[r] = m /\ status[r] = "completed" /\ r \notin Excluded}
income(m) == In(SummaryRows(m))
expenses(m) == Out(SummaryRows(m))
net(m) == income(m) - expenses(m)
Summaries == {m \in Months : SummaryRows(m) # {}}

\* toCategoryBreakdown
toCategoryBreakdown(m, c) ==
  Out({r \in Rows : /\ status[r] = "completed" /\ r \notin Excluded /\ Amount[r] < 0 /\ Month[r] = m
                    /\ c = IF Category[r] = None THEN Uncategorized ELSE Category[r]})

\* year.ts
countable == {r \in Rows : status[r] = "completed" /\ r \notin Excluded}
Named(r) == IF Category[r] = None THEN Other ELSE Category[r]
yearMonth(m) == {r \in countable : Month[r] = m}
yearCategory(m, c) == Out({r \in yearMonth(m) : Named(r) = c})
computeCategoryHistory(m, c) == Out({r \in countable : Amount[r] < 0 /\ Named(r) = c /\ Month[r] = m})
\* The months of a year that hold data in the year before, too.
shared(y) == {m \in Months : /\ Year(m) = y /\ m > YearLength
                             /\ yearMonth(m) # {} /\ yearMonth(m - YearLength) # {}}
sameMonths(S) == Out({r \in countable : Month[r] \in S})

\* Faulty variant: what the exclusion engine flags is not left out.
CarelessVariableRows == {r \in Rows : status[r] = "completed" /\ Amount[r] < 0 /\ Merchant[r] \notin live}
\* variableByMonth of frame.ts: what did not go to a live commitment
VariableRows == {r \in Rows : /\ status[r] = "completed" /\ r \notin Excluded /\ Amount[r] < 0
                              /\ Merchant[r] \notin live}
variable(m) == Out({r \in VariableRows : Month[r] = m})
byCategory(rows, m, c) == Out({r \in rows : Month[r] = m /\ Named(r) = c})
variableCategory(m, c) == byCategory(VariableRows, m, c)
VariableCategories == {Named(r) : r \in VariableRows}

\* monthlyPlan: of the running month only
PlanRows == {r \in Rows : Month[r] = running /\ status[r] = "completed" /\ r \notin Excluded}
fixedSoFar == Out({r \in PlanRows : Merchant[r] \in live})
variableSoFar == Out(PlanRows) - fixedSoFar
spentByCategory(c) == Out({r \in PlanRows : Merchant[r] \notin live /\ Named(r) = c})

\* GET /overview and rowFor: fixed is what went to a stream, dead or alive
fixedByMonth(m) == Out({r \in Rows : /\ status[r] = "completed" /\ r \notin Excluded /\ Amount[r] < 0
                                     /\ Merchant[r] \in streams /\ Month[r] = m})
overviewFixed(m) == Smaller(fixedByMonth(m), expenses(m))
overviewVariable(m) == Larger(0, expenses(m) - overviewFixed(m))
--------------------------------------------------------------------------------
(* The overview: windows of complete months.                                *)

Complete == {m \in Summaries : m < running}
windowMonths == {m \in running - Window .. running - 1 : \E k \in Complete : k <= m}
\* As many months before them, as far back as there is data.
prevMonths ==
  IF windowMonths = {} THEN {}
  ELSE {m \in Min(windowMonths) - Cardinality(windowMonths) .. Min(windowMonths) - 1 : \E k \in Complete : k <= m}
average(f) ==
  IF DOMAIN f = {} THEN 0 ELSE Rounded(SumFunction(f), Cardinality(DOMAIN f))
savingsRate(S) ==
  LET earned == SumFunction([m \in S |-> income(m)])
  IN IF earned < 1 THEN None ELSE Rounded(1000 * SumFunction([m \in S |-> net(m)]), earned)
currentPlusStreak ==
  Max({k \in 0 .. Cardinality(windowMonths) : \A m \in running - k .. running - 1 : net(m) > 0})
computeOverview ==
  LET held == {m \in windowMonths : income(m) >= 1 \/ expenses(m) >= 1}
      enough == Cardinality(prevMonths) >= 2
  IN [avgNet |-> average([m \in windowMonths |-> net(m)]), avgIncome |-> average([m \in windowMonths |-> income(m)]),
      avgExpenses |-> average([m \in windowMonths |-> expenses(m)]), savingsRate |-> savingsRate(windowMonths),
      prevAvgNet |-> IF enough THEN average([m \in prevMonths |-> net(m)]) ELSE None,
      greenMonths |-> Cardinality({m \in windowMonths : net(m) > 0}), streak |-> currentPlusStreak,
      best |-> {m \in held : \A k \in held : net(m) >= net(k)},
      worst |-> {m \in held : \A k \in held : net(m) <= net(k)}]
--------------------------------------------------------------------------------
(* The frame: the newest declaration that is not later than the month.      *)

\* Faulty variant: the newest declaration governs every month.
LatestFrame(m) == IF DOMAIN frame_history = {} THEN None ELSE frame_history[Max(DOMAIN frame_history)]
frameForMonth(m) ==
  LET before == {k \in DOMAIN frame_history : k <= m}
  IN IF before = {} THEN None ELSE frame_history[Max(before)]

\* proposeSplit over the months given to it: shares of the frame, for at most MaxSplit
\* categories that are worth a row.
proposeSplit(frame, S) ==
  LET rows == {r \in VariableRows : Month[r] \in S}
      medians == {<<c, TwiceMedian([m \in S |-> byCategory(rows, m, c)])>> : c \in {Named(r) : r \in rows}}
      ranked == {r \in medians : r[2] > 0}
      total == SumFunction([r \in ranked |-> r[2]])
      worth == {r \in ranked : r[1] \notin Unsteerable /\ 12 * r[2] >= total}
      named == CHOOSE T \in SUBSET worth :
                 /\ Cardinality(T) = Smaller(MaxSplit, Cardinality(worth))
                 /\ \A r \in T, d \in worth \ T : r[2] >= d[2]
  IN IF frame <= 0 \/ ranked = {} THEN [c \in {} |-> 0]
     ELSE [c \in {r[1] : r \in named} |-> roundFrame((CHOOSE r \in named : r[1] = c)[2] * frame, total)]
Shares(split) == SumFunction(split)
Rest(frame, split) == frame - Shares(split)
\* What is spent against each share, and against a rest that is shown only when it is positive.
splitProgress(frame, split, spent) ==
  [rows |-> [c \in DOMAIN split |-> spent[c]],
   rest |-> IF Rest(frame, split) > 0 THEN SumFunctionOnSet(spent, DOMAIN spent \ DOMAIN split) ELSE None]

\* The reality against the declaration, over the last three of the months given that had one.
computeDrift(S) ==
  LET judged == {m \in S : frameForMonth(m) # None /\ \E r \in VariableRows : Month[r] = m}
      last == {m \in judged : Cardinality({k \in judged : k > m}) < 3}
      spent == [m \in last |-> variable(m)]
      gap == [m \in last |-> spent[m] - frameForMonth(m)]
      size == Larger(TwiceMedian(gap), -TwiceMedian(gap))
  IN IF \/ Cardinality(last) < 3
        \/ (\E m \in last : gap[m] <= 0) /\ (\E m \in last : gap[m] >= 0)
        \/ size < 400 \/ 100 * size < 16 * frameForMonth(Max(last))
     THEN None
     ELSE [over |-> gap[Max(last)] > 0, gap |-> Rounded(size, 2), honestAmount |-> roundFrame(TwiceMedian(spent), 2)]

\* GET /months/:month/review
Review(m) ==
  LET frame == frameForMonth(m)
      prior == {k \in Months : k < m /\ \E r \in VariableRows : Month[r] = k}
      split == proposeSplit(frame, prior)
  IN IF frame = None THEN None
     ELSE [amount |-> frame, spent |-> variable(m), split |-> split,
           progress |-> splitProgress(frame, split, [c \in VariableCategories |-> variableCategory(m, c)])]
ReviewDrift(m) == computeDrift({k \in Months : k <= m /\ \E r \in VariableRows : Month[r] = k})

\* monthlyPlan's card of the frame
historyMonths == {m \in Summaries : m < running /\ variable(m) > 0}
FrameCard ==
  LET frame == frameForMonth(running)
      split == proposeSplit(frame, historyMonths)
  IN IF frame = None THEN None
     ELSE [amount |-> frame, spent |-> variableSoFar, split |-> split,
           progress |-> splitProgress(frame, split, [c \in VariableCategories |-> spentByCategory(c)])]
--------------------------------------------------------------------------------
(* The proposal of a frame, of which nothing is declared.                   *)

available == Cardinality(historyMonths) >= MinMonths
fixedMonthly == SumFunctionOnSet(Monthly, live)
reliableIncome == reliableOf([m \in Complete |-> income(m)])
medianVariable == median([m \in historyMonths |-> variable(m)])
essentialFloor ==
  median([m \in historyMonths |-> SumFunction([c \in Essential |-> variableCategory(m, c)])])
\* A share of the income is protected, a larger one while the cushion is thin.
setAside ==
  LET needed == essentialFloor + fixedMonthly
      thin == Liquid # None /\ needed > 0 /\ Liquid < 3 * needed
      rate == IF savingsTargetRate # None THEN savingsTargetRate ELSE IF thin THEN 150 ELSE 100
  IN Rounded(reliableIncome * rate, 1000)
freeSpace == reliableIncome - fixedMonthly - setAside
recommendedRaw ==
  IF freeSpace <= 0 THEN essentialFloor ELSE Smaller(medianVariable, freeSpace)
tight == roundFrame(essentialFloor * 11, 10)
recommended == roundFrame(Larger(recommendedRaw, tight), 1)
floorWon == freeSpace > 0 /\ recommended > roundFrame(recommendedRaw, 1)
comfortable == roundFrame(Larger(reliableIncome - fixedMonthly, recommended), 1)
leftOver == freeSpace - recommended
kept == leftOver >= 0
--------------------------------------------------------------------------------
(* The savings target.                                                      *)

Earning == {m \in Complete : income(m) > 0}
targetIncome == reliableOf([m \in Earning |-> income(m)])
targetAvailable == Cardinality(Earning) >= MinMonths
observedRate == median([m \in Earning |-> Rounded(1000 * net(m), income(m))])
targetFloor == IF available THEN essentialFloor ELSE 0
\* A target moves in fives of a percent.
stepDown(t) == Larger(0, (t \div 50) * 50)
stepUp(t) == -((-t) \div 50) * 50
maxRate ==
  IF targetIncome > 0 THEN Larger(0, Rounded(1000 * (targetIncome - fixedMonthly - targetFloor), targetIncome)) ELSE 0
cap == stepDown(maxRate)
suggestedRate ==
  LET wished == IF observedRate >= 200 THEN Smaller(400, Rounded(observedRate, 10) * 10)
                ELSE IF observedRate <= 0 THEN 50
                ELSE Larger(50, stepUp(observedRate + 20))
  IN IF cap <= 0 THEN 50 ELSE Smaller(wished, cap)
effectiveRate == IF savingsTargetRate # None THEN savingsTargetRate ELSE suggestedRate
leftForVariable == targetIncome - fixedMonthly - Rounded(targetIncome * effectiveRate, 1000)
feasible == leftForVariable >= targetFloor
--------------------------------------------------------------------------------
Categories == {Uncategorized} \cup Essential \cup Unsteerable \cup {Named(r) : r \in Rows}

\* What a statement is made of has arrived by the running month and was declared by it.
TypeOK ==
  /\ running \in Months
  /\ status \in [Rows -> {"absent", "pending", "completed"}]
  /\ \A r \in Rows : status[r] # "absent" => Month[r] <= running
  /\ live \subseteq streams /\ streams \subseteq DOMAIN Monthly
  /\ DOMAIN frame_history \subseteq 1 .. running
  /\ savingsTargetRate \in Nat \union {None}

(* All statements of a month say the same of it, whatever has arrived,      *)
(* settled or been detected: summary, categories, year, history of a        *)
(* category, the two halves of the overview and of the frame.  "Variable"   *)
(* has exactly one definition: the plan of the running month, its review    *)
(* and the frame's card cannot quote two numbers (frame.ts:46-50,           *)
(* routes.ts:2988-2992).                                                    *)
StatementsAgree ==
  /\ \A m \in Months :
       /\ SumFunction([c \in Categories |-> toCategoryBreakdown(m, c)]) = expenses(m)
       /\ In(yearMonth(m)) = income(m) /\ Out(yearMonth(m)) = expenses(m)
       /\ \A c \in Categories : computeCategoryHistory(m, c) = yearCategory(m, c)
       /\ SumFunction([c \in Categories |-> yearCategory(m, c)]) = expenses(m)
       /\ SumFunction([c \in Categories |-> variableCategory(m, c)]) = variable(m)
       /\ overviewFixed(m) + overviewVariable(m) = expenses(m)
       /\ overviewVariable(m) <= variable(m) /\ (streams = live => overviewVariable(m) = variable(m))
  /\ variable(running) = variableSoFar /\ FrameCard = Review(running)
  /\ \A y \in {Year(m) : m \in Months} :
       sameMonths(shared(y)) = SumFunction([m \in shared(y) |-> expenses(m)])

(* The three stances of a proposal are ordered, the recommended one invites *)
(* nobody to spend more than a median month or the floor, and where the     *)
(* promise is kept the month of a reliable income pays for commitments, the *)
(* set-aside and the whole frame (frame.ts:110-124, 327-346).               *)
PromiseIsSound ==
  available =>
    /\ tight <= recommended /\ recommended <= comfortable
    /\ recommended <= Larger(roundFrame(medianVariable, 1), tight) \/ freeSpace <= 0
    /\ kept => fixedMonthly + setAside + recommended <= reliableIncome
    /\ ~kept => freeSpace <= 0 \/ floorWon \/ leftOver >= -50

(* A target the application suggests can be carried: what it leaves is the  *)
(* essential floor, but for the rounding of the highest rate               *)
(* (target.ts:145-149, 176-182).                                            *)
SuggestionIsCarried ==
  targetAvailable /\ savingsTargetRate = None /\ cap > 0 =>
    leftForVariable + (targetIncome \div 2000) + 1 >= targetFloor

(* What is said of the months before the running one: their frame, its      *)
(* split and their drift, and every average, streak and baseline of         *)
(* complete months. A finished month stands if this is the same with and    *)
(* without what arrived and was declared in the running month               *)
(* (overview.ts:11-12, frame.ts:8-11).                                      *)
OfFinishedMonths ==
  [reviews |-> [m \in 1 .. running - 1 |-> <<Review(m), ReviewDrift(m)>>], overview |-> computeOverview,
   drift |-> computeDrift(Complete), baselines |-> <<reliableIncome, medianVariable, essentialFloor>>,
   rates |-> <<observedRate, maxRate>>]

(* The split always sums to the frame exactly (frame.ts:457,                *)
(* frame.test.ts:231): named rows that round up may exceed the frame, and   *)
(* the remainder is shown only when it is positive.                         *)
SplitSumsToFrame ==
  LET split == proposeSplit(frameForMonth(running), historyMonths)
  IN frameForMonth(running) # None /\ DOMAIN split # {} => Rest(frameForMonth(running), split) >= 0

(* The promise is broken only when the essential floor forced the frame     *)
(* above what the structure can carry (frame.ts:120-121): rounding a frame  *)
(* to fifties breaks it too.                                                *)
PromiseBreaksOnlyAtFloor == available /\ ~kept => freeSpace <= 0 \/ floorWon

(* The suggestion is capped by what the structure can carry                 *)
(* (target.ts:109-111): the highest rate is rounded up before the cap is    *)
(* taken from it, and the note then calls the suggestion infeasible.        *)
SuggestionIsFeasible ==
  targetAvailable /\ savingsTargetRate = None /\ cap > 0 => feasible

(* The month card and the review never differ in the drift (frame.ts:542):  *)
(* the review of the running month judges the month that is not complete.   *)
DriftsAgree == ReviewDrift(running) = computeDrift(Complete)

(* A finished month is never re-shaped by habits formed after it ended      *)
(* (routes.ts:3005-3006): a stream that is detected, or ends, moves its     *)
(* rows of finished months between fixed and variable.                      *)
FinishedMonthKeepsItsShape ==
  [][running' = running /\ status' = status => \A m \in 1 .. running - 1 : Review(m)' = Review(m)]_vars
================================================================================
