--------------------------- MODULE MCTransactionStore ---------------------------
(* What the database of one profile holds and what is computed from it,     *)
(* each part explored by itself: the operations that replace the database,  *)
(* the categories of the transactions, the assets, the calendar of the      *)
(* household, what its sums leave out, the charges it vouched for, the plan *)
(* of a month and the forecast. `part` is one of Parts; the others rest.    *)
EXTENDS TransactionStore, Integers, FiniteSets, TLC

CONSTANTS Parts, Writes, Assets, grocer,
          Ids, Foreign, Quotes, NewAssets, Patches, Pastes, Handlers, MaxDay, MaxPoints,  \* ledger
          FlowMonths, FirstDay, Anchors, Shifts, Salary, Gifts, MaxRows,  \* calendar
          N, Fact, CardConnections, CompanyOf, Nobody,  \* exclusion
          Amounts, PerMonth, Window, LastMonth,  \* charges
          Payees, DueOn, Owes, MonthEnd, Shopping, MaxShopping,  \* plan
          CashMonths, CashFirst, Bills, DueDay, Late, Slow, New, CardOf, NoCard, Past,
          LastDay, Horizon  \* forecast

VARIABLES part,
          slot, step, live, archive, write,
          assets, timeline, nextId, rates, writes, preview, day, bankDay,
          anchor, incomes, cal, paid, today,
          connected, stored, taught,
          month, charges, txnMarks, expected, said, silenced,
          date, detected, vouched, billed, other,
          now, bank, fetched, known
operationVars == <<slot, step, live, archive, write>>
ledgerVars == <<assets, timeline, nextId, rates, writes, preview, day, bankDay>>
calendarVars == <<anchor, incomes, cal, paid, today>>
exclusionVars == <<connected, stored, taught>>
chargesVars == <<month, charges, txnMarks, expected, said, silenced>>
planVars == <<date, detected, vouched, billed, other>>
forecastVars == <<now, bank, fetched, known>>

--------------------------------------------------------------------------------
Ops == INSTANCE DatabaseOperations

(* Two rows of one merchant at one bank, the second also behind a second    *)
(* connection to it; a rule over both; one unknown sector.                  *)
MCKeys == {"k1", "k2"}
MCCashKeys == {"cash"}
MCCategories == {"other", "income"}
MCPatterns == {"p"}
MCSectors == {grocer}
MCFeed == 1 :> {"k1", "k2"} @@ 2 :> {"k2"}
MCMatches == "p" :> {"k1", "k2", "cash"}
MCLength == "p" :> 2
MCSector == "k1" :> grocer @@ "k2" :> Nothing @@ "cash" :> Nothing
MCSectorMap == grocer :> Nothing
MCWords == [k \in {"k1", "k2", "cash"} |-> Nothing]
MCMerchant == "k1" :> "shop" @@ "k2" :> "shop" @@ "cash" :> "kiosk"
MCCredit == [k \in {"k1", "k2", "cash"} |-> k = "k2"]
MCAge == "k1" :> 1 @@ "k2" :> 2 @@ "cash" :> 3
MCConnections == {1, 2}

(* A deposit and a loan of the bank, a row from before types that names the *)
(* deposit, and dollars.                                                    *)
NewAsset(t, k, c, says) == [type |-> t, kind |-> k, amount |-> 1, currency |-> c, says |-> says]
Patch(t, a, c) == [type |-> t, amount |-> a, currency |-> c]
MCNewAssets == {NewAsset("deposit", "asset", "ILS", Nothing), NewAsset("other", "liability", "ILS", "deposit"),
                NewAsset("other", "asset", "USD", Nothing)}
MCPatches == {Patch(Nothing, 2, Nothing), Patch("loan", Nothing, "EUR")}
MCPastes == {"deposit" :> 1 @@ "loan" :> 2}
MCIds == {1, 2}
MCForeign == {"USD", "EUR"}
MCQuotes == "USD" :> {3, 4} @@ "EUR" :> {5}
MCHandlers == {"h"}
Ledger == INSTANCE AssetLedger

(* Seven months; a payday up to 16 days early and 11 late.                  *)
MCFirstDay == [m \in 0 .. 7 |-> <<0, 31, 62, 90, 121, 151, 182, 212>>[m + 1]]
MCAnchors == {1, 10, 28}
MCShifts == {-16, -1, 0, 11}
MCGifts == {1, 3}
Calendar == INSTANCE FlowCalendar WITH LastMonth <- FlowMonths, rows <- incomes

(* Purchases, a refund, the debit that settles them, one that settles a     *)
(* refund, and a transfer in on another account of the bank.                *)
Movement(side, co, settles, account, on, amount, rail, pattern) ==
  [side |-> side, company |-> co, settles |-> settles, account |-> account, day |-> on,
   amount |-> amount, rail |-> rail, principal |-> FALSE, pattern |-> pattern]
MCFact == 1 :> Movement("card", "max", "none", "card", 1, -40, FALSE, "shop")
       @@ 2 :> Movement("card", "max", "none", "card", 1, 60, FALSE, "shop")
       @@ 3 :> Movement("bank", "leumi", "max", "a", 2, -100, FALSE, "max")
       @@ 4 :> Movement("card", "max", "none", "card", 3, -60, FALSE, "shop")
       @@ 5 :> Movement("bank", "leumi", "none", "b", 4, 100, TRUE, "bit")
       @@ 6 :> Movement("bank", "leumi", "max", "a", 5, 60, FALSE, "max")
MCConnected == {1, 2, 3}
MCCompanyOf == 1 :> "leumi" @@ 2 :> "max" @@ 3 :> "max"
Exclusion == INSTANCE FlowExclusion WITH Connections <- CardConnections, connections <- connected

(* A merchant that charges once a month, at three prices.                   *)
MCAmounts == {30, 60, 80}
Charges == INSTANCE VouchedCharges WITH None <- Nothing

(* Three monthly bills in a month of five days.                             *)
MCPayees == {"rent", "gym", "phone"}
MCDueOn == "rent" :> 1 @@ "gym" :> 3 @@ "phone" :> 4
MCOwes == "rent" :> 5 @@ "gym" :> 2 @@ "phone" :> 2
Plan == INSTANCE MonthPlan WITH
  Merchants <- Payees, Due <- DueOn, Bill <- Owes, LastDay <- MonthEnd, today <- date

(* January to March: a rent on the last of the month or two days before, a  *)
(* card that charges under two names, one of them late, and a bill that is  *)
(* new in March.                                                            *)
MCCashFirst == [m \in 0 .. 7 |-> <<0, 31, 59, 90, 120, 151, 181, 212>>[m + 1]]
MCBills == {"rent", "visa", "max", "gym"}
MCDueDay == "rent" :> 31 @@ "visa" :> 10 @@ "max" :> 10 @@ "gym" :> 3
MCLate == "rent" :> {-2, 0} @@ "visa" :> {0, 2} @@ "max" :> {0} @@ "gym" :> {0, 2}
MCSlow == {"rent", "gym"}
MCNew == {"gym"}
MCCardOf == "rent" :> "none" @@ "visa" :> "max" @@ "max" :> "max" @@ "gym" :> "none"
MCPast == {0, 1}
Forecast == INSTANCE CashForecast WITH
  FirstDay <- CashFirst, LastMonth <- CashMonths, stored <- fetched

ASSUME OperationsAssumption == Ops!AssetsAreWrites
ASSUME TransactionsAssumption == StoreAssumption
ASSUME LedgerAssumption == Ledger!LedgerAssumption
ASSUME CalendarAssumption == Calendar!FlowAssumption
ASSUME ExclusionAssumption == Exclusion!ExclusionAssumption
ASSUME ChargesAssumption == Charges!ChargesAssumption
ASSUME PlanAssumption == Plan!PlanAssumption
ASSUME CashAssumption == Forecast!ForecastAssumption

--------------------------------------------------------------------------------
MCInit ==
  /\ part \in Parts
  /\ Init /\ Ops!Init /\ Ledger!Init /\ Calendar!Init /\ Exclusion!Init /\ Charges!Init /\ Plan!Init
  /\ Forecast!Init
  /\ part # "store" => connections = {}
  /\ part # "calendar" => anchor = 1
  /\ part # "forecast" => \A r \in bank : r.day = Forecast!Due(r.bill, Forecast!MonthOf(r.day))

MCNext ==
  \/ /\ part = "store" /\ Next
     /\ UNCHANGED <<part, operationVars, ledgerVars, calendarVars, exclusionVars, chargesVars, planVars, forecastVars>>
  \/ /\ part = "operations" /\ Ops!Next
     /\ UNCHANGED <<part, vars, ledgerVars, calendarVars, exclusionVars, chargesVars, planVars, forecastVars>>
  \/ /\ part = "ledger" /\ Ledger!Next
     /\ UNCHANGED <<part, vars, operationVars, calendarVars, exclusionVars, chargesVars, planVars, forecastVars>>
  \/ /\ part = "calendar" /\ Calendar!Next
     /\ UNCHANGED <<part, vars, operationVars, ledgerVars, exclusionVars, chargesVars, planVars, forecastVars>>
  \/ /\ part = "exclusion" /\ Exclusion!Next
     /\ UNCHANGED <<part, vars, operationVars, ledgerVars, calendarVars, chargesVars, planVars, forecastVars>>
  \/ /\ part = "charges" /\ Charges!Next
     /\ UNCHANGED <<part, vars, operationVars, ledgerVars, calendarVars, exclusionVars, planVars, forecastVars>>
  \/ /\ part = "plan" /\ Plan!Next
     /\ UNCHANGED <<part, vars, operationVars, ledgerVars, calendarVars, exclusionVars, chargesVars, forecastVars>>
  \/ /\ part = "forecast" /\ Forecast!Next
     /\ UNCHANGED <<part, vars, operationVars, ledgerVars, calendarVars, exclusionVars, chargesVars, planVars>>

MCSpec ==
  /\ MCInit
  /\ [][MCNext]_<<part, vars, operationVars, ledgerVars, calendarVars, exclusionVars, chargesVars, planVars, forecastVars>>

\* NoVerdictLost of DatabaseOperations: no verdict or rule is lost, whatever was restored,
\* imported or wiped since (routes.ts:342).
NoVerdictLost == Ops!NoVerdictLost
\* TimelineIsExact and PresentAgrees of AssetLedger: the history of an asset is what it was
\* worth, and its last point is what the table says (db.ts:1118-1169).
LedgerIsSound == part = "ledger" =>
  Ledger!TimelineIsExact /\ Ledger!PresentAgrees
\* PasteIsTheFact of AssetLedger: what was confirmed is what is stored (routes.ts:2873).
PasteIsTheFact == Ledger!PasteIsTheFact
\* SalaryFundsItsMonth and FixedTailAgrees of FlowCalendar: a salary counts in one month,
\* whenever in the zone it comes, and what is still expected agrees (flow.ts:120-218).
MonthsAreSound == part = "calendar" =>
  Calendar!SalaryFundsItsMonth /\ Calendar!FixedTailAgrees
\* NothingCountsTwice of FlowExclusion: a purchase and its settlement are not both in the
\* sums, whatever connections come and go (companies.ts:249).
NothingCountsTwice == part = "exclusion" => Exclusion!NothingCountsTwice
\* DismissedStaysQuiet of VouchedCharges (routes.ts:2192).
DismissedStaysQuiet == part = "charges" => Charges!DismissedStaysQuiet
\* ExpectedIsHeldBack of MonthPlan: a vouched bill changes nothing when it comes
\* (expectation.ts:123).
ExpectedIsHeldBack == Plan!ExpectedIsHeldBack
\* ForecastIsExact of CashForecast: a bill that falls due ahead is expected, and once
\* (forecast.ts:519-521).
ForecastIsExact == part = "forecast" => Forecast!ForecastIsExact
================================================================================
