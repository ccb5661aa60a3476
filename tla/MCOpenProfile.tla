----------------------------- MODULE MCOpenProfile -----------------------------
(* What lies around the content of a profile, each part explored by itself: *)
(* the opening and upgrade of its database, the statements made of its      *)
(* months, what it has committed itself to and has in the bank, what the    *)
(* household is advised to do, and the window that shows it. `part` chooses *)
(* one at the start; the others rest in an initial state.                   *)
EXTENDS OpenProfile, Integers, SequencesExt, TLC

CONSTANTS Profiles, Slots,  \* of the window
          BankConnections, Account, CardConnections, Opening, Movements, TicksPerDay, LastTick,
          MaxConnections,  \* of the bank
          Steady, Bursty, Suggested, Known, RowIds, Names, FromMonth, ToMonth, CommitWindow,
          MaxWords,  \* of the commitments
          Services, Vouched, Prices, Charged, Spending, Basket, Miscategorised, Balances, Typed, GoalIds,
          FirstMonth, LastMonth, AdviceWindow, Limit, MaxBaskets, MaxSaid,  \* of the advice
          Entries, EntryMonth, Merchant, Category, Amount, Flagged, Slow, Pasts, Coming, Histories,
          Essential, Unsteerable, Other, Uncategorized, Monthly, Liquid, Frames, Rates,
          YearLength, StatementWindow, StartMonth, EndMonth,  \* of the statements
          None

VARIABLES part,
          existing, registry, view, shown, switching, syncing, lastSync, failures, task,
          running, status, streams, live, frame_history, savingsTargetRate,
          now, charges, spent, liquidTotal, advice_state, plan_goals, declined,
          today, charged, txnMarks, muted, typed, said,
          clock, connections, added, rows, snapshots
windowVars == <<existing, registry, view, shown, switching, syncing, lastSync, failures, task>>
statementVars == <<running, status, streams, live, frame_history, savingsTargetRate>>
adviceVars == <<now, charges, spent, liquidTotal, advice_state, plan_goals, declined>>
commitmentVars == <<today, charged, txnMarks, muted, typed, said>>
bankVars == <<clock, connections, added, rows, snapshots>>

Client == INSTANCE ClientSession
ASSUME WindowAssumption == Client!SessionAssumption

--------------------------------------------------------------------------------
(* Three months of a household, as they may have been: with leisure and a   *)
(* card debit that is excluded, without either, on a low salary, or one     *)
(* month short. A purchase of the fourth month and a row of the third that  *)
(* has no category are still to come; the rent becomes a stream.            *)
Entry(m, who, c, a) == [month |-> m, merchant |-> who, category |-> c, amount |-> a]
MCEntry ==
  [r \in {"salary", "low", "rent", "market", "fun"} \X (1 .. 3) |->
     CASE r[1] = "salary" -> Entry(r[2], "job", "income", 8000 + 1000 * r[2])
       [] r[1] = "low" -> Entry(r[2], "job", "income", 5000)
       [] r[1] = "rent" -> Entry(r[2], "landlord", "housing", -4000)
       [] r[1] = "market" -> Entry(r[2], "market", "groceries", -3000)
       [] r[1] = "fun" -> Entry(r[2], "fun", "leisure", -1300)]
  @@ <<"debit", 3>> :> Entry(3, "card", "transfers", -900) @@ <<"kiosk", 3>> :> Entry(3, "kiosk", None, -250)
  @@ <<"market", 4>> :> Entry(4, "market", "groceries", -2000)
MCOf(kinds, months) == {r \in DOMAIN MCEntry : r[1] \in kinds /\ r[2] \in months}
MCPasts == {MCOf({"salary", "rent", "market", "fun", "debit"}, 1 .. 3), MCOf({"salary", "rent", "market"}, 1 .. 3),
            MCOf({"low", "rent", "market", "fun"}, 1 .. 3), MCOf({"salary", "rent", "market"}, 2 .. 3)}
MCMonthOf == [r \in DOMAIN MCEntry |-> MCEntry[r].month]
MCWho == [r \in DOMAIN MCEntry |-> MCEntry[r].merchant]
MCWhat == [r \in DOMAIN MCEntry |-> MCEntry[r].category]
MCHowMuch == [r \in DOMAIN MCEntry |-> MCEntry[r].amount]
MCHistories == {1 :> 4000, [m \in {} |-> 0]}
MCStream == "landlord" :> 4126
MCDebits == {<<"debit", 3>>}
MCSlowRows == {<<"market", 4>>}
MCComing == {<<"market", 4>>, <<"kiosk", 3>>}
MCEssential == {"groceries"}
MCUnsteerable == {"other", "transfers"}
MCFrames == {4000}
MCRates == {300}
MCEntries == DOMAIN MCEntry
Statements == INSTANCE MonthStatements WITH
  Rows <- Entries, Month <- EntryMonth, Excluded <- Flagged,
  Window <- StatementWindow, FirstMonth <- StartMonth, LastMonth <- EndMonth
(* The same without what arrived and was declared in the running month.     *)
Before == INSTANCE MonthStatements WITH
  Rows <- Entries, Month <- EntryMonth, Excluded <- Flagged,
  Window <- StatementWindow, FirstMonth <- StartMonth, LastMonth <- EndMonth,
  status <- [r \in Entries |-> IF EntryMonth[r] < running THEN status[r] ELSE "absent"],
  frame_history <- [m \in DOMAIN frame_history \cap (1 .. running - 1) |-> frame_history[m]]

ASSUME MonthsAssumption == Statements!StatementsAssumption

--------------------------------------------------------------------------------
(* A service whose price has risen and may rise again, another that may     *)
(* rise once, a category that climbs and a cushion that is thin; a window   *)
(* of seven months, so that its start moves.                                *)
MCServices == {1, 2}
MCVouched == {1}
MCCharged == 1 :> <<30, 30, 30, 30, 40, 40>> @@ 2 :> <<20, 20, 20, 20, 20, 20>>
MCPrices == 1 :> {60} @@ 2 :> {40}
MCSpending == "leisure" :> <<400, 400, 400, 900, 900, 900>> @@ "groceries" :> [m \in 1 .. 6 |-> 2000]
MCBasket == "leisure" :> 500
MCBalances == {None, 5000}
MCTyped == {[type |-> "reduction", of |-> 600], [type |-> "set-aside", of |-> 0]}
MCMiscategorised == {6}
MCGoalIds == {1}
Advice == INSTANCE AdviceQueue WITH Window <- AdviceWindow
(* The same before anything happened in the running month.                  *)
Unbegun == INSTANCE AdviceQueue WITH
  Window <- AdviceWindow,
  charges <- [x \in Services |-> IF Len(charges[x]) < now THEN charges[x] ELSE Front(charges[x])],
  spent <- [c \in DOMAIN spent |-> [spent[c] EXCEPT ![now] = 0]]

ASSUME QueueAssumption == Advice!AdviceAssumption

--------------------------------------------------------------------------------
(* A rent of six months, and a kiosk of two that is not yet dense.          *)
MCSteady == {"rent"}
MCBursty == {"kiosk"}
MCRowIds == {"first", "second"}
MCNames == {"rent", "kiosk", "cash"}
MCKnown == "rent" :> (1 .. 6) @@ "kiosk" :> {5, 6}
MCSuggested == "rent" :> "fixed" @@ "kiosk" :> "habit"
Commit == INSTANCE Commitments WITH
  Ids <- RowIds, FirstMonth <- FromMonth, LastMonth <- ToMonth, Window <- CommitWindow, MaxSaid <- MaxWords

ASSUME ChargesAssumption == Commit!CommitmentsAssumption

(* A joint account behind two connections, another, and a card. Two ticks a *)
(* day: a movement is booked after the first sync of its day, another is    *)
(* dated the day before it is booked.                                       *)
MCMovement(a, n, d, b) == [account |-> a, amount |-> n, date |-> d, booked |-> b]
MCMovements ==
  1 :> MCMovement("joint", 100, 1, 2) @@ 2 :> MCMovement("joint", -7, 1, 3) @@ 3 :> MCMovement("own", 20, 1, 3)
  @@ 4 :> MCMovement("joint", -30, 2, 4) @@ 5 :> MCMovement("own", -5, 1, 4) @@ 6 :> MCMovement("card", -11, 1, 2)
MCAccount == 1 :> "joint" @@ 2 :> "joint" @@ 3 :> "own" @@ 4 :> "card"
MCOpening == "joint" :> 1000 @@ "own" :> 300 @@ "card" :> -50
MCBankConnections == 1 .. 4
MCCardConnections == {4}
Bank == INSTANCE BankBalance WITH Connections <- BankConnections, Cards <- CardConnections

ASSUME BankAssumption == Bank!BankAssumption

--------------------------------------------------------------------------------
MCInit == /\ part \in {"opening", "statements", "commitments", "bank", "advice", "window"}
          /\ Init /\ Statements!Init /\ Commit!Init /\ Bank!Init /\ Advice!Init /\ Client!Init
          /\ part # "opening" => db = Absent /\ ~blob /\ manual = {}
          /\ part # "window" => /\ existing = Profiles /\ registry = CHOOSE p \in Profiles : TRUE
                                /\ task[CHOOSE s \in Slots : TRUE] # None
          /\ part # "advice" => liquidTotal = None
          /\ part # "bank" => connections = {CHOOSE c \in BankConnections : TRUE}
          /\ part # "statements" =>
               /\ frame_history = CHOOSE h \in Histories : TRUE
               /\ {r \in Entries : status[r] # "absent"} = CHOOSE p \in Pasts : TRUE
MCNext ==
  \/ part = "opening" /\ Next /\ UNCHANGED <<part, statementVars, commitmentVars, bankVars, adviceVars, windowVars>>
  \/ part = "statements" /\ Statements!Next /\ UNCHANGED <<part, vars, commitmentVars, bankVars, adviceVars, windowVars>>
  \/ part = "commitments" /\ Commit!Next /\ UNCHANGED <<part, vars, statementVars, bankVars, adviceVars, windowVars>>
  \/ part = "bank" /\ Bank!Next /\ UNCHANGED <<part, vars, statementVars, commitmentVars, adviceVars, windowVars>>
  \/ part = "advice" /\ Advice!Next /\ UNCHANGED <<part, vars, statementVars, commitmentVars, bankVars, windowVars>>
  \/ part = "window" /\ Client!Next /\ UNCHANGED <<part, vars, statementVars, commitmentVars, bankVars, adviceVars>>

\* The fairness of the window, while it is explored.
MCFairness ==
  \A s \in Slots :
    /\ WF_windowVars(part = "window" /\ Client!Serve(s))
    /\ WF_windowVars(part = "window" /\ Client!Continue(s))
MCSpec == MCInit /\ [][MCNext]_<<part, vars, statementVars, commitmentVars, bankVars, adviceVars, windowVars>> /\ MCFairness

\* FailuresAreTheirs of ClientSession: what a sync reports is shown to the profile it synced
\* (App.tsx:361, 583).
FailuresAreTheirs == Client!FailuresAreTheirs
\* LocksAreReleased of ClientSession: the switcher and the sync button are free again in the
\* end (App.tsx:405, 417, 595).
LocksAreReleased == Client!LocksAreReleased
\* StatementsAgree, PromiseIsSound and SuggestionIsCarried of MonthStatements: no two statements
\* quote two numbers for one month, and what is proposed can be kept (frame.ts:46-50). And what
\* is said of a finished month and of averages is the same with and without what arrived and was
\* declared in the running month (overview.ts:11-12, frame.ts:8-11).
StatementsAreSound == part = "statements" =>
  /\ Statements!StatementsAgree /\ Statements!PromiseIsSound /\ Statements!SuggestionIsCarried
  /\ Statements!OfFinishedMonths = Before!OfFinishedMonths
\* CommittedIsVouchedOnce and CommittedIsExpected of Commitments: what is spoken for counts once
\* and only when vouched for, and the forecast and the plan know it (patterns.ts:367-369,
\* routes.ts:2294-2295).
CommitmentsAgree == part = "commitments" => Commit!CommittedIsVouchedOnce /\ Commit!CommittedIsExpected
\* BalanceIsTrue of BankBalance: the balance the forecast starts from, and the curve of the past,
\* are the household's money (routes.ts:1206-1207, 2336-2339).
BalanceIsTrue == part = "bank" => Bank!BalanceIsTrue
\* DeclinedStaysAway and SavedIsFrozen of AdviceQueue: what the household declined stays away,
\* and what it saved moves with its verdicts only (advice.ts:17-19, routes.ts:1961-1962). And no
\* goal is judged by the running month or by one before it was set, nor a category proposed for
\* what is bought in the running month (goals.ts:14-17, advice.ts:425-426).
AdviceStands ==
  /\ [](part = "advice" => /\ Advice!DeclinedStaysAway /\ Advice!NoGoalClaimsThePast
                           /\ Unbegun!goalProgress = Advice!goalProgress /\ Unbegun!Creeps = Advice!Creeps)
  /\ Advice!SavedIsFrozen
================================================================================
