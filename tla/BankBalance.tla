------------------------------- MODULE BankBalance -------------------------------
(****************************************************************************)
(* What the household has in the bank: the balances that the syncs bring    *)
(* (account_snapshots, db.ts), the sum and the day latestBankSnapshot makes *)
(* of them, the balance the forecast starts from, which adds the movements  *)
(* since, and the daily curve backwards (routes.ts, balance-history.ts).    *)
(*                                                                          *)
(* A movement has a date and a tick at which the bank books it: a day has   *)
(* several ticks, and a movement may bear an earlier day than the one it is *)
(* booked on. A sync brings what is booked; whether a balance comes with it *)
(* is the scraper's (routes.ts:595). An account may be behind two           *)
(* connections, or none. A movement has one key, whoever brings it.         *)
(* Movements are completed and lie in the window; days are numbers.         *)
(****************************************************************************)
EXTENDS Integers, FiniteSets, FiniteSetsExt, Functions

CONSTANTS
  Connections,  \* ids, never reused
  Account,      \* the account behind each
  Cards,        \* those of them that are connections of a card company
  Opening,      \* account -> its balance at first
  Movements,    \* id -> [account, amount, date, booked]
  TicksPerDay, LastTick,
  MaxConnections,
  None

BankAssumption ==
  /\ Cards \subseteq Connections
  /\ \A c \in Connections : Opening[Account[c]] \in Int
  \* No account of a card company is one of a bank.
  /\ \A c \in Cards, k \in Connections \ Cards : Account[c] # Account[k]
  /\ IsFiniteSet(DOMAIN Movements)
  /\ \A i \in DOMAIN Movements :
       /\ Movements[i].amount \in Int /\ Movements[i].date \in Int /\ Movements[i].booked \in 1 .. LastTick
       /\ Movements[i].date <= Movements[i].booked \div TicksPerDay
  /\ TicksPerDay \in Nat \ {0} /\ LastTick \in Nat /\ MaxConnections \in Nat

VARIABLES
  clock,
  connections, \* those that exist
  added,       \* the ids handed out
  rows,        \* transactions: movement -> the connection that brought it first, partial
  snapshots    \* the latest of each connection: [balance, taken], partial
vars == <<clock, connections, added, rows, snapshots>>

Init ==
  /\ clock = 0
  /\ connections \in {C \in SUBSET Connections : C # {} /\ Cardinality(C) <= MaxConnections}
  /\ added = connections
  /\ rows = [i \in {} |-> None] /\ snapshots = [c \in {} |-> None]

--------------------------------------------------------------------------------
(* The bank.                                                                *)

Day(tick) == tick \div TicksPerDay
Total(S) == SumFunctionOnSet([i \in DOMAIN Movements |-> Movements[i].amount], S)
Of(a) == {i \in DOMAIN Movements : Movements[i].account = a}
Booked(a, tick) == {i \in Of(a) : Movements[i].booked <= tick}
AtBank(a, tick) == Opening[a] + Total(Booked(a, tick))

--------------------------------------------------------------------------------
(* What is said of it.                                                      *)

Dated(i) == Movements[i].date
Today == Day(clock)

\* latestBankSnapshot: the balances of the banks, and the last of their days.
\* Faulty variant: the cards report what they will debit.
AllSnaps == connections \intersect DOMAIN snapshots
BankSnaps == (connections \ Cards) \intersect DOMAIN snapshots
LatestBalance == SumFunctionOnSet([c \in DOMAIN snapshots |-> snapshots[c].balance], BankSnaps)
LatestDate == Max({Day(snapshots[c].taken) : c \in BankSnaps})
BankRows == {i \in DOMAIN rows : rows[i] \notin Cards}

\* What the forecast and the home screen start from.
\* Faulty variant: the day of the snapshot is counted again.
SinceInclusive == {i \in BankRows : LatestDate <= Dated(i) /\ Dated(i) <= Today}
Since == {i \in BankRows : LatestDate < Dated(i) /\ Dated(i) <= Today}
BalanceNow == LatestBalance + Total(Since)
\* What the plan and the advice take for the liquid money.
BankNow == LatestBalance

\* reconstructDailyBalances, from the first day of a row on.
FirstDay == Min({Dated(i) : i \in BankRows})
\* Faulty variant: a day's movements are taken off its own end.
CurveOff(d) == LatestBalance - Total({i \in BankRows : d <= Dated(i) /\ Dated(i) <= LatestDate})
Curve(d) == LatestBalance - Total({i \in BankRows : d < Dated(i) /\ Dated(i) <= LatestDate})

--------------------------------------------------------------------------------
(* What happens.                                                            *)

Tick ==
  /\ clock < LastTick /\ clock' = clock + 1
  /\ UNCHANGED <<connections, added, rows, snapshots>>

\* One connection of POST /sync, if it succeeds: insertTxnsForSync ignores a key that is stored.
Sync(c, reported) ==
  LET new == Booked(Account[c], clock) \ DOMAIN rows
  IN /\ rows' = [i \in DOMAIN rows \union new |-> IF i \in new THEN c ELSE rows[i]]
     /\ snapshots' = IF ~reported THEN snapshots
                     ELSE [k \in DOMAIN snapshots \union {c} |->
                             IF k = c THEN [balance |-> AtBank(Account[c], clock), taken |-> clock] ELSE snapshots[k]]
     /\ UNCHANGED <<clock, connections, added>>

AddConnection(c) ==
  /\ c \notin added /\ Cardinality(added) < MaxConnections
  /\ connections' = connections \union {c} /\ added' = added \union {c}
  /\ UNCHANGED <<clock, rows, snapshots>>

\* Its rows and its snapshots go with it.
DeleteConnection(c) ==
  /\ connections' = connections \ {c}
  /\ rows' = [i \in {j \in DOMAIN rows : rows[j] # c} |-> rows[i]]
  /\ snapshots' = [k \in DOMAIN snapshots \ {c} |-> snapshots[k]]
  /\ UNCHANGED <<clock, added>>

\* DELETE /data
Wipe ==
  /\ rows' = [i \in {} |-> None] /\ snapshots' = [c \in {} |-> None]
  /\ UNCHANGED <<clock, connections, added>>

Next ==
  \/ Tick \/ Wipe
  \/ \E c \in connections : DeleteConnection(c) \/ \E reported \in BOOLEAN : Sync(c, reported)
  \/ \E c \in Connections : AddConnection(c)

Spec == Init /\ [][Next]_vars

--------------------------------------------------------------------------------
(* Properties.                                                              *)

(* Rows and balances are of connections that exist, and as the bank had     *)
(* them when they were brought.                                             *)
Inv ==
  /\ clock \in 0 .. LastTick /\ connections \subseteq Connections
  /\ IsFiniteSet(DOMAIN snapshots) /\ DOMAIN snapshots \subseteq connections
  /\ \A c \in DOMAIN snapshots :
       snapshots[c].taken \in 0 .. clock /\ snapshots[c].balance = AtBank(Account[c], snapshots[c].taken)
  /\ DOMAIN rows \subseteq DOMAIN Movements
  /\ \A i \in DOMAIN rows :
       /\ rows[i] \in connections /\ Movements[i].account = Account[rows[i]]
       /\ Movements[i].booked <= clock

\* The bank connections that report.
Banks == DOMAIN snapshots \ Cards
\* No account has two connections that report it.
OneEach == \A c, k \in Banks : Account[c] = Account[k] => c = k
\* What a balance does not include is dated after the last day of all balances.
Current ==
  \A c \in Banks : \A i \in DOMAIN rows :
    Movements[i].account = Account[c] /\ Movements[i].booked > snapshots[c].taken => Dated(i) > LatestDate
\* What a balance includes is stored: no connection that had brought it was deleted.
Complete == \A c \in Banks : Booked(Account[c], snapshots[c].taken) \subseteq DOMAIN rows
\* Every row is of an account with a balance.
Covered == \A i \in BankRows : \E c \in Banks : Account[c] = Movements[i].account

\* What can be known: what the balances include, and the rows.
Reported == {Account[c] : c \in Banks}
Included == (UNION {Booked(Account[c], snapshots[c].taken) : c \in Banks}) \union BankRows
Openings == SumFunctionOnSet(Opening, Reported)

(* The balance the forecast starts from and the curve of the past are the   *)
(* household's money as far as it is known: every account once, every       *)
(* movement once, through failed and partial syncs, removed and added       *)
(* connections (routes.ts:1206-1207, 2336-2339). It takes that the accounts *)
(* report together and once each: the three properties below do not hold.   *)
BalanceIsTrue ==
  Banks # {} /\ OneEach /\ Current /\ Covered =>
    /\ BalanceNow = Openings + Total(Included)
    /\ Complete /\ BankRows # {} =>
         \A d \in FirstDay .. LatestDate : Curve(d) = Openings + Total({i \in Included : Dated(i) <= d})

(* An account counts once, whichever connections bring it (txns.ts:130-135).*)
AccountCountsOnce ==
  Banks # {} /\ Current /\ Covered => BalanceNow = Openings + Total(Included)

(* "Completed movements since then are already reality": none is left out   *)
(* (routes.ts:1206-1207). One that was booked after the sync of its day, or *)
(* that an account brought without a balance while another had one, is.     *)
NothingIsLeftOut ==
  Banks # {} /\ OneEach /\ Covered => BalanceNow = Openings + Total(Included)

(* Home and forecast, and plan and advice, read one balance.                *)
LiquidAgrees == Banks # {} => BankNow = BalanceNow
================================================================================
