------------------------------ MODULE FlowExclusion ------------------------------
(***************************************************************************)
(* Which of the stored transactions count: flagExcluded of                  *)
(* server/src/companies.ts after dedupeAcrossConnections of txns.ts, over   *)
(* the rows, connections and teachings that a household accumulates.  Card  *)
(* spending is stored twice, as the card's rows and as the bank's rows that *)
(* settle them; one transaction may also arrive over two connections.       *)
(*                                                                          *)
(* A fact is one real transaction, numbered in the order of the dates; its  *)
(* text is what the code reads out of it: the card company a bank row       *)
(* settles, whether it names a transfer rail or the principal of a savings  *)
(* instrument, and its pattern.  All facts lie in one charge month.         *)
(***************************************************************************)
EXTENDS Integers, FiniteSets, FiniteSetsExt

CONSTANTS N,             \* how many facts there are
          Fact,          \* what is known of each: side, company, settles, account, day, amount, ...
          Connections,   \* numbers: the earlier connection has the lower one
          CompanyOf,     \* the company of a connection
          Nobody         \* a bank row that settles no card

Facts == 1 .. N

ExclusionAssumption ==
  /\ N \in Nat
  /\ \A f, g \in Facts : f < g => Fact[f].day <= Fact[g].day
  /\ Connections \subseteq Nat

VARIABLES connections, stored, taught
vars == <<connections, stored, taught>>

TaughtPatterns == {Fact[f].pattern : f \in Facts}
Cards == {Fact[f].company : f \in {x \in Facts : Fact[x].side = "card"}}

Init == connections = {} /\ stored = {} /\ taught = [p \in TaughtPatterns |-> "untaught"]

Connect(c) == /\ c \notin connections
              /\ connections' = connections \cup {c} /\ UNCHANGED <<stored, taught>>
\* deleteConnection: the transactions of a connection go with it.
Disconnect(c) == /\ c \in connections
                 /\ connections' = connections \ {c}
                 /\ stored' = {s \in stored : s[2] # c}
                 /\ UNCHANGED taught
\* A sync stores a row; the settlement and the purchases it pays for come in any order.
Store(f, c) == /\ c \in connections /\ CompanyOf[c] = Fact[f].company
               /\ stored' = stored \cup {<<f, c>>} /\ UNCHANGED <<connections, taught>>
Teach(p, class) == /\ taught' = [taught EXCEPT ![p] = class] /\ UNCHANGED <<connections, stored>>

Next == \/ \E c \in Connections : Connect(c) \/ Disconnect(c) \/ \E f \in Facts : Store(f, c)
        \/ \E p \in TaughtPatterns, class \in {"untaught", "internal", "flow"} : Teach(p, class)
Spec == Init /\ [][Next]_vars
-----------------------------------------------------------------------------
\* Faulty variant: every copy is kept.
KeepAll == stored
\* dedupeAcrossConnections: of the copies of a transaction, the earliest connection's.
dedupe == {s \in stored : \A t \in stored : t[1] = s[1] => s[2] <= t[2]}

Kept == {s[1] : s \in dedupe}
Side(f) == Fact[f].side
Amount(f) == Fact[f].amount
\* The net counts what was kept, a copy each.
Net(F) == MapThenSumSet(LAMBDA s : Amount(s[1]), {s \in dedupe : s[1] \in F})
Distance(x) == IF x < 0 THEN -x ELSE x

Details(card) == {f \in Kept : Side(f) = "card" /\ Fact[f].company = card}
connectedCardCompanies == {CompanyOf[c] : c \in connections} \cap Cards
Settlements(card) ==
  IF card \in connectedCardCompanies THEN {f \in Kept : Side(f) = "bank" /\ Fact[f].settles = card} ELSE {}
Settled(f) == Side(f) = "bank" /\ f \in Settlements(Fact[f].settles)

\* modeFor: which of the two representations of a card's month counts.
modeFor(card) ==
  LET details == Net(Details(card))
      net == Net(Settlements(card))
      debits == Net({f \in Settlements(card) : Amount(f) < 0})
  IN IF Details(card) = {} THEN "bank"
     ELSE IF debits # net /\ Distance(details - debits) <= 1 THEN "debits"
     ELSE IF Distance(details) >= Distance(net) - 1 THEN "all"
     ELSE "bank"

\* The first pass over the rows: why a row does not count, or "counts".
Arbitrated(f) == IF modeFor(Fact[f].settles) = "all" \/ (modeFor(Fact[f].settles) = "debits" /\ Amount(f) < 0)
                 THEN "settlement" ELSE "counts"
Partial(f) == /\ Side(f) = "card" /\ Settlements(Fact[f].company) # {}
              /\ modeFor(Fact[f].company) = "bank"
TaughtOr(f, reason) == IF taught[Fact[f].pattern] = "internal" THEN "manual"
                       ELSE IF taught[Fact[f].pattern] = "flow" THEN "counts"
                       ELSE reason
ByItself(f) == IF Side(f) = "bank" /\ Fact[f].principal THEN "savings" ELSE "counts"
FirstPass(f) == IF Settled(f) THEN Arbitrated(f)
                ELSE IF Partial(f) THEN "partial"
                ELSE TaughtOr(f, ByItself(f))

\* The second pass: exact opposites in two accounts, at most three days apart, one of them on a
\* transfer rail.  Every debit in the order of the dates takes the first credit that is left.
Pinned(f) == ~Settled(f) /\ taught[Fact[f].pattern] # "untaught"
Candidates == {f \in Kept : FirstPass(f) = "counts" /\ ~Pinned(f) /\ Amount(f) # 0 /\ Side(f) = "bank"}
MayPair(neg, pos) ==
  /\ Amount(neg) < 0 /\ Amount(pos) = -Amount(neg) /\ Fact[pos].account # Fact[neg].account
  /\ Distance(Fact[pos].day - Fact[neg].day) <= 3
  /\ Fact[neg].rail \/ Fact[pos].rail
PairsAmong(candidates) ==
  LET Upto[n \in 0 .. N] ==
        IF n = 0 THEN {}
        ELSE LET before == Upto[n - 1]
                 credits == {pos \in candidates \ before : MayPair(n, pos)}
             IN IF n \notin candidates \/ credits = {} THEN before ELSE before \cup {n, Min(credits)}
  IN Upto[N]

\* The rows that count, in the summary of the month and in everything built on it.
Counted == LET paired == PairsAmong(Candidates)
           IN {f \in Kept : FirstPass(f) = "counts" /\ f \notin paired}
-----------------------------------------------------------------------------
(* Nothing is counted twice: no transaction counts in two copies, and of a  *)
(* card's month either the purchases count or the bank's debits that pay    *)
(* for them, never both, whatever was taught, in whatever order the two     *)
(* sides arrived and whichever connections came and went                    *)
(* (companies.ts:248-254, 303-305; txns.ts:130-135).                        *)
NothingCountsTwice ==
  /\ \A s, t \in dedupe : s[1] = t[1] => s = t
  /\ \A card \in connectedCardCompanies :
       \/ Details(card) \cap Counted = {}
       \/ {f \in Settlements(card) : Amount(f) < 0} \cap Counted = {}

(* Of a card's month that both sides recorded exactly one side counts       *)
(* (companies.ts:249): the purchases or the debits are never both out       *)
(* of the month.  The pairing of transfers may take the debit out of a      *)
(* month whose purchases were excluded as partial.                          *)
ExactlyOneCounts ==
  \A card \in connectedCardCompanies :
    (\E f \in Settlements(card) : Amount(f) < 0) /\ (\E f \in Details(card) : Amount(f) < 0)
      /\ (\A f \in Details(card) : ~Pinned(f))
    => (Details(card) \cup Settlements(card)) \cap Counted # {}

(* The card's rows replace the bank's only when their net covers the        *)
(* settled net (companies.ts:251); the code compares magnitudes, so a       *)
(* refund alone covers a debit.                                             *)
DetailsCoverSettlement ==
  \A card \in connectedCardCompanies :
    (modeFor(card) = "all" /\ Net(Settlements(card)) < 0)
      => Net(Details(card)) <= Net(Settlements(card)) + 1
=============================================================================
