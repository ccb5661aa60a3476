------------------------------ MODULE VouchedCharges ------------------------------
(***************************************************************************)
(* What a household said of one merchant that charges it every month, and   *)
(* what the plan makes of it: the marks on single charges, the verdict on   *)
(* the merchant derived from them, the anchored monthly cost, its backfill, *)
(* and the change of price (routes.ts, subscriptions.ts, db.ts).            *)
(*                                                                          *)
(* Amounts are whole shekels and months numbers.  The charges are completed *)
(* card or bank debits that nothing sets aside.                             *)
(***************************************************************************)
EXTENDS Integers, FiniteSets, FiniteSetsExt, Functions

CONSTANTS Amounts,     \* what the merchant may charge
          PerMonth,    \* charges of one month, at most (an upgrade is a second one)
          Window,      \* months the analysis reads, this one included: 12
          LastMonth,   \* bound on the months
          None

ChargesAssumption ==
  /\ Amounts \subseteq Nat \ {0} /\ Window \in Nat \ {0} /\ LastMonth \in Nat /\ PerMonth \in Nat
  /\ None \notin Nat \cup [amount : Nat, alerted : Nat \cup {None}]

VARIABLES month,       \* the running month
          charges,     \* [month, nth, amount]
          txnMarks,    \* txn_marks: charge -> mark, partial
          expected,    \* merchant_expected: None or [amount, alerted]
          said,        \* history: the user's last word on the merchant
          silenced     \* history: the change the user last told to be quiet, since the anchor was set
vars == <<month, charges, txnMarks, expected, said, silenced>>

Marks == {"subscription", "dismissed"}
Init == /\ month = 1 /\ charges = {} /\ txnMarks = {}
        /\ expected = None /\ said = None /\ silenced = None

Analyzed == {c \in charges : c.month > month - Window}
MarkedAs(mark) == {c \in Analyzed : <<c, mark>> \in txnMarks}
\* deriveMerchantMarks: the dominant mark; a tie is a subscription.
Verdict == IF Cardinality(MarkedAs("subscription")) + Cardinality(MarkedAs("dismissed")) = 0 THEN None
           ELSE IF Cardinality(MarkedAs("subscription")) >= Cardinality(MarkedAs("dismissed"))
                THEN "subscription" ELSE "dismissed"
Committed == Verdict = "subscription"

\* monthlyTotals of the latest month before the running one, or of the latest at all.
Total(m) == SumFunctionOnSet([c \in Analyzed |-> c.amount], {c \in Analyzed : c.month = m})
Settled == {c.month : c \in Analyzed} \ {month}
Latest == Total(Max(Settled))
Backfill == IF Settled # {} THEN Latest ELSE Total(month)

Distance(a, b) == IF a < b THEN b - a ELSE a - b
\* subscriptionPriceChanges: by more than 15% and 15 shekels, and not the amount that was dismissed.
Tolerated(a, b) == 20 * Distance(a, b) <= Max({3 * a, 300})
Quiet(amount) == expected.alerted # None /\ Distance(amount, expected.alerted) <= 1
PriceChanged == /\ Committed /\ expected # None /\ Settled # {}
                /\ ~Tolerated(expected.amount, Latest) /\ ~Quiet(Latest)

-----------------------------------------------------------------------------
Charge(amount) ==
  LET nth == Cardinality({c \in charges : c.month = month}) + 1
  IN /\ nth <= PerMonth
     /\ charges' = charges \cup {[month |-> month, nth |-> nth, amount |-> amount]}
     /\ UNCHANGED <<month, txnMarks, expected, said, silenced>>
NewMonth == /\ month < LastMonth
            /\ month' = month + 1
            /\ UNCHANGED <<charges, txnMarks, expected, said, silenced>>

Remark(C, mark) == txnMarks' = {m \in txnMarks : m[1] \notin C} \cup (IF mark = None THEN {} ELSE C \X {mark})
Anchor(amount) == expected' = [amount |-> amount, alerted |-> None] /\ silenced' = None
Unanchor == expected' = None /\ silenced' = None

\* POST /setup/txn-mark
MarkOne(c, mark) == /\ Remark({c}, mark)
                    /\ said' = None
                    /\ UNCHANGED <<month, charges, expected, silenced>>
\* POST /setup/txn-mark/apply-merchant, with or without the amount the user points at.
ApplyToMerchant(mark, amount) ==
  /\ Analyzed # {}
  /\ Remark(Analyzed, mark) /\ said' = mark
  /\ IF mark = "subscription" THEN IF amount = None THEN UNCHANGED <<expected, silenced>> ELSE Anchor(amount)
                              ELSE Unanchor
  /\ UNCHANGED <<month, charges>>
\* POST /setup/subscription/expected, after a change was shown.
Reanchor == /\ PriceChanged
            /\ Anchor(Latest)
            /\ UNCHANGED <<month, charges, txnMarks, said>>
\* POST /setup/subscription/dismiss-change
DismissChange == /\ PriceChanged
                 /\ expected' = [expected EXCEPT !.alerted = Latest] /\ silenced' = Latest
                 /\ UNCHANGED <<month, charges, txnMarks, said>>
\* Faulty variant: the backfill does not ask for an anchor that is there.
MayAlwaysBackfill == Committed
MayBackfill == Committed /\ expected = None
\* subscriptionAnchors: every read of the setup page, the plan and the review heals the anchors.
ReadAnchors == /\ MayBackfill
               /\ expected' = [amount |-> Backfill, alerted |-> None]
               /\ UNCHANGED <<month, charges, txnMarks, said, silenced>>

Next == \/ \E amount \in Amounts : Charge(amount)
        \/ NewMonth \/ Reanchor \/ DismissChange \/ ReadAnchors
        \/ \E c \in Analyzed, mark \in Marks \cup {None} : MarkOne(c, mark)
        \/ \E mark \in Marks \cup {None}, amount \in {None} \cup {c.amount : c \in Analyzed} :
             ApplyToMerchant(mark, amount)
Spec == Init /\ [][Next]_vars
-----------------------------------------------------------------------------
(* A change of price the user dismissed is not shown again while the anchor *)
(* is the one it was dismissed for: not by a later charge of that price,    *)
(* not by the backfill that runs in every read, nor by a mark on another    *)
(* charge (routes.ts:2192, db.ts:1307).                                     *)
DismissedStaysQuiet ==
  silenced # None /\ PriceChanged => Distance(Latest, silenced) > 1

(* A merchant the user declared a subscription, and that charges every      *)
(* month, keeps that verdict (routes.ts:1575: "keeps its verdict forever"). *)
(* The verdict is derived from the marked charges of the analysis window,   *)
(* and a later charge bears no mark.                                        *)
VerdictHolds ==
  said = "subscription" /\ (\A m \in 1 .. month : \E c \in charges : c.month = m) => Committed

(* A merchant that is no tracked commitment has no anchored cost            *)
(* (routes.ts:2170); taking the mark off its only charge leaves one.        *)
UntrackedHasNoAnchor == (\A m \in txnMarks : m[2] # "subscription") => expected = None
=============================================================================
