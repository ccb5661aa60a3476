-------------------------------- MODULE MonthPlan --------------------------------
(***************************************************************************)
(* What one running month is expected to cost: monthlyPlan of routes.ts     *)
(* with buildExpectation of expectation.ts, from the month's first day to   *)
(* its last.  A merchant bills once a month on its day, or late, or not at  *)
(* all; the detector knows it as a stream or does not; the household may    *)
(* vouch for it.  Every read computes the plan anew from what is stored.    *)
(*                                                                          *)
(* The income, the target and the frame are parameters of the same          *)
(* subtraction and are left out; amounts are whole numbers.                 *)
(***************************************************************************)
EXTENDS Integers, FiniteSets, Functions

CONSTANTS Merchants,   \* who bills monthly
          Due,         \* the day of the month each bills on
          Bill,        \* and how much: the amount it is anchored to
          LastDay,     \* of the month
          Shopping,    \* what one other purchase costs
          MaxShopping  \* bound on those purchases

PlanAssumption ==
  /\ IsFiniteSet(Merchants) /\ LastDay \in Nat /\ Due \in [Merchants -> 1 .. LastDay]
  /\ Bill \in [Merchants -> Nat] /\ Shopping \in Nat /\ MaxShopping \in Nat

VARIABLES today, detected, vouched, billed, other
vars == <<today, detected, vouched, billed, other>>

Init == /\ today = 1 /\ detected = {} /\ vouched = {} /\ billed = {} /\ other = 0

NextDay == today < LastDay /\ today' = today + 1 /\ UNCHANGED <<detected, vouched, billed, other>>
\* A sync brings the bills of earlier months; the detector knows the stream from then on.
Learn(m) == /\ detected' = detected \cup {m} /\ UNCHANGED <<today, vouched, billed, other>>
\* The bill arrives, on its day or after it.
Charge(m) == /\ m \notin billed /\ today >= Due[m]
             /\ billed' = billed \cup {m} /\ UNCHANGED <<today, detected, vouched, other>>
Buy == /\ other < MaxShopping * Shopping
       /\ other' = other + Shopping /\ UNCHANGED <<today, detected, vouched, billed>>
Vouch(m) == /\ vouched' = vouched \cup {m} /\ UNCHANGED <<today, detected, billed, other>>
Unvouch(m) == /\ vouched' = vouched \ {m} /\ UNCHANGED <<today, detected, billed, other>>

Next == \/ NextDay \/ Buy
        \/ \E m \in Merchants : Learn(m) \/ Charge(m) \/ Vouch(m) \/ Unvouch(m)
Spec == Init /\ [][Next]_vars
-----------------------------------------------------------------------------
Sum(f(_), S) == SumFunctionOnSet([m \in S |-> f(m)], S)
Larger(a, b) == IF a > b THEN a ELSE b

\* projectEvents over the live streams: the stream's next date is this month's until it has
\* billed, and a date that is not after today is caught up into the next month.
ExpectedFixedEvents == {m \in detected : m \notin billed /\ Due[m] >= today + 1}

\* The fixed side is what the detector knows; all other spending is variable.
Spent(m) == IF m \in billed THEN Bill[m] ELSE 0
fixedSoFar == Sum(Spent, detected)
variableSoFar == Sum(Spent, Merchants \ detected) + other
fixedExpectedRemaining == Sum(LAMBDA m : Bill[m], ExpectedFixedEvents)
fixedTotal == fixedSoFar + fixedExpectedRemaining

\* buildExpectation: every bucket at the larger of what went out and what is committed.
fixedSpentByMerchant(m) == IF m \in detected THEN Spent(m) ELSE 0
monthlyByMerchant(m) == IF m \in vouched THEN Bill[m] ELSE 0
\* Faulty variant: what went out and what is committed are added.
SummedBucket(m) == fixedSpentByMerchant(m) + monthlyByMerchant(m)
Bucket(m) == Larger(fixedSpentByMerchant(m), monthlyByMerchant(m))
expectation == Sum(Bucket, Merchants) + variableSoFar

\* What leftToSpend subtracts from the month's income.
expectedSpendTotal == Larger(expectation, fixedTotal + variableSoFar)
-----------------------------------------------------------------------------
(* The bill of a vouched stream changes nothing of what is left to spend,   *)
(* when it arrives on its day, late, or after others: it was held back      *)
(* before it came and is spent after.  So does the passing of a day: a bill *)
(* that is overdue stays expected (expectation.ts:123-126).  This holds     *)
(* when the household vouched for every stream, and for streams only; the   *)
(* two properties below are about the other cases.                          *)
ExpectedIsHeldBack ==
  [][/\ <<today, billed>>' # <<today, billed>> /\ UNCHANGED <<detected, vouched, other>>
     /\ detected = vouched /\ billed' \subseteq billed \cup detected
     => expectedSpendTotal' = expectedSpendTotal]_vars

(* A detected charge the household has not vouched for reserves nothing     *)
(* (routes.ts:1558-1560): the plan costs what it would cost if nobody had   *)
(* detected the stream.  The lower bound with the calendar's remaining      *)
(* events reserves it all the same.                                         *)
UnconfirmedReservesNothing ==
  vouched \subseteq detected =>
    expectedSpendTotal <= Sum(LAMBDA m : Larger(Spent(m), monthlyByMerchant(m)), Merchants) + other

(* A bucket's expectation is the larger of what went out and what typically *)
(* does (expectation.ts:16): once the bill of a vouched merchant that the   *)
(* detector does not know has arrived, it counts as committed and again as  *)
(* variable spending.                                                       *)
BillCountsOnce ==
  detected \subseteq vouched =>
    expectedSpendTotal <= Sum(LAMBDA m : Larger(Spent(m), monthlyByMerchant(m)), Merchants) + other
=============================================================================
