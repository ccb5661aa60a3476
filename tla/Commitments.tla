------------------------------- MODULE Commitments -------------------------------
(****************************************************************************)
(* What a household has committed itself to, as three screens say it: the   *)
(* patterns over all rows (spendingPatterns of patterns.ts, which advice    *)
(* and health read too), and over the rows of the analysis window the       *)
(* forecast (forecastRecurring) and what the plan holds back (routes.ts,    *)
(* subscriptions.ts).                                                       *)
(*                                                                          *)
(* A steady merchant charges once a month, from a first month to a last     *)
(* one; a bursty one three times, on no steady day, so only the frequency   *)
(* path sees it. All charges lie on the first 12 days of a month, and the   *)
(* figures are read on its 20th: ages are whole months. The amounts are     *)
(* those of VouchedCharges and stay out, and so do purchases in             *)
(* installments, which commit by themselves.                                *)
(****************************************************************************)
EXTENDS Integers, FiniteSets, FiniteSetsExt

CONSTANTS
  Steady, Bursty,         \* the merchants
  Suggested,              \* the nature suggestNature reads in each
  Known,                  \* at first: the months each has charged in
  Ids,                    \* of rows typed by hand
  Names,                  \* what such a row may be called: a merchant, or another name
  FirstMonth, LastMonth,
  Window,                 \* months the analysis reads, this one included: 12
  MaxSaid,                \* bound: what the household says
  None

Merchants == Steady \union Bursty
Months == 1 .. LastMonth
Commitment == {"subscription", "fixed"}
Marks == {"subscription", "habit", "dismissed"}  \* a fixed charge goes the way of a subscription

CommitmentsAssumption ==
  /\ Steady \intersect Bursty = {}
  /\ Suggested \in [Merchants -> Commitment \union {"habit"}]
  /\ Known \in [Merchants -> SUBSET (1 .. FirstMonth)]
  /\ {"rhythm", "frequency", "detected", "promoted"} \intersect Ids = {}
  /\ None \notin Marks
  /\ LastMonth \in Nat /\ FirstMonth \in Months /\ Window \in Nat \ {0, 1} /\ MaxSaid \in Nat

VARIABLES
  today,      \* the running month
  charged,    \* merchant -> the months it charged in
  txnMarks,   \* per merchant and month, what its charges are marked as, or None
  muted,      \* recurring_overrides
  typed,      \* manual_recurring: id -> name, partial
  said        \* history: the mark last applied to each merchant, or None, and how much was said
vars == <<today, charged, txnMarks, muted, typed, said>>

Init ==
  /\ today = FirstMonth
  /\ charged = Known
  /\ txnMarks = [x \in Merchants |-> [m \in Months |-> None]]
  /\ muted = {}
  /\ typed = [i \in {} |-> None]
  /\ said = [words |-> 0, last |-> [x \in Merchants |-> None]]

--------------------------------------------------------------------------------
(* What is read off the charges.                                            *)

Analyzed == {m \in Months : today - Window < m /\ m <= today}
Charges(x, S) == charged[x] \intersect S
Age(x) == today - Max(charged[x])

\* detectRecurring: two charges a month apart, or more; and isActive, for 45 days.
Rhythmic(S) == {x \in Steady : Cardinality(Charges(x, S)) >= 2}
Fresh(x) == charged[x] # {} /\ Age(x) <= 1
\* Six charges of three months, nearly every month.
PerMonth(x) == IF x \in Bursty THEN 3 ELSE 1
Dense(x) == Cardinality(charged[x]) >= 3 /\ PerMonth(x) * Cardinality(charged[x]) >= 6
\* Faulty variant: what has a rhythm is taken as well.
FrequentAll == {x \in Merchants : Dense(x)}
Frequent == {x \in Merchants \ Rhythmic(Months) : Dense(x)}

\* deriveMerchantMarks: the dominant mark of the rows; of equals the first of the order.
Count(x, mark, S) == Cardinality({m \in Charges(x, S) : txnMarks[x][m] = mark})
Rank == [subscription |-> 1, habit |-> 2, dismissed |-> 3]
MarkOf(x, S) ==
  LET given == {k \in Marks : Count(x, k, S) > 0}
  IN IF given = {} THEN None
     ELSE CHOOSE k \in given :
            \A j \in given : \/ Count(x, k, S) > Count(x, j, S)
                             \/ Count(x, k, S) = Count(x, j, S) /\ Rank[k] <= Rank[j]

--------------------------------------------------------------------------------
(* The patterns.                                                            *)

Override(x) == MarkOf(x, Months)
Nature(x) == IF Override(x) \in {None, "dismissed"} THEN Suggested[x] ELSE Override(x)
\* staleAllowanceDays: 45 and 74 days for a steady one, 24 and 45 for a bursty one.
Alive(x) == Age(x) <= (IF x \in Steady THEN 1 ELSE 0) + (IF Nature(x) \in Commitment THEN 0 ELSE 1)
UserMarked(x) == Override(x) \in Marks \ {"dismissed"}
\* Faulty variant: what is merely detected counts.
CountsUnvouched(x) == Override(x) # "dismissed" /\ Nature(x) \in Commitment /\ Alive(x)
CountsAsCommitted(x) == Override(x) # "dismissed" /\ Nature(x) \in Commitment /\ Alive(x) /\ UserMarked(x)

Detected == Rhythmic(Months) \union Frequent
Pattern(name, by) == [name |-> name, by |-> by]
\* A typed row whose name was detected is skipped.
TypedBeside(S) == {Pattern(typed[i], i) : i \in {j \in DOMAIN typed : typed[j] \notin S}}
Patterns == {Pattern(x, "rhythm") : x \in Rhythmic(Months)} \union {Pattern(x, "frequency") : x \in Frequent}
            \union TypedBeside(Detected)
Committed == {p \in Patterns : p.by \in Ids \/ CountsAsCommitted(p.name)}

--------------------------------------------------------------------------------
(* The forecast and the plan.                                               *)

Recurring == Rhythmic(Analyzed) \ muted
\* Faulty variant: promotes what the patterns do not list.
PromotedUnlisted ==
  {x \in Merchants \ Detected : Charges(x, Analyzed) # {} /\ MarkOf(x, Analyzed) \in Commitment}
Promoted ==
  {x \in Merchants \ Recurring : Charges(x, Analyzed) # {} /\ MarkOf(x, Analyzed) \in Commitment}
\* forecastRecurring: detected, typed and promoted.
Forecast == {Pattern(x, "detected") : x \in Recurring} \union {Pattern(x, "promoted") : x \in Promoted}
            \union TypedBeside(Recurring)
\* What is alive; a promoted bursty one for 11 days.
Expected ==
  {p \in Forecast : p.by \in Ids \/ (Fresh(p.name) /\ (p.name \in Bursty => Age(p.name) = 0))}

\* monthlyByMerchant: vouched for and alive, by its stream or for 70 days; and what was typed.
HeldBack ==
  {x \in Merchants : /\ MarkOf(x, Analyzed) \in Commitment
                     /\ (x \in Recurring /\ Fresh(x)) \/ (Charges(x, Analyzed) # {} /\ Age(x) <= 2)}
    \union {typed[i] : i \in DOMAIN typed}

--------------------------------------------------------------------------------
(* The world.                                                               *)

NextMonth ==
  /\ today < LastMonth
  /\ today' = today + 1
  /\ UNCHANGED <<charged, txnMarks, muted, typed, said>>

\* It charges from its first month until it stops.
Charge(x) ==
  /\ today \notin charged[x]
  /\ charged[x] = {} \/ today - 1 \in charged[x]
  /\ charged' = [charged EXCEPT ![x] = @ \union {today}]
  /\ UNCHANGED <<today, txnMarks, muted, typed, said>>

--------------------------------------------------------------------------------
(* The routes.                                                              *)

Says == said.words < MaxSaid
Word == [said EXCEPT !.words = @ + 1]

\* POST /setup/txn-mark/apply-merchant: the charges of the analysis window; None clears them.
Apply(x, mark) ==
  /\ Says
  /\ txnMarks' = [txnMarks EXCEPT ![x] = [m \in Months |-> IF m \in Charges(x, Analyzed) THEN mark ELSE @[m]]]
  /\ said' = [Word EXCEPT !.last[x] = mark]
  /\ UNCHANGED <<today, charged, muted, typed>>

\* POST /recurring/mute and /recurring/unmute
Mute(x) ==
  /\ Says /\ x \in Rhythmic(Analyzed) \ muted
  /\ muted' = muted \union {x} /\ said' = Word
  /\ UNCHANGED <<today, charged, txnMarks, typed>>
Unmute(x) ==
  /\ Says /\ x \in muted
  /\ muted' = muted \ {x} /\ said' = Word
  /\ UNCHANGED <<today, charged, txnMarks, typed>>

\* POST and DELETE /setup/manual-recurring
AddManual(i, name) ==
  /\ Says /\ i \notin DOMAIN typed
  /\ typed' = [j \in DOMAIN typed \union {i} |-> IF j = i THEN name ELSE typed[j]]
  /\ said' = Word
  /\ UNCHANGED <<today, charged, txnMarks, muted>>
DeleteManual(i) ==
  /\ Says
  /\ typed' = [j \in DOMAIN typed \ {i} |-> typed[j]] /\ said' = Word
  /\ UNCHANGED <<today, charged, txnMarks, muted>>

Next ==
  \/ NextMonth
  \/ \E x \in Merchants :
       \/ Charge(x) \/ Mute(x) \/ Unmute(x)
       \/ \E mark \in Marks \union {None} : Apply(x, mark)
  \/ \E i \in Ids, name \in Names : AddManual(i, name)
  \/ \E i \in DOMAIN typed : DeleteManual(i)

Spec == Init /\ [][Next]_vars

--------------------------------------------------------------------------------
(* Properties.                                                              *)

(* Every variable stays in its domain, and no merchant has charged yet in a *)
(* month to come.                                                           *)
TypeOK ==
  /\ today \in Months
  /\ charged \in [Merchants -> SUBSET (1 .. today)]
  /\ txnMarks \in [Merchants -> [Months -> Marks \union {None}]]
  /\ muted \subseteq Merchants
  /\ DOMAIN typed \subseteq Ids /\ \A i \in DOMAIN typed : typed[i] \in Names
  /\ said \in [words : 0 .. MaxSaid, last : [Merchants -> Marks \union {None}]]

(* The figure of what is spoken for counts nothing twice that was not typed *)
(* twice: a merchant enters by its rhythm, by its frequency or by hand      *)
(* (patterns.ts:367-369), and by detection only if one of its charges was   *)
(* marked so (patterns.ts:223-225).                                         *)
CommittedIsVouchedOnce ==
  \A p \in Committed :
    /\ \A q \in Committed : p.name = q.name /\ p.by # q.by => {p.by, q.by} \subseteq Ids
    /\ p.by \notin Ids => \E m \in charged[p.name] : txnMarks[p.name][m] \in Commitment

(* What the patterns count as committed, the forecast expects and the plan  *)
(* holds back, though these read the window only and each decides what is   *)
(* alive by itself: as long as the marks in the window say what those of    *)
(* all the rows do (routes.ts:1915-1916, 2294-2295).                        *)
CommittedIsExpected ==
  \A p \in Committed :
    p.by \in Ids \/ MarkOf(p.name, Analyzed) = Override(p.name) =>
      (\E q \in Expected : q.name = p.name) /\ p.name \in HeldBack

(* What the user last said of a merchant that still charges is what the     *)
(* patterns say (routes.ts:2158-2159). A mark reaches the charges of the    *)
(* window, the patterns count those of all rows.                            *)
LastWordStands ==
  \A x \in Merchants :
    said.last[x] # None /\ Charges(x, Analyzed) # {} => Override(x) = said.last[x]

(* What is muted enters no engine (routes.ts:1099).                         *)
MutesAgree == \A x \in muted : \A p \in Patterns : p.name # x

(* What was typed by hand is committed (patterns.ts:367-368); it is not     *)
(* once a detection of its name exists that nobody vouched for, that was    *)
(* dismissed or that stopped.                                               *)
TypedCounts == \A i \in DOMAIN typed : \E p \in Committed : p.name = typed[i]

(* The forecast lists a commitment once; typed and promoted, it lists two.  *)
ExpectedOnce ==
  \A p, q \in Forecast : p.name = q.name /\ p.by # q.by => {p.by, q.by} \subseteq Ids

(* What the plan holds back, the surface for commitment claims counts; a    *)
(* merchant that was marked and not yet detected is not on it.              *)
HeldBackIsCommitted == \A x \in HeldBack : \E p \in Committed : p.name = x
================================================================================
