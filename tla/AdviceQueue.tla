------------------------------- MODULE AdviceQueue -------------------------------
(****************************************************************************)
(* What a household is advised to do, what it answered, and the goals it    *)
(* set itself: buildAdvice of advice.ts over the patterns of patterns.ts,   *)
(* goalProgress of goals.ts, and the routes that store the verdicts and the *)
(* goals (routes.ts).  Every read computes the queue anew.                  *)
(*                                                                          *)
(* Four of the eleven rules are kept: a price that rose, a category that    *)
(* climbs, the cushion, and a commitment that stopped.  The others read     *)
(* other facts and go through the same queue.  A service charges once, in   *)
(* the middle of a month, until it is cancelled.  Values are in half        *)
(* shekels, as a median may be; prices, spending and goals in shekels.      *)
(****************************************************************************)
EXTENDS Integers, Sequences, FiniteSets, FiniteSetsExt, SequencesExt

CONSTANTS
  Services,             \* 1 .. n: the commitments, in the order patterns lists them
  Vouched,              \* those of them the household confirmed
  Prices,               \* what a charge of each may be
  Charged, Spending,    \* at first: the charges of each service, and per category and month
  Basket,               \* category -> what a purchase costs, partial
  Miscategorised,       \* the months with a purchase that is to be corrected
  Balances,             \* what the liquid money may be; None if no balance is known
  Typed,                \* goals typed by hand
  GoalIds,
  FirstMonth, LastMonth,
  Window,               \* months the analysis reads, this one included: 12
  Limit,                \* how many items the queue holds: 6
  MaxBaskets, MaxSaid,  \* bounds: purchases per category and month; verdicts and goals
  None

Categories == {"leisure", "groceries"}  \* one that can be steered, and an essential one
Months == 1 .. LastMonth

AdviceAssumption ==
  /\ Vouched \subseteq Services /\ Services \subseteq Nat
  /\ Prices \in [Services -> SUBSET Nat]
  /\ Charged \in [Services -> [1 .. FirstMonth - 1 -> Nat]]
  /\ Spending \in [Categories -> [1 .. FirstMonth - 1 -> Nat]]
  /\ {"leisure"} \subseteq DOMAIN Basket /\ DOMAIN Basket \subseteq Categories
  /\ \A c \in DOMAIN Basket : Basket[c] \in Nat
  /\ LastMonth \in Nat /\ FirstMonth \in Months /\ Miscategorised \subseteq Months
  /\ Window \in Nat /\ Limit \in Nat

VARIABLES
  now,           \* cal.monthOf(today)
  charges,       \* per service: what it charged in each month from the first on
  spent,         \* per category and month
  liquidTotal,
  advice_state,  \* key -> [status, value, certain], partial
  plan_goals,    \* id -> [type, of, start], partial; of: the ceiling or the target
  declined       \* history: the prices that the household dismissed or acted upon
vars == <<now, charges, spent, liquidTotal, advice_state, plan_goals, declined>>

Init ==
  /\ now = FirstMonth
  /\ charges = Charged
  /\ spent = [c \in Categories |-> [m \in Months |-> IF m < FirstMonth THEN Spending[c][m] ELSE 0]]
  /\ liquidTotal \in Balances
  /\ advice_state = [k \in {} |-> None] /\ plan_goals = [i \in {} |-> None]
  /\ declined = {}

--------------------------------------------------------------------------------
(* The patterns, and the months that are complete.                          *)

Nearest(n, d, unit) == ((2 * n + d * unit) \div (2 * d * unit)) * unit  \* of n/d
roundRate(n, d) == IF n < 100 * d THEN Max({25, Nearest(n, d, 25)})
                   ELSE Nearest(n, d, IF n < 1000 * d THEN 50 ELSE 100)

LastPrice(s) == charges[s][Len(charges[s])]
TwiceTypical(s) == LET q == SortSeq(charges[s], <) IN q[(Len(q) + 1) \div 2] + q[Len(q) \div 2 + 1]
Jump(s) == 2 * LastPrice(s) - TwiceTypical(s)  \* in half shekels
\* viewActive: 45 days after the last charge.
active(s) == Len(charges[s]) >= now - 1
countsAsCommitted(s) == active(s) /\ s \in Vouched

CompleteMonths ==
  {m \in Months : /\ now - Window < m /\ m < now
                  /\ (\E s \in Services : Len(charges[s]) >= m) \/ \E c \in Categories : spent[c][m] > 0}
Spend(c, S) == SumFunctionOnSet(spent[c], S)

--------------------------------------------------------------------------------
(* The queue.                                                               *)

Item(key, tier, value, kind, certain, seed, on) ==
  [key |-> key, tier |-> tier, value |-> value, kind |-> kind, certain |-> certain, seed |-> seed, on |-> on]
Seed(type, of) == [type |-> type, of |-> of]

\* Faulty variant: the key follows the jump, not the price.
HikeKeyOfJump(s) == <<"hike", s, Jump(s)>>
HikeKey(s) == <<"hike", s, LastPrice(s)>>
\* 1: by 10 shekels and by 12 percent of the typical charge, at least.
Hikes == {Item(HikeKey(s), 1, Jump(s), "saving", TRUE, None, s) :
            s \in {t \in Services : active(t) /\ Jump(t) >= 20 /\ 100 * Jump(t) >= 12 * TwiceTypical(t)}}
\* 7: the last three months against those before them.
Creeps ==
  LET complete == CompleteMonths
      recent == {m \in complete : Cardinality({l \in complete : l > m}) < 3}
      before == complete \ recent
      n == Cardinality(before)
      base == Spend("leisure", before)   \* of n months
      gap == n * Spend("leisure", recent) - 3 * base  \* of 3n
  IN IF Cardinality(complete) < 6 \/ base < 100 * n \/ 4 * gap < 3 * base \/ gap < 600 * n THEN {}
     ELSE {Item(<<"creep", "leisure", Nearest(base, n, 50)>>, 1, (2 * gap) \div (3 * n), "saving", FALSE,
                Seed("reduction", roundRate(base, n)), None)}
\* 8: the liquid money covers less than three months of what is essential.
Cushions ==
  LET complete == CompleteMonths
      n == Cardinality(complete)
      essential == Spend("groceries", complete)  \* of n months
      target == Nearest(3 * essential, n, 1)
  IN IF n < 3 \/ liquidTotal = None \/ essential = 0 THEN {}
     ELSE IF liquidTotal * n >= 3 * essential THEN {}
     ELSE {Item(<<"buffer", Nearest(target, 1, 500)>>, 0, 0, "resilience", TRUE, Seed("buffer", target), None)}
\* 11: what counts as committed and is not active.
Dead == {Item(<<"dead", s, Len(charges[s])>>, 2, TwiceTypical(s), "accuracy", TRUE, None, s) :
           s \in {t \in Services : countsAsCommitted(t) /\ ~active(t) /\ TwiceTypical(t) >= 40}}

suppressed == {k \in DOMAIN advice_state : advice_state[k].status # "accepted"}
Found == {a \in Hikes \union Creeps \union Cushions \union Dead : a.key \notin suppressed}
\* The order of the queue; between equals, the order the rules and the patterns come in.
Ahead(a, b) ==
  \/ a.tier < b.tier
  \/ a.tier = b.tier /\ a.value > b.value
  \/ a.tier = b.tier /\ a.value = b.value /\ a.on # None /\ (b.on = None \/ a.on < b.on)
Queue == LET found == Found IN {a \in found : Cardinality({b \in found : Ahead(b, a)}) < Limit}

SavedBy(K) == SumFunctionOnSet([k \in DOMAIN advice_state |-> advice_state[k].value],
                               {k \in K : advice_state[k].status = "done" /\ advice_state[k].certain})
\* Faulty variant: the value of what was done is what it is worth today.
savedToday ==
  LET done == {a \in Hikes : \E k \in suppressed : k = a.key /\ advice_state[k].status = "done"}
  IN SumFunctionOnSet([a \in done |-> a.value], done)
monthlySaved == SavedBy(DOMAIN advice_state)

--------------------------------------------------------------------------------
(* The goals.                                                               *)

\* Faulty variant: the running month is judged.
JudgedEarly(g) == {m \in CompleteMonths \union {now} : m >= g.start}
Judged(g) == {m \in CompleteMonths : m >= g.start}
Held(g) == {m \in Judged(g) : spent["leisure"][m] <= g.of}
\* What is said of a goal; a set-aside has no envelope and is not measured.
Standing(g) ==
  CASE g.type = "reduction" ->
         [judged |-> Cardinality(Judged(g)), held |-> Cardinality(Held(g)),
          onTrack |-> IF Judged(g) = {} THEN None ELSE 2 * Cardinality(Held(g)) >= Cardinality(Judged(g)),
          current |-> IF Judged(g) = {} THEN 0 ELSE spent["leisure"][Max(Judged(g))]]
    [] g.type = "buffer" ->
         [judged |-> Cardinality(Judged(g)), held |-> 0,
          onTrack |-> IF liquidTotal # None /\ liquidTotal >= g.of THEN TRUE ELSE None,
          current |-> IF liquidTotal = None THEN 0 ELSE liquidTotal]
    [] OTHER -> [judged |-> Cardinality(Judged(g)), held |-> 0, onTrack |-> None, current |-> 0]
goalProgress == [i \in DOMAIN plan_goals |-> Standing(plan_goals[i])]

--------------------------------------------------------------------------------
(* The world.                                                               *)

NextMonth ==
  /\ now < LastMonth /\ now' = now + 1
  /\ UNCHANGED <<charges, spent, liquidTotal, advice_state, plan_goals, declined>>

Charge(s, p) ==
  /\ Len(charges[s]) = now - 1
  /\ charges' = [charges EXCEPT ![s] = Append(@, p)]
  /\ UNCHANGED <<now, spent, liquidTotal, advice_state, plan_goals, declined>>

Buy(c) ==
  /\ spent[c][now] < MaxBaskets * Basket[c]
  /\ spent' = [spent EXCEPT ![c][now] = @ + Basket[c]]
  /\ UNCHANGED <<now, charges, liquidTotal, advice_state, plan_goals, declined>>

\* A purchase of a complete month is given another category.
Recategorise(m) ==
  /\ m < now /\ spent["leisure"][m] >= Basket["leisure"]
  /\ spent' = [spent EXCEPT !["leisure"][m] = @ - Basket["leisure"], !["groceries"][m] = @ + Basket["leisure"]]
  /\ UNCHANGED <<now, charges, liquidTotal, advice_state, plan_goals, declined>>

Balance(b) ==
  /\ liquidTotal' = b
  /\ UNCHANGED <<now, charges, spent, advice_state, plan_goals, declined>>

--------------------------------------------------------------------------------
(* The routes.                                                              *)

\* POST /advice/act of an item of the queue; any other is not found.
Act(a, status) ==
  /\ Cardinality(DOMAIN advice_state \union {a.key}) + Cardinality(DOMAIN plan_goals) <= MaxSaid
  /\ advice_state' = [k \in DOMAIN advice_state \union {a.key} |->
       IF k = a.key THEN [status |-> status, value |-> a.value, certain |-> a.kind = "saving" /\ a.certain]
       ELSE advice_state[k]]
  /\ declined' = IF status # "accepted" /\ a.key[1] = "hike"
                 THEN declined \union {[by |-> a.key, service |-> a.on, price |-> LastPrice(a.on)]} ELSE declined
  /\ UNCHANGED <<now, charges, spent, liquidTotal, plan_goals>>

Reset(key) ==
  /\ advice_state' = [k \in DOMAIN advice_state \ {key} |-> advice_state[k]]
  /\ declined' = {d \in declined : d.by # key}
  /\ UNCHANGED <<now, charges, spent, liquidTotal, plan_goals>>

\* POST /goals: a seed of the queue, or typed by hand.
CreateGoal(i, g) ==
  /\ i \in GoalIds \ DOMAIN plan_goals /\ Cardinality(DOMAIN advice_state) < MaxSaid
  /\ plan_goals' = [j \in DOMAIN plan_goals \union {i} |->
       IF j = i THEN [type |-> g.type, of |-> g.of, start |-> now] ELSE plan_goals[j]]
  /\ UNCHANGED <<now, charges, spent, liquidTotal, advice_state, declined>>

\* PUT /goals/:id; that a goal is closed changes nothing of how it is measured.
UpdateGoal(i, of) ==
  /\ plan_goals' = [plan_goals EXCEPT ![i].of = of]
  /\ UNCHANGED <<now, charges, spent, liquidTotal, advice_state, declined>>

DeleteGoal(i) ==
  /\ plan_goals' = [j \in DOMAIN plan_goals \ {i} |-> plan_goals[j]]
  /\ UNCHANGED <<now, charges, spent, liquidTotal, advice_state, declined>>

Seeds(queue) == Typed \union {a.seed : a \in {b \in queue : b.seed # None}}

Next ==
  \/ NextMonth
  \/ \E s \in Services : \E p \in Prices[s] : Charge(s, p)
  \/ \E c \in DOMAIN Basket : Buy(c)
  \/ \E m \in Miscategorised : Recategorise(m)
  \/ \E b \in Balances : Balance(b)
  \/ LET queue == Queue
     IN \/ \E a \in queue, status \in {"accepted", "dismissed", "done"} : Act(a, status)
        \/ \E i \in GoalIds, g \in Seeds(queue) : CreateGoal(i, g)
  \/ \E k \in DOMAIN advice_state : Reset(k)
  \/ \E i \in DOMAIN plan_goals, g \in Typed : g.type = plan_goals[i].type /\ UpdateGoal(i, g.of)
  \/ \E i \in DOMAIN plan_goals : DeleteGoal(i)

Spec == Init /\ [][Next]_vars

--------------------------------------------------------------------------------
(* Properties.                                                              *)

TypeOK ==
  /\ now \in Months
  /\ charges \in [Services -> Seq(Nat)] /\ \A s \in Services : Len(charges[s]) <= now
  /\ spent \in [Categories -> [Months -> Nat]]
  /\ \A i \in DOMAIN plan_goals :
       LET g == plan_goals[i] IN g.start \in 1 .. now /\ g = [type |-> g.type, of |-> g.of, start |-> g.start]

\* A price that is declined is one whose key the verdicts hold.
DeclinedIsHeld ==
  \A d \in declined : d.by = <<"hike", d.service, d.price>> /\ d.by \in suppressed

(* A price the household dismissed or acted upon is not proposed again      *)
(* while it is the price, however the typical charge moves under it         *)
(* (advice.ts:17-19); and what its decisions saved moves only with them,    *)
(* never with the data (routes.ts:1961-1962).                               *)
DeclinedStaysAway ==
  \A d \in declined : LastPrice(d.service) = d.price =>
    \A a \in Hikes : a.on = d.service => a.key \in suppressed
SavedIsFrozen == [][monthlySaved' # monthlySaved => advice_state' # advice_state]_vars

(* No goal is judged by a month before it was set (goals.ts:14-15).         *)
NoGoalClaimsThePast == \A i \in DOMAIN plan_goals : goalProgress[i].judged <= now - plan_goals[i].start

(* What was saved on a service is at most what its price ever rose by.      *)
NoShekelTwice ==
  \A s \in Services :
    SavedBy({k \in DOMAIN advice_state : k[1] = "hike" /\ k[2] = s})
      <= 2 * (Max(Range(charges[s])) - Min(Range(charges[s])))

(* A confirmed commitment that stopped is proposed for removal              *)
(* (advice.ts:596-598).                                                     *)
StoppedIsProposed ==
  \A s \in Vouched : ~active(s) => \E k \in DOMAIN advice_state \union {a.key : a \in Dead} : k[1] = "dead" /\ k[2] = s

(* An accepted item stays in the queue (routes.ts:1926) while it is found.  *)
AcceptedStays == \A a \in Found : a.key \in DOMAIN advice_state => a \in Queue

(* A goal remembers every complete month since it was set (goals.ts:32).    *)
GoalsRemember ==
  [][\A i \in DOMAIN plan_goals \cap DOMAIN plan_goals' :
       plan_goals'[i].start = plan_goals[i].start => goalProgress'[i].judged >= goalProgress[i].judged]_vars
================================================================================
