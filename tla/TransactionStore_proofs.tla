------------------------ MODULE TransactionStore_proofs ------------------------
(* Proofs about what the database of a profile holds: TransactionStore, for *)
(* every set of connections, rows, categories, patterns and sectors,        *)
(* whatever a bank delivers, and what is computed from it, for every        *)
(* instance of its parts.                                                   *)
EXTENDS MCTransactionStore, Sequences, SumLemmas, TLAPS

--------------------------------------------------------------------------------
(* What the tiers say.                                                      *)

LEMMA LongestRuleMatches ==
  ASSUME StoreAssumption, NEW k \in AllKeys, NEW rs, Choices(rs, Patterns),
         \E p \in DOMAIN rs : k \in Matches[p]
  PROVE  LongestRule(k, rs) \in DOMAIN rs
<1> DEFINE S == {p \in DOMAIN rs : k \in Matches[p]}
<1>1. PICK n \in {0} \union {Length[p] : p \in Patterns} :
        \A p \in Patterns : k \in Matches[p] => Length[p] <= n
  BY DEF StoreAssumption
<1>2. n \in Nat /\ \A p \in S : Length[p] \in 0 .. n
  BY <1>1 DEF StoreAssumption, Choices
<1> DEFINE f == [p \in S |-> n - Length[p]]
<1>3. S # {} /\ f \in [S -> Nat]
  BY <1>2
<1>4. PICK p \in S : \A q \in S : f[p] <= f[q]
  BY <1>3, Least
<1>5. ASSUME NEW q \in S PROVE Length[q] <= Length[p]
  <2>1. n - Length[p] <= n - Length[q]
    BY <1>4
  <2>2. QED BY <1>2, <2>1
<1>6. p \in DOMAIN rs /\ k \in Matches[p] /\ \A q \in DOMAIN rs : k \in Matches[q] => Length[q] <= Length[p]
  BY <1>5
<1>7. QED BY <1>6 DEF LongestRule

(* The hint of a merchant is the category of one of its rows.               *)
LEMMA HintsAreCategories ==
  ASSUME StoreAssumption, NEW rs, Rows(rs)
  PROVE  Choices(Hints(rs), DOMAIN Hints(rs))
<1> DEFINE teachers == {k \in DOMAIN rs : rs[k].verdict.category # "other" /\ Trust(k, rs) > 0}
           IsBest(m, k) ==
             /\ Merchant[k] = m
             /\ \A j \in teachers : Merchant[j] = m =>
                  \/ Trust(j, rs) < Trust(k, rs)
                  \/ Trust(j, rs) = Trust(k, rs) /\ Age[k] <= Age[j]
           Best(m) == CHOOSE k \in teachers : IsBest(m, k)
<1>1. Hints(rs) = [m \in {Merchant[k] : k \in teachers} |-> rs[Best(m)].verdict.category]
  BY DEF Hints
<1>2. \A k \in DOMAIN rs : Trust(k, rs) \in 0 .. 3
  BY DEF Trust
<1>3. \A k \in teachers : rs[k].verdict.category \in Categories
  <2> SUFFICES ASSUME NEW k \in teachers PROVE rs[k].verdict.category \in Categories
    OBVIOUS
  <2>1. rs[k].verdict.source \in {"user", "rule", "issuer"}
    BY DEF Trust
  <2>2. rs[k].verdict \in Verdicts
    BY DEF Rows, Row
  <2>3. Nothing \notin Sources
    BY DEF StoreAssumption
  <2>4. QED BY <2>1, <2>2, <2>3 DEF Verdicts, Sources
<1>4. ASSUME NEW t \in teachers PROVE \E k \in teachers : IsBest(Merchant[t], k)
  <2> DEFINE S == {k \in teachers : Merchant[k] = Merchant[t]}
             distrust == [k \in S |-> 3 - Trust(k, rs)]
  <2>1. S # {} /\ distrust \in [S -> Nat]
    BY <1>2
  <2>2. PICK x \in S : \A y \in S : distrust[x] <= distrust[y]
    BY <2>1, Least
  <2>3. ASSUME NEW y \in S PROVE Trust(y, rs) <= Trust(x, rs)
    <3>1. 3 - Trust(x, rs) <= 3 - Trust(y, rs)
      BY <2>2
    <3>2. Trust(x, rs) \in 0 .. 3 /\ Trust(y, rs) \in 0 .. 3
      BY <1>2
    <3> HIDE DEF S
    <3>3. QED BY <3>1, <3>2
  <2> DEFINE U == {k \in S : Trust(k, rs) = Trust(x, rs)}
             age == [k \in U |-> Age[k]]
  <2>4. U # {} /\ age \in [U -> Nat]
    BY DEF Rows, StoreAssumption
  <2>5. PICK k \in U : \A j \in U : age[k] <= age[j]
    BY <2>4, Least
  <2>6. ASSUME NEW j \in S
        PROVE  Trust(j, rs) < Trust(k, rs) \/ (Trust(j, rs) = Trust(k, rs) /\ Age[k] <= Age[j])
    <3>1. Trust(j, rs) \in 0 .. 3 /\ Trust(k, rs) \in 0 .. 3 /\ Trust(j, rs) <= Trust(k, rs)
      BY <1>2, <2>3
    <3>2. CASE j \in U
      BY <2>5, <3>2
    <3>3. CASE j \notin U
      BY <3>1, <3>3
    <3>4. QED BY <3>2, <3>3
  <2>7. QED BY <2>6
<1>5. ASSUME NEW t \in teachers PROVE Best(Merchant[t]) \in teachers
  <2> HIDE DEF teachers, IsBest
  <2>1. QED BY <1>4
<1>6. QED
  <2> HIDE DEF teachers, Best
  <2>1. QED BY <1>1, <1>3, <1>5 DEF Choices

LEMMA ContextIsCurrent ==
  ASSUME StoreAssumption, NEW rs, Rows(rs)
  PROVE  /\ Context(rs).rules = rules /\ Context(rs).overrides = overrides
         /\ Choices(Context(rs).hints, DOMAIN Context(rs).hints)
BY HintsAreCategories DEF Context

(* Every row gets a category, from its rules first and its sector's mapping *)
(* second.                                                                  *)
LEMMA ResolveSpeaks ==
  ASSUME StoreAssumption, NEW k \in AllKeys, NEW ctx,
         Choices(ctx.rules, Patterns), Choices(ctx.overrides, Sectors),
         Choices(ctx.hints, DOMAIN ctx.hints)
  PROVE  /\ Resolve(k, ctx) \in Verdicts /\ Resolve(k, ctx) # NoVerdict
         /\ Resolve(k, ctx).source # "user"
         /\ (\E p \in DOMAIN ctx.rules : k \in Matches[p]) => Resolve(k, ctx).source = "rule"
         /\ Sector[k] \in DOMAIN ctx.overrides /\ Resolve(k, ctx).source # "rule"
              => Resolve(k, ctx).category = ctx.overrides[Sector[k]]
<1>1. \A c \in Categories, s \in Sources : Verdict(c, s) \in Verdicts /\ Verdict(c, s) # NoVerdict
  BY DEF Verdict, Verdicts, NoVerdict, StoreAssumption
<1>2. CASE \E p \in DOMAIN ctx.rules : k \in Matches[p]
  <2>1. LongestRule(k, ctx.rules) \in DOMAIN ctx.rules
    BY <1>2, LongestRuleMatches
  <2>2. Resolve(k, ctx) = Verdict(ctx.rules[LongestRule(k, ctx.rules)], "rule")
    BY <1>2 DEF Resolve
  <2>3. ctx.rules[LongestRule(k, ctx.rules)] \in Categories
    BY <2>1 DEF Choices
  <2>4. Resolve(k, ctx) \in Verdicts /\ Resolve(k, ctx) # NoVerdict
    BY <1>1, <2>2, <2>3 DEF Sources
  <2>5. Resolve(k, ctx).source = "rule"
    BY <2>2 DEF Verdict
  <2>6. QED BY <2>4, <2>5
<1>3. CASE ~\E p \in DOMAIN ctx.rules : k \in Matches[p]
  <2>1. CASE Sector[k] \in DOMAIN ctx.overrides
    <3>1. Resolve(k, ctx) = Verdict(ctx.overrides[Sector[k]], "issuer")
      BY <1>3, <2>1 DEF Resolve
    <3>2. ctx.overrides[Sector[k]] \in Categories
      BY <2>1 DEF Choices
    <3>3. Resolve(k, ctx) \in Verdicts /\ Resolve(k, ctx) # NoVerdict
      BY <1>1, <3>1, <3>2 DEF Sources
    <3>4. Resolve(k, ctx).source = "issuer" /\ Resolve(k, ctx).category = ctx.overrides[Sector[k]]
      BY <3>1 DEF Verdict
    <3>5. QED BY <1>3, <3>3, <3>4
  <2>2. CASE Sector[k] \notin DOMAIN ctx.overrides
    <3>1. PICK c \in Categories, s \in Sources : Resolve(k, ctx) = Verdict(c, s) /\ s # "user"
      <4>1. CASE Sector[k] # Nothing /\ SectorMap[Sector[k]] # Nothing
        <5>1. SectorMap[Sector[k]] \in Categories
          BY <4>1 DEF StoreAssumption
        <5>2. Resolve(k, ctx) = Verdict(SectorMap[Sector[k]], "issuer")
          BY <1>3, <2>2, <4>1 DEF Resolve
        <5>3. QED BY <5>1, <5>2 DEF Sources
      <4>2. CASE ~(Sector[k] # Nothing /\ SectorMap[Sector[k]] # Nothing) /\ Words[k] # Nothing
        <5>1. Words[k] \in Categories
          BY <4>2 DEF StoreAssumption
        <5>2. Resolve(k, ctx) = Verdict(Words[k], "auto")
          BY <1>3, <2>2, <4>2 DEF Resolve
        <5>3. QED BY <5>1, <5>2 DEF Sources
      <4>3. CASE ~(Sector[k] # Nothing /\ SectorMap[Sector[k]] # Nothing) /\ Words[k] = Nothing
        <5>1. {"other", "income"} \subseteq Categories
          BY DEF StoreAssumption
        <5>2. \/ Resolve(k, ctx) = Verdict(ctx.hints[Merchant[k]], "auto") /\ Merchant[k] \in DOMAIN ctx.hints
              \/ Resolve(k, ctx) = Verdict("income", "income")
              \/ Resolve(k, ctx) = Verdict("other", "auto")
          BY <1>3, <2>2, <4>3 DEF Resolve
        <5>3. QED BY <5>1, <5>2 DEF Sources, Choices
      <4>4. QED BY <4>1, <4>2, <4>3
    <3>2. QED BY <1>1, <1>3, <2>2, <3>1 DEF Verdict
  <2>3. QED BY <2>1, <2>2
<1>4. QED BY <1>2, <1>3

--------------------------------------------------------------------------------
(* What the writes to many rows do to each of them.                         *)

LEMMA JudgeRows ==
  ASSUME NEW rs, Rows(rs), NEW S, NEW v \in Verdicts
  PROVE  /\ Rows(Judge(rs, S, v)) /\ DOMAIN Judge(rs, S, v) = DOMAIN rs
         /\ \A k \in DOMAIN rs :
              /\ Judge(rs, S, v)[k].status = rs[k].status
              /\ Judge(rs, S, v)[k].connection = rs[k].connection
              /\ Judge(rs, S, v)[k].verdict = IF k \in S THEN v ELSE rs[k].verdict
              /\ k \notin S => Judge(rs, S, v)[k] = rs[k]
<1>1. \A k \in DOMAIN rs : rs[k] \in Row /\ k \in AllKeys
  BY DEF Rows
<1>2. \A r \in Row : /\ [r EXCEPT !.verdict = v] \in Row
                     /\ [r EXCEPT !.verdict = v].verdict = v
                     /\ [r EXCEPT !.verdict = v].status = r.status
                     /\ [r EXCEPT !.verdict = v].connection = r.connection
  BY DEF Row
<1>3. QED BY <1>1, <1>2 DEF Judge, Rows

LEMMA ResolvedRows ==
  ASSUME StoreAssumption, NEW rs, Rows(rs), NEW S, NEW ctx,
         Choices(ctx.rules, Patterns), Choices(ctx.overrides, Sectors),
         Choices(ctx.hints, DOMAIN ctx.hints)
  PROVE  /\ Rows(Resolved(rs, S, ctx)) /\ DOMAIN Resolved(rs, S, ctx) = DOMAIN rs
         /\ \A k \in DOMAIN rs :
              /\ Resolved(rs, S, ctx)[k].status = rs[k].status
              /\ Resolved(rs, S, ctx)[k].connection = rs[k].connection
              /\ Resolved(rs, S, ctx)[k].verdict = IF k \in S THEN Resolve(k, ctx) ELSE rs[k].verdict
              /\ k \notin S => Resolved(rs, S, ctx)[k] = rs[k]
<1>1. \A k \in DOMAIN rs : rs[k] \in Row /\ k \in AllKeys
  BY DEF Rows
<1>2. \A k \in DOMAIN rs : Resolve(k, ctx) \in Verdicts
  BY <1>1, ResolveSpeaks
<1>3. \A r \in Row, v \in Verdicts :
        /\ [r EXCEPT !.verdict = v] \in Row
        /\ [r EXCEPT !.verdict = v].verdict = v
        /\ [r EXCEPT !.verdict = v].status = r.status
        /\ [r EXCEPT !.verdict = v].connection = r.connection
  BY DEF Row
<1>4. QED BY <1>1, <1>2, <1>3 DEF Resolved, Rows

LEMMA WithChoices ==
  ASSUME NEW f, NEW S, Choices(f, S), NEW x \in S, NEW c \in Categories
  PROVE  /\ Choices(With(f, x, c), S) /\ DOMAIN With(f, x, c) = DOMAIN f \union {x}
         /\ With(f, x, c)[x] = c
         /\ \A y \in DOMAIN f \ {x} : With(f, x, c)[y] = f[y]
BY DEF With, Choices

LEMMA WithoutChoices ==
  ASSUME NEW f, NEW S, Choices(f, S), NEW T
  PROVE  /\ Choices(Without(f, T), S) /\ DOMAIN Without(f, T) = DOMAIN f \ T
         /\ \A y \in DOMAIN f \ T : Without(f, T)[y] = f[y]
BY DEF Without, Restrict, Choices

--------------------------------------------------------------------------------
(* The invariant, row by row: r is a category-bearing row as the standing   *)
(* orders want it.                                                          *)
Obeys(k, r) ==
  /\ r.status = "completed" /\ r.connection # Cash => r.verdict # NoVerdict
  /\ k \notin CashKeys =>
       /\ r.status = "completed" /\ (\E p \in DOMAIN rules : k \in Matches[p])
            => r.verdict.source \in {"rule", "user"}
       /\ Sector[k] \in DOMAIN overrides /\ r.verdict.source \in Machine \union {"issuer"}
            => r.verdict.category = overrides[Sector[k]]

LEMMA RowsObey ==
  ScrapedRowsAreCategorized /\ StandingOrdersReachEveryRow
    <=> (stamped => \A k \in Stored : Obeys(k, rows[k]))
BY DEF ScrapedRowsAreCategorized, StandingOrdersReachEveryRow, Obeys

LEMMA RowsObeyNext ==
  (ScrapedRowsAreCategorized /\ StandingOrdersReachEveryRow)'
    <=> (stamped' => \A k \in DOMAIN rows' : Obeys(k, rows[k])')
BY DEF ScrapedRowsAreCategorized, StandingOrdersReachEveryRow, Obeys, Stored

(* A row judged by the engine, under the rules and mappings of ctx.         *)
LEMMA ResolvedObeys ==
  ASSUME StoreAssumption, NEW k \in AllKeys, NEW ctx,
         Choices(ctx.rules, Patterns), Choices(ctx.overrides, Sectors),
         Choices(ctx.hints, DOMAIN ctx.hints),
         ctx.rules = rules, ctx.overrides = overrides,
         NEW r, r.verdict = Resolve(k, ctx)
  PROVE  Obeys(k, r)
BY ResolveSpeaks DEF Obeys, Machine

LEMMA ResolvedObeysNext ==
  ASSUME StoreAssumption, NEW k \in AllKeys, NEW ctx,
         Choices(ctx.rules, Patterns), Choices(ctx.overrides, Sectors),
         Choices(ctx.hints, DOMAIN ctx.hints),
         ctx.rules = rules', ctx.overrides = overrides',
         k \in DOMAIN rows', rows'[k].verdict = Resolve(k, ctx)
  PROVE  Obeys(k, rows[k])'
BY ResolveSpeaks DEF Obeys, Machine

(* A write behind the gate that leaves the statuses alone.                  *)
LEMMA WriteKeepsInv ==
  ASSUME StoreAssumption, Inv, Idle, UNCHANGED <<connections, added, stamped, sync, fed>>,
         Rows(rows'), Choices(rules', Patterns), Choices(overrides', Sectors),
         DOMAIN rows' \subseteq DOMAIN rows,
         \A k \in DOMAIN rows' :
           rows'[k].status = rows[k].status /\ rows'[k].connection = rows[k].connection,
         \A k \in DOMAIN rows' : Obeys(k, rows[k])'
  PROVE  Inv'
<1>1. TypeOK'
  BY DEF Inv, StoreIsSound, TypeOK
<1>2. PendingIsCurrent'
  BY DEF Inv, StoreIsSound, PendingIsCurrent, Pending
<1>3. UnstampedIsUntouched' /\ SyncIsCurrent'
  BY DEF Inv, Idle, UnstampedIsUntouched, SyncIsCurrent, Syncing, StoreAssumption
<1>4. QED BY <1>1, <1>2, <1>3, RowsObeyNext DEF Inv, StoreIsSound

LEMMA IdleIsStamped ==
  ASSUME StoreAssumption, Inv, Idle
  PROVE  Rows(rows) /\ Choices(rules, Patterns) /\ Choices(overrides, Sectors)
         /\ stamped /\ \A k \in DOMAIN rows : k \in AllKeys /\ Obeys(k, rows[k])
BY RowsObey DEF Inv, StoreIsSound, TypeOK, Rows, Idle, UnstampedIsUntouched, StoreAssumption, Stored

(* A row whose verdict stays obeys the same orders, and fewer rules.        *)
LEMMA KeptObeys ==
  ASSUME NEW k, Obeys(k, rows[k]), rows'[k].status = rows[k].status,
         rows'[k].connection = rows[k].connection, rows'[k].verdict = rows[k].verdict,
         UNCHANGED overrides, DOMAIN rules' \subseteq DOMAIN rules
  PROVE  Obeys(k, rows[k])'
BY DEF Obeys

(* What the user says of a row obeys any.                                   *)
LEMMA UserObeys ==
  ASSUME StoreAssumption, NEW c \in Categories
  PROVE  /\ Verdict(c, "user") \in Verdicts /\ Verdict(c, "rule") \in Verdicts
         /\ Verdict(c, "issuer") \in Verdicts
         /\ \A s \in {"user", "rule", "issuer"} :
              Verdict(c, s) # NoVerdict /\ Verdict(c, s).source = s /\ Verdict(c, s).category = c
         /\ \A k : rows'[k].verdict = Verdict(c, "user") => Obeys(k, rows[k])'
<1>1. /\ Verdict(c, "user") \in Verdicts /\ Verdict(c, "rule") \in Verdicts
      /\ Verdict(c, "issuer") \in Verdicts
  BY DEF Verdict, Verdicts, Sources
<1>2. \A s \in {"user", "rule", "issuer"} :
        Verdict(c, s) # NoVerdict /\ Verdict(c, s).source = s /\ Verdict(c, s).category = c
  <2>1. c # Nothing
    BY DEF StoreAssumption
  <2>2. QED BY <2>1 DEF Verdict, NoVerdict
<1>3. \A k : rows'[k].verdict = Verdict(c, "user") => Obeys(k, rows[k])'
  BY <1>2 DEF Obeys, Machine
<1>4. QED BY <1>1, <1>2, <1>3

LEMMA CategorizeKeepsInv ==
  ASSUME StoreAssumption, Inv, NEW k \in AllKeys, NEW c \in Categories, Categorize(k, c)
  PROVE  Inv'
<1>1. /\ Idle /\ rows' = Judge(rows, {k}, Verdict(c, "user"))
      /\ UNCHANGED <<connections, added, rules, overrides, stamped, sync, fed>>
  BY DEF Categorize
<1>2. Rows(rows) /\ \A j \in DOMAIN rows : Obeys(j, rows[j])
  BY <1>1, IdleIsStamped
<1>3. /\ Rows(rows') /\ DOMAIN rows' = DOMAIN rows
      /\ \A j \in DOMAIN rows :
           /\ rows'[j].status = rows[j].status /\ rows'[j].connection = rows[j].connection
           /\ rows'[j].verdict = IF j \in {k} THEN Verdict(c, "user") ELSE rows[j].verdict
  BY <1>1, <1>2, JudgeRows, UserObeys
<1>4. ASSUME NEW j \in DOMAIN rows' PROVE Obeys(j, rows[j])'
  BY <1>1, <1>2, <1>3, UserObeys, KeptObeys, ZenonT(30)
<1>5. QED BY <1>1, <1>3, <1>4, IdleIsStamped, WriteKeepsInv

(* A new rule reaches every row but the ones the user has judged.           *)
LEMMA CategorizeWithRuleKeepsInv ==
  ASSUME StoreAssumption, Inv, NEW k \in AllKeys, NEW c \in Categories, NEW p \in Patterns,
         CategorizeWithRule(k, c, p)
  PROVE  Inv'
<1> DEFINE judged == Judge(rows, {k}, Verdict(c, "user"))
           reached == {j \in DOMAIN judged : j \in Matches[p] /\ judged[j].verdict.source # "user"}
<1>1. /\ Idle /\ rows' = Judge(judged, reached, Verdict(c, "rule"))
      /\ rules' = With(rules, p, c)
      /\ UNCHANGED <<connections, added, overrides, stamped, sync, fed>>
  BY DEF CategorizeWithRule, Applied
<1>2. Rows(rows) /\ Choices(rules, Patterns) /\ \A j \in DOMAIN rows : Obeys(j, rows[j])
  BY <1>1, IdleIsStamped
<1>3. /\ Rows(judged) /\ DOMAIN judged = DOMAIN rows
      /\ \A j \in DOMAIN rows :
           /\ judged[j].status = rows[j].status /\ judged[j].connection = rows[j].connection
           /\ judged[j].verdict = IF j \in {k} THEN Verdict(c, "user") ELSE rows[j].verdict
  BY <1>2, JudgeRows, UserObeys
<1> HIDE DEF judged
<1>4. /\ Rows(rows') /\ DOMAIN rows' = DOMAIN judged
      /\ \A j \in DOMAIN judged :
           /\ rows'[j].status = judged[j].status /\ rows'[j].connection = judged[j].connection
           /\ rows'[j].verdict = IF j \in reached THEN Verdict(c, "rule") ELSE judged[j].verdict
  BY <1>1, <1>3, JudgeRows, UserObeys
<1>5. Choices(rules', Patterns) /\ DOMAIN rules' = DOMAIN rules \union {p}
  BY <1>1, <1>2, WithChoices
<1>6. ASSUME NEW j \in DOMAIN rows' PROVE Obeys(j, rows[j])'
  <2>1. CASE j \in reached
    <3>1. rows'[j].verdict = Verdict(c, "rule")
      BY <1>3, <1>4, <2>1
    <3>2. QED BY <3>1, UserObeys DEF Obeys, Machine
  <2>2. CASE j \notin reached /\ j = k
    BY <1>3, <1>4, <2>2, UserObeys
  <2>3. CASE j \notin reached /\ j # k
    <3>1. rows'[j].verdict = rows[j].verdict /\ rows'[j].status = rows[j].status
          /\ rows'[j].connection = rows[j].connection /\ Obeys(j, rows[j])
      BY <1>2, <1>3, <1>4, <2>3
    <3>2. j \in Matches[p] => rows[j].verdict.source = "user"
      BY <1>3, <1>4, <2>3
    <3>3. QED BY <1>1, <1>5, <3>1, <3>2 DEF Obeys, Machine
  <2>4. QED BY <2>1, <2>2, <2>3
<1>7. QED BY <1>1, <1>3, <1>4, <1>5, <1>6, IdleIsStamped, WriteKeepsInv

(* A verdict taken back: a completed row is judged again at once.           *)
LEMMA UnjudgeKeepsInv ==
  ASSUME StoreAssumption, Inv, NEW k \in AllKeys, Unjudge(k)
  PROVE  Inv'
<1> DEFINE cleared == Judge(rows, {k}, NoVerdict)
           again == {k} \intersect Uncategorized(cleared)
           ctx == Context(cleared)
<1>1. /\ Idle /\ rows' = Resolved(cleared, again, ctx)
      /\ UNCHANGED <<connections, added, rules, overrides, stamped, sync, fed>>
  BY DEF Unjudge
<1>2. /\ Rows(rows) /\ Choices(rules, Patterns) /\ Choices(overrides, Sectors)
      /\ \A j \in DOMAIN rows : j \in AllKeys /\ Obeys(j, rows[j])
  BY <1>1, IdleIsStamped
<1>3. /\ Rows(cleared) /\ DOMAIN cleared = DOMAIN rows
      /\ \A j \in DOMAIN rows :
           /\ cleared[j].status = rows[j].status /\ cleared[j].connection = rows[j].connection
           /\ cleared[j].verdict = IF j \in {k} THEN NoVerdict ELSE rows[j].verdict
  <2>1. NoVerdict \in Verdicts
    BY DEF NoVerdict, Verdict, Verdicts
  <2>2. QED BY <1>2, <2>1, JudgeRows
<1> HIDE DEF cleared
<1>4. /\ ctx.rules = rules /\ ctx.overrides = overrides
      /\ Choices(ctx.hints, DOMAIN ctx.hints)
  BY <1>3, ContextIsCurrent
<1> HIDE DEF ctx
<1>5. /\ Rows(rows') /\ DOMAIN rows' = DOMAIN rows
      /\ \A j \in DOMAIN rows :
           /\ rows'[j].status = cleared[j].status /\ rows'[j].connection = cleared[j].connection
           /\ rows'[j].verdict = IF j \in again THEN Resolve(j, ctx) ELSE cleared[j].verdict
  <2> HIDE DEF again
  <2>1. QED BY <1>1, <1>2, <1>3, <1>4, ResolvedRows
<1>6. ASSUME NEW j \in DOMAIN rows' PROVE Obeys(j, rows[j])'
  <2>1. CASE j \in again
    BY <1>1, <1>2, <1>4, <1>5, <2>1, ResolvedObeysNext
  <2>2. CASE j \notin again /\ j = k
    <3>1. rows'[j].verdict = NoVerdict
      BY <1>3, <1>5, <2>2
    <3>2. rows'[j].status # "completed"
      BY <1>3, <1>5, <2>2 DEF Uncategorized
    <3>3. NoVerdict.source \notin Machine \union {"issuer"}
      BY DEF NoVerdict, Verdict, StoreAssumption, Sources, Machine
    <3>4. QED BY <3>1, <3>2, <3>3 DEF Obeys
  <2>3. CASE j # k
    <3>1. j \notin again
      BY <2>3
    <3>2. rows'[j].verdict = rows[j].verdict /\ rows'[j].status = rows[j].status
          /\ rows'[j].connection = rows[j].connection
      BY <1>3, <1>5, <2>3, <3>1
    <3>3. QED BY <1>1, <1>2, <1>5, <3>2, KeptObeys
  <2>4. QED BY <2>1, <2>2, <2>3
<1>7. QED BY <1>1, <1>2, <1>3, <1>5, <1>6, WriteKeepsInv

LEMMA DropRuleKeepsInv ==
  ASSUME StoreAssumption, Inv, NEW p \in Patterns, DropRule(p)
  PROVE  Inv'
<1>1. /\ Idle /\ rules' = Without(rules, {p})
      /\ UNCHANGED <<rows, connections, added, overrides, stamped, sync, fed>>
  BY DEF DropRule
<1>2. /\ Rows(rows) /\ Choices(rules, Patterns) /\ Choices(overrides, Sectors)
      /\ \A j \in DOMAIN rows : Obeys(j, rows[j])
  BY <1>1, IdleIsStamped
<1>3. Choices(rules', Patterns) /\ DOMAIN rules' \subseteq DOMAIN rules
  <2> DEFINE left == Without(rules, {p})
  <2>1. Choices(left, Patterns) /\ DOMAIN left = DOMAIN rules \ {p}
    BY <1>2, WithoutChoices
  <2>2. QED BY <1>1, <2>1
<1>4. ASSUME NEW j \in DOMAIN rows' PROVE Obeys(j, rows[j])'
  BY <1>1, <1>2, <1>3, KeptObeys
<1>5. QED BY <1>1, <1>2, <1>3, <1>4, WriteKeepsInv

(* The rule goes, its rows are cleared, and what has no category is judged  *)
(* under the rules that are left.                                           *)
LEMMA RevertRuleKeepsInv ==
  ASSUME StoreAssumption, Inv, NEW p \in Patterns, RevertRule(p)
  PROVE  Inv'
<1> DEFINE reverted == {k \in DOMAIN rows : k \in Matches[p] /\ rows[k].verdict = Verdict(rules[p], "rule")}
           cleared == Judge(rows, reverted, NoVerdict)
           ctx == [rules |-> rules', overrides |-> overrides, hints |-> Hints(cleared)]
           again == Uncategorized(cleared)
<1>1. /\ Idle /\ rows' = Resolved(cleared, again, ctx) /\ rules' = Without(rules, {p})
      /\ UNCHANGED <<connections, added, overrides, stamped, sync, fed>>
  BY DEF RevertRule, Reverted
<1>2. /\ Rows(rows) /\ Choices(rules, Patterns) /\ Choices(overrides, Sectors)
      /\ \A j \in DOMAIN rows : j \in AllKeys /\ Obeys(j, rows[j])
  BY <1>1, IdleIsStamped
<1>3. /\ Rows(cleared) /\ DOMAIN cleared = DOMAIN rows
      /\ \A j \in DOMAIN rows :
           /\ cleared[j].status = rows[j].status /\ cleared[j].connection = rows[j].connection
           /\ cleared[j].verdict = IF j \in reverted THEN NoVerdict ELSE rows[j].verdict
  <2>1. NoVerdict \in Verdicts
    BY DEF NoVerdict, Verdict, Verdicts
  <2> HIDE DEF reverted
  <2>2. QED BY <1>2, <2>1, JudgeRows
<1> HIDE DEF cleared
<1>4. Choices(rules', Patterns) /\ DOMAIN rules' \subseteq DOMAIN rules
  <2> HIDE DEF ctx, again, reverted
  <2> DEFINE left == Without(rules, {p})
  <2>1. Choices(left, Patterns) /\ DOMAIN left = DOMAIN rules \ {p}
    BY <1>2, WithoutChoices
  <2>2. QED BY <1>1, <2>1
<1>5. /\ ctx.rules = rules' /\ ctx.overrides = overrides
      /\ Choices(ctx.hints, DOMAIN ctx.hints)
  BY <1>3, HintsAreCategories
<1> HIDE DEF ctx
<1>6. /\ Rows(rows') /\ DOMAIN rows' = DOMAIN rows
      /\ \A j \in DOMAIN rows :
           /\ rows'[j].status = cleared[j].status /\ rows'[j].connection = cleared[j].connection
           /\ rows'[j].verdict = IF j \in again THEN Resolve(j, ctx) ELSE cleared[j].verdict
  <2> HIDE DEF again
  <2>1. QED BY <1>1, <1>2, <1>3, <1>4, <1>5, ResolvedRows
<1>7. ASSUME NEW j \in DOMAIN rows' PROVE Obeys(j, rows[j])'
  <2>1. CASE j \in again
    BY <1>1, <1>2, <1>4, <1>5, <1>6, <2>1, ResolvedObeysNext
  <2>2. CASE j \notin again /\ j \in reverted
    <3>1. rows'[j].verdict = NoVerdict
      BY <1>3, <1>6, <2>2
    <3>2. rows'[j].status # "completed"
      BY <1>3, <1>6, <2>2 DEF Uncategorized
    <3>3. NoVerdict.source \notin Machine \union {"issuer"}
      BY DEF NoVerdict, Verdict, StoreAssumption, Sources, Machine
    <3>4. QED BY <3>1, <3>2, <3>3 DEF Obeys
  <2>3. CASE j \notin again /\ j \notin reverted
    <3>1. rows'[j].verdict = rows[j].verdict /\ rows'[j].status = rows[j].status
          /\ rows'[j].connection = rows[j].connection
      BY <1>3, <1>6, <2>3
    <3>2. QED BY <1>1, <1>2, <1>4, <1>6, <3>1, KeptObeys
  <2>4. QED BY <2>1, <2>2, <2>3
<1>8. QED BY <1>1, <1>2, <1>3, <1>4, <1>6, <1>7, WriteKeepsInv

LEMMA MapSectorKeepsInv ==
  ASSUME StoreAssumption, Inv, NEW s \in Sectors, NEW c \in Categories, MapSector(s, c)
  PROVE  Inv'
<1> DEFINE mapped == {k \in Stored : Sector[k] = s /\ rows[k].verdict.source \in Machine \union {"issuer"}}
<1>1. /\ Idle /\ overrides' = With(overrides, s, c) /\ rows' = Judge(rows, mapped, Verdict(c, "issuer"))
      /\ UNCHANGED <<connections, added, rules, stamped, sync, fed>>
  BY DEF MapSector
<1>2. /\ Rows(rows) /\ Choices(rules, Patterns) /\ Choices(overrides, Sectors)
      /\ \A j \in DOMAIN rows : Obeys(j, rows[j])
  BY <1>1, IdleIsStamped
<1>3. /\ Rows(rows') /\ DOMAIN rows' = DOMAIN rows
      /\ \A j \in DOMAIN rows :
           /\ rows'[j].status = rows[j].status /\ rows'[j].connection = rows[j].connection
           /\ rows'[j].verdict = IF j \in mapped THEN Verdict(c, "issuer") ELSE rows[j].verdict
  <2> HIDE DEF mapped
  <2>1. QED BY <1>1, <1>2, JudgeRows, UserObeys
<1>4. /\ Choices(overrides', Sectors) /\ DOMAIN overrides' = DOMAIN overrides \union {s}
      /\ overrides'[s] = c /\ \A t \in DOMAIN overrides \ {s} : overrides'[t] = overrides[t]
  BY <1>1, <1>2, WithChoices
<1>5. ASSUME NEW j \in DOMAIN rows' PROVE Obeys(j, rows[j])'
  <2>1. CASE j \in mapped
    <3>1. /\ rows'[j].verdict # NoVerdict /\ rows'[j].verdict.category = c
          /\ rows'[j].status = rows[j].status /\ Sector[j] = s /\ Obeys(j, rows[j])
          /\ rows[j].verdict.source \notin {"rule", "user"}
      BY <1>2, <1>3, <2>1, UserObeys DEF Machine
    <3>2. QED BY <1>1, <1>4, <3>1 DEF Obeys
  <2>2. CASE j \notin mapped
    <3>1. /\ rows'[j].verdict = rows[j].verdict /\ rows'[j].status = rows[j].status
          /\ rows'[j].connection = rows[j].connection /\ Obeys(j, rows[j])
          /\ Sector[j] = s => rows[j].verdict.source \notin Machine \union {"issuer"}
      BY <1>2, <1>3, <2>2 DEF Stored
    <3>2. QED BY <1>1, <1>4, <3>1 DEF Obeys
  <2>3. QED BY <2>1, <2>2
<1>6. QED BY <1>1, <1>2, <1>3, <1>4, <1>5, WriteKeepsInv

--------------------------------------------------------------------------------
(* Rows that come and go by hand.                                           *)
LEMMA AddCashKeepsInv ==
  ASSUME StoreAssumption, Inv, NEW k \in CashKeys, NEW v \in Verdicts, AddCash(k, v)
  PROVE  Inv'
<1> DEFINE row == [status |-> "completed", connection |-> Cash, verdict |-> v]
<1>1. /\ Idle /\ k \notin DOMAIN rows
      /\ rows' = [j \in DOMAIN rows \union {k} |-> IF j = k THEN row ELSE rows[j]]
      /\ UNCHANGED <<connections, added, rules, overrides, stamped, sync, fed>>
  BY DEF AddCash, With, Stored
<1>2. /\ Rows(rows) /\ stamped
      /\ \A j \in DOMAIN rows : Obeys(j, rows[j])
  BY <1>1, IdleIsStamped
<1>3. Rows(rows')
  <2>1. row \in Row /\ k \in AllKeys
    BY DEF Row, Statuses, AllKeys
  <2> HIDE DEF row
  <2>2. QED BY <1>1, <1>2, <2>1 DEF Rows
<1>4. TypeOK'
  BY <1>1, <1>3 DEF Inv, StoreIsSound, TypeOK
<1>5. ASSUME NEW j \in DOMAIN rows' PROVE Obeys(j, rows[j])'
  <2>1. CASE j = k
    <3>1. rows'[j].connection = Cash /\ j \in CashKeys
      BY <1>1, <2>1
    <3>2. QED BY <3>1 DEF Obeys
  <2>2. CASE j # k
    BY <1>1, <1>2, <2>2, KeptObeys
  <2>3. QED BY <2>1, <2>2
<1>6. PendingIsCurrent'
  <2>1. \A c \in Connections : Pending(c, rows)' \subseteq Pending(c, rows)
    <3>1. Cash \notin Connections
      BY DEF StoreAssumption
    <3>2. QED BY <1>1, <3>1 DEF Pending
  <2>2. QED BY <1>1, <2>1 DEF Inv, StoreIsSound, PendingIsCurrent, Pending
<1>7. UnstampedIsUntouched' /\ SyncIsCurrent'
  BY <1>1, <1>2 DEF Inv, UnstampedIsUntouched, SyncIsCurrent, Syncing
<1>8. QED BY <1>4, <1>5, <1>6, <1>7, RowsObeyNext DEF Inv, StoreIsSound

(* Rows go: a deletion of one, of a connection's, or of all.                *)
LEMMA FewerRowsKeepInv ==
  ASSUME StoreAssumption, Inv, Idle, UNCHANGED <<added, stamped, sync>>,
         connections' \subseteq connections,
         Choices(rules', Patterns), DOMAIN rules' \subseteq DOMAIN rules,
         Choices(overrides', Sectors), overrides' = overrides \/ DOMAIN rows' = {},
         DOMAIN rows' \subseteq DOMAIN rows, \A k \in DOMAIN rows' : rows'[k] = rows[k],
         DOMAIN fed' = Connections,
         \A c \in Connections : fed'[c] = fed[c] \/ (fed'[c] = << >> /\ Pending(c, rows') = {})
  PROVE  Inv'
<1>1. /\ Rows(rows) /\ stamped
      /\ \A j \in DOMAIN rows : Obeys(j, rows[j])
  BY IdleIsStamped
<1>2. Rows(rows')
  BY <1>1 DEF Rows
<1>3. TypeOK'
  BY <1>2 DEF Inv, StoreIsSound, TypeOK, Range
<1>4. ASSUME NEW j \in DOMAIN rows' PROVE Obeys(j, rows[j])'
  BY <1>1, KeptObeys
<1>5. PendingIsCurrent'
  BY DEF Inv, StoreIsSound, PendingIsCurrent, Pending
<1>6. UnstampedIsUntouched' /\ SyncIsCurrent'
  BY <1>1 DEF Inv, UnstampedIsUntouched, SyncIsCurrent, Syncing, Idle
<1>7. QED BY <1>3, <1>4, <1>5, <1>6, RowsObeyNext DEF Inv, StoreIsSound

LEMMA NothingIsFewer ==
  ASSUME NEW f, NEW T
  PROVE  /\ DOMAIN Without(f, T) = DOMAIN f \ T
         /\ \A x \in DOMAIN f \ T : Without(f, T)[x] = f[x]
BY DEF Without, Restrict

LEMMA DeleteCashKeepsInv ==
  ASSUME StoreAssumption, Inv, NEW k \in CashKeys, DeleteCash(k)
  PROVE  Inv'
<1>1. /\ Idle /\ rows' = Without(rows, {k})
      /\ UNCHANGED <<connections, added, rules, overrides, stamped, sync, fed>>
  BY DEF DeleteCash
<1>2. Choices(rules, Patterns) /\ Choices(overrides, Sectors) /\ DOMAIN fed = Connections
  BY <1>1, IdleIsStamped DEF Inv, StoreIsSound, TypeOK
<1>3. DOMAIN rows' \subseteq DOMAIN rows /\ \A j \in DOMAIN rows' : rows'[j] = rows[j]
  <2>1. /\ DOMAIN Without(rows, {k}) = DOMAIN rows \ {k}
        /\ \A j \in DOMAIN rows \ {k} : Without(rows, {k})[j] = rows[j]
    BY NothingIsFewer
  <2>2. QED BY <1>1, <2>1
<1>4. QED BY <1>1, <1>2, <1>3, FewerRowsKeepInv

LEMMA DeleteConnectionKeepsInv ==
  ASSUME StoreAssumption, Inv, NEW c \in Connections, DeleteConnection(c)
  PROVE  Inv'
<1> DEFINE gone == {k \in Stored : rows[k].connection = c}
<1>1. /\ Idle /\ connections' \subseteq connections /\ rows' = Without(rows, gone)
      /\ fed' = [fed EXCEPT ![c] = << >>]
      /\ UNCHANGED <<added, rules, overrides, stamped, sync>>
  BY DEF DeleteConnection
<1>2. Choices(rules, Patterns) /\ Choices(overrides, Sectors) /\ DOMAIN fed = Connections
  BY <1>1, IdleIsStamped DEF Inv, StoreIsSound, TypeOK
<1>3. /\ DOMAIN rows' = DOMAIN rows \ gone
      /\ \A k \in DOMAIN rows \ gone : rows'[k] = rows[k]
  <2> HIDE DEF gone
  <2>1. QED BY <1>1, NothingIsFewer
<1>4. Pending(c, rows') = {}
  BY <1>3 DEF Pending, Stored
<1>5. ASSUME NEW d \in Connections
      PROVE  fed'[d] = fed[d] \/ (fed'[d] = << >> /\ Pending(d, rows') = {})
  BY <1>1, <1>4 DEF Inv, StoreIsSound, TypeOK
<1> HIDE DEF gone
<1>6. QED BY <1>1, <1>2, <1>3, <1>5, FewerRowsKeepInv

LEMMA WipesKeepInv ==
  ASSUME StoreAssumption, Inv, WipeData \/ WipeEverything
  PROVE  Inv'
<1>1. /\ Idle /\ rows' = << >> /\ fed' = [c \in Connections |-> << >>]
      /\ rules' = rules \/ rules' = << >>
      /\ overrides' = overrides \/ overrides' = << >>
      /\ UNCHANGED <<connections, added, stamped, sync>>
  BY DEF WipeData, WipeEverything, NoRows
<1>2. Choices(rules, Patterns) /\ Choices(overrides, Sectors) /\ DOMAIN fed = Connections
  BY <1>1, IdleIsStamped DEF Inv, StoreIsSound, TypeOK
<1>3. DOMAIN rows' = {} /\ \A c \in Connections : Pending(c, rows') = {}
  BY <1>1 DEF Pending
<1>4. Choices(rules', Patterns) /\ DOMAIN rules' \subseteq DOMAIN rules /\ Choices(overrides', Sectors)
  <2>1. \A S : Choices(<< >>, S)
    BY DEF Choices
  <2>2. Choices(rules', Patterns) /\ Choices(overrides', Sectors)
    BY <1>1, <1>2, <2>1
  <2>3. CASE rules' = << >>
    BY <2>2, <2>3
  <2>4. CASE rules' = rules
    BY <2>2, <2>4
  <2>5. QED BY <1>1, <2>3, <2>4
<1>5. QED BY <1>1, <1>3, <1>4, FewerRowsKeepInv

--------------------------------------------------------------------------------
(* A sync: it begins with what the tables say, and ends, or fails, quietly. *)
LEMMA SyncRestsKeepInv ==
  ASSUME StoreAssumption, Inv,
         UNCHANGED <<rows, rules, overrides, stamped, fed>>,
         connections' \subseteq added', added' \subseteq Connections,
         stamped \/ sync' = Boot, SyncIsCurrent'
  PROVE  Inv'
<1>1. TypeOK'
  BY DEF Inv, StoreIsSound, TypeOK
<1>2. (ScrapedRowsAreCategorized /\ StandingOrdersReachEveryRow)'
  BY DEF Inv, StoreIsSound, ScrapedRowsAreCategorized, StandingOrdersReachEveryRow, Stored
<1>3. PendingIsCurrent' /\ UnstampedIsUntouched'
  BY DEF Inv, StoreIsSound, PendingIsCurrent, Pending, UnstampedIsUntouched, Stored
<1>4. QED BY <1>1, <1>2, <1>3 DEF Inv, StoreIsSound

LEMMA SyncStartKeepsInv == ASSUME StoreAssumption, Inv, SyncStart PROVE Inv'
<1>1. /\ Idle /\ sync' = [queue |-> connections, context |-> Context(rows)]
      /\ UNCHANGED <<rows, connections, added, rules, overrides, stamped, fed>>
  BY DEF SyncStart
<1>2. stamped /\ Rows(rows)
  BY <1>1, IdleIsStamped
<1>3. SyncIsCurrent'
  BY <1>1, <1>2, ContextIsCurrent DEF SyncIsCurrent
<1>4. QED BY <1>1, <1>2, <1>3, SyncRestsKeepInv DEF Inv, StoreIsSound, TypeOK

LEMMA SyncIsStamped ==
  ASSUME Inv, Syncing
  PROVE  /\ stamped /\ DOMAIN sync = {"queue", "context"}
         /\ sync.context.rules = rules /\ sync.context.overrides = overrides
         /\ Choices(sync.context.hints, DOMAIN sync.context.hints)
BY DEF Inv, Syncing, UnstampedIsUntouched, SyncIsCurrent

LEMMA SyncFailsKeepsInv ==
  ASSUME StoreAssumption, Inv, NEW c \in Connections, SyncFails(c) PROVE Inv'
<1>1. /\ Syncing /\ sync' = [sync EXCEPT !.queue = @ \ {c}]
      /\ UNCHANGED <<rows, connections, added, rules, overrides, stamped, fed>>
  BY DEF SyncFails
<1>2. SyncIsCurrent'
  BY <1>1, SyncIsStamped DEF SyncIsCurrent
<1>3. QED BY <1>1, <1>2, SyncIsStamped, SyncRestsKeepInv DEF Inv, StoreIsSound, TypeOK

LEMMA RestsKeepInv ==
  ASSUME StoreAssumption, Inv,
         Serve \/ Crash \/ SyncEnd \/ (\E c \in Connections : AddConnection(c)) \/ UNCHANGED vars
  PROVE  Inv'
<1>1. /\ UNCHANGED <<rows, rules, overrides, stamped, fed>>
      /\ connections' \subseteq added' /\ added' \subseteq Connections
      /\ sync' = sync \/ sync' \in {Boot, Nothing}
  BY DEF Serve, Crash, SyncEnd, AddConnection, vars, Inv, StoreIsSound, TypeOK
<1>2. stamped \/ sync' = Boot
  BY <1>1, SyncIsStamped DEF Serve, Crash, SyncEnd, AddConnection, vars, Inv, UnstampedIsUntouched
<1>3. SyncIsCurrent'
  BY <1>1 DEF SyncIsCurrent, Syncing, Inv
<1>4. QED BY <1>1, <1>2, <1>3, SyncRestsKeepInv

(* A connection's rows arrive: its pending rows are replaced, and every row *)
(* that is new is judged under rules the gate has kept current.             *)
LEMMA SyncOneKeepsInv ==
  ASSUME StoreAssumption, Inv, NEW c \in Connections, SyncOne(c)
  PROVE  Inv'
<1>1. PICK feed \in Partial(Feed[c], Statuses) :
        rows' = Delivered(c, feed) /\ fed' = [fed EXCEPT ![c] = feed]
  BY DEF SyncOne
<1>2. /\ Syncing /\ sync' = [sync EXCEPT !.queue = @ \ {c}]
      /\ UNCHANGED <<connections, added, rules, overrides, stamped>>
  BY DEF SyncOne
<1>3. DOMAIN feed \subseteq Keys /\ \A k \in DOMAIN feed : feed[k] \in Statuses
  BY DEF Partial, StoreAssumption
<1> DEFINE kept == Without(rows, Pending(c, rows))
           new == DOMAIN feed \ DOMAIN kept
           ctx == sync.context
<1>4. /\ Rows(rows) /\ Choices(rules, Patterns) /\ Choices(overrides, Sectors)
      /\ DOMAIN fed = Connections
      /\ stamped /\ \A j \in DOMAIN rows : j \in AllKeys /\ Obeys(j, rows[j])
  BY <1>2, SyncIsStamped, RowsObey DEF Inv, StoreIsSound, TypeOK, Rows, Stored
<1>5. /\ DOMAIN kept = DOMAIN rows \ Pending(c, rows)
      /\ \A k \in DOMAIN kept : kept[k] = rows[k]
  <2>1. /\ DOMAIN kept = DOMAIN rows \ Pending(c, rows)
        /\ \A k \in DOMAIN rows \ Pending(c, rows) : kept[k] = rows[k]
    BY NothingIsFewer
  <2> HIDE DEF kept
  <2>2. QED BY <2>1
<1> HIDE DEF kept
<1>6. /\ DOMAIN rows' = DOMAIN kept \union new
      /\ \A k \in new :
           rows'[k] = [status |-> feed[k], connection |-> c, verdict |-> Resolve(k, ctx)]
      /\ \A k \in DOMAIN kept : rows'[k] = rows[k]
  BY <1>1, <1>5 DEF Delivered, kept
<1>7. \A k \in new : k \in AllKeys /\ feed[k] \in Statuses /\ Resolve(k, ctx) \in Verdicts
  <2> SUFFICES ASSUME NEW k \in new
               PROVE  k \in AllKeys /\ feed[k] \in Statuses /\ Resolve(k, ctx) \in Verdicts
    OBVIOUS
  <2>1. k \in AllKeys /\ feed[k] \in Statuses
    BY <1>3 DEF AllKeys
  <2>2. QED BY <1>2, <1>4, <2>1, SyncIsStamped, ResolveSpeaks
<1> HIDE DEF ctx, new
<1>8. Rows(rows')
  <2>1. ASSUME NEW k \in new PROVE rows'[k] \in Row
    BY <1>6, <1>7, <2>1 DEF Row
  <2>2. ASSUME NEW k \in DOMAIN kept PROVE rows'[k] \in Row /\ k \in AllKeys
    BY <1>4, <1>5, <1>6, <2>2 DEF Rows
  <2>3. QED BY <1>6, <1>7, <2>1, <2>2 DEF Rows
<1>9. TypeOK'
  <2>1. DOMAIN fed' = Connections
        /\ \A d \in Connections : DOMAIN fed'[d] \subseteq Keys /\ Range(fed'[d]) \subseteq Statuses
    BY <1>1, <1>3, <1>4 DEF Inv, StoreIsSound, TypeOK, Range
  <2>2. QED BY <1>2, <1>8, <2>1 DEF Inv, StoreIsSound, TypeOK
<1>10. ASSUME NEW j \in DOMAIN rows' PROVE Obeys(j, rows[j])'
  <2>1. CASE j \in DOMAIN kept
    BY <1>2, <1>4, <1>5, <1>6, <2>1, KeptObeys
  <2>2. CASE j \in new
    <3>1. rows'[j].verdict = Resolve(j, ctx) /\ j \in AllKeys
      BY <1>6, <1>7, <2>2
    <3>2. ctx.rules = rules' /\ ctx.overrides = overrides' /\ Choices(ctx.hints, DOMAIN ctx.hints)
      BY <1>2, SyncIsStamped DEF ctx
    <3>3. QED BY <1>2, <1>4, <3>1, <3>2, ResolvedObeysNext
  <2>3. QED BY <1>6, <2>1, <2>2
<1>11. PendingIsCurrent'
  <2> SUFFICES ASSUME NEW d \in Connections, NEW k \in DOMAIN rows',
                      rows'[k].connection = d, rows'[k].status = "pending"
               PROVE  k \in DOMAIN fed'[d] /\ fed'[d][k] = "pending"
    BY DEF PendingIsCurrent, Pending
  <2>1. CASE k \in new
    <3>1. d = c /\ feed[k] = "pending"
      BY <1>6, <2>1
    <3>2. k \in DOMAIN feed
      BY <2>1 DEF new
    <3>3. QED BY <1>1, <1>4, <3>1, <3>2
  <2>2. CASE k \in DOMAIN kept
    <3>1. k \in Pending(d, rows) /\ d # c
      BY <1>5, <1>6, <2>2 DEF Pending
    <3>2. fed'[d] = fed[d]
      BY <1>1, <1>4, <3>1
    <3>3. QED BY <3>1, <3>2 DEF Inv, StoreIsSound, PendingIsCurrent
  <2>3. QED BY <1>6, <2>1, <2>2
<1>12. UnstampedIsUntouched' /\ SyncIsCurrent'
  BY <1>2, <1>4, SyncIsStamped DEF UnstampedIsUntouched, SyncIsCurrent
<1>13. QED BY <1>4, <1>9, <1>10, <1>11, <1>12, RowsObeyNext DEF Inv, StoreIsSound

(* The first boot of this version judges every row it finds.                *)
LEMMA BackfillKeepsInv == ASSUME StoreAssumption, Inv, Backfill PROVE Inv'
<1> DEFINE machine == {k \in Stored : rows[k].verdict.source \in Machine}
           found == Uncategorized(rows) \union machine
           ctx == Context(rows)
<1>1. /\ sync = Boot /\ ~stamped /\ stamped' = TRUE /\ rows' = Resolved(rows, found, ctx)
      /\ UNCHANGED <<connections, added, rules, overrides, sync, fed>>
  BY DEF Backfill
<1>2. /\ Rows(rows) /\ Choices(rules, Patterns) /\ Choices(overrides, Sectors)
      /\ \A k \in DOMAIN rows : k \in AllKeys
  BY DEF Inv, StoreIsSound, TypeOK, Rows
<1>3. \A k \in DOMAIN rows : k \in found
  BY <1>1 DEF Inv, UnstampedIsUntouched, Uncategorized, Stored
<1>4. /\ ctx.rules = rules /\ ctx.overrides = overrides /\ Choices(ctx.hints, DOMAIN ctx.hints)
  BY <1>2, ContextIsCurrent
<1> HIDE DEF found, ctx
<1>5. /\ Rows(rows') /\ DOMAIN rows' = DOMAIN rows
      /\ \A k \in DOMAIN rows : /\ rows'[k].status = rows[k].status
                               /\ rows'[k].connection = rows[k].connection
                               /\ rows'[k].verdict = Resolve(k, ctx)
  BY <1>1, <1>2, <1>3, <1>4, ResolvedRows
<1>6. ASSUME NEW j \in DOMAIN rows' PROVE Obeys(j, rows[j])'
  BY <1>1, <1>2, <1>4, <1>5, ResolvedObeysNext
<1>7. TypeOK'
  BY <1>1, <1>5 DEF Inv, StoreIsSound, TypeOK
<1>8. PendingIsCurrent'
  BY <1>1, <1>5 DEF Inv, StoreIsSound, PendingIsCurrent, Pending
<1>9. UnstampedIsUntouched' /\ SyncIsCurrent'
  BY <1>1 DEF UnstampedIsUntouched, SyncIsCurrent, Syncing
<1>10. QED BY <1>6, <1>7, <1>8, <1>9, RowsObeyNext DEF Inv, StoreIsSound

LEMMA InitEstablishes == ASSUME StoreAssumption PROVE Init => Inv
<1> SUFFICES ASSUME Init PROVE Inv
  OBVIOUS
<1>1. PICK c \in Connections, S \in SUBSET Keys :
        /\ rows = [k \in S |-> [status |-> "completed", connection |-> c, verdict |-> NoVerdict]]
        /\ connections = IF S = {} THEN {} ELSE {c}
  BY DEF Init
<1>2. /\ added = connections /\ rules = << >> /\ overrides = << >> /\ stamped = FALSE
      /\ sync = Boot /\ fed = [d \in Connections |-> << >>]
  BY DEF Init
<1>3. Rows(rows)
  BY <1>1 DEF Rows, Row, Statuses, AllKeys, Verdicts, NoVerdict, Verdict
<1>4. TypeOK
  <2>1. Choices(rules, Patterns) /\ Choices(overrides, Sectors)
    BY <1>2 DEF Choices
  <2>2. \A d \in Connections : DOMAIN fed[d] = {} /\ Range(fed[d]) = {}
    BY <1>2 DEF Range
  <2>3. QED BY <1>1, <1>2, <1>3, <2>1, <2>2 DEF TypeOK
<1>5. ScrapedRowsAreCategorized /\ StandingOrdersReachEveryRow
  BY <1>2 DEF ScrapedRowsAreCategorized, StandingOrdersReachEveryRow
<1>6. PendingIsCurrent
  BY <1>1 DEF PendingIsCurrent, Pending
<1>7. UnstampedIsUntouched /\ SyncIsCurrent
  BY <1>1, <1>2 DEF UnstampedIsUntouched, SyncIsCurrent, Syncing, Stored
<1>8. QED BY <1>4, <1>5, <1>6, <1>7 DEF Inv, StoreIsSound

LEMMA StepKeepsInv == ASSUME StoreAssumption PROVE Inv /\ [Next]_vars => Inv'
<1> SUFFICES ASSUME Inv, [Next]_vars PROVE Inv'
  OBVIOUS
<1>1. CASE Start
  BY <1>1, BackfillKeepsInv, RestsKeepInv DEF Start
<1>2. CASE Fetch
  BY <1>2, SyncStartKeepsInv, SyncOneKeepsInv, SyncFailsKeepsInv, DeleteConnectionKeepsInv,
     RestsKeepInv DEF Fetch
<1>3. CASE Judging
  BY <1>3, CategorizeKeepsInv, CategorizeWithRuleKeepsInv, UnjudgeKeepsInv, DropRuleKeepsInv,
     RevertRuleKeepsInv, MapSectorKeepsInv DEF Judging
<1>4. CASE ByHand
  BY <1>4, AddCashKeepsInv, DeleteCashKeepsInv, WipesKeepInv DEF ByHand
<1>5. QED BY <1>1, <1>2, <1>3, <1>4, RestsKeepInv DEF Next

LEMMA InvIsInductive == ASSUME StoreAssumption PROVE Spec => []Inv
BY InitEstablishes, StepKeepsInv, PTL DEF Spec

(* Every row a bank delivered has the category its rules and mappings give  *)
(* it, and no pending row lingers.                                          *)
THEOREM StoreIsAlwaysSound == ASSUME StoreAssumption PROVE Spec => []StoreIsSound
<1>1. Inv => StoreIsSound
  BY DEF Inv
<1>2. QED BY <1>1, InvIsInductive, PTL

--------------------------------------------------------------------------------
(* Nothing but his own act on it changes a completed row the user judged.   *)
THEOREM VerdictsStand == ASSUME StoreAssumption PROVE Spec => UserVerdictStands
<1> DEFINE Judged(k) == rows[k].status = "completed" /\ rows[k].verdict.source = "user"
           ByTheUser(k) == \/ Unjudge(k)
                           \/ \E c \in Categories :
                                /\ rows'[k].verdict = Verdict(c, "user")
                                /\ Categorize(k, c) \/ \E p \in Patterns : CategorizeWithRule(k, c, p)
           Stands == \A k \in Stored \intersect DOMAIN rows' : Judged(k) /\ rows'[k] # rows[k] => ByTheUser(k)
<1>1. Inv /\ [Next]_vars => [Stands]_vars
  <2> SUFFICES ASSUME Inv, Next, NEW k \in Stored, k \in DOMAIN rows', Judged(k), rows'[k] # rows[k]
               PROVE  ByTheUser(k)
    OBVIOUS
  <2> USE DEF Stored
  <2>1. Rows(rows) /\ k \in DOMAIN rows /\ rows[k].verdict # NoVerdict
    BY DEF Inv, StoreIsSound, TypeOK, NoVerdict, Verdict, StoreAssumption, Sources
  <2>2. rows' # rows
    OBVIOUS
  <2>3. CASE Start
    <3>1. \A j \in DOMAIN rows : rows[j].verdict = NoVerdict
      BY <2>2, <2>3 DEF Start, Backfill, Serve, Crash, Inv, UnstampedIsUntouched
    <3>2. QED BY <2>1, <3>1
  <2>4. CASE Fetch
    <3>1. PICK c \in Connections : DeleteConnection(c) \/ SyncOne(c)
      BY <2>2, <2>4 DEF Fetch, SyncStart, SyncEnd, AddConnection, SyncFails
    <3>2. k \notin Pending(c, rows)
      BY DEF Pending
    <3>3. CASE DeleteConnection(c)
      BY <3>3 DEF DeleteConnection, Without, Restrict
    <3>4. CASE SyncOne(c)
      BY <2>1, <3>2, <3>4 DEF SyncOne, Delivered, Without, Restrict
    <3>5. QED BY <3>1, <3>3, <3>4
  <2>5. CASE Judging
    <3>1. ASSUME NEW j \in AllKeys, NEW c \in Categories, Categorize(j, c) PROVE ByTheUser(k)
      <4>1. rows'[k] = IF k = j THEN [rows[k] EXCEPT !.verdict = Verdict(c, "user")] ELSE rows[k]
        BY <2>1, <3>1 DEF Categorize, Judge
      <4>2. k = j /\ rows'[k].verdict = Verdict(c, "user")
        BY <2>1, <4>1 DEF Rows, Row
      <4>3. QED BY <3>1, <4>2
    <3>2. ASSUME NEW j \in AllKeys, NEW c \in Categories, NEW p \in Patterns, CategorizeWithRule(j, c, p)
          PROVE  ByTheUser(k)
      <4> DEFINE judged == Judge(rows, {j}, Verdict(c, "user"))
      <4>1. /\ DOMAIN judged = DOMAIN rows
            /\ judged[k] = IF k = j THEN [rows[k] EXCEPT !.verdict = Verdict(c, "user")] ELSE rows[k]
        BY <2>1 DEF Judge
      <4>2. judged[k].verdict.source = "user" /\ (k = j => judged[k].verdict = Verdict(c, "user"))
        BY <2>1, <4>1 DEF Rows, Row, Verdict
      <4>3. rows' = Applied(judged, p, c)
        BY <3>2 DEF CategorizeWithRule
      <4> HIDE DEF judged
      <4>4. rows'[k] = judged[k]
        BY <2>1, <4>1, <4>2, <4>3 DEF Applied, Judge
      <4>5. k = j /\ rows'[k].verdict = Verdict(c, "user")
        BY <4>1, <4>2, <4>4
      <4>6. QED BY <3>2, <4>5
    <3>3. ASSUME NEW j \in AllKeys, Unjudge(j) PROVE ByTheUser(k)
      <4> DEFINE cleared == Judge(rows, {j}, NoVerdict)
      <4>1. DOMAIN cleared = DOMAIN rows /\ (k # j => cleared[k] = rows[k])
        BY <2>1 DEF Judge
      <4>2. rows' = Resolved(cleared, {j} \intersect Uncategorized(cleared), Context(cleared))
        BY <3>3 DEF Unjudge
      <4> HIDE DEF cleared
      <4>3. k = j
        BY <2>1, <4>1, <4>2 DEF Resolved
      <4>4. QED BY <3>3, <4>3
    <3>4. ASSUME NEW p \in Patterns, DropRule(p) \/ RevertRule(p) PROVE FALSE
      <4> DEFINE cleared == Reverted(rows, p, rules[p])
                 ctx == [rules |-> rules', overrides |-> overrides, hints |-> Hints(cleared)]
      <4>1. rows' = Resolved(cleared, Uncategorized(cleared), ctx)
        BY <2>2, <3>4 DEF DropRule, RevertRule
      <4>2. Verdict(rules[p], "rule").source # "user"
        BY DEF Verdict
      <4>3. DOMAIN cleared = DOMAIN rows /\ cleared[k] = rows[k]
        BY <2>1, <4>2 DEF Reverted, Judge
      <4> HIDE DEF cleared, ctx
      <4>4. k \notin Uncategorized(cleared)
        BY <2>1, <4>3 DEF Uncategorized
      <4>5. QED BY <2>1, <4>1, <4>3, <4>4 DEF Resolved
    <3>5. ASSUME NEW s \in Sectors, NEW c \in Categories, MapSector(s, c) PROVE FALSE
      BY <2>1, <3>5 DEF MapSector, Judge, Machine
    <3>6. QED BY <2>5, <3>1, <3>2, <3>3, <3>4, <3>5 DEF Judging
  <2>6. CASE ByHand
    <3>1. ASSUME NEW j \in CashKeys, NEW v \in Verdicts, AddCash(j, v) PROVE FALSE
      BY <2>1, <3>1 DEF AddCash, With
    <3>2. ASSUME NEW j \in CashKeys, DeleteCash(j) PROVE FALSE
      BY <3>2 DEF DeleteCash, Without, Restrict
    <3>3. CASE WipeData \/ WipeEverything
      BY <3>3 DEF WipeData, WipeEverything, NoRows
    <3>4. QED BY <2>6, <3>1, <3>2, <3>3 DEF ByHand
  <2>7. QED BY <2>3, <2>4, <2>5, <2>6 DEF Next
<1>2. Stands <=>
        \A k \in Stored \intersect DOMAIN rows' :
          /\ rows[k].status = "completed" /\ rows[k].verdict.source = "user"
          /\ rows'[k] # rows[k]
          => \/ Unjudge(k)
             \/ \E c \in Categories :
                  /\ rows'[k].verdict = Verdict(c, "user")
                  /\ Categorize(k, c) \/ \E p \in Patterns : CategorizeWithRule(k, c, p)
  OBVIOUS
<1>3. QED BY <1>1, <1>2, InvIsInductive, PTL DEF Spec, UserVerdictStands

--------------------------------------------------------------------------------
(* DatabaseOperations: the snapshot, the replacements and the wipe.         *)

(* Every variable stays in its domain.                                      *)
LEMMA OperationsHaveTypes == Ops!Spec => []Ops!TypeOK
<1>1. Ops!Init => Ops!TypeOK
  BY DEF Ops!Init, Ops!TypeOK, Ops!OperationStates, Ops!OperationSteps
<1>2. Ops!TypeOK /\ [Ops!Next]_(Ops!vars) => Ops!TypeOK'
  <2> SUFFICES ASSUME Ops!TypeOK, [Ops!Next]_(Ops!vars) PROVE Ops!TypeOK'
    OBVIOUS
  <2> USE DEF Ops!TypeOK, Ops!OperationStates, Ops!OperationSteps
  <2>1. CASE Ops!StartSync \/ Ops!StartBackup \/ Ops!StartRestore \/ Ops!StartImport
        \/ Ops!StartFullWipe
    BY <2>1 DEF Ops!StartSync, Ops!StartBackup, Ops!StartRestore, Ops!StartImport,
       Ops!StartFullWipe, Ops!Begin
  <2>2. CASE Ops!BackupEnds \/ Ops!SaveEnds \/ Ops!Swap \/ Ops!WipeAll \/ Ops!OperationEnds
    BY <2>2 DEF Ops!BackupEnds, Ops!SaveEnds, Ops!Swap, Ops!WipeAll, Ops!OperationEnds, Ops!Copy,
       Ops!End
  <2>3. CASE \E w \in Writes :
               Ops!WriteNow(w) \/ Ops!AwaitRates(w) \/ Ops!WriteAfterRates(w)
                     \/ Ops!RefuseWrite(w)
    BY <2>3 DEF Ops!WriteNow, Ops!AwaitRates, Ops!WriteAfterRates, Ops!RefuseWrite, Ops!Store
  <2>4. CASE UNCHANGED Ops!vars
    BY <2>4 DEF Ops!vars
  <2>5. QED BY <2>1, <2>2, <2>3, <2>4 DEF Ops!Next
<1>3. QED BY <1>1, <1>2, PTL DEF Ops!Spec

(* A step keeps the copies complete.                                        *)
LEMMA OperationsKeepInv ==
  ASSUME Ops!AssetsAreWrites PROVE Ops!TypeOK /\ Ops!Inv /\ [Ops!Next]_(Ops!vars) => Ops!Inv'
<1> SUFFICES ASSUME Ops!TypeOK, Ops!Inv, [Ops!Next]_(Ops!vars) PROVE Ops!Inv'
  OBVIOUS
<1> USE DEF Ops!AssetsAreWrites, Ops!Inv, Ops!NoVerdictLost, Ops!Kept, Ops!StagedIsSaved,
   Ops!GateIsShut
<1>1. CASE Ops!StartSync \/ Ops!StartBackup \/ Ops!StartRestore \/ Ops!StartImport
      \/ Ops!StartFullWipe
  BY <1>1 DEF Ops!StartSync, Ops!StartBackup, Ops!StartRestore, Ops!StartImport,
     Ops!StartFullWipe, Ops!Begin
<1>2. CASE Ops!BackupEnds
  BY <1>2 DEF Ops!BackupEnds, Ops!Copy, Ops!End
<1>3. CASE Ops!SaveEnds
  BY <1>3 DEF Ops!SaveEnds, Ops!Copy
(* What the swap removes from the database is in the copy made before it.   *)
<1>4. CASE Ops!Swap
  <2>1. Ops!NoVerdictLost'
    <3> SUFFICES ASSUME NEW w \in Writes \ Assets, write[w] = "answered"
                 PROVE  w \in UNION archive
      BY <1>4 DEF Ops!Swap
    <3>1. w \in live \union UNION archive
      OBVIOUS
    <3>2. CASE w \in live
      BY <1>4, <3>2 DEF Ops!Swap
    <3>3. QED BY <3>1, <3>2
  <2>2. QED BY <1>4, <2>1 DEF Ops!Swap, Ops!End
<1>5. CASE Ops!WipeAll
  BY <1>5 DEF Ops!WipeAll, Ops!Copy, Ops!End
<1>6. CASE Ops!OperationEnds
  BY <1>6 DEF Ops!OperationEnds, Ops!End
<1>7. ASSUME NEW w \in Writes, Ops!WriteNow(w) PROVE Ops!Inv'
  BY <1>7 DEF Ops!WriteNow, Ops!Store, Ops!Admits, Ops!TypeOK
<1>8. ASSUME NEW w \in Writes, Ops!AwaitRates(w) \/ Ops!RefuseWrite(w) PROVE Ops!Inv'
  BY <1>8 DEF Ops!AwaitRates, Ops!RefuseWrite, Ops!TypeOK
(* A late write is an asset: it can enter the staged database.              *)
<1>9. ASSUME NEW w \in Writes, Ops!WriteAfterRates(w) PROVE Ops!Inv'
  <2>1. w \in Assets
    BY <1>9 DEF Ops!WriteAfterRates, Ops!TypeOK
  <2>2. QED BY <1>9, <2>1 DEF Ops!WriteAfterRates, Ops!Store, Ops!TypeOK
<1>10. CASE UNCHANGED Ops!vars
  BY <1>10 DEF Ops!vars
<1>11. QED
  BY <1>1, <1>2, <1>3, <1>4, <1>5, <1>6, <1>7, <1>8, <1>9, <1>10 DEF Ops!Next

(* No verdict or rule the user was told of is ever lost.                    *)
THEOREM VerdictsAreKept ==
  ASSUME Ops!AssetsAreWrites PROVE Ops!Spec => []NoVerdictLost
<1>1. Ops!Init => Ops!Inv
  BY DEF Ops!Init, Ops!Inv, Ops!NoVerdictLost, Ops!Kept, Ops!StagedIsSaved, Ops!GateIsShut
<1>2. Ops!Inv => NoVerdictLost
  BY DEF Ops!Inv, NoVerdictLost
<1>3. QED BY <1>1, <1>2, OperationsKeepInv, OperationsHaveTypes, PTL DEF Ops!Spec

--------------------------------------------------------------------------------
(* FlowExclusion: what the sums leave out.                                  *)

(* Every stored row is a fact over a connection, which has a number.        *)
RowsAreNumbered == stored \subseteq Exclusion!Facts \X CardConnections

(* Of the two sides of a card's month one is taken out by the first pass.   *)
LEMMA OneSideCounts ==
  ASSUME NEW card
  PROVE  \/ Exclusion!Details(card) \cap Exclusion!Counted = {}
         \/ {f \in Exclusion!Settlements(card) : Exclusion!Amount(f) < 0} \cap Exclusion!Counted = {}
<1>1. \A f \in Exclusion!Counted : Exclusion!FirstPass(f) = "counts"
  BY DEF Exclusion!Counted
<1>2. CASE Exclusion!Settlements(card) = {}
  BY <1>2
<1>3. CASE Exclusion!Settlements(card) # {} /\ Exclusion!modeFor(card) = "bank"
  <2>1. ASSUME NEW f \in Exclusion!Details(card) PROVE Exclusion!FirstPass(f) = "partial"
    <3>1. Exclusion!Side(f) = "card" /\ Fact[f].company = card
      BY DEF Exclusion!Details
    <3>2. ~Exclusion!Settled(f) /\ Exclusion!Partial(f)
      BY <1>3, <3>1 DEF Exclusion!Settled, Exclusion!Partial
    <3>3. QED BY <3>2 DEF Exclusion!FirstPass
  <2>2. QED BY <1>1, <2>1
<1>4. CASE Exclusion!modeFor(card) \in {"all", "debits"}
  <2>1. ASSUME NEW f \in Exclusion!Settlements(card), Exclusion!Amount(f) < 0
        PROVE  Exclusion!FirstPass(f) = "settlement"
    <3>1. Exclusion!Side(f) = "bank" /\ Fact[f].settles = card
      BY DEF Exclusion!Settlements
    <3>2. Exclusion!Settled(f) /\ Exclusion!Arbitrated(f) = "settlement"
      BY <1>4, <2>1, <3>1 DEF Exclusion!Settled, Exclusion!Arbitrated
    <3>3. QED BY <3>2 DEF Exclusion!FirstPass
  <2>2. QED BY <1>1, <2>1
<1>5. Exclusion!modeFor(card) \in {"all", "debits", "bank"}
  BY DEF Exclusion!modeFor
<1>6. QED BY <1>2, <1>3, <1>4, <1>5

(* Of the copies of a transaction one is kept.                              *)
LEMMA OneCopyCounts ==
  ASSUME RowsAreNumbered
  PROVE  \A s, t \in Exclusion!dedupe : s[1] = t[1] => s = t
<1> SUFFICES ASSUME NEW s \in Exclusion!dedupe, NEW t \in Exclusion!dedupe, s[1] = t[1]
             PROVE  s = t
  OBVIOUS
<1>1. s \in Exclusion!Facts \X CardConnections /\ t \in Exclusion!Facts \X CardConnections
  BY DEF RowsAreNumbered, Exclusion!dedupe
<1>2. s[2] <= t[2] /\ t[2] <= s[2]
  BY DEF Exclusion!dedupe
<1>3. s[2] \in Nat /\ t[2] \in Nat
  BY <1>1, ExclusionAssumption DEF Exclusion!ExclusionAssumption
<1>4. s[2] = t[2]
  BY <1>2, <1>3
<1>5. QED BY <1>1, <1>4

(* Neither a purchase and its settlement nor two copies of a row are in the *)
(* sums, whatever is connected, delivered and taught (companies.ts:249).    *)
THEOREM NothingEverCountsTwice == Exclusion!Spec => []NothingCountsTwice
<1>1. Exclusion!Init => RowsAreNumbered
  BY DEF Exclusion!Init, RowsAreNumbered
<1>2. RowsAreNumbered /\ [Exclusion!Next]_(Exclusion!vars) => RowsAreNumbered'
  <2> SUFFICES ASSUME RowsAreNumbered, [Exclusion!Next]_(Exclusion!vars) PROVE RowsAreNumbered'
    OBVIOUS
  <2>1. ASSUME NEW c \in CardConnections, Exclusion!Connect(c) \/ Exclusion!Disconnect(c)
        PROVE  RowsAreNumbered'
    BY <2>1 DEF Exclusion!Connect, Exclusion!Disconnect, RowsAreNumbered
  <2>2. ASSUME NEW c \in CardConnections, NEW f \in Exclusion!Facts, Exclusion!Store(f, c)
        PROVE  RowsAreNumbered'
    BY <2>2 DEF Exclusion!Store, RowsAreNumbered
  <2>3. CASE \E p \in Exclusion!TaughtPatterns, class \in {"untaught", "internal", "flow"} :
               Exclusion!Teach(p, class)
    BY <2>3 DEF Exclusion!Teach, RowsAreNumbered
  <2>4. CASE UNCHANGED Exclusion!vars
    BY <2>4 DEF Exclusion!vars, RowsAreNumbered
  <2>5. QED BY <2>1, <2>2, <2>3, <2>4 DEF Exclusion!Next
<1>3. RowsAreNumbered => NothingCountsTwice
  BY OneSideCounts, OneCopyCounts DEF NothingCountsTwice, Exclusion!NothingCountsTwice
<1>4. QED BY <1>1, <1>2, <1>3, PTL DEF Exclusion!Spec

--------------------------------------------------------------------------------
(* VouchedCharges: a change of price that was dismissed.                    *)

(* The charges are finitely many, each of a natural amount.                 *)
ChargesAreTyped ==
  /\ IsFiniteSet(charges) /\ \A c \in charges : c.amount \in Nat
  /\ expected \in {Nothing} \union [amount : Nat, alerted : Nat \union {Nothing}]
  /\ silenced \in Nat \union {Nothing}

(* The change the user told to be quiet is the one the anchor knows.        *)
SilencedIsAlerted == silenced # Nothing => expected # Nothing /\ expected.alerted = silenced

LEMMA SameSum == ASSUME NEW f, NEW S PROVE Charges!SumFunctionOnSet(f, S) = SumFunctionOnSet(f, S)
BY DEF SumFunctionOnSet, FoldFunctionOnSet, MapThenFoldSet,
       Charges!SumFunctionOnSet, Charges!FoldFunctionOnSet, Charges!MapThenFoldSet

(* What a month cost is a number.                                           *)
LEMMA TotalIsNat == ASSUME ChargesAreTyped, NEW m PROVE Charges!Total(m) \in Nat
<1> DEFINE S == {c \in Charges!Analyzed : c.month = m}
           f == [c \in Charges!Analyzed |-> c.amount]
<1>1. S \subseteq charges /\ S \subseteq Charges!Analyzed
  BY DEF Charges!Analyzed
<1>2. IsFiniteSet(S)
  BY <1>1, FS_Subset DEF ChargesAreTyped
<1>3. \A c \in S : f[c] \in Nat
  BY <1>1 DEF ChargesAreTyped
<1> HIDE DEF f, S
<1>4. SumFunctionOnSet(f, S) \in Nat
  BY <1>2, <1>3, SumType
<1>5. QED BY <1>4, SameSum DEF Charges!Total, f, S

LEMMA LatestIsNat ==
  ASSUME ChargesAreTyped PROVE Charges!Latest \in Nat /\ Charges!Backfill \in Nat
BY TotalIsNat DEF Charges!Latest, Charges!Backfill

(* An anchor that is set is told from none.                                 *)
LEMMA AnchorsDiffer ==
  ASSUME NEW a \in Nat, NEW q \in Nat \union {Nothing}
  PROVE  /\ [amount |-> a, alerted |-> q] # Nothing
         /\ [amount |-> a, alerted |-> q] \in [amount : Nat, alerted : Nat \union {Nothing}]
BY ChargesAssumption DEF Charges!ChargesAssumption

LEMMA ChargesStayTrue ==
  ChargesAreTyped /\ SilencedIsAlerted /\ [Charges!Next]_(Charges!vars)
    => ChargesAreTyped' /\ SilencedIsAlerted'
<1> SUFFICES ASSUME ChargesAreTyped, SilencedIsAlerted, [Charges!Next]_(Charges!vars)
             PROVE  ChargesAreTyped' /\ SilencedIsAlerted'
  OBVIOUS
<1> USE DEF ChargesAreTyped, SilencedIsAlerted
<1>0. Nothing \notin Nat
  BY ChargesAssumption DEF Charges!ChargesAssumption
<1>1. ASSUME NEW amount \in Amounts, Charges!Charge(amount)
      PROVE  ChargesAreTyped' /\ SilencedIsAlerted'
  <2>1. amount \in Nat
    BY ChargesAssumption DEF Charges!ChargesAssumption
  <2>2. PICK c : c.amount = amount /\ charges' = charges \union {c}
    BY <1>1 DEF Charges!Charge
  <2>3. IsFiniteSet(charges')
    BY <2>2, FS_AddElement
  <2>4. QED BY <1>1, <2>1, <2>2, <2>3 DEF Charges!Charge
<1>2. CASE Charges!NewMonth \/ UNCHANGED Charges!vars
  BY <1>2 DEF Charges!NewMonth, Charges!vars
<1>3. CASE Charges!Reanchor
  <2>1. charges' = charges /\ expected' = [amount |-> Charges!Latest, alerted |-> Nothing] /\ silenced' = Nothing
    BY <1>3 DEF Charges!Reanchor, Charges!Anchor
  <2>2. QED BY <2>1, LatestIsNat, AnchorsDiffer
<1>4. CASE Charges!DismissChange
  <2>1. /\ charges' = charges /\ silenced' = Charges!Latest /\ expected # Nothing
        /\ expected' = [expected EXCEPT !.alerted = Charges!Latest]
    BY <1>4 DEF Charges!DismissChange, Charges!PriceChanged
  <2>2. Charges!Latest \in Nat
    BY LatestIsNat
  <2>3. expected' = [amount |-> expected.amount, alerted |-> Charges!Latest] /\ expected.amount \in Nat
    BY <2>1
  <2>4. QED BY <2>1, <2>2, <2>3, AnchorsDiffer
<1>5. CASE Charges!ReadAnchors
  <2>1. /\ charges' = charges /\ silenced' = silenced /\ expected = Nothing
        /\ expected' = [amount |-> Charges!Backfill, alerted |-> Nothing]
    BY <1>5 DEF Charges!ReadAnchors, Charges!MayBackfill
  <2>2. QED BY <2>1, LatestIsNat, AnchorsDiffer
<1>6. ASSUME NEW c \in Charges!Analyzed, NEW mark, Charges!MarkOne(c, mark)
      PROVE  ChargesAreTyped' /\ SilencedIsAlerted'
  BY <1>6 DEF Charges!MarkOne
<1>7. ASSUME NEW mark, NEW amount \in {Nothing} \union {c.amount : c \in Charges!Analyzed},
             Charges!ApplyToMerchant(mark, amount)
      PROVE  ChargesAreTyped' /\ SilencedIsAlerted'
  <2>1. amount # Nothing => amount \in Nat
    BY DEF Charges!Analyzed
  <2>2. charges' = charges
    BY <1>7 DEF Charges!ApplyToMerchant
  <2>3. \/ UNCHANGED <<expected, silenced>>
        \/ expected' = Nothing /\ silenced' = Nothing
        \/ amount # Nothing /\ expected' = [amount |-> amount, alerted |-> Nothing] /\ silenced' = Nothing
    BY <1>7 DEF Charges!ApplyToMerchant, Charges!Anchor, Charges!Unanchor
  <2>4. QED BY <2>1, <2>2, <2>3, AnchorsDiffer
<1>8. QED BY <1>1, <1>2, <1>3, <1>4, <1>5, <1>6, <1>7 DEF Charges!Next

(* A change of price the user dismissed is not shown again while its anchor *)
(* stands, whatever is charged, marked and read (routes.ts:2192).           *)
THEOREM DismissalsStayQuiet == Charges!Spec => []DismissedStaysQuiet
<1>1. Charges!Init => ChargesAreTyped /\ SilencedIsAlerted
  BY FS_EmptySet DEF Charges!Init, ChargesAreTyped, SilencedIsAlerted
<1>2. ChargesAreTyped /\ SilencedIsAlerted => DismissedStaysQuiet
  <2> SUFFICES ASSUME ChargesAreTyped, SilencedIsAlerted, silenced # Nothing, Charges!PriceChanged
               PROVE  Charges!Distance(Charges!Latest, silenced) > 1
    BY DEF DismissedStaysQuiet, Charges!DismissedStaysQuiet
  <2>1. expected.alerted = silenced /\ silenced \in Nat /\ Charges!Latest \in Nat
    BY LatestIsNat DEF ChargesAreTyped, SilencedIsAlerted
  <2>2. ~(Charges!Distance(Charges!Latest, silenced) <= 1)
    BY <2>1 DEF Charges!PriceChanged, Charges!Quiet
  <2>3. Charges!Distance(Charges!Latest, silenced) \in Int
    BY <2>1 DEF Charges!Distance
  <2>4. QED BY <2>2, <2>3
<1>3. QED BY <1>1, <1>2, ChargesStayTrue, PTL DEF Charges!Spec

--------------------------------------------------------------------------------
(* AssetLedger: the holdings, their histories and the net worth.            *)

LedgerPoints == [amount : Nat, currency : Ledger!Currencies, day : Nat, rate : Nat]

(* The points of a holding tell its story until day d: the last is what it  *)
(* is, in order, and no two neighbours say the same.                        *)
Story(points, a, d) ==
  /\ a \in Ledger!Asset /\ points \in Seq(LedgerPoints) /\ points # <<>>
  /\ LET p == points[Len(points)] IN
       p.amount = a.amount /\ p.currency = a.currency /\ (p.currency = Ledger!ILS => p.rate = 1)
  /\ \A i \in 1 .. Len(points) : points[i].day <= d
  /\ \A i \in 1 .. Len(points) - 1 :
       /\ points[i].day <= points[i + 1].day
       /\ points[i].amount # points[i + 1].amount \/ points[i].currency # points[i + 1].currency

(* The tables hold the story of every holding, in a currency of which there *)
(* is a rate, and ids that are given out stay below the next one.           *)
Tables(as, ts, n, R, d) ==
  /\ n \in Nat \ {0} /\ DOMAIN as \subseteq 1 .. n - 1 /\ DOMAIN ts = DOMAIN as
  /\ \A id \in DOMAIN as : Story(ts[id], as[id], d) /\ as[id].currency \in R \union {Ledger!ILS}

RatesAreKnown(rs) == DOMAIN rs \subseteq Foreign /\ \A c \in DOMAIN rs : rs[c] \in [rate : Nat, fresh : BOOLEAN]

(* A write is of a new asset or a change of one, and one that waits asks    *)
(* for the rate of the currency it brings.                                  *)
Writable(w, target) ==
  \/ w.id = Nothing /\ w.asset \in NewAssets /\ w.asset.currency = target
  \/ w.id # Nothing /\ w.patch \in Patches /\ (w.patch.currency # Nothing => w.patch.currency = target)
WritesAreAimed ==
  /\ writes = [h \in Handlers |-> writes[h]]
  /\ \A h \in Handlers : writes[h] # Nothing => Writable(writes[h].of, writes[h].target)
PreviewIsTyped == DOMAIN preview \subseteq Ledger!Lines /\ \A l \in DOMAIN preview : preview[l].amount \in Nat

LedgerInv ==
  /\ day \in Nat
  /\ Tables(assets, timeline, nextId, DOMAIN rates, day)
  /\ RatesAreKnown(rates) /\ WritesAreAimed /\ PreviewIsTyped

--------------------------------------------------------------------------------
(* A story that goes on.                                                    *)
LEMMA StoryGoesOn ==
  ASSUME day \in Nat, NEW points, NEW a, Story(points, a, day), NEW b \in Ledger!Asset,
         Ledger!Moved(a, b), NEW rate \in Nat
  PROVE  Story(Append(points, Ledger!Point(b, rate)), b, day)
<1> DEFINE p == Ledger!Point(b, rate)
           new == Append(points, p)
<1>1. p \in LedgerPoints /\ p.amount = b.amount /\ p.currency = b.currency /\ p.day = day
      /\ (p.currency = Ledger!ILS => p.rate = 1)
  BY DEF Ledger!Point, LedgerPoints, Ledger!Asset
<1> HIDE DEF p
<1>2. points \in Seq(LedgerPoints) /\ points # <<>> /\ Len(points) \in Nat \ {0}
  BY DEF Story
<1>3. /\ new \in Seq(LedgerPoints) /\ new # <<>> /\ Len(new) = Len(points) + 1
      /\ new[Len(new)] = p /\ \A i \in 1 .. Len(points) : new[i] = points[i]
  BY <1>1, <1>2
<1> HIDE DEF new
<1>4. \A i \in 1 .. Len(new) : new[i].day <= day
  BY <1>1, <1>2, <1>3 DEF Story
<1>5. ASSUME NEW i \in 1 .. Len(new) - 1
      PROVE  /\ new[i].day <= new[i + 1].day
             /\ new[i].amount # new[i + 1].amount \/ new[i].currency # new[i + 1].currency
  <2>1. CASE i = Len(points)
    <3>1. new[i] = points[Len(points)] /\ new[i + 1] = p
      BY <1>2, <1>3, <2>1
    <3>2. new[i].day <= day
      BY <1>2, <1>3, <1>4
    <3>3. new[i].amount = a.amount /\ new[i].currency = a.currency
      BY <3>1 DEF Story
    <3>4. QED BY <1>1, <3>1, <3>2, <3>3 DEF Ledger!Moved
  <2>2. CASE i # Len(points)
    <3>1. i \in 1 .. Len(points) - 1 /\ new[i] = points[i] /\ new[i + 1] = points[i + 1]
      BY <1>2, <1>3, <2>2
    <3>2. QED BY <3>1 DEF Story
  <2>3. QED BY <2>1, <2>2
<1>6. QED BY <1>1, <1>3, <1>4, <1>5 DEF Story, p, new

LEMMA StoryBegins ==
  ASSUME day \in Nat, NEW a \in Ledger!Asset, NEW rate \in Nat
  PROVE  Story(<<Ledger!Point(a, rate)>>, a, day)
<1> DEFINE p == Ledger!Point(a, rate)
<1>1. p \in LedgerPoints /\ p.amount = a.amount /\ p.currency = a.currency /\ p.day = day
      /\ (p.currency = Ledger!ILS => p.rate = 1)
  BY DEF Ledger!Point, LedgerPoints, Ledger!Asset
<1> HIDE DEF p
<1>2. <<p>> \in Seq(LedgerPoints) /\ <<p>> # <<>> /\ Len(<<p>>) = 1 /\ <<p>>[1] = p
  BY <1>1
<1>3. QED BY <1>1, <1>2 DEF Story, p

(* The story of a holding does not depend on its kind or its type.          *)
LEMMA StoryStays ==
  ASSUME NEW points, NEW a, NEW d \in Nat, NEW e \in Nat, d <= e, Story(points, a, d),
         NEW b \in Ledger!Asset, ~Ledger!Moved(a, b)
  PROVE  Story(points, b, e)
<1>1. a.amount = b.amount /\ a.currency = b.currency
  BY DEF Ledger!Moved
<1>2. \A i \in 1 .. Len(points) : points[i] \in LedgerPoints
  BY DEF Story
<1>3. \A i \in 1 .. Len(points) : points[i].day <= e
  BY <1>2 DEF Story, LedgerPoints
<1>4. QED BY <1>1, <1>3 DEF Story

LEMMA PatchedIsAsset ==
  ASSUME NEW a \in Ledger!Asset, NEW p \in Patches
  PROVE  /\ Ledger!Patched(a, p) \in Ledger!Asset
         /\ Ledger!Patched(a, p).currency \in {a.currency, p.currency}
         /\ p.currency = Nothing => Ledger!Patched(a, p).currency = a.currency
<1> DEFINE b == Ledger!Patched(a, p)
<1>1. p \in [type : Ledger!Types \union {Nothing}, amount : Nat \union {Nothing},
             currency : Ledger!Currencies \union {Nothing}]
  BY LedgerAssumption DEF Ledger!LedgerAssumption
<1>2. b = [type |-> Ledger!Or(p.type, a.type),
           kind |-> IF p.type = Nothing THEN a.kind ELSE Ledger!KindForType(p.type, a.kind),
           amount |-> Ledger!Or(p.amount, a.amount),
           currency |-> Ledger!Or(p.currency, a.currency), says |-> a.says]
  BY DEF Ledger!Patched
<1>3. Ledger!KindForType(p.type, a.kind) \in Ledger!Kinds
  BY DEF Ledger!KindForType, Ledger!Kinds, Ledger!Asset
<1>4. QED BY <1>1, <1>2, <1>3 DEF Ledger!Or, Ledger!Asset

LEMMA NewIsAsset ==
  ASSUME NEW a \in NewAssets
  PROVE  /\ [a EXCEPT !.kind = Ledger!KindForType(a.type, a.kind)] \in Ledger!Asset
         /\ [a EXCEPT !.kind = Ledger!KindForType(a.type, a.kind)].currency = a.currency
<1>1. a \in Ledger!Asset
  BY LedgerAssumption DEF Ledger!LedgerAssumption
<1>2. Ledger!KindForType(a.type, a.kind) \in Ledger!Kinds
  BY <1>1 DEF Ledger!KindForType, Ledger!Kinds, Ledger!Asset
<1>3. QED BY <1>1, <1>2 DEF Ledger!Asset

(* A write with a rate of its currency keeps the tables.                    *)
LEMMA PerformKeepsTables ==
  ASSUME day \in Nat, NEW R, Tables(assets, timeline, nextId, R, day),
         NEW w, NEW target \in R \union {Ledger!ILS}, Writable(w, target),
         NEW rate \in Nat, Ledger!Perform(w, rate)
  PROVE  Tables(assets', timeline', nextId', R, day)
<1>1. CASE w.id = Nothing
  <2> DEFINE a == [w.asset EXCEPT !.kind = Ledger!KindForType(w.asset.type, w.asset.kind)]
  <2>1. w.asset \in NewAssets /\ w.asset.currency = target
    BY <1>1 DEF Writable
  <2>2. a \in Ledger!Asset /\ a.currency = target
    BY <2>1, NewIsAsset
  <2>3. Ledger!AddAsset(w.asset, rate)
    BY <1>1 DEF Ledger!Perform
  <2>4. Ledger!Point(w.asset, rate) = Ledger!Point(a, rate)
    <3>1. w.asset \in Ledger!Asset
      BY <2>1, LedgerAssumption DEF Ledger!LedgerAssumption
    <3>2. a.amount = w.asset.amount /\ a.currency = w.asset.currency
      BY <3>1 DEF Ledger!Asset
    <3> HIDE DEF a
    <3>3. QED BY <3>2 DEF Ledger!Point
  <2> HIDE DEF a
  <2>5. /\ assets' = [id \in DOMAIN assets \union {nextId} |-> IF id = nextId THEN a ELSE assets[id]]
        /\ timeline' = [id \in DOMAIN timeline \union {nextId} |->
                          IF id = nextId THEN <<Ledger!Point(a, rate)>> ELSE timeline[id]]
        /\ nextId' = nextId + 1
    BY <2>3, <2>4 DEF Ledger!AddAsset, Ledger!With, a
  <2>6. Story(<<Ledger!Point(a, rate)>>, a, day)
    BY <2>2, StoryBegins
  <2>7. DOMAIN assets' \subseteq 1 .. nextId' - 1 /\ nextId' \in Nat \ {0}
    BY <2>5 DEF Tables
  <2>8. ASSUME NEW id \in DOMAIN assets'
        PROVE  Story(timeline'[id], assets'[id], day) /\ assets'[id].currency \in R \union {Ledger!ILS}
    BY <2>2, <2>5, <2>6 DEF Tables
  <2>9. QED BY <2>5, <2>7, <2>8 DEF Tables
<1>2. CASE w.id # Nothing
  <2>1. Ledger!UpdateAsset(w.id, w.patch, rate)
    BY <1>2 DEF Ledger!Perform
  <2>2. CASE w.id \notin DOMAIN assets
    BY <2>1, <2>2 DEF Ledger!UpdateAsset
  <2>3. CASE w.id \in DOMAIN assets
    <3> DEFINE a == assets[w.id]
               b == Ledger!Patched(a, w.patch)
    <3>1. /\ nextId' = nextId /\ assets' = [assets EXCEPT ![w.id] = b]
          /\ timeline' = [timeline EXCEPT ![w.id] =
                            IF Ledger!Moved(a, b) THEN Append(@, Ledger!Point(b, rate)) ELSE @]
      BY <2>1, <2>3 DEF Ledger!UpdateAsset
    <3>2. Story(timeline[w.id], a, day) /\ a \in Ledger!Asset /\ a.currency \in R \union {Ledger!ILS}
      BY <2>3 DEF Tables, Story
    <3>3. b \in Ledger!Asset /\ b.currency \in R \union {Ledger!ILS}
      BY <1>2, <3>2, PatchedIsAsset DEF Writable
    <3> HIDE DEF a, b
    <3>4. Story(IF Ledger!Moved(a, b) THEN Append(timeline[w.id], Ledger!Point(b, rate))
                ELSE timeline[w.id], b, day)
      BY <3>2, <3>3, StoryGoesOn, StoryStays
    <3>5. ASSUME NEW id \in DOMAIN assets'
          PROVE  Story(timeline'[id], assets'[id], day) /\ assets'[id].currency \in R \union {Ledger!ILS}
      BY <2>3, <3>1, <3>3, <3>4 DEF Tables
    <3>6. QED BY <3>1, <3>5 DEF Tables
  <2>4. QED BY <2>2, <2>3
<1>3. QED BY <1>1, <1>2

--------------------------------------------------------------------------------
(* The rates and the writes that wait for them.                             *)

LEMMA QuotesAreNat ==
  ASSUME RatesAreKnown(rates), NEW rs, Ledger!Fetch(rs)
  PROVE  RatesAreKnown(rs) /\ DOMAIN rates \subseteq DOMAIN rs
<1>1. ASSUME NEW c \in Foreign, NEW n \in Quotes[c] PROVE n \in Nat
  BY LedgerAssumption DEF Ledger!LedgerAssumption
<1>2. CASE rs = rates
  BY <1>2
<1>3. CASE rs # rates
  <2>1. PICK q : /\ \A c \in Foreign : q[c] \in Quotes[c]
                 /\ rs = [c \in Foreign |-> [rate |-> q[c], fresh |-> TRUE]]
    BY <1>3 DEF Ledger!Fetch
  <2>2. QED BY <1>1, <2>1 DEF RatesAreKnown
<1>4. QED BY <1>2, <1>3

LEMMA TablesGrow ==
  ASSUME NEW as, NEW ts, NEW n, NEW R, NEW d \in Nat, Tables(as, ts, n, R, d),
         NEW R2, R \subseteq R2, NEW e \in Nat, d <= e
  PROVE  Tables(as, ts, n, R2, e)
<1>1. ASSUME NEW id \in DOMAIN as PROVE Story(ts[id], as[id], e)
  <2>1. Story(ts[id], as[id], d) /\ as[id] \in Ledger!Asset
    BY DEF Tables, Story
  <2>2. ~Ledger!Moved(as[id], as[id])
    BY DEF Ledger!Moved
  <2>3. QED BY <2>1, <2>2, StoryStays
<1>2. QED BY <1>1 DEF Tables

LEMMA WritesAreWritable ==
  ASSUME LedgerInv, NEW w \in Ledger!NewWrites
  PROVE  Writable(w, Ledger!Target(w)) /\ Ledger!Target(w) \in Ledger!Currencies
<1>1. Nothing \notin Nat
  BY LedgerAssumption DEF Ledger!LedgerAssumption
<1>2. CASE w \in [id : {Nothing}, asset : NewAssets]
  BY <1>2, LedgerAssumption DEF Writable, Ledger!Target, Ledger!LedgerAssumption, Ledger!Asset
<1>3. CASE w \in [id : DOMAIN assets, patch : Patches]
  <2>1. w.id \in DOMAIN assets /\ w.patch \in Patches /\ w.id # Nothing
    BY <1>1, <1>3 DEF LedgerInv, Tables
  <2>2. assets[w.id].currency \in Ledger!Currencies
    BY <2>1 DEF LedgerInv, Tables, Story, Ledger!Asset
  <2>3. w.patch.currency \in Ledger!Currencies \union {Nothing}
    BY <2>1, LedgerAssumption DEF Ledger!LedgerAssumption
  <2>4. QED BY <2>1, <2>2, <2>3 DEF Writable, Ledger!Target
<1>4. QED BY <1>2, <1>3 DEF Ledger!NewWrites

LEMMA WriteKeepsLedger ==
  ASSUME LedgerInv, NEW w \in Ledger!NewWrites, Ledger!Write(w)
  PROVE  LedgerInv'
<1>1. Ledger!Target(w) \in DOMAIN rates \union {Ledger!ILS}
  BY DEF Ledger!Write, Ledger!Fresh
<1>2. Ledger!RateOf(Ledger!Target(w)) \in Nat
  BY DEF Ledger!RateOf, LedgerInv, RatesAreKnown
<1>3. Tables(assets', timeline', nextId', DOMAIN rates, day)
  <2>1. Ledger!Perform(w, Ledger!RateOf(Ledger!Target(w))) /\ Writable(w, Ledger!Target(w))
    BY WritesAreWritable DEF Ledger!Write
  <2>2. day \in Nat /\ Tables(assets, timeline, nextId, DOMAIN rates, day)
    BY DEF LedgerInv
  <2>3. QED BY <1>1, <1>2, <2>1, <2>2, PerformKeepsTables
<1>4. UNCHANGED <<rates, writes, preview, day>>
  BY DEF Ledger!Write
<1>5. QED BY <1>3, <1>4 DEF LedgerInv, WritesAreAimed, PreviewIsTyped

LEMMA WriteWaitsKeepsLedger ==
  ASSUME LedgerInv, NEW w \in Ledger!NewWrites, NEW h \in Handlers, Ledger!WriteWaits(h, w)
  PROVE  LedgerInv'
<1>1. /\ writes' = [writes EXCEPT ![h] = [of |-> w, target |-> Ledger!Target(w)]]
      /\ UNCHANGED <<assets, timeline, nextId, rates, preview, day>>
  BY DEF Ledger!WriteWaits
<1>2. Writable(w, Ledger!Target(w))
  BY WritesAreWritable
<1>3. writes = [k \in Handlers |-> writes[k]] /\ \A k \in Handlers : writes[k] # Nothing =>
        Writable(writes[k].of, writes[k].target)
  BY DEF LedgerInv, WritesAreAimed
<1>4. \A k \in Handlers : writes'[k] # Nothing => Writable(writes'[k].of, writes'[k].target)
  BY <1>1, <1>2, <1>3
<1>5. DOMAIN writes' = Handlers
  BY <1>1, <1>3
<1>6. writes' = [k \in Handlers |-> writes'[k]]
  BY <1>1, <1>3, <1>5
<1>7. QED BY <1>1, <1>4, <1>6 DEF LedgerInv, WritesAreAimed, PreviewIsTyped

LEMMA WriteResumesKeepsLedger ==
  ASSUME LedgerInv, NEW h \in Handlers, Ledger!WriteResumes(h)
  PROVE  LedgerInv'
<1> DEFINE w == writes[h].of
           target == writes[h].target
<1>1. /\ RatesAreKnown(rates') /\ DOMAIN rates \subseteq DOMAIN rates' /\ day' = day /\ day \in Nat
      /\ preview' = preview
  BY QuotesAreNat DEF Ledger!WriteResumes, LedgerInv
<1>2. Tables(assets, timeline, nextId, DOMAIN rates', day)
  <2>1. Tables(assets, timeline, nextId, DOMAIN rates, day)
    BY DEF LedgerInv
  <2>2. QED BY <1>1, <2>1, TablesGrow
<1>3. Writable(w, target)
  BY DEF LedgerInv, WritesAreAimed, Ledger!WriteResumes
<1> HIDE DEF w, target
<1>4. Tables(assets', timeline', nextId', DOMAIN rates', day)
  <2>1. CASE target \in DOMAIN rates'
    <3>1. Ledger!Perform(w, rates'[target].rate)
      BY <2>1 DEF Ledger!WriteResumes, w, target
    <3>2. rates'[target].rate \in Nat
      BY <1>1, <2>1 DEF RatesAreKnown
    <3>3. QED BY <1>1, <1>2, <1>3, <2>1, <3>1, <3>2, PerformKeepsTables
  <2>2. CASE target \notin DOMAIN rates'
    <3>1. UNCHANGED <<assets, timeline, nextId>>
      BY <2>2 DEF Ledger!WriteResumes, target
    <3>2. QED BY <1>2, <3>1
  <2>3. QED BY <2>1, <2>2
<1>5. WritesAreAimed'
  <2>1. writes' = [writes EXCEPT ![h] = Nothing]
    BY DEF Ledger!WriteResumes
  <2>2. QED BY <2>1 DEF LedgerInv, WritesAreAimed
<1>6. QED BY <1>1, <1>4, <1>5 DEF LedgerInv, PreviewIsTyped

LEMMA DeleteKeepsLedger ==
  ASSUME LedgerInv, NEW id, Ledger!Delete(id)
  PROVE  LedgerInv'
<1>1. /\ assets' = [i \in DOMAIN assets \ {id} |-> assets[i]]
      /\ timeline' = [i \in DOMAIN timeline \ {id} |-> timeline[i]]
      /\ UNCHANGED <<nextId, rates, writes, preview, day>>
  BY DEF Ledger!Delete, Ledger!Restrict
<1>2. Tables(assets', timeline', nextId, DOMAIN rates, day)
  BY <1>1 DEF LedgerInv, Tables
<1>3. QED BY <1>1, <1>2 DEF LedgerInv, WritesAreAimed, PreviewIsTyped

--------------------------------------------------------------------------------
(* What a line means.                                                       *)

Matching(line) == {id \in Ledger!Shekels : assets[id].type = line}

LEMMA LedgerCardinality == \A S : Ledger!Cardinality(S) = Cardinality(S)
BY DEF Ledger!Cardinality, Cardinality

LEMMA LineMeans ==
  ASSUME LedgerInv, NEW line, NEW amount
  PROVE  LET r == Ledger!Resolve(line, amount) IN
         /\ r.amount = amount
         /\ r.action \in {"ambiguous", "create", "update", "unchanged"}
         /\ r.action = "create" =>
              /\ Matching(line) = {}
              /\ \A id \in Ledger!Shekels : assets[id].type = "other" => assets[id].says # line
         /\ r.action = "update" => Matching(line) = {r.id}
         /\ r.action = "unchanged" =>
              \E id : Matching(line) = {id} /\ assets[id].amount = amount
<1> DEFINE m == Matching(line)
           candidate == \E id \in Ledger!Shekels :
                          assets[id].type = "other" /\ Ledger!MayBeSameFact(assets[id], line, amount)
           r == Ledger!Resolve(line, amount)
           Means(action, id) == [amount |-> amount, action |-> action, id |-> id]
           id0 == CHOOSE i \in m : TRUE
<1>1. IsFiniteSet(m) /\ Cardinality(m) \in Nat
  <2>1. m \subseteq DOMAIN assets /\ DOMAIN assets \subseteq 1 .. nextId - 1 /\ nextId \in Nat
    BY DEF Matching, Ledger!Shekels, LedgerInv, Tables
  <2>2. IsFiniteSet(1 .. nextId - 1)
    BY <2>1, FS_Interval
  <2> HIDE DEF m
  <2>3. QED BY <2>1, <2>2, FS_Subset, FS_CardinalityType
<1>2. r = CASE Cardinality(m) > 1 -> Means("ambiguous", Nothing)
            [] m = {} /\ candidate -> Means("ambiguous", Nothing)
            [] m = {} /\ ~candidate -> Means("create", Nothing)
            [] OTHER -> Means(IF assets[id0].amount = amount THEN "unchanged" ELSE "update", id0)
  BY LedgerCardinality DEF Ledger!Resolve, Matching
<1> HIDE DEF m, r, id0
<1>3. m = {} => Cardinality(m) = 0
  BY FS_EmptySet
<1>4. CASE Cardinality(m) > 1
  <2>1. r = Means("ambiguous", Nothing)
    BY <1>2, <1>3, <1>4
  <2>2. QED BY <2>1 DEF r
<1>5. CASE m = {} /\ candidate
  <2>1. r = Means("ambiguous", Nothing)
    BY <1>2, <1>3, <1>5
  <2>2. QED BY <2>1 DEF r
<1>6. CASE m = {} /\ ~candidate
  <2>1. r = Means("create", Nothing)
    BY <1>2, <1>3, <1>6
  <2>2. \A id \in Ledger!Shekels : assets[id].type = "other" => assets[id].says # line
    BY <1>6 DEF Ledger!MayBeSameFact
  <2>3. QED BY <1>6, <2>1, <2>2 DEF r, m
<1>7. CASE m # {} /\ ~(Cardinality(m) > 1)
  <2>1. r = Means(IF assets[id0].amount = amount THEN "unchanged" ELSE "update", id0)
    BY <1>2, <1>7
  <2>2. Cardinality(m) = 1
    BY <1>1, <1>7, FS_EmptySet
  <2>3. \E x : m = {x}
    BY <1>1, <2>2, FS_Singleton
  <2>4. id0 \in m
    BY <1>7 DEF id0
  <2>5. m = {id0}
    BY <2>3, <2>4
  <2>6. QED BY <2>1, <2>5 DEF r, m
<1>8. QED BY <1>4, <1>5, <1>6, <1>7

LEMMA PreviewKeepsLedger ==
  ASSUME LedgerInv, NEW paste \in Pastes, Ledger!Preview(paste)
  PROVE  LedgerInv'
<1>1. DOMAIN paste \subseteq Ledger!Lines /\ \A l \in DOMAIN paste : paste[l] \in Nat
  BY LedgerAssumption DEF Ledger!LedgerAssumption, Ledger!Range
<1>2. /\ preview' = [line \in DOMAIN paste |-> Ledger!Resolve(line, paste[line])]
      /\ UNCHANGED <<assets, timeline, nextId, rates, writes, day>>
  BY DEF Ledger!Preview
<1>3. \A l \in DOMAIN paste : Ledger!Resolve(l, paste[l]).amount = paste[l]
  BY LineMeans
<1>4. PreviewIsTyped'
  BY <1>1, <1>2, <1>3 DEF PreviewIsTyped
<1>5. QED BY <1>2, <1>4 DEF LedgerInv, WritesAreAimed

(* A set taken as a sequence: every member once.                            *)
LEMMA EachOnce ==
  ASSUME NEW S, IsFiniteSet(S)
  PROVE  LET s == Ledger!SetToSeq(S) IN
         /\ s \in [1 .. Cardinality(S) -> S] /\ s \in Seq(S) /\ Len(s) = Cardinality(S)
         /\ Cardinality(S) \in Nat
         /\ \A i, j \in DOMAIN s : s[i] = s[j] => i = j
         /\ \A x \in S : \E i \in DOMAIN s : s[i] = x
<1> DEFINE n == Cardinality(S)
           s == Ledger!SetToSeq(S)
           Once(f) == f \in [1 .. n -> S] /\ \A a, b \in DOMAIN f : f[a] = f[b] => a = b
<1>1. n \in Nat /\ ExistsBijection(1 .. n, S)
  BY FS_CardinalityType
<1> HIDE DEF n
<1>2. \E f : Once(f)
  <2>1. PICK f : f \in Bijection(1 .. n, S)
    BY <1>1 DEF ExistsBijection
  <2>2. QED BY <2>1 DEF Bijection, Injection, IsInjective
<1>3. s = CHOOSE f \in [1 .. n -> S] : \A a, b \in DOMAIN f : f[a] = f[b] => a = b
  BY LedgerCardinality DEF Ledger!SetToSeq, Ledger!IsInjective, n
<1> HIDE DEF s
<1>4. Once(s)
  BY <1>2, <1>3, ZenonT(30)
<1>5. s \in Injection(1 .. n, S)
  BY <1>4 DEF Injection, IsInjective
<1>6. IsFiniteSet(1 .. n) /\ Cardinality(1 .. n) = n
  BY <1>1, FS_Interval
<1>7. s \in Surjection(1 .. n, S)
  BY <1>5, <1>6, FS_Injection DEF n
<1>8. \A x \in S : \E i \in DOMAIN s : s[i] = x
  BY <1>4, <1>7 DEF Surjection
<1>9. s \in Seq(S) /\ Len(s) = n
  BY <1>1, <1>4
<1>10. QED BY <1>1, <1>4, <1>8, <1>9 DEF n, s

--------------------------------------------------------------------------------
(* The paste that is applied.                                               *)

Does(S, action) == {l \in S : preview[l].action = action}

(* What the lines of S mean now is what the user reviewed.                  *)
LEMMA ReviewedIsMeant ==
  ASSUME LedgerInv, NEW S, S \subseteq DOMAIN preview, Ledger!MayApply(Ledger!Restrict(preview, S))
  PROVE  \A l \in S :
           /\ l \in Ledger!Lines /\ preview[l].amount \in Nat
           /\ preview[l].action \in {"create", "update", "unchanged"}
           /\ preview[l].action = "create" =>
                /\ Matching(l) = {}
                /\ \A id \in Ledger!Shekels : assets[id].type = "other" => assets[id].says # l
           /\ preview[l].action = "update" => Matching(l) = {preview[l].id}
           /\ preview[l].action = "unchanged" =>
                \E id : Matching(l) = {id} /\ assets[id].amount = preview[l].amount
<1> TAKE l \in S
<1>1. l \in Ledger!Lines /\ preview[l].amount \in Nat
  BY DEF LedgerInv, PreviewIsTyped
<1>2. preview[l].action # "ambiguous" /\ Ledger!Resolve(l, preview[l].amount) = preview[l]
  BY DEF Ledger!MayApply, Ledger!Restrict
<1> DEFINE r == preview[l]
<1> HIDE DEF r
<1>3. /\ r.action \in {"ambiguous", "create", "update", "unchanged"}
      /\ r.action = "create" =>
           /\ Matching(l) = {}
           /\ \A id \in Ledger!Shekels : assets[id].type = "other" => assets[id].says # l
      /\ r.action = "update" => Matching(l) = {r.id}
      /\ r.action = "unchanged" => \E id : Matching(l) = {id} /\ assets[id].amount = r.amount
  <2>1. Ledger!Resolve(l, r.amount) = r
    BY <1>2 DEF r
  <2>2. QED BY <2>1, LineMeans
<1>4. QED BY <1>1, <1>2, <1>3 DEF r

(* A new row for every line that creates, its amount in the row of every    *)
(* line that updates, and nothing else.                                     *)
PasteApplied(S, s) ==
  LET new == nextId .. nextId + Len(s) - 1 IN
  /\ \A i, j \in DOMAIN s : s[i] = s[j] => i = j
  /\ \A l \in Does(S, "create") : \E i \in DOMAIN s : s[i] = l
  /\ DOMAIN assets' = DOMAIN assets \union new /\ DOMAIN timeline' = DOMAIN assets'
  /\ nextId' = nextId + Len(s)
  /\ \A id \in new :
       LET l == s[id - nextId + 1] IN
       /\ l \in Does(S, "create")
       /\ assets'[id] = Ledger!Created(l, preview[l].amount)
       /\ timeline'[id] = <<Ledger!Point(assets'[id], 1)>>
  /\ \A id \in DOMAIN assets :
       \/ \E l \in Does(S, "update") :
            /\ Matching(l) = {id}
            /\ assets'[id] = [assets[id] EXCEPT !.amount = preview[l].amount]
            /\ timeline'[id] = IF Ledger!Moved(assets[id], assets'[id])
                               THEN Append(timeline[id], Ledger!Point(assets'[id], 1))
                               ELSE timeline[id]
       \/ /\ \A l \in Does(S, "update") : Matching(l) # {id}
          /\ assets'[id] = assets[id] /\ timeline'[id] = timeline[id]

LEMMA ApplyDoes ==
  ASSUME LedgerInv, NEW S, Ledger!Apply(S)
  PROVE  \E s \in Seq(Does(S, "create")) : PasteApplied(S, s)
<1> DEFINE meant == Ledger!Restrict(preview, S)
           C == {l \in S : meant[l].action = "create"}
           U == {l \in S : meant[l].action = "update"}
           s == Ledger!SetToSeq(C)
           new == nextId .. nextId + Len(s) - 1
           NewRow(id) == Ledger!Created(s[id - nextId + 1], meant[s[id - nextId + 1]].amount)
           LineOf(id) == CHOOSE l \in U : meant[l].id = id
           touched == {meant[l].id : l \in U} \intersect DOMAIN assets
<1>1. /\ S \subseteq DOMAIN preview /\ Ledger!MayApply(meant)
      /\ assets' = [id \in DOMAIN assets \union new |->
                     IF id \in new THEN NewRow(id)
                     ELSE IF id \in touched THEN [assets[id] EXCEPT !.amount = meant[LineOf(id)].amount]
                     ELSE assets[id]]
      /\ timeline' = [id \in DOMAIN assets' |->
                       IF id \in new THEN <<Ledger!Point(assets'[id], 1)>>
                       ELSE IF id \in touched /\ Ledger!Moved(assets[id], assets'[id])
                            THEN Append(timeline[id], Ledger!Point(assets'[id], 1)) ELSE timeline[id]]
      /\ nextId' = nextId + Len(s)
  BY DEF Ledger!Apply
<1>2. \A l \in S : meant[l] = preview[l]
  BY DEF Ledger!Restrict
<1>3. C = Does(S, "create") /\ U = Does(S, "update")
  BY <1>2 DEF Does
<1>4. IsFiniteSet(C)
  <2>1. C \subseteq Ledger!Lines
    BY <1>1 DEF LedgerInv, PreviewIsTyped
  <2>2. IsFiniteSet(Ledger!Lines)
    <3>1. Ledger!Lines = ({} \union {"deposit"}) \union {"loan"}
      BY DEF Ledger!Lines
    <3>2. QED BY <3>1, FS_EmptySet, FS_AddElement
  <2> HIDE DEF C
  <2>3. QED BY <2>1, <2>2, FS_Subset
<1> HIDE DEF meant
<1>5. /\ s \in Seq(C) /\ \A i, j \in DOMAIN s : s[i] = s[j] => i = j
      /\ \A l \in C : \E i \in DOMAIN s : s[i] = l
      /\ Len(s) \in Nat /\ DOMAIN s = 1 .. Len(s)
  BY <1>4, EachOnce, ZenonT(30)
<1> HIDE DEF s, C, U
<1>6. nextId \in Nat \ {0} /\ DOMAIN assets \subseteq 1 .. nextId - 1
  BY DEF LedgerInv, Tables
<1>7. \A id \in DOMAIN assets : id \notin new
  BY <1>5, <1>6
<1>8. ASSUME NEW id \in new
      PROVE  LET l == s[id - nextId + 1] IN
             /\ l \in C
             /\ assets'[id] = Ledger!Created(l, preview[l].amount)
             /\ timeline'[id] = <<Ledger!Point(assets'[id], 1)>>
  <2>1. id - nextId + 1 \in DOMAIN s
    BY <1>5, <1>6
  <2>2. s[id - nextId + 1] \in C /\ s[id - nextId + 1] \in S
    BY <1>5, <2>1 DEF C
  <2>3. assets'[id] = NewRow(id) /\ timeline'[id] = <<Ledger!Point(assets'[id], 1)>>
    BY <1>1
  <2>4. QED BY <1>2, <2>2, <2>3
<1>9. ASSUME NEW id \in DOMAIN assets
      PROVE  \/ \E l \in U :
                  /\ Matching(l) = {id}
                  /\ assets'[id] = [assets[id] EXCEPT !.amount = preview[l].amount]
                  /\ timeline'[id] = IF Ledger!Moved(assets[id], assets'[id])
                                     THEN Append(timeline[id], Ledger!Point(assets'[id], 1))
                                     ELSE timeline[id]
             \/ /\ \A l \in U : Matching(l) # {id}
                /\ assets'[id] = assets[id] /\ timeline'[id] = timeline[id]
  <2>1. \A l \in U : l \in S /\ meant[l] = preview[l] /\ Matching(l) = {meant[l].id}
    BY <1>1, <1>2, <1>3, ReviewedIsMeant DEF U, Does, meant
  <2>2. CASE id \in touched
    <3>1. LineOf(id) \in U /\ meant[LineOf(id)].id = id
      BY <2>2
    <3>2. assets'[id] = [assets[id] EXCEPT !.amount = meant[LineOf(id)].amount]
      BY <1>1, <1>7, <2>2
    <3>3. timeline'[id] = IF Ledger!Moved(assets[id], assets'[id])
                          THEN Append(timeline[id], Ledger!Point(assets'[id], 1)) ELSE timeline[id]
      BY <1>1, <1>7, <2>2
    <3> HIDE DEF LineOf
    <3>4. QED BY <2>1, <3>1, <3>2, <3>3
  <2>3. CASE id \notin touched
    <3>1. \A l \in U : meant[l].id # id
      BY <2>3
    <3>2. assets'[id] = assets[id] /\ timeline'[id] = timeline[id]
      BY <1>1, <1>7, <2>3
    <3>3. QED BY <2>1, <3>1, <3>2
  <2>4. QED BY <2>2, <2>3
<1>10. DOMAIN assets' = DOMAIN assets \union new /\ DOMAIN timeline' = DOMAIN assets'
  BY <1>1
<1> HIDE DEF new
<1>11. s \in Seq(Does(S, "create")) /\ PasteApplied(S, s)
  BY <1>1, <1>3, <1>5, <1>8, <1>9, <1>10 DEF new, PasteApplied
<1>12. QED BY <1>11

LEMMA CreatedIsAsset ==
  ASSUME NEW l \in Ledger!Lines, NEW a \in Nat
  PROVE  Ledger!Created(l, a) \in Ledger!Asset
BY DEF Ledger!Created, Ledger!KindForType, Ledger!Asset, Ledger!Types, Ledger!Kinds, Ledger!Lines,
       Ledger!Currencies

LEMMA ApplyKeepsLedger ==
  ASSUME LedgerInv, NEW S, Ledger!Apply(S)
  PROVE  LedgerInv'
<1> DEFINE R == DOMAIN rates
<1>1. UNCHANGED <<rates, writes, preview, day>> /\ S \subseteq DOMAIN preview
      /\ Ledger!MayApply(Ledger!Restrict(preview, S))
  BY DEF Ledger!Apply
<1>2. \A l \in S : l \in Ledger!Lines /\ preview[l].amount \in Nat
  BY <1>1, ReviewedIsMeant
<1>3. PICK s \in Seq(Does(S, "create")) : PasteApplied(S, s)
  BY ApplyDoes
<1>4. Len(s) \in Nat /\ nextId \in Nat \ {0} /\ DOMAIN assets \subseteq 1 .. nextId - 1 /\ day \in Nat
  BY DEF LedgerInv, Tables
<1>5. ASSUME NEW id \in nextId .. nextId + Len(s) - 1
      PROVE  Story(timeline'[id], assets'[id], day) /\ assets'[id].currency \in R \union {Ledger!ILS}
  <2> DEFINE l == s[id - nextId + 1]
  <2>1. l \in S /\ assets'[id] = Ledger!Created(l, preview[l].amount)
        /\ timeline'[id] = <<Ledger!Point(assets'[id], 1)>>
    BY <1>3 DEF Does, PasteApplied
  <2>2. assets'[id] \in Ledger!Asset
    BY <1>2, <2>1, CreatedIsAsset
  <2>3. assets'[id].currency = Ledger!ILS
    BY <2>1 DEF Ledger!Created
  <2>4. QED BY <1>4, <2>1, <2>2, <2>3, StoryBegins
<1>6. ASSUME NEW id \in DOMAIN assets
      PROVE  Story(timeline'[id], assets'[id], day) /\ assets'[id].currency \in R \union {Ledger!ILS}
  <2>1. Story(timeline[id], assets[id], day) /\ assets[id] \in Ledger!Asset
        /\ assets[id].currency \in R \union {Ledger!ILS}
    BY DEF LedgerInv, Tables, Story
  <2>2. ASSUME NEW l \in Does(S, "update"),
               assets'[id] = [assets[id] EXCEPT !.amount = preview[l].amount],
               timeline'[id] = IF Ledger!Moved(assets[id], assets'[id])
                               THEN Append(timeline[id], Ledger!Point(assets'[id], 1))
                               ELSE timeline[id]
        PROVE  Story(timeline'[id], assets'[id], day) /\ assets'[id].currency \in R \union {Ledger!ILS}
    <3>1. preview[l].amount \in Nat
      BY <1>2 DEF Does
    <3>2. assets'[id] \in Ledger!Asset /\ assets'[id].currency = assets[id].currency
      BY <2>1, <2>2, <3>1 DEF Ledger!Asset
    <3>3. QED BY <1>4, <2>1, <2>2, <3>2, StoryGoesOn, StoryStays
  <2>3. QED BY <1>3, <2>1, <2>2 DEF PasteApplied
<1>7. Tables(assets', timeline', nextId', R, day)
  <2> DEFINE new == nextId .. nextId + Len(s) - 1
  <2>1. DOMAIN assets' = DOMAIN assets \union new /\ DOMAIN timeline' = DOMAIN assets' /\ nextId' = nextId + Len(s)
    BY <1>3 DEF PasteApplied
  <2>2. nextId' \in Nat \ {0} /\ DOMAIN assets' \subseteq 1 .. nextId' - 1
    BY <1>4, <2>1
  <2>3. \A id \in new : Story(timeline'[id], assets'[id], day) /\ assets'[id].currency \in R \union {Ledger!ILS}
    BY <1>5
  <2> HIDE DEF new, R
  <2>4. \A id \in DOMAIN assets' :
          Story(timeline'[id], assets'[id], day) /\ assets'[id].currency \in R \union {Ledger!ILS}
    BY <1>6, <2>1, <2>3
  <2>5. QED BY <2>1, <2>2, <2>4 DEF Tables
<1>8. QED BY <1>1, <1>7 DEF LedgerInv, WritesAreAimed, PreviewIsTyped

LEMMA LedgerStarts == Ledger!Init => LedgerInv
<1> SUFFICES ASSUME Ledger!Init PROVE LedgerInv
  OBVIOUS
<1>1. DOMAIN assets = {} /\ DOMAIN timeline = {} /\ DOMAIN rates = {} /\ DOMAIN preview = {}
  BY DEF Ledger!Init
<1>2. WritesAreAimed
  BY DEF Ledger!Init, WritesAreAimed
<1>3. QED BY <1>1, <1>2 DEF Ledger!Init, LedgerInv, Tables, RatesAreKnown, PreviewIsTyped

LEMMA LedgerStaysTrue == LedgerInv /\ [Ledger!Next]_(Ledger!vars) => LedgerInv'
<1> SUFFICES ASSUME LedgerInv, [Ledger!Next]_(Ledger!vars) PROVE LedgerInv'
  OBVIOUS
<1>1. CASE Ledger!Refresh
  <2>1. /\ RatesAreKnown(rates') /\ DOMAIN rates \subseteq DOMAIN rates' /\ day' = day /\ day \in Nat
        /\ UNCHANGED <<assets, timeline, nextId, writes, preview>>
    BY <1>1, QuotesAreNat DEF Ledger!Refresh, LedgerInv
  <2>2. Tables(assets, timeline, nextId, DOMAIN rates', day)
    BY <2>1, TablesGrow DEF LedgerInv
  <2>3. QED BY <2>1, <2>2 DEF LedgerInv, WritesAreAimed, PreviewIsTyped
<1>2. CASE Ledger!NextDay
  <2>1. /\ day' = day + 1 /\ day \in Nat /\ day' \in Nat /\ day <= day'
        /\ rates' = [c \in DOMAIN rates |-> [rates[c] EXCEPT !.fresh = FALSE]]
        /\ UNCHANGED <<assets, timeline, nextId, writes, preview>>
    BY <1>2 DEF Ledger!NextDay, LedgerInv
  <2>2. DOMAIN rates' = DOMAIN rates
    BY <2>1
  <2>3. \A c \in DOMAIN rates : rates'[c] \in [rate : Nat, fresh : BOOLEAN]
    BY <2>1 DEF LedgerInv, RatesAreKnown
  <2>4. RatesAreKnown(rates')
    BY <2>2, <2>3 DEF LedgerInv, RatesAreKnown
  <2>5. Tables(assets, timeline, nextId, DOMAIN rates', day')
    BY <2>1, <2>2, TablesGrow DEF LedgerInv
  <2>6. QED BY <2>1, <2>4, <2>5 DEF LedgerInv, WritesAreAimed, PreviewIsTyped
<1>3. CASE Ledger!BankSync \/ UNCHANGED Ledger!vars
  BY <1>3 DEF Ledger!BankSync, Ledger!vars, LedgerInv, WritesAreAimed, PreviewIsTyped
<1>4. ASSUME NEW w \in Ledger!NewWrites,
             Ledger!Write(w) \/ \E h \in Handlers : Ledger!WriteWaits(h, w)
      PROVE  LedgerInv'
  BY <1>4, WriteKeepsLedger, WriteWaitsKeepsLedger
<1>5. CASE \E h \in Handlers : Ledger!WriteResumes(h)
  BY <1>5, WriteResumesKeepsLedger
<1>6. CASE \E id \in Ids : Ledger!Delete(id)
  BY <1>6, DeleteKeepsLedger
<1>7. CASE \E paste \in Pastes : Ledger!Preview(paste)
  BY <1>7, PreviewKeepsLedger
<1>8. CASE \E S \in SUBSET Ledger!Lines : Ledger!Apply(S)
  BY <1>8, ApplyKeepsLedger
<1>9. QED BY <1>1, <1>2, <1>3, <1>4, <1>5, <1>6, <1>7, <1>8 DEF Ledger!Next

--------------------------------------------------------------------------------
(* The history ends where the net worth is.                                 *)

LEMMA LedgerSum == ASSUME NEW f, NEW S PROVE Ledger!SumFunctionOnSet(f, S) = SumFunctionOnSet(f, S)
BY DEF SumFunctionOnSet, FoldFunctionOnSet, MapThenFoldSet,
       Ledger!SumFunctionOnSet, Ledger!FoldFunctionOnSet, Ledger!MapThenFoldSet

(* The last point that a day reaches, when it reaches the last.             *)
LEMMA LastIsReached ==
  ASSUME LedgerInv, NEW id \in DOMAIN timeline, Ledger!Last(timeline[id]).day <= bankDay
  PROVE  Ledger!Reached(id, bankDay) = Len(timeline[id])
<1> DEFINE points == timeline[id]
           S == {1} \union {i \in DOMAIN points : points[i].day <= bankDay}
<1>1. points \in Seq(LedgerPoints) /\ Len(points) \in Nat \ {0} /\ DOMAIN points = 1 .. Len(points)
  BY DEF LedgerInv, Tables, Story
<1>2. points[Len(points)].day <= bankDay
  BY DEF Ledger!Last
<1> HIDE DEF points
<1>3. Len(points) \in S /\ S \subseteq 1 .. Len(points)
  BY <1>1, <1>2
<1>4. Ledger!Reached(id, bankDay) = Ledger!Max(S)
  BY DEF Ledger!Reached, points
<1> HIDE DEF S
<1>5. Ledger!Max(S) = CHOOSE x \in S : \A y \in S : x >= y
  BY DEF Ledger!Max
<1>6. ASSUME NEW x \in S, \A y \in S : x >= y PROVE x = Len(points)
  <2>1. x >= Len(points) /\ x \in 1 .. Len(points)
    BY <1>3, <1>6
  <2>2. \A n \in Nat : \A y \in 1 .. n : y >= n => y = n
    OBVIOUS
  <2>3. QED BY <1>1, <2>1, <2>2
<1>7. \A y \in S : Len(points) >= y
  BY <1>1, <1>3
<1>8. Ledger!Max(S) = Len(points)
  BY <1>3, <1>5, <1>6, <1>7
<1>9. QED BY <1>4, <1>8 DEF points

LEMMA PresentIsOneNumber == LedgerInv => Ledger!PresentAgrees
<1> SUFFICES ASSUME LedgerInv, bankDay > 0,
                    \A id \in DOMAIN timeline : Ledger!Last(timeline[id]).day <= bankDay
             PROVE  Ledger!LastPoint = Ledger!NetWorth
  BY DEF Ledger!PresentAgrees
<1> DEFINE f == [id \in DOMAIN timeline |-> Ledger!Signed(id, Ledger!Reached(id, bankDay))]
           g == [id \in DOMAIN assets |->
                   Ledger!Sign(assets[id]) * assets[id].amount * Ledger!RateOf(assets[id].currency)]
<1>1. DOMAIN timeline = DOMAIN assets /\ IsFiniteSet(DOMAIN assets)
  <2>1. DOMAIN assets \subseteq 1 .. nextId - 1 /\ nextId \in Nat
    BY DEF LedgerInv, Tables
  <2>2. IsFiniteSet(1 .. nextId - 1)
    BY <2>1, FS_Interval
  <2>3. QED BY <2>1, <2>2, FS_Subset DEF LedgerInv, Tables
<1>2. ASSUME NEW id \in DOMAIN assets PROVE f[id] = g[id]
  <2>1. Ledger!Reached(id, bankDay) = Len(timeline[id])
    BY <1>1, <1>2, LastIsReached
  <2> DEFINE p == timeline[id][Len(timeline[id])]
  <2>2. /\ p.amount = assets[id].amount /\ p.currency = assets[id].currency
        /\ p.currency = Ledger!ILS => p.rate = 1
        /\ assets[id].currency \in DOMAIN rates \union {Ledger!ILS}
    BY <1>1 DEF LedgerInv, Tables, Story
  <2>3. Ledger!ILS \notin DOMAIN rates
    BY LedgerAssumption DEF LedgerInv, RatesAreKnown, Ledger!LedgerAssumption
  <2>4. f[id] = Ledger!Sign(assets[id]) * p.amount *
                  (IF assets[id].currency \in DOMAIN rates THEN Ledger!RateOf(assets[id].currency)
                   ELSE p.rate)
    BY <1>1, <2>1 DEF Ledger!Signed
  <2> HIDE DEF p, f
  <2>5. Ledger!RateOf(assets[id].currency) =
          IF assets[id].currency \in DOMAIN rates THEN Ledger!RateOf(assets[id].currency) ELSE p.rate
    BY <2>2, <2>3 DEF Ledger!RateOf
  <2>6. QED BY <2>2, <2>4, <2>5
<1>3. DOMAIN f = DOMAIN timeline /\ DOMAIN g = DOMAIN assets
  OBVIOUS
<1>4. Ledger!LastPoint = SumFunctionOnSet(f, DOMAIN assets)
  BY <1>1, <1>3, LedgerSum DEF Ledger!LastPoint, Ledger!SumFunction
<1>5. Ledger!NetWorth = SumFunctionOnSet(g, DOMAIN assets)
  BY <1>3, LedgerSum DEF Ledger!NetWorth, Ledger!SumFunction
<1> HIDE DEF f, g
<1>6. QED BY <1>1, <1>2, <1>4, <1>5, SumOfSame

(* The history of an asset is what it was worth, its last point what the    *)
(* table says, and the history ends where the net worth is, whatever the    *)
(* order of the writes that wait for a rate (db.ts:1118-1169).              *)
THEOREM LedgerIsAlwaysSound == Ledger!Spec => []LedgerIsSound
<1>1. LedgerInv => Ledger!TimelineIsExact
  BY DEF LedgerInv, Tables, Story, Ledger!TimelineIsExact, Ledger!Last
<1>2. LedgerInv => LedgerIsSound
  BY <1>1, PresentIsOneNumber DEF LedgerIsSound
<1>3. QED BY <1>2, LedgerStarts, LedgerStaysTrue, PTL DEF Ledger!Spec

--------------------------------------------------------------------------------
(* What was confirmed is what is stored.                                    *)

Held(line) == {id \in DOMAIN assets' : assets'[id].currency = Ledger!ILS /\ assets'[id].type = line}

LEMMA ApplyLeavesTheFact ==
  ASSUME LedgerInv, NEW S, S \subseteq DOMAIN preview, Ledger!Apply(S), NEW line \in S
  PROVE  \E id0 : /\ Held(line) = {id0}
                  /\ assets'[id0].amount = preview[line].amount
                  /\ \/ id0 \in DOMAIN assets
                     \/ \A id \in Ledger!Shekels : assets[id].type = "other" => assets[id].says # line
<1>1. /\ preview[line].action \in {"create", "update", "unchanged"}
      /\ preview[line].action = "create" =>
           /\ Matching(line) = {}
           /\ \A id \in Ledger!Shekels : assets[id].type = "other" => assets[id].says # line
      /\ preview[line].action = "update" => Matching(line) = {preview[line].id}
      /\ preview[line].action = "unchanged" =>
           \E id : Matching(line) = {id} /\ assets[id].amount = preview[line].amount
  BY ReviewedIsMeant DEF Ledger!Apply
<1>2. PICK s \in Seq(Does(S, "create")) : PasteApplied(S, s)
  BY ApplyDoes
<1> DEFINE new == nextId .. nextId + Len(s) - 1
           LineAt(id) == s[id - nextId + 1]
<1>3. /\ nextId \in Nat /\ DOMAIN assets \subseteq 1 .. nextId - 1
      /\ \A id \in DOMAIN assets : assets[id] \in Ledger!Asset
  BY DEF LedgerInv, Tables, Story
<1>4. \A id \in DOMAIN assets :
        id \notin new /\ assets'[id].type = assets[id].type /\ assets'[id].currency = assets[id].currency
  <2> SUFFICES ASSUME NEW id \in DOMAIN assets
               PROVE  /\ id \notin new /\ assets'[id].type = assets[id].type
                      /\ assets'[id].currency = assets[id].currency
    OBVIOUS
  <2>1. id \in 1 .. nextId - 1
    BY <1>3
  <2>2. id \notin new
    BY <1>3, <2>1
  <2>3. \/ assets'[id] = assets[id]
        \/ \E l \in Does(S, "update") : assets'[id] = [assets[id] EXCEPT !.amount = preview[l].amount]
    BY <1>2 DEF PasteApplied
  <2>4. assets[id] \in Ledger!Asset
    BY <1>3
  <2>5. assets'[id].type = assets[id].type /\ assets'[id].currency = assets[id].currency
    BY <2>3, <2>4 DEF Ledger!Asset
  <2>6. QED BY <2>2, <2>5
<1> USE DEF PasteApplied
<1>5. ASSUME NEW id \in new
      PROVE  /\ LineAt(id) \in Does(S, "create")
             /\ assets'[id].type = LineAt(id) /\ assets'[id].currency = Ledger!ILS
             /\ assets'[id].amount = preview[LineAt(id)].amount
  <2>1. LineAt(id) \in Does(S, "create")
        /\ assets'[id] = Ledger!Created(LineAt(id), preview[LineAt(id)].amount)
    BY <1>2
  <2> HIDE DEF LineAt
  <2>2. QED BY <2>1 DEF Ledger!Created
<1> HIDE DEF LineAt
<1>6. Held(line) = Matching(line) \union {id \in new : LineAt(id) = line}
  BY <1>2, <1>4, <1>5 DEF Held, Matching, Ledger!Shekels
<1>7. CASE preview[line].action = "create"
  <2>1. PICK i \in DOMAIN s : s[i] = line
    BY <1>2, <1>7 DEF Does
  <2>2. i \in 1 .. Len(s) /\ Len(s) \in Nat
    OBVIOUS
  <2>3. nextId + i - 1 \in new /\ LineAt(nextId + i - 1) = line
    BY <1>3, <2>1, <2>2 DEF LineAt
  <2>4. ASSUME NEW id \in new, LineAt(id) = line PROVE id = nextId + i - 1
    <3>1. id - nextId + 1 \in DOMAIN s /\ s[id - nextId + 1] = s[i]
      BY <1>3, <2>1, <2>2, <2>4 DEF LineAt
    <3>2. id - nextId + 1 = i
      BY <1>2, <3>1
    <3>3. QED BY <1>3, <2>2, <3>2
  <2> HIDE DEF new
  <2>5. Held(line) = {nextId + i - 1}
    BY <1>1, <1>6, <1>7, <2>3, <2>4
  <2>6. QED BY <1>1, <1>5, <1>7, <2>3, <2>5
<1> HIDE DEF new
<1>8. ASSUME preview[line].action # "create", NEW id0, Matching(line) = {id0},
             \/ preview[line].action = "update"
             \/ preview[line].action = "unchanged" /\ assets[id0].amount = preview[line].amount
      PROVE  Held(line) = {id0} /\ assets'[id0].amount = preview[line].amount /\ id0 \in DOMAIN assets
  <2>1. Held(line) = {id0}
    BY <1>5, <1>6, <1>8 DEF Does
  <2>2. id0 \in DOMAIN assets /\ assets[id0].type = line
    BY <1>8 DEF Matching, Ledger!Shekels
  <2>3. \A l : Matching(l) = {id0} => l = line
    BY <2>2 DEF Matching
  <2>4. CASE preview[line].action = "update"
    <3>1. line \in Does(S, "update")
      BY <2>4 DEF Does
    <3>2. assets'[id0] = [assets[id0] EXCEPT !.amount = preview[line].amount]
      BY <1>2, <1>8, <2>2, <2>3, <3>1
    <3>3. assets'[id0].amount = preview[line].amount
      BY <1>3, <2>2, <3>2 DEF Ledger!Asset
    <3>4. QED BY <2>1, <2>2, <3>3
  <2>5. CASE preview[line].action = "unchanged" /\ assets[id0].amount = preview[line].amount
    <3>1. line \notin Does(S, "update")
      BY <2>5 DEF Does
    <3>2. assets'[id0] = assets[id0]
      BY <1>2, <2>2, <2>3, <3>1
    <3>3. QED BY <2>1, <2>2, <2>5, <3>2
  <2>6. QED BY <1>8, <2>4, <2>5
<1>9. CASE preview[line].action = "update"
  BY <1>1, <1>8, <1>9
<1>10. CASE preview[line].action = "unchanged"
  BY <1>1, <1>8, <1>10
<1>11. QED BY <1>1, <1>7, <1>9, <1>10

(* However old the review, the line that is applied is held once, with the  *)
(* amount that was pasted (routes.ts:2873).                                 *)
THEOREM PastesAreTheFact == Ledger!Spec => PasteIsTheFact
<1>1. ASSUME LedgerInv, NEW S \in SUBSET DOMAIN preview, Ledger!Apply(S), NEW line \in S
      PROVE  LET same == {id \in DOMAIN assets' :
                            assets'[id].currency = Ledger!ILS /\ assets'[id].type = line}
             IN /\ Ledger!Cardinality(same) = 1
                /\ \A id \in same : assets'[id].amount = preview[line].amount
                /\ same \subseteq DOMAIN assets
                     \/ \A id \in Ledger!Shekels : assets[id].type = "other" => assets[id].says # line
  <2>1. PICK id0 : /\ Held(line) = {id0}
                   /\ assets'[id0].amount = preview[line].amount
                   /\ \/ id0 \in DOMAIN assets
                      \/ \A id \in Ledger!Shekels : assets[id].type = "other" => assets[id].says # line
    BY <1>1, ApplyLeavesTheFact
  <2>2. Ledger!Cardinality(Held(line)) = 1
    BY <2>1, LedgerCardinality, FS_Singleton
  <2>3. QED BY <2>1, <2>2 DEF Held
<1>2. LedgerInv =>
        \A S \in SUBSET DOMAIN preview : Ledger!Apply(S) =>
          \A line \in S :
            LET same == {id \in DOMAIN assets' :
                           assets'[id].currency = Ledger!ILS /\ assets'[id].type = line}
            IN /\ Ledger!Cardinality(same) = 1
               /\ \A id \in same : assets'[id].amount = preview[line].amount
               /\ same \subseteq DOMAIN assets
                    \/ \A id \in Ledger!Shekels : assets[id].type = "other" => assets[id].says # line
  BY <1>1
<1>3. QED BY <1>2, LedgerStarts, LedgerStaysTrue, PTL DEF Ledger!Spec, PasteIsTheFact, Ledger!PasteIsTheFact

--------------------------------------------------------------------------------
(* FlowCalendar: the month a salary belongs to.                             *)

(* Months of at least 28 days begin at least as far apart.                  *)
LEMMA FirstDaysGrow ==
  ASSUME NEW n \in Nat, NEW first \in [0 .. n -> Nat],
         \A m \in 0 .. n - 1 : first[m] + 28 <= first[m + 1],
         NEW a \in 0 .. n, NEW b \in 0 .. n, a < b
  PROVE  first[a] + 28 <= first[a + 1] /\ first[a + 1] <= first[b]
<1>1. \A m \in 0 .. n : first[m] \in Nat
  OBVIOUS
<1> DEFINE Low == {m \in a + 1 .. n : first[m] < first[a + 1]}
           f == [m \in Low |-> m]
<1>2. ASSUME Low # {} PROVE FALSE
  <2>1. f \in [Low -> Nat]
    OBVIOUS
  <2>2. PICK m \in Low : \A k \in Low : m <= k
    <3> HIDE DEF Low
    <3>1. PICK x \in Low : \A y \in Low : f[x] <= f[y]
      BY <1>2, <2>1, Least
    <3>2. QED BY <3>1
  <2>3. m \in a + 1 .. n /\ first[m] < first[a + 1] /\ m # a + 1
    BY <1>1
  <2>4. m - 1 \in a + 1 .. n /\ m - 1 \notin Low
    BY <2>2, <2>3
  <2>5. first[m - 1] >= first[a + 1]
    BY <1>1, <2>4
  <2>6. first[m - 1] + 28 <= first[m]
    <3>1. m - 1 \in 0 .. n - 1 /\ (m - 1) + 1 = m
      BY <2>3
    <3>2. QED BY <3>1
  <2>7. first[m] \in Nat /\ first[m - 1] \in Nat /\ first[a + 1] \in Nat
    BY <1>1, <2>3, <2>4
  <2>8. QED BY <2>3, <2>5, <2>6, <2>7
<1>3. b \in a + 1 .. n /\ a \in 0 .. n - 1
  OBVIOUS
<1>4. ~(first[b] < first[a + 1])
  BY <1>2, <1>3
<1> HIDE DEF Low, f
<1>5. first[a + 1] \in Nat /\ first[b] \in Nat
  BY <1>1, <1>3
<1>6. QED BY <1>3, <1>4, <1>5

LEMMA DaysGrow ==
  ASSUME NEW a \in 0 .. FlowMonths, NEW b \in 0 .. FlowMonths, a < b
  PROVE  /\ FirstDay[a] \in Nat /\ FirstDay[b] \in Nat
         /\ FirstDay[a] + 28 <= FirstDay[a + 1] /\ FirstDay[a + 1] <= FirstDay[b]
<1>1. /\ FlowMonths \in Nat /\ FirstDay \in [0 .. FlowMonths -> Nat]
      /\ \A m \in 1 .. FlowMonths : FirstDay[m] - FirstDay[m - 1] \in 28 .. 31
  BY CalendarAssumption DEF Calendar!FlowAssumption
<1>2. \A m \in 0 .. FlowMonths : FirstDay[m] \in Nat
  BY <1>1
<1>3. ASSUME NEW m \in 0 .. FlowMonths - 1 PROVE FirstDay[m] + 28 <= FirstDay[m + 1]
  <2>1. m + 1 \in 1 .. FlowMonths /\ (m + 1) - 1 = m /\ m \in 0 .. FlowMonths /\ m + 1 \in 0 .. FlowMonths
    BY <1>1
  <2>2. FirstDay[m + 1] - FirstDay[m] \in 28 .. 31
    BY <1>1, <2>1
  <2>3. QED BY <1>2, <2>1, <2>2
<1>4. QED BY <1>1, <1>2, <1>3, FirstDaysGrow

InRange(d) == d \in Nat /\ FirstDay[1] <= d /\ d < FirstDay[FlowMonths]

(* Every day in range is in one calendar month.                             *)
LEMMA DayIsInItsMonth ==
  ASSUME NEW d, InRange(d)
  PROVE  /\ Calendar!CalendarMonth(d) \in 1 .. FlowMonths - 1
         /\ FirstDay[Calendar!CalendarMonth(d)] <= d /\ d < FirstDay[Calendar!CalendarMonth(d) + 1]
<1>1. FlowMonths \in Nat \ {0, 1} /\ FirstDay \in [0 .. FlowMonths -> Nat]
  BY CalendarAssumption DEF Calendar!FlowAssumption
<1> DEFINE Later == {m \in 1 .. FlowMonths : d < FirstDay[m]}
           f == [m \in Later |-> m]
<1>2. Later # {} /\ f \in [Later -> Nat]
  BY <1>1 DEF InRange
<1>3. PICK m \in Later : \A k \in Later : m <= k
  <2> HIDE DEF Later
  <2>1. PICK x \in Later : \A y \in Later : f[x] <= f[y]
    BY <1>2, Least
  <2>2. QED BY <2>1
<1>4. m \in 1 .. FlowMonths /\ d < FirstDay[m] /\ m # 1
  BY <1>1 DEF InRange
<1>5. m - 1 \in 1 .. FlowMonths /\ m - 1 \notin Later
  BY <1>1, <1>3, <1>4
<1>6. FirstDay[m - 1] <= d
  <2>1. FirstDay[m - 1] \in Nat /\ d \in Nat
    BY <1>1, <1>5 DEF InRange
  <2>2. QED BY <1>5, <2>1
<1> DEFINE Is(c) == c \in 0 .. FlowMonths - 1 /\ FirstDay[c] <= d /\ d < FirstDay[c + 1]
           c == Calendar!CalendarMonth(d)
<1>7. Is(m - 1)
  BY <1>1, <1>4, <1>5, <1>6
<1>8. c = CHOOSE x \in 0 .. FlowMonths - 1 : FirstDay[x] <= d /\ d < FirstDay[x + 1]
  BY DEF Calendar!CalendarMonth
<1> HIDE DEF c
<1>9. Is(c)
  BY <1>7, <1>8
<1>10. c # 0
  BY <1>1, <1>9 DEF InRange
<1>11. QED BY <1>9, <1>10 DEF c

(* A flow month is the one that has begun and whose next has not.           *)
LEMMA FlowMonthIs ==
  ASSUME anchor \in 1 .. 28, NEW d, InRange(d)
  PROVE  /\ Calendar!flowMonthOf(d) \in 0 .. FlowMonths - 1
         /\ Calendar!startOf(Calendar!flowMonthOf(d)) <= d
         /\ d < Calendar!startOf(Calendar!flowMonthOf(d) + 1)
<1> DEFINE c == Calendar!CalendarMonth(d)
<1>1. /\ c \in 1 .. FlowMonths - 1 /\ FirstDay[c] <= d /\ d < FirstDay[c + 1] /\ d \in Nat
      /\ FlowMonths \in Nat /\ FirstDay \in [0 .. FlowMonths -> Nat]
  BY DayIsInItsMonth, CalendarAssumption DEF Calendar!FlowAssumption, InRange
<1>2. Calendar!flowMonthOf(d) = IF anchor > 1 /\ d - FirstDay[c] + 1 < anchor THEN c - 1 ELSE c
  BY DEF Calendar!flowMonthOf, Calendar!DayOfMonth
<1> HIDE DEF c
<1>3. FirstDay[c] \in Nat /\ FirstDay[c + 1] \in Nat /\ FirstDay[c - 1] \in Nat
  BY <1>1
<1>4. FirstDay[c - 1] + 28 <= FirstDay[c]
  <2>1. c - 1 \in 0 .. FlowMonths /\ c \in 0 .. FlowMonths /\ c - 1 < c /\ (c - 1) + 1 = c
    BY <1>1
  <2>2. QED BY <2>1, DaysGrow
<1>5. CASE anchor > 1 /\ d - FirstDay[c] + 1 < anchor
  <2>1. Calendar!flowMonthOf(d) = c - 1 /\ (c - 1) + 1 = c
    BY <1>1, <1>2, <1>5
  <2>2. c - 1 \in 0 .. FlowMonths - 1
    BY <1>1
  <2>3. FirstDay[c - 1] + anchor - 1 <= d
    BY <1>1, <1>3, <1>4, <1>5, SMTT(30)
  <2>4. d < FirstDay[c] + anchor - 1
    BY <1>1, <1>3, <1>5
  <2>5. /\ Calendar!startOf(c - 1) = FirstDay[c - 1] + anchor - 1
        /\ Calendar!startOf((c - 1) + 1) = FirstDay[(c - 1) + 1] + anchor - 1
    BY DEF Calendar!startOf
  <2>6. QED BY <2>1, <2>2, <2>3, <2>4, <2>5, Zenon
<1>6. CASE ~(anchor > 1 /\ d - FirstDay[c] + 1 < anchor)
  <2>1. Calendar!flowMonthOf(d) = c
    BY <1>2, <1>6
  <2>2. FirstDay[c] + anchor - 1 <= d
    BY <1>1, <1>3, <1>6
  <2>3. d < FirstDay[c + 1] + anchor - 1
    BY <1>1, <1>3
  <2>4. c \in 0 .. FlowMonths - 1
    BY <1>1
  <2>5. QED BY <2>1, <2>2, <2>3, <2>4 DEF Calendar!startOf
<1>7. QED BY <1>5, <1>6

LEMMA MonthsGrow ==
  ASSUME anchor \in 1 .. 28, NEW a \in 0 .. FlowMonths, NEW b \in 0 .. FlowMonths, a < b
  PROVE  /\ Calendar!startOf(a) \in Nat /\ Calendar!startOf(b) \in Nat
         /\ Calendar!startOf(a) + 28 <= Calendar!startOf(a + 1)
         /\ Calendar!startOf(a + 1) <= Calendar!startOf(b)
<1>1. FirstDay[a + 1] \in Nat
  <2>1. FlowMonths \in Nat /\ FirstDay \in [0 .. FlowMonths -> Nat]
    BY CalendarAssumption DEF Calendar!FlowAssumption
  <2>2. QED BY <2>1
<1>2. QED BY <1>1, DaysGrow DEF Calendar!startOf

(* No other month has begun without its next.                               *)
LEMMA OneFlowMonth ==
  ASSUME anchor \in 1 .. 28, NEW d, InRange(d), NEW m \in 0 .. FlowMonths - 1,
         Calendar!startOf(m) <= d, d < Calendar!startOf(m + 1)
  PROVE  Calendar!flowMonthOf(d) = m
<1> DEFINE f == Calendar!flowMonthOf(d)
<1>1. /\ f \in 0 .. FlowMonths - 1 /\ Calendar!startOf(f) <= d /\ d < Calendar!startOf(f + 1)
      /\ d \in Nat /\ FlowMonths \in Nat
  BY FlowMonthIs, CalendarAssumption DEF InRange, Calendar!FlowAssumption
<1> HIDE DEF f
<1>2. ASSUME f < m PROVE FALSE
  <2>1. f \in 0 .. FlowMonths /\ m \in 0 .. FlowMonths
    BY <1>1
  <2>2. Calendar!startOf(f + 1) <= Calendar!startOf(m) /\ Calendar!startOf(m) \in Nat
        /\ Calendar!startOf(f + 1) \in Int
    BY <1>1, <1>2, <2>1, MonthsGrow DEF Calendar!startOf
  <2>3. QED BY <1>1, <2>2
<1>3. ASSUME m < f PROVE FALSE
  <2>1. f \in 0 .. FlowMonths /\ m \in 0 .. FlowMonths
    BY <1>1
  <2>2. Calendar!startOf(m + 1) <= Calendar!startOf(f) /\ Calendar!startOf(f) \in Nat
        /\ Calendar!startOf(m + 1) \in Int
    BY <1>1, <1>3, <2>1, MonthsGrow DEF Calendar!startOf
  <2>3. QED BY <1>1, <2>2
<1>4. QED BY <1>1, <1>2, <1>3 DEF f

--------------------------------------------------------------------------------
(* A row of the salary has its amount, and lands around the day the month   *)
(* it funds opens.                                                          *)
IsSalary(r) ==
  /\ r.amount = Salary /\ r.funds \in 1 .. FlowMonths - 1 /\ InRange(r.day)
  /\ \E shift \in Shifts : r.day = Calendar!startOf(r.funds) + shift

Learned(c) == c # Calendar!NoCalendar /\ "work" \in c.fixed => anchor # 1 /\ 8 * Salary >= c.median

CalendarInv ==
  /\ anchor \in 1 .. 28 /\ paid \in 1 .. FlowMonths /\ InRange(today)
  /\ \A r \in incomes : r.merchant = "work" => IsSalary(r)
  /\ \A r \in incomes : InRange(r.day)
  /\ Learned(cal)

LEMMA SalariesStay == ASSUME anchor' = anchor PROVE \A r : IsSalary(r) => IsSalary(r)'
BY DEF IsSalary, InRange, Calendar!startOf

(* Where the salary is a fixed income, it is a main one.                    *)
LEMMA FixedIsMain ==
  ASSUME NEW rs, \A r \in rs : r.merchant = "work" => r.amount = Salary
  PROVE  Learned(Calendar!buildFlowCalendar(rs))
<1> DEFINE c == Calendar!buildFlowCalendar(rs)
<1> SUFFICES ASSUME c # Calendar!NoCalendar, "work" \in c.fixed
             PROVE  anchor # 1 /\ 8 * Salary >= c.median
  BY DEF Learned
<1> DEFINE all == {[month |-> Calendar!flowMonthOf(r.day), merchant |-> r.merchant, amount |-> r.amount] :
                     r \in rs}
           median == Calendar!TwiceMedian(all)
           big == {i \in all : i.amount >= Calendar!MAIN_INCOME_FLOOR /\ 8 * i.amount >= median}
<1>1. \E mks : /\ mks \subseteq {i.merchant : i \in big}
               /\ c = IF anchor = 1 \/ rs = {} THEN Calendar!NoCalendar
                      ELSE [median |-> median, fixed |-> IF big = {} THEN {} ELSE mks]
  BY DEF Calendar!buildFlowCalendar
<1> HIDE DEF c, median
<1>2. PICK mks : /\ mks \subseteq {i.merchant : i \in big} /\ anchor # 1
                 /\ c = [median |-> median, fixed |-> IF big = {} THEN {} ELSE mks]
  BY <1>1
<1>3. c.median = median /\ "work" \in {i.merchant : i \in big}
  BY <1>2
<1>4. PICK i \in big : i.merchant = "work"
  BY <1>3
<1>5. i.amount = Salary
  BY <1>4
<1>6. QED BY <1>2, <1>3, <1>4, <1>5

LEMMA CalendarStarts == Calendar!Init => CalendarInv
<1> SUFFICES ASSUME Calendar!Init PROVE CalendarInv
  OBVIOUS
<1>1. /\ FlowMonths \in Nat \ {0, 1} /\ FirstDay \in [0 .. FlowMonths -> Nat] /\ Anchors \subseteq 1 .. 28
  BY CalendarAssumption DEF Calendar!FlowAssumption
<1>2. InRange(FirstDay[1])
  <2>1. 1 \in 0 .. FlowMonths /\ FlowMonths \in 0 .. FlowMonths /\ 1 < FlowMonths
    BY <1>1
  <2>2. FirstDay[1] + 28 <= FirstDay[2] /\ FirstDay[2] <= FirstDay[FlowMonths] /\ FirstDay[1] \in Nat
    BY <2>1, DaysGrow
  <2>3. FirstDay[2] \in Nat /\ FirstDay[FlowMonths] \in Nat
    BY <1>1
  <2>4. QED BY <2>2, <2>3 DEF InRange
<1>3. QED BY <1>1, <1>2 DEF Calendar!Init, CalendarInv, Learned

(* A row that arrives is in range, and so is the day it arrives on.         *)
LEMMA ArriveKeeps ==
  ASSUME CalendarInv, anchor' = anchor, NEW r, r.day \in Int, Calendar!Arrive(r),
         r.merchant = "work" /\ InRange(r.day) => IsSalary(r)
  PROVE  /\ InRange(r.day) /\ InRange(today')
         /\ \A x \in incomes' : x.merchant = "work" => IsSalary(x)
         /\ \A x \in incomes' : InRange(x.day)
         /\ Learned(cal)'
<1>1. FlowMonths \in Nat \ {0, 1} /\ FirstDay \in [0 .. FlowMonths -> Nat]
  BY CalendarAssumption DEF Calendar!FlowAssumption
<1>2. /\ r.day >= today /\ r.day < FirstDay[FlowMonths - 1]
      /\ incomes' = incomes \union {r} /\ today' = r.day
      /\ cal' = Calendar!buildFlowCalendar(incomes')
  BY DEF Calendar!Arrive
<1>3. FirstDay[FlowMonths - 1] <= FirstDay[FlowMonths]
  <2>1. /\ FlowMonths - 1 \in 0 .. FlowMonths /\ FlowMonths \in 0 .. FlowMonths
        /\ FlowMonths - 1 < FlowMonths /\ (FlowMonths - 1) + 1 = FlowMonths
    BY <1>1
  <2>2. FirstDay[FlowMonths - 1] + 28 <= FirstDay[FlowMonths] /\ FirstDay[FlowMonths - 1] \in Nat
        /\ FirstDay[FlowMonths] \in Nat
    BY <2>1, DaysGrow
  <2>3. QED BY <2>2
<1>4. InRange(r.day)
  <2>1. FirstDay[FlowMonths - 1] \in Nat /\ FirstDay[FlowMonths] \in Nat /\ FirstDay[1] \in Nat
    BY <1>1
  <2>2. today \in Nat /\ FirstDay[1] <= today
    BY DEF CalendarInv, InRange
  <2>3. QED BY <1>2, <1>3, <2>1, <2>2 DEF InRange
<1>5. \A x \in incomes' : x.merchant = "work" => IsSalary(x)
  BY <1>2, <1>4 DEF CalendarInv
<1>6. \A x \in incomes' : InRange(x.day)
  BY <1>2, <1>4 DEF CalendarInv
<1>7. Learned(Calendar!buildFlowCalendar(incomes'))
  <2>1. \A x \in incomes' : x.merchant = "work" => x.amount = Salary
    BY <1>5 DEF IsSalary
  <2>2. QED BY <2>1, FixedIsMain
<1>8. Learned(cal)'
  BY <1>2, <1>7 DEF Learned
<1>9. QED BY <1>2, <1>4, <1>5, <1>6, <1>8

LEMMA PaySalaryKeeps == ASSUME CalendarInv, Calendar!PaySalary PROVE CalendarInv'
<1>1. /\ FlowMonths \in Nat \ {0, 1} /\ FirstDay \in [0 .. FlowMonths -> Nat]
      /\ Shifts \subseteq -16 .. 11
  BY CalendarAssumption DEF Calendar!FlowAssumption
<1>2. PICK shift \in Shifts :
        /\ Calendar!Arrive(Calendar!Row("work", Calendar!startOf(paid) + shift, Salary, paid))
        /\ paid' = paid + 1 /\ anchor' = anchor
  BY DEF Calendar!PaySalary
<1> DEFINE r == Calendar!Row("work", Calendar!startOf(paid) + shift, Salary, paid)
<1>3. /\ r.merchant = "work" /\ r.day = Calendar!startOf(paid) + shift /\ r.amount = Salary
      /\ r.funds = paid
  BY DEF Calendar!Row
<1>4. anchor \in 1 .. 28 /\ paid \in 1 .. FlowMonths /\ shift \in -16 .. 11
  BY <1>1 DEF CalendarInv
<1>5. FirstDay[paid] \in Nat /\ Calendar!startOf(paid) = FirstDay[paid] + anchor - 1
  BY <1>1, <1>4 DEF Calendar!startOf
<1>6. r.day \in Int /\ r.day >= FirstDay[paid] - 16
  BY <1>3, <1>4, <1>5
<1> HIDE DEF r
<1>7. Calendar!Arrive(r) /\ r.day < FirstDay[FlowMonths - 1]
  BY <1>2 DEF r, Calendar!Arrive
<1>8. paid \in 1 .. FlowMonths - 1
  <2> SUFFICES ASSUME paid = FlowMonths PROVE FALSE
    BY <1>1, <1>4
  <2>1. FlowMonths - 1 \in 0 .. FlowMonths /\ FlowMonths \in 0 .. FlowMonths
        /\ FlowMonths - 1 < FlowMonths /\ (FlowMonths - 1) + 1 = FlowMonths
    BY <1>1
  <2>2. FirstDay[FlowMonths - 1] + 28 <= FirstDay[FlowMonths] /\ FirstDay[FlowMonths - 1] \in Nat
    BY <2>1, DaysGrow
  <2>3. QED BY <1>5, <1>6, <1>7, <2>2
<1>9. InRange(r.day) => IsSalary(r)
  BY <1>3, <1>8 DEF IsSalary
<1>10. paid' \in 1 .. FlowMonths
  BY <1>1, <1>2, <1>8
<1>11. QED BY <1>2, <1>4, <1>6, <1>7, <1>9, <1>10, ArriveKeeps, SalariesStay DEF CalendarInv, InRange

LEMMA TransferKeeps == ASSUME CalendarInv, Calendar!Transfer PROVE CalendarInv'
<1>1. PICK amount \in Gifts, d \in {today, Calendar!startOf(paid) + 9} :
        /\ Calendar!Arrive(Calendar!Row("friend", d, amount, Calendar!flowMonthOf(d)))
        /\ UNCHANGED <<anchor, paid>>
  BY DEF Calendar!Transfer
<1> DEFINE r == Calendar!Row("friend", d, amount, Calendar!flowMonthOf(d))
<1>2. r.merchant # "work" /\ r.day = d
  BY DEF Calendar!Row
<1>3. d \in Int
  <2>1. FlowMonths \in Nat /\ FirstDay \in [0 .. FlowMonths -> Nat]
    BY CalendarAssumption DEF Calendar!FlowAssumption
  <2>2. Calendar!startOf(paid) \in Int
    BY <2>1 DEF CalendarInv, Calendar!startOf
  <2>3. QED BY <2>2 DEF CalendarInv, InRange
<1> HIDE DEF r
<1>4. Calendar!Arrive(r)
  BY <1>1 DEF r
<1>5. QED BY <1>1, <1>2, <1>3, <1>4, ArriveKeeps, SalariesStay DEF CalendarInv, InRange

LEMMA OpenMonthKeeps == ASSUME CalendarInv, Calendar!OpenMonth PROVE CalendarInv'
<1>1. FlowMonths \in Nat \ {0, 1} /\ FirstDay \in [0 .. FlowMonths -> Nat]
  BY CalendarAssumption DEF Calendar!FlowAssumption
<1>2. /\ today' = Calendar!startOf(Calendar!flowMonthOf(today) + 1)
      /\ today' < FirstDay[FlowMonths - 1] /\ UNCHANGED <<anchor, incomes, cal, paid>>
  BY DEF Calendar!OpenMonth
<1>3. Calendar!flowMonthOf(today) \in 0 .. FlowMonths - 1
      /\ today < Calendar!startOf(Calendar!flowMonthOf(today) + 1)
  BY FlowMonthIs DEF CalendarInv
<1>4. today' \in Int
  <2>1. FirstDay[Calendar!flowMonthOf(today) + 1] \in Nat
    BY <1>1, <1>3
  <2>2. QED BY <1>2, <2>1 DEF Calendar!startOf, CalendarInv
<1>5. FirstDay[FlowMonths - 1] <= FirstDay[FlowMonths]
  <2>1. /\ FlowMonths - 1 \in 0 .. FlowMonths /\ FlowMonths \in 0 .. FlowMonths
        /\ FlowMonths - 1 < FlowMonths /\ (FlowMonths - 1) + 1 = FlowMonths
    BY <1>1
  <2>2. FirstDay[FlowMonths - 1] + 28 <= FirstDay[FlowMonths] /\ FirstDay[FlowMonths - 1] \in Nat
        /\ FirstDay[FlowMonths] \in Nat
    BY <2>1, DaysGrow
  <2>3. QED BY <2>2
<1>6. InRange(today')
  <2>1. FirstDay[FlowMonths - 1] \in Nat /\ FirstDay[FlowMonths] \in Nat /\ FirstDay[1] \in Nat
    BY <1>1
  <2>2. today \in Nat /\ FirstDay[1] <= today
    BY DEF CalendarInv, InRange
  <2>3. QED BY <1>2, <1>3, <1>4, <1>5, <2>1, <2>2 DEF InRange
<1>7. QED BY <1>2, <1>6, SalariesStay DEF CalendarInv, Learned, InRange

--------------------------------------------------------------------------------
(* The month of a salary is the one it funds.                               *)
LEMMA SalaryIsInItsMonth ==
  ASSUME CalendarInv, Calendar!Fixed("work"), NEW r \in incomes, r.merchant = "work"
  PROVE  Calendar!monthOfRow(r) = r.funds
<1>1. IsSalary(r) /\ anchor \in 1 .. 28
  BY DEF CalendarInv
<1>2. PICK shift \in Shifts : r.day = Calendar!startOf(r.funds) + shift
  BY <1>1 DEF IsSalary
<1>3. /\ FlowMonths \in Nat \ {0, 1} /\ shift \in -16 .. 11 /\ Salary \in Nat \ {0}
  BY CalendarAssumption DEF Calendar!FlowAssumption
<1>4. Calendar!Main(r.amount)
  BY <1>1, <1>3 DEF CalendarInv, Learned, Calendar!Fixed, Calendar!Main, IsSalary,
     Calendar!MAIN_INCOME_FLOOR
<1> DEFINE m == r.funds
           start(k) == Calendar!startOf(k)
<1>5. m \in 1 .. FlowMonths - 1 /\ InRange(r.day) /\ r.amount = Salary
  BY <1>1 DEF IsSalary
<1>6. start(m) \in Nat /\ start(m + 1) \in Nat /\ start(m) + 28 <= start(m + 1)
      /\ start(m - 1) \in Nat /\ start(m - 1) + 28 <= start(m)
  <2>1. /\ m \in 0 .. FlowMonths /\ m + 1 \in 0 .. FlowMonths /\ m < m + 1
        /\ m - 1 \in 0 .. FlowMonths /\ m - 1 < m /\ (m - 1) + 1 = m
    BY <1>3, <1>5
  <2>2. QED BY <1>1, <2>1, MonthsGrow
<1> HIDE DEF m, start
<1>7. r.day = start(m) + shift
  BY <1>2 DEF m, start
<1> DEFINE f == Calendar!flowMonthOf(r.day)
<1>8. Calendar!monthOfRow(r) = IF r.day >= start(f + 1) - 16 THEN f + 1 ELSE f
  BY <1>4 DEF Calendar!monthOfRow, Calendar!Waits, Calendar!PULL_DAYS, start, CalendarInv, IsSalary
<1>9. CASE shift >= 0
  <2>1. f = m
    <3>1. start(m) <= r.day /\ r.day < start(m + 1) /\ m \in 0 .. FlowMonths - 1
      BY <1>3, <1>5, <1>6, <1>7, <1>9
    <3>2. QED BY <1>1, <1>5, <3>1, OneFlowMonth DEF start
  <2>2. ~(r.day >= start(m + 1) - 16)
    BY <1>3, <1>6, <1>7
  <2> HIDE DEF f
  <2>3. QED BY <1>8, <2>1, <2>2 DEF m
<1>10. CASE shift < 0
  <2>1. f = m - 1 /\ (m - 1) + 1 = m
    <3>1. start(m - 1) <= r.day /\ r.day < start(m) /\ m - 1 \in 0 .. FlowMonths - 1 /\ (m - 1) + 1 = m
      BY <1>3, <1>5, <1>6, <1>7, <1>10
    <3>2. QED BY <1>1, <1>5, <3>1, OneFlowMonth DEF start
  <2>2. r.day >= start(m) - 16
    BY <1>3, <1>6, <1>7
  <2> HIDE DEF f
  <2>3. QED BY <1>8, <2>1, <2>2 DEF m
<1>11. QED BY <1>3, <1>9, <1>10

(* A month has come when it has begun.                                      *)
LEMMA BegunIsCounted ==
  ASSUME CalendarInv, NEW m \in 1 .. FlowMonths - 1
  PROVE  m <= Calendar!flowMonthOf(today) <=> today >= Calendar!startOf(m)
<1> DEFINE t == Calendar!flowMonthOf(today)
<1>1. /\ t \in 0 .. FlowMonths - 1 /\ Calendar!startOf(t) <= today /\ today < Calendar!startOf(t + 1)
      /\ today \in Nat /\ anchor \in 1 .. 28 /\ FlowMonths \in Nat
  BY FlowMonthIs, CalendarAssumption DEF CalendarInv, InRange, Calendar!FlowAssumption
<1> HIDE DEF t
<1>2. CASE m = t
  BY <1>1, <1>2 DEF t
<1>3. CASE m < t
  <2>1. m \in 0 .. FlowMonths /\ t \in 0 .. FlowMonths
    BY <1>1
  <2>2. Calendar!startOf(m) \in Nat /\ Calendar!startOf(t) \in Nat
        /\ Calendar!startOf(m) + 28 <= Calendar!startOf(m + 1)
        /\ Calendar!startOf(m + 1) <= Calendar!startOf(t)
    BY <1>1, <1>3, <2>1, MonthsGrow
  <2>3. Calendar!startOf(m + 1) \in Int
    <3>1. FirstDay[m + 1] \in Nat
      BY <1>1, CalendarAssumption DEF Calendar!FlowAssumption
    <3>2. QED BY <1>1, <3>1 DEF Calendar!startOf
  <2>4. QED BY <1>1, <1>3, <2>2, <2>3 DEF t
<1>4. CASE t < m
  <2>1. m \in 0 .. FlowMonths /\ t \in 0 .. FlowMonths
    BY <1>1
  <2>2. Calendar!startOf(t + 1) <= Calendar!startOf(m) /\ Calendar!startOf(m) \in Nat
    BY <1>1, <1>4, <2>1, MonthsGrow
  <2>3. Calendar!startOf(t + 1) \in Int
    <3>1. FirstDay[t + 1] \in Nat
      BY <1>1, CalendarAssumption DEF Calendar!FlowAssumption
    <3>2. QED BY <1>1, <3>1 DEF Calendar!startOf
  <2>4. QED BY <1>1, <1>4, <2>2, <2>3 DEF t
<1>5. QED BY <1>1, <1>2, <1>3, <1>4

(* Every fixed salary is in the month it was paid for and counts from the   *)
(* day that month opens, and what is still expected agrees (flow.ts:78).    *)
THEOREM MonthsAreAlwaysSound == Calendar!Spec => []MonthsAreSound
<1>1. CalendarInv /\ [Calendar!Next]_(Calendar!vars) => CalendarInv'
  <2>1. CalendarInv /\ UNCHANGED Calendar!vars => CalendarInv'
    BY SalariesStay DEF Calendar!vars, CalendarInv, Learned, InRange
  <2>2. QED BY <2>1, PaySalaryKeeps, TransferKeeps, OpenMonthKeeps DEF Calendar!Next
<1>2. CalendarInv => Calendar!SalaryFundsItsMonth
  <2>1. ASSUME CalendarInv, Calendar!Fixed("work"), NEW r \in incomes, r.merchant = "work"
        PROVE  Calendar!monthOfRow(r) = r.funds /\ r.funds \in 1 .. FlowMonths - 1
    BY <2>1, SalaryIsInItsMonth DEF CalendarInv, IsSalary
  <2>2. QED BY <2>1, BegunIsCounted DEF Calendar!SalaryFundsItsMonth, Calendar!Counts
<1>3. CalendarInv => Calendar!FixedTailAgrees
  <2> SUFFICES ASSUME CalendarInv, NEW r \in incomes, Calendar!Fixed(r.merchant)
               PROVE  Calendar!opensNext(Calendar!flowMonthOf(r.day), r.day, r.amount)
                        <=> Calendar!monthOfRow(r) # Calendar!flowMonthOf(r.day)
    BY DEF Calendar!FixedTailAgrees
  <2>1. Calendar!flowMonthOf(r.day) \in Int
    BY FlowMonthIs DEF CalendarInv
  <2>2. QED BY <2>1 DEF Calendar!opensNext, Calendar!monthOfRow, Calendar!Waits
<1>4. CalendarInv => MonthsAreSound
  BY <1>2, <1>3 DEF MonthsAreSound
<1>5. QED BY <1>1, <1>4, CalendarStarts, PTL DEF Calendar!Spec

--------------------------------------------------------------------------------
(* MonthPlan: what the running month is expected to cost.                   *)

PlanInv == /\ detected \subseteq Payees /\ vouched \subseteq Payees /\ billed \subseteq Payees
           /\ other \in Nat

LEMMA PlanSum == ASSUME NEW f, NEW S PROVE Plan!SumFunctionOnSet(f, S) = SumFunctionOnSet(f, S)
BY DEF SumFunctionOnSet, FoldFunctionOnSet, MapThenFoldSet,
       Plan!SumFunctionOnSet, Plan!FoldFunctionOnSet, Plan!MapThenFoldSet

LEMMA PayeesAreFinite == IsFiniteSet(Payees)
BY PlanAssumption DEF Plan!PlanAssumption, Plan!IsFiniteSet, IsFiniteSet

(* What a merchant has taken, and what it is owed, by merchant.             *)
Took == [m \in Payees |-> Plan!Spent(m)]

LEMMA TookIsNat == \A m \in Payees : Owes[m] \in Nat /\ Took[m] \in Nat /\ Took[m] <= Owes[m]
BY PlanAssumption DEF Plan!PlanAssumption, Took, Plan!Spent

(* Where the household vouched for what is detected, the plan is what the   *)
(* streams owe and the rest has spent.                                      *)
LEMMA PlanIsOwed ==
  PlanInv /\ detected = vouched =>
    /\ Plan!variableSoFar = SumFunctionOnSet(Took, Payees \ detected) + other
    /\ Plan!expectedSpendTotal = SumFunctionOnSet(Owes, detected) + Plan!variableSoFar
<1> SUFFICES ASSUME PlanInv, detected = vouched
             PROVE  /\ Plan!variableSoFar = SumFunctionOnSet(Took, Payees \ detected) + other
                    /\ Plan!expectedSpendTotal = SumFunctionOnSet(Owes, detected) + Plan!variableSoFar
  OBVIOUS
<1> DEFINE D == detected
           E == Plan!ExpectedFixedEvents
           bucket == [m \in Payees |-> Plan!Bucket(m)]
           due == [m \in E |-> Owes[m]]
<1>1. IsFiniteSet(Payees) /\ D \subseteq Payees /\ E \subseteq D /\ other \in Nat
  BY PayeesAreFinite DEF PlanInv, Plan!ExpectedFixedEvents
<1>2. IsFiniteSet(D) /\ IsFiniteSet(E) /\ IsFiniteSet(Payees \ D) /\ IsFiniteSet(D \ E)
  BY <1>1, FS_Subset
<1>3. \A m \in Payees : Owes[m] \in Nat /\ Took[m] \in Nat /\ Took[m] <= Owes[m]
  BY TookIsNat
<1>4. Plan!variableSoFar = SumFunctionOnSet(Took, Payees \ D) + other
  <2> DEFINE g == [m \in Payees \ D |-> Plan!Spent(m)]
  <2>1. \A m \in Payees \ D : g[m] = Took[m]
    BY DEF Took
  <2>2. Plan!variableSoFar = SumFunctionOnSet(g, Payees \ D) + other
    BY PlanSum DEF Plan!variableSoFar, Plan!Sum
  <2> HIDE DEF g
  <2>3. QED BY <1>2, <2>1, <2>2, SumOfSame
<1>5. Plan!variableSoFar \in Nat
  <2>1. SumFunctionOnSet(Took, Payees \ D) \in Nat
    BY <1>2, <1>3, SumType
  <2>2. QED BY <1>1, <1>4, <2>1
<1>6. Plan!expectation = SumFunctionOnSet(Owes, D) + Plan!variableSoFar
  <2>1. \A m \in D : bucket[m] = Owes[m]
    BY <1>1, <1>3 DEF Plan!Bucket, Plan!Larger, Plan!fixedSpentByMerchant, Plan!monthlyByMerchant, Took
  <2>2. \A m \in Payees \ D : bucket[m] = 0
    BY DEF Plan!Bucket, Plan!Larger, Plan!fixedSpentByMerchant, Plan!monthlyByMerchant
  <2>3. Plan!expectation = SumFunctionOnSet(bucket, Payees) + Plan!variableSoFar
    BY PlanSum DEF Plan!expectation, Plan!Sum
  <2> HIDE DEF bucket
  <2>4. \A m \in D : bucket[m] \in Int
    BY <1>1, <1>3, <2>1
  <2>5. SumFunctionOnSet(bucket, Payees) = SumFunctionOnSet(bucket, D)
    BY <1>1, <2>2, <2>4, SumOfPart
  <2>6. SumFunctionOnSet(bucket, D) = SumFunctionOnSet(Owes, D)
    BY <1>2, <2>1, SumOfSame
  <2>7. QED BY <2>3, <2>5, <2>6
<1>7. Plan!fixedTotal <= SumFunctionOnSet(Owes, D) /\ Plan!fixedTotal \in Nat
  <2> DEFINE g == [m \in D |-> Plan!Spent(m)]
  <2>1. Plan!fixedTotal = SumFunctionOnSet(g, D) + SumFunctionOnSet(due, E)
    BY PlanSum DEF Plan!fixedTotal, Plan!fixedSoFar, Plan!fixedExpectedRemaining, Plan!Sum
  <2>2. \A m \in D : g[m] = Took[m]
    BY <1>1 DEF Took
  <2>3. \A m \in E : due[m] = Owes[m] /\ Took[m] = 0
    BY <1>1 DEF Plan!ExpectedFixedEvents, Took, Plan!Spent
  <2> HIDE DEF g, due
  <2>4. SumFunctionOnSet(g, D) = SumFunctionOnSet(Took, D)
    BY <1>2, <2>2, SumOfSame
  <2>5. SumFunctionOnSet(due, E) = SumFunctionOnSet(Owes, E)
    BY <1>2, <2>3, SumOfSame
  <2>6. SumFunctionOnSet(Took, D) = SumFunctionOnSet(Took, D \ E)
    <3>1. D \ E \subseteq D /\ \A m \in D \ (D \ E) : Took[m] = 0
      BY <2>3
    <3>2. \A m \in D \ E : Took[m] \in Int
      BY <1>1, <1>3
    <3>3. QED BY <1>2, <3>1, <3>2, SumOfPart
  <2>7. SumFunctionOnSet(Took, D \ E) <= SumFunctionOnSet(Owes, D \ E)
    <3>1. \A m \in D \ E : Took[m] \in Int /\ Owes[m] \in Int /\ Took[m] <= Owes[m]
      BY <1>1, <1>3
    <3>2. QED BY <1>2, <3>1, SumIsMonotone
  <2>8. SumFunctionOnSet(Owes, D) = SumFunctionOnSet(Owes, E) + SumFunctionOnSet(Owes, D \ E)
    <3>1. D = E \union (D \ E) /\ E \intersect (D \ E) = {} /\ \A m \in E \union (D \ E) : Owes[m] \in Int
      BY <1>1, <1>3
    <3>2. QED BY <1>2, <3>1, SumSplits
  <2>9. /\ SumFunctionOnSet(Took, D \ E) \in Nat /\ SumFunctionOnSet(Owes, E) \in Nat
        /\ SumFunctionOnSet(Owes, D \ E) \in Nat
    <3>1. \A m \in D : Took[m] \in Nat /\ Owes[m] \in Nat
      BY <1>1, <1>3
    <3>2. QED BY <1>1, <1>2, <3>1, SumType
  <2>10. QED BY <2>1, <2>4, <2>5, <2>6, <2>7, <2>8, <2>9
<1>8. SumFunctionOnSet(Owes, D) \in Nat
  BY <1>1, <1>2, <1>3, SumType
<1>9. QED BY <1>4, <1>5, <1>6, <1>7, <1>8 DEF Plan!expectedSpendTotal, Plan!Larger

LEMMA PlanStays ==
  PlanInv /\ [Plan!Next]_(Plan!vars) => PlanInv'
<1> SUFFICES ASSUME PlanInv, [Plan!Next]_(Plan!vars) PROVE PlanInv'
  OBVIOUS
<1>1. CASE Plan!NextDay \/ UNCHANGED Plan!vars
  BY <1>1 DEF Plan!NextDay, Plan!vars, PlanInv
<1>2. CASE Plan!Buy
  BY <1>2, PlanAssumption DEF Plan!Buy, PlanInv, Plan!PlanAssumption
<1>3. ASSUME NEW m \in Payees, Plan!Learn(m) \/ Plan!Charge(m) \/ Plan!Vouch(m) \/ Plan!Unvouch(m)
      PROVE  PlanInv'
  BY <1>3 DEF Plan!Learn, Plan!Charge, Plan!Vouch, Plan!Unvouch, PlanInv
<1>4. QED BY <1>1, <1>2, <1>3 DEF Plan!Next

(* The bill of a vouched stream changes nothing when it comes, on its day   *)
(* or late, and neither does a day that passes (expectation.ts:123).        *)
THEOREM ExpectedStaysHeldBack == Plan!Spec => ExpectedIsHeldBack
<1>1. Plan!Init => PlanInv
  BY DEF Plan!Init, PlanInv
<1>2. ASSUME PlanInv, PlanInv', UNCHANGED <<detected, vouched, other>>, detected = vouched,
             [Plan!Next]_(Plan!vars), billed' \subseteq billed \union detected
      PROVE  Plan!expectedSpendTotal' = Plan!expectedSpendTotal
  <2> DEFINE before == Took
             after == Took'
             R == Payees \ detected
  <2>1. billed \subseteq billed'
    BY <1>2 DEF Plan!Next, Plan!vars, Plan!NextDay, Plan!Buy, Plan!Learn, Plan!Charge, Plan!Vouch,
       Plan!Unvouch
  <2>2. \A m \in R : before[m] = after[m]
    BY <1>2, <2>1 DEF Took, Plan!Spent
  <2>3. IsFiniteSet(R)
    BY PayeesAreFinite, FS_Subset
  <2>4. Plan!variableSoFar = SumFunctionOnSet(before, R) + other
        /\ Plan!expectedSpendTotal = SumFunctionOnSet(Owes, detected) + Plan!variableSoFar
    BY <1>2, PlanIsOwed
  <2>5. (PlanInv /\ detected = vouched =>
           /\ Plan!variableSoFar = SumFunctionOnSet(Took, Payees \ detected) + other
           /\ Plan!expectedSpendTotal = SumFunctionOnSet(Owes, detected) + Plan!variableSoFar)'
    BY PlanIsOwed, PTL
  <2>6. Plan!variableSoFar' = SumFunctionOnSet(after, R) + other
        /\ Plan!expectedSpendTotal' = SumFunctionOnSet(Owes, detected) + Plan!variableSoFar'
    BY <1>2, <2>5
  <2> HIDE DEF before, after, R
  <2>7. SumFunctionOnSet(before, R) = SumFunctionOnSet(after, R)
    BY <2>2, <2>3, SumOfSame
  <2>8. QED BY <2>4, <2>6, <2>7
<1>3. PlanInv /\ PlanInv' /\ [Plan!Next]_(Plan!vars) =>
        (/\ <<date, billed>>' # <<date, billed>> /\ UNCHANGED <<detected, vouched, other>>
         /\ detected = vouched /\ billed' \subseteq billed \cup detected
         => Plan!expectedSpendTotal' = Plan!expectedSpendTotal)
  <2> SUFFICES ASSUME PlanInv, PlanInv', [Plan!Next]_(Plan!vars), UNCHANGED <<detected, vouched, other>>,
                      detected = vouched, billed' \subseteq billed \cup detected
               PROVE  Plan!expectedSpendTotal' = Plan!expectedSpendTotal
    OBVIOUS
  <2>1. QED BY <1>2
<1>4. QED BY <1>1, <1>3, PlanStays, PTL DEF Plan!Spec, ExpectedIsHeldBack, Plan!ExpectedIsHeldBack

--------------------------------------------------------------------------------
(* CashForecast: the months of its calendar, and a day of each.             *)

CashMonth == 0 .. CashMonths - 1

LEMMA CashCardinality ==
  \A S : Forecast!Cardinality(S) = Cardinality(S) /\ (Forecast!IsFiniteSet(S) <=> IsFiniteSet(S))
BY DEF Forecast!Cardinality, Cardinality, Forecast!IsFiniteSet, IsFiniteSet

LEMMA CashCalendar ==
  /\ CashMonths \in Nat /\ LastDay \in Nat /\ Horizon \in Nat
  /\ CashFirst \in [0 .. CashMonths -> Nat] /\ LastDay < CashFirst[CashMonths]
  /\ \A m \in CashMonth : CashFirst[m + 1] - CashFirst[m] \in 28 .. 31
  /\ \A a, b \in 0 .. CashMonths : a < b =>
       CashFirst[a] + 28 <= CashFirst[a + 1] /\ CashFirst[a + 1] <= CashFirst[b]
<1>1. /\ CashMonths \in Nat /\ LastDay \in Nat /\ Horizon \in Nat
      /\ CashFirst \in [0 .. CashMonths -> Nat] /\ LastDay + Horizon < CashFirst[CashMonths]
      /\ \A m \in CashMonth : CashFirst[m + 1] - CashFirst[m] \in 28 .. 31
  BY CashAssumption DEF Forecast!ForecastAssumption, Forecast!CalendarIsLongEnough,
     Forecast!MonthLength, CashMonth
<1>2. \A m \in 0 .. CashMonths : CashFirst[m] \in Nat
  BY <1>1
<1>3. \A m \in 0 .. CashMonths - 1 : CashFirst[m] + 28 <= CashFirst[m + 1]
  <2> SUFFICES ASSUME NEW m \in 0 .. CashMonths - 1 PROVE CashFirst[m] + 28 <= CashFirst[m + 1]
    OBVIOUS
  <2>1. CashFirst[m] \in Nat /\ CashFirst[m + 1] \in Nat
    BY <1>1, <1>2
  <2>2. CashFirst[m + 1] - CashFirst[m] \in 28 .. 31
    BY <1>1 DEF CashMonth
  <2>3. QED BY <2>1, <2>2
<1>4. ASSUME NEW a \in 0 .. CashMonths, NEW b \in 0 .. CashMonths, a < b
      PROVE  CashFirst[a] + 28 <= CashFirst[a + 1] /\ CashFirst[a + 1] <= CashFirst[b]
  BY <1>1, <1>3, <1>4, FirstDaysGrow
<1>5. LastDay < CashFirst[CashMonths]
  <2>1. CashFirst[CashMonths] \in Nat
    BY <1>1, <1>2
  <2>2. QED BY <1>1, <2>1
<1>6. QED BY <1>1, <1>4, <1>5

(* The month of a day is the one it lies in.                                *)
LiesIn(d, m) == m \in CashMonth /\ d \in Int /\ CashFirst[m] <= d /\ d < CashFirst[m + 1]

LEMMA MonthIs == ASSUME NEW d, NEW m, LiesIn(d, m) PROVE Forecast!MonthOf(d) = m
<1>1. ASSUME NEW k \in CashMonth, CashFirst[k] <= d, d < CashFirst[k + 1] PROVE k = m
  <2>1. /\ k \in 0 .. CashMonths /\ m \in 0 .. CashMonths /\ k + 1 \in 0 .. CashMonths
        /\ m + 1 \in 0 .. CashMonths /\ k \in Int /\ m \in Int /\ d \in Int
    BY <1>1, CashCalendar DEF CashMonth, LiesIn
  <2>2. /\ CashFirst[k] \in Nat /\ CashFirst[m] \in Nat /\ CashFirst[k + 1] \in Nat
        /\ CashFirst[m + 1] \in Nat
    BY <2>1, CashCalendar
  <2>3. CASE k < m
    <3>1. CashFirst[k + 1] <= CashFirst[m]
      BY <2>1, <2>3, CashCalendar
    <3>2. QED BY <1>1, <2>1, <2>2, <3>1 DEF LiesIn
  <2>4. CASE m < k
    <3>1. CashFirst[m + 1] <= CashFirst[k]
      BY <2>1, <2>4, CashCalendar
    <3>2. QED BY <1>1, <2>1, <2>2, <3>1 DEF LiesIn
  <2>5. QED BY <2>1, <2>3, <2>4
<1>2. Forecast!MonthOf(d) = CHOOSE k \in CashMonth : CashFirst[k] <= d /\ d < CashFirst[k + 1]
  BY DEF Forecast!MonthOf, CashMonth
<1>3. m \in CashMonth /\ CashFirst[m] <= d /\ d < CashFirst[m + 1]
  BY DEF LiesIn
<1>4. QED BY <1>1, <1>2, <1>3

LEMMA EveryDayLies ==
  ASSUME NEW d \in Int, CashFirst[0] <= d, d <= LastDay
  PROVE  LiesIn(d, Forecast!MonthOf(d))
<1> DEFINE Past0 == {m \in 0 .. CashMonths : d < CashFirst[m]}
           f == [m \in Past0 |-> m]
<1>1. /\ CashMonths \in Nat /\ LastDay \in Nat /\ CashFirst[CashMonths] \in Nat
      /\ LastDay < CashFirst[CashMonths] /\ CashFirst[0] \in Nat
  BY CashCalendar
<1>2. CashMonths \in Past0 /\ f \in [Past0 -> Nat]
  BY <1>1
<1>3. PICK m \in Past0 : \A k \in Past0 : m <= k
  <2> HIDE DEF Past0
  <2>1. PICK x \in Past0 : \A y \in Past0 : f[x] <= f[y]
    BY <1>2, Least
  <2>2. QED BY <2>1
<1>4. m \in 0 .. CashMonths /\ d < CashFirst[m] /\ m # 0
  BY <1>1
<1>5. m - 1 \in 0 .. CashMonths /\ m - 1 \notin Past0 /\ (m - 1) + 1 = m /\ m - 1 \in CashMonth
  BY <1>1, <1>3, <1>4 DEF CashMonth
<1>6. CashFirst[m - 1] <= d
  <2>1. CashFirst[m - 1] \in Nat
    BY <1>5, CashCalendar
  <2>2. QED BY <1>5, <2>1
<1>7. LiesIn(d, m - 1)
  BY <1>4, <1>5, <1>6 DEF LiesIn
<1>8. QED BY <1>7, MonthIs

(* The day of a month, or its last.                                         *)
LEMMA OnIs ==
  ASSUME NEW m \in CashMonth, NEW d \in Int
  PROVE  /\ CashFirst[m] \in Nat /\ CashFirst[m + 1] - CashFirst[m] \in 28 .. 31
         /\ Forecast!On(m, d) = CashFirst[m] - 1 + (IF d <= CashFirst[m + 1] - CashFirst[m] THEN d
                                                    ELSE CashFirst[m + 1] - CashFirst[m])
         /\ Forecast!On(m, d) \in Int
<1> DEFINE n == CashFirst[m + 1] - CashFirst[m]
<1>1. CashFirst[m] \in Nat /\ n \in 28 .. 31
  BY CashCalendar DEF CashMonth
<1> HIDE DEF n
<1>2. Forecast!Min({d, n}) = IF d <= n THEN d ELSE n
  BY <1>1 DEF Forecast!Min
<1>3. Forecast!On(m, d) = CashFirst[m] + Forecast!Min({d, n}) - 1
  BY DEF Forecast!On, Forecast!MonthLength, n
<1>4. QED BY <1>1, <1>2, <1>3 DEF n

(* Next month's is four weeks later at least.                               *)
LEMMA OnGrows ==
  ASSUME NEW m \in CashMonth, NEW k \in CashMonth, m < k, NEW d \in Int
  PROVE  Forecast!On(m, d) + 28 <= Forecast!On(k, d)
<1>1. m + 1 \in 0 .. CashMonths /\ m \in 0 .. CashMonths /\ k \in 0 .. CashMonths
  BY CashCalendar DEF CashMonth
<1>2. CashFirst[m + 1] <= CashFirst[k] /\ CashFirst[m + 1] \in Nat /\ CashFirst[k] \in Nat
  BY <1>1, CashCalendar
<1> DEFINE a == CashFirst[m]
           b == CashFirst[m + 1]
           c == CashFirst[k]
           e == CashFirst[k + 1] - CashFirst[k]
<1>3. /\ a \in Nat /\ b - a \in 28 .. 31
      /\ Forecast!On(m, d) = a - 1 + (IF d <= b - a THEN d ELSE b - a)
  BY OnIs
<1>4. e \in 28 .. 31 /\ Forecast!On(k, d) = c - 1 + (IF d <= e THEN d ELSE e)
  BY OnIs
<1> HIDE DEF a, b, c, e
<1>5. b <= c /\ b \in Nat /\ c \in Nat
  BY <1>2 DEF b, c
<1>6. QED BY <1>3, <1>4, <1>5

(* Days of the month that are near each other.                              *)
LEMMA OnIsNear ==
  ASSUME NEW m \in CashMonth, NEW due \in 1 .. 31, NEW d \in Int,
         due - 2 <= d \/ 26 <= d, d <= due + 2
  PROVE  Forecast!On(m, d) - Forecast!On(m, due) \in -5 .. 5
<1> DEFINE a == CashFirst[m]
           n == CashFirst[m + 1] - CashFirst[m]
<1>1. a \in Nat /\ n \in 28 .. 31 /\ Forecast!On(m, d) = a - 1 + (IF d <= n THEN d ELSE n)
  BY OnIs
<1>2. Forecast!On(m, due) = a - 1 + (IF due <= n THEN due ELSE n)
  BY OnIs
<1> HIDE DEF a, n
<1>3. QED BY <1>1, <1>2

--------------------------------------------------------------------------------
(* The rows: each posted once a month, about the day it is due.             *)

LEMMA CashBills ==
  /\ IsFiniteSet(Bills)
  /\ \A b \in Bills : /\ DueDay[b] \in 1 .. 31 /\ Late[b] \subseteq -2 .. 2
                      /\ CardOf[b] # NoCard => Late[b] \subseteq 0 .. 2
                      /\ \A c \in Bills : CardOf[b] # NoCard /\ CardOf[c] = CardOf[b] =>
                           DueDay[c] = DueDay[b]
BY CashAssumption, CashCardinality DEF Forecast!ForecastAssumption, Forecast!BillsAreRegular

\* The day is one on which the bill of the month may be posted.
Lands(b, d, m) == b \in Bills /\ m \in CashMonth /\ d \in Int /\ d - Forecast!Due(b, m) \in Late[b]

LEMMA DueIs ==
  ASSUME NEW b \in Bills, NEW m \in CashMonth
  PROVE  Forecast!Due(b, m) = Forecast!On(m, DueDay[b]) /\ Forecast!Due(b, m) \in Int
BY CashBills, OnIs DEF Forecast!Due

LEMMA DueGrows ==
  ASSUME NEW b \in Bills, NEW m \in CashMonth, NEW k \in CashMonth, m < k
  PROVE  Forecast!Due(b, m) + 28 <= Forecast!Due(b, k)
<1>1. DueDay[b] \in Int
  BY CashBills
<1>2. QED BY <1>1, OnGrows DEF Forecast!Due

LEMMA LandsIsIn ==
  ASSUME NEW b, NEW d, NEW m, Lands(b, d, m)
  PROVE  LiesIn(d, m) /\ Forecast!MonthOf(d) = m /\ d - Forecast!Due(b, m) \in -2 .. 2
<1>1. b \in Bills /\ m \in CashMonth /\ d \in Int /\ d - Forecast!Due(b, m) \in Late[b]
  BY DEF Lands
<1>2. Forecast!Due(b, m) \in Int
  BY <1>1, DueIs
<1> DEFINE n == d - Forecast!Due(b, m)
<1>3. /\ CashFirst[m] <= Forecast!Due(b, m) + n
      /\ Forecast!Due(b, m) + n < CashFirst[m + 1]
  BY <1>1, CashAssumption DEF Forecast!ForecastAssumption, Forecast!BillsAreRegular, CashMonth
<1>4. Forecast!Due(b, m) + n = d
  BY <1>1, <1>2
<1> HIDE DEF n
<1>5. LiesIn(d, m)
  BY <1>1, <1>3, <1>4 DEF LiesIn
<1>6. QED BY <1>1, <1>5, MonthIs, CashBills

CashStatuses == {"completed", "pending"}
RowsAreRegular(S) ==
  /\ IsFiniteSet(S)
  /\ \A r \in S : /\ r \in [bill : Bills, day : Int, status : CashStatuses] /\ r.day <= now
                  /\ Lands(r.bill, r.day, Forecast!MonthOf(r.day))
  /\ \A r, q \in S : r.bill = q.bill /\ Forecast!MonthOf(r.day) = Forecast!MonthOf(q.day) => r = q

CashInv ==
  /\ now \in Int /\ CashFirst[0] <= now /\ now <= LastDay
  /\ RowsAreRegular(bank) /\ RowsAreRegular(fetched)
  /\ \A k \in known : /\ k.card \in Forecast!Cards
                      /\ \A b \in Bills : CardOf[b] = k.card =>
                           \E m \in CashMonth : k.day = Forecast!Due(b, m)

LEMMA PastIsPast ==
  /\ Past # {} /\ (\A m \in Past : m \in 0 .. CashMonths - 2) /\ IsFiniteSet(Past)
  /\ Forecast!Max(Past) \in Past /\ \A m \in Past : m <= Forecast!Max(Past)
  /\ CashFirst[Forecast!Max(Past) + 1] <= LastDay
<1>1. /\ Past # {} /\ Past \subseteq 0 .. CashMonths - 2
      /\ CashFirst[Forecast!Max(Past) + 1] <= LastDay
  BY CashAssumption DEF Forecast!ForecastAssumption, Forecast!CalendarIsLongEnough
<1>2. IsFiniteSet(0 .. CashMonths - 2)
  BY CashCalendar, FS_Interval
<1>3. IsFiniteSet(Past)
  BY <1>1, <1>2, FS_Subset
<1> DEFINE f == [m \in Past |-> m]
<1>4. \A m \in Past : m \in Int /\ f[m] = m
  BY <1>1
<1>5. PICK x \in Past : \A y \in Past : y <= x
  <2>1. \A m \in Past : f[m] \in Int
    BY <1>4
  <2> HIDE DEF f
  <2>2. PICK x \in Past : \A y \in Past : f[y] <= f[x]
    BY <1>1, <1>3, <2>1, Greatest
  <2>3. QED BY <1>4, <2>2
<1>6. \E y \in Past : \A z \in Past : y >= z
  BY <1>4, <1>5
<1>7. Forecast!Max(Past) \in Past /\ \A z \in Past : Forecast!Max(Past) >= z
  BY <1>6 DEF Forecast!Max
<1> HIDE DEF f
<1>8. \A m \in Past : m <= Forecast!Max(Past)
  BY <1>4, <1>7
<1>9. QED BY <1>1, <1>3, <1>7, <1>8

LEMMA CashStarts == Forecast!Init => CashInv
<1> SUFFICES ASSUME Forecast!Init PROVE CashInv
  OBVIOUS
<1> DEFINE D == (Bills \ New) \X Past
<1>1. PICK early \in [D -> UNION {Late[b] : b \in Bills}] :
        /\ \A x \in D : early[x] \in Late[x[1]]
        /\ bank = {Forecast!Row(x[1], Forecast!Due(x[1], x[2]) + early[x], "completed") : x \in D}
        /\ now = CashFirst[Forecast!Max(Past) + 1] /\ fetched = bank /\ known = {}
  BY DEF Forecast!Init
<1> DEFINE at == [x \in D |-> Forecast!Row(x[1], Forecast!Due(x[1], x[2]) + early[x], "completed")]
<1>2. bank = {at[x] : x \in D}
  BY <1>1
<1>3. IsFiniteSet(D)
  <2>1. IsFiniteSet(Bills \ New)
    BY CashBills, FS_Subset
  <2>2. QED BY <2>1, PastIsPast, FS_Product
<1>4. /\ Forecast!Max(Past) + 1 \in 0 .. CashMonths /\ 0 \in 0 .. CashMonths
      /\ 0 < Forecast!Max(Past) + 1 /\ Forecast!Max(Past) \in Int
  <2>1. Forecast!Max(Past) \in 0 .. CashMonths - 2
    BY PastIsPast
  <2>2. CashMonths \in Nat
    BY CashCalendar
  <2> HIDE DEF D
  <2>3. QED BY <2>1, <2>2
<1>5. now \in Int /\ CashFirst[0] <= now /\ now <= LastDay
  <2>1. /\ CashFirst[0] \in Nat /\ CashFirst[1] \in Nat /\ now \in Nat
        /\ CashFirst[0] + 28 <= CashFirst[1] /\ CashFirst[1] <= now
    <3>1. now = CashFirst[Forecast!Max(Past) + 1] /\ 0 + 1 = 1
      BY <1>1
    <3>2. CashFirst[0] + 28 <= CashFirst[0 + 1] /\ CashFirst[0 + 1] <= CashFirst[Forecast!Max(Past) + 1]
      BY <1>4, CashCalendar
    <3>3. 1 \in 0 .. CashMonths
      BY <1>4, CashCalendar
    <3>4. CashFirst[0] \in Nat /\ CashFirst[1] \in Nat /\ CashFirst[Forecast!Max(Past) + 1] \in Nat
      BY <1>4, <3>3, CashCalendar
    <3>5. QED BY <3>1, <3>2, <3>4
  <2>2. QED BY <1>1, <2>1, PastIsPast
<1>6. ASSUME NEW x \in D
      PROVE  /\ x[1] \in Bills /\ x[2] \in Past /\ x = <<x[1], x[2]>>
             /\ at[x] \in [bill : Bills, day : Int, status : CashStatuses]
             /\ at[x].bill = x[1] /\ Lands(x[1], at[x].day, x[2])
             /\ Forecast!MonthOf(at[x].day) = x[2] /\ at[x].day <= now
  <2>1. x[1] \in Bills /\ x[2] \in Past /\ x = <<x[1], x[2]>>
    BY <1>6
  <2>2. x[2] \in CashMonth /\ x[2] + 1 \in 0 .. CashMonths /\ x[2] <= Forecast!Max(Past) /\ x[2] \in Int
    <3>1. x[2] \in 0 .. CashMonths - 2 /\ x[2] <= Forecast!Max(Past)
      BY <2>1, PastIsPast
    <3>2. CashMonths \in Nat
      BY CashCalendar
    <3> HIDE DEF D, at
    <3>3. QED BY <3>1, <3>2 DEF CashMonth
  <2>3. early[x] \in Late[x[1]] /\ early[x] \in Int
    BY <1>1, <2>1, CashBills
  <2>4. /\ at[x].day = Forecast!Due(x[1], x[2]) + early[x] /\ at[x].bill = x[1]
        /\ at[x].status = "completed" /\ DOMAIN at[x] = {"bill", "day", "status"}
        /\ at[x] = [bill |-> at[x].bill, day |-> at[x].day, status |-> at[x].status]
    BY <1>6 DEF Forecast!Row
  <2> HIDE DEF at
  <2>5. Forecast!Due(x[1], x[2]) \in Int
    BY <2>1, <2>2, DueIs
  <2>6. at[x].day \in Int /\ at[x].day - Forecast!Due(x[1], x[2]) = early[x]
    BY <2>3, <2>4, <2>5
  <2>7. Lands(x[1], at[x].day, x[2])
    BY <2>1, <2>2, <2>3, <2>6 DEF Lands
  <2>8. LiesIn(at[x].day, x[2]) /\ Forecast!MonthOf(at[x].day) = x[2]
    BY <2>7, LandsIsIn
  <2>9. at[x].day <= now
    <3>1. CashFirst[x[2] + 1] <= now
      <4>1. CASE x[2] = Forecast!Max(Past)
        BY <1>1, <1>5, <4>1
      <4>2. CASE x[2] # Forecast!Max(Past)
        <5>1. x[2] + 1 < Forecast!Max(Past) + 1
          BY <1>4, <2>2, <4>2
        <5>2. /\ CashFirst[x[2] + 1] + 28 <= CashFirst[x[2] + 1 + 1]
              /\ CashFirst[x[2] + 1 + 1] <= CashFirst[Forecast!Max(Past) + 1]
          BY <1>4, <2>2, <5>1, CashCalendar
        <5>3. x[2] + 1 + 1 \in 0 .. CashMonths
          <6>1. CashMonths \in Nat /\ x[2] \in Nat
            BY <2>2, CashCalendar DEF CashMonth
          <6>2. QED BY <1>4, <2>2, <5>1, <6>1
        <5>4. CashFirst[x[2] + 1] \in Nat /\ CashFirst[x[2] + 1 + 1] \in Nat
          BY <2>2, <5>3, CashCalendar
        <5>5. QED BY <1>1, <1>5, <5>2, <5>4
      <4>3. QED BY <4>1, <4>2
    <3>2. CashFirst[x[2] + 1] \in Nat
      BY <2>2, CashCalendar
    <3>3. QED BY <1>5, <2>6, <2>8, <3>1, <3>2 DEF LiesIn
  <2>10. at[x] \in [bill : Bills, day : Int, status : CashStatuses]
    BY <2>1, <2>4, <2>6 DEF CashStatuses
  <2>11. QED BY <2>1, <2>4, <2>7, <2>8, <2>9, <2>10
<1>7. IsFiniteSet(bank)
  <2> HIDE DEF at, D
  <2>1. QED BY <1>2, <1>3, ImageIsFinite
<1> HIDE DEF at, D
<1>8. RowsAreRegular(bank)
  <2>1. \A r \in bank : \E x \in D : r = at[x]
    BY <1>2
  <2>2. ASSUME NEW r \in bank
        PROVE  /\ r \in [bill : Bills, day : Int, status : CashStatuses] /\ r.day <= now
               /\ Lands(r.bill, r.day, Forecast!MonthOf(r.day))
    BY <1>6, <2>1
  <2>3. ASSUME NEW r \in bank, NEW q \in bank, r.bill = q.bill,
               Forecast!MonthOf(r.day) = Forecast!MonthOf(q.day)
        PROVE  r = q
    <3>1. PICK x \in D, y \in D : r = at[x] /\ q = at[y]
      BY <2>1
    <3>2. x[1] = y[1] /\ x[2] = y[2]
      BY <1>6, <2>3, <3>1
    <3>3. x = y
      BY <1>6, <3>2
    <3>4. QED BY <3>1, <3>3
  <2>4. QED BY <1>7, <2>2, <2>3 DEF RowsAreRegular
<1>9. QED BY <1>1, <1>5, <1>8 DEF CashInv

\* A row that keeps its bill and day may take a place, and a new one a place of its own.
LEMMA CashPostKeeps ==
  ASSUME CashInv, NEW b \in Bills, NEW status \in CashStatuses, Forecast!Post(b, status)
  PROVE  CashInv'
<1> DEFINE new == Forecast!Row(b, now, status)
           M == Forecast!MonthOf(now)
<1>1. /\ ~\E r \in bank : r.bill = b /\ Forecast!MonthOf(r.day) = M
      /\ now - Forecast!Due(b, M) \in Late[b]
      /\ bank' = bank \union {new} /\ now' = now /\ fetched' = fetched /\ known' = known
  BY DEF Forecast!Post, Forecast!Has
<1>2. now \in Int /\ CashFirst[0] <= now /\ now <= LastDay
  BY DEF CashInv
<1>3. Lands(b, now, M)
  BY <1>1, <1>2, EveryDayLies DEF Lands, LiesIn
<1>4. /\ new.bill = b /\ new.day = now
      /\ new \in [bill : Bills, day : Int, status : CashStatuses]
  BY <1>2 DEF Forecast!Row
<1> HIDE DEF new, M
<1>5. IsFiniteSet(bank \union {new})
  BY FS_AddElement DEF CashInv, RowsAreRegular
<1>6. /\ \A r \in bank \union {new} :
           /\ r \in [bill : Bills, day : Int, status : CashStatuses] /\ r.day <= now
           /\ Lands(r.bill, r.day, Forecast!MonthOf(r.day))
      /\ \A r, q \in bank \union {new} :
           r.bill = q.bill /\ Forecast!MonthOf(r.day) = Forecast!MonthOf(q.day) => r = q
  <2>1. /\ \A r \in bank : /\ r \in [bill : Bills, day : Int, status : CashStatuses] /\ r.day <= now
                           /\ Lands(r.bill, r.day, Forecast!MonthOf(r.day))
        /\ \A r, q \in bank :
             r.bill = q.bill /\ Forecast!MonthOf(r.day) = Forecast!MonthOf(q.day) => r = q
    BY DEF CashInv, RowsAreRegular
  <2>2. /\ new \in [bill : Bills, day : Int, status : CashStatuses] /\ new.day <= now
        /\ Lands(new.bill, new.day, Forecast!MonthOf(new.day))
    BY <1>2, <1>3, <1>4 DEF M
  <2>3. \A r \in bank : ~(r.bill = new.bill /\ Forecast!MonthOf(r.day) = Forecast!MonthOf(new.day))
    BY <1>1, <1>4 DEF M
  <2>4. QED BY <2>1, <2>2, <2>3
<1>7. RowsAreRegular(bank)'
  BY <1>1, <1>5, <1>6 DEF RowsAreRegular, Lands, Forecast!MonthOf, Forecast!Due, Forecast!On,
     Forecast!MonthLength
<1>8. RowsAreRegular(fetched)'
  BY <1>1 DEF CashInv, RowsAreRegular, Lands, Forecast!MonthOf, Forecast!Due, Forecast!On,
     Forecast!MonthLength
<1>9. QED BY <1>1, <1>2, <1>7, <1>8 DEF CashInv, Forecast!Due, Forecast!On, Forecast!MonthLength, Forecast!Cards

LEMMA CashCompleteKeeps ==
  ASSUME CashInv, NEW r0 \in bank, Forecast!Complete(r0)
  PROVE  CashInv'
<1> DEFINE new == [r0 EXCEPT !.status = "completed"]
           S == (bank \ {r0}) \union {new}
<1>1. bank' = S /\ now' = now /\ fetched' = fetched /\ known' = known
  BY DEF Forecast!Complete
<1>2. RowsAreRegular(bank)
  BY DEF CashInv
<1>3. /\ new.bill = r0.bill /\ new.day = r0.day
      /\ new \in [bill : Bills, day : Int, status : CashStatuses]
  BY <1>2 DEF RowsAreRegular, CashStatuses
<1> HIDE DEF new
<1>4. IsFiniteSet(S)
  <2>1. IsFiniteSet(bank \ {r0})
    BY <1>2, FS_Subset DEF RowsAreRegular
  <2>2. QED BY <2>1, FS_AddElement
<1>5. ASSUME NEW r \in S
      PROVE  /\ r \in [bill : Bills, day : Int, status : CashStatuses] /\ r.day <= now
             /\ Lands(r.bill, r.day, Forecast!MonthOf(r.day))
  BY <1>2, <1>3 DEF RowsAreRegular
<1>6. ASSUME NEW r \in S, NEW q \in S, r.bill = q.bill,
             Forecast!MonthOf(r.day) = Forecast!MonthOf(q.day)
      PROVE  r = q
  <2>1. \A x, y \in bank :
          x.bill = y.bill /\ Forecast!MonthOf(x.day) = Forecast!MonthOf(y.day) => x = y
    BY <1>2 DEF RowsAreRegular
  <2>2. QED BY <1>3, <1>6, <2>1
<1>7. RowsAreRegular(S)
  BY <1>4, <1>5, <1>6 DEF RowsAreRegular
<1> HIDE DEF S
<1>8. RowsAreRegular(bank)'
  BY <1>1, <1>7 DEF RowsAreRegular, Lands, Forecast!MonthOf, Forecast!Due, Forecast!On,
     Forecast!MonthLength
<1>9. RowsAreRegular(fetched)'
  BY <1>1 DEF CashInv, RowsAreRegular, Lands, Forecast!MonthOf, Forecast!Due, Forecast!On,
     Forecast!MonthLength
<1>10. QED BY <1>1, <1>8, <1>9 DEF CashInv, Forecast!Due, Forecast!On, Forecast!MonthLength, Forecast!Cards

LEMMA CashDayKeeps == ASSUME CashInv, Forecast!NextDay PROVE CashInv'
<1>1. now < LastDay /\ now' = now + 1 /\ bank' = bank /\ fetched' = fetched /\ known' = known
  BY DEF Forecast!NextDay
<1>2. now \in Int /\ CashFirst[0] <= now /\ LastDay \in Nat /\ CashFirst[0] \in Nat
  BY CashCalendar DEF CashInv
<1>3. now' \in Int /\ CashFirst[0] <= now' /\ now' <= LastDay
  BY <1>1, <1>2
<1>4. ASSUME NEW S, RowsAreRegular(S), NEW r \in S PROVE r.day <= now'
  <2>1. r.day \in Int /\ r.day <= now
    BY <1>4 DEF RowsAreRegular
  <2>2. QED BY <1>1, <1>2, <2>1
<1>5. RowsAreRegular(bank)' /\ RowsAreRegular(fetched)'
  BY <1>1, <1>4 DEF CashInv, RowsAreRegular, Lands, Forecast!MonthOf, Forecast!Due, Forecast!On,
     Forecast!MonthLength
<1>6. QED BY <1>1, <1>3, <1>5 DEF CashInv, Forecast!Due, Forecast!On, Forecast!MonthLength, Forecast!Cards

(* The names of a card fall due on one day, and one such day is ahead.      *)
LEMMA NextDebitIsDue ==
  ASSUME CashInv, NEW c \in Forecast!Cards, NEW b \in Bills, CardOf[b] = c
  PROVE  \E m \in CashMonth : Forecast!NextDebit(c) = Forecast!Due(b, m)
<1> DEFINE b0 == CHOOSE x \in Bills : CardOf[x] = c
           Ms == {m \in CashMonth : Forecast!Due(b0, m) > now}
           T == {Forecast!Due(b0, m) : m \in Ms}
<1>1. b0 \in Bills /\ CardOf[b0] = c /\ c # NoCard
  BY DEF Forecast!Cards
<1>2. Forecast!NextDebit(c) = Forecast!Min(T)
  BY DEF Forecast!NextDebit, CashMonth
<1> HIDE DEF b0
<1>3. \A m \in CashMonth : Forecast!Due(b0, m) \in Int
  BY <1>1, DueIs
<1>4. Ms # {}
  <2>1. PICK m \in CashMonth : Forecast!Due(b0, m) > LastDay
    BY <1>1, CashAssumption DEF Forecast!ForecastAssumption, Forecast!BillsAreRegular, CashMonth
  <2>2. now \in Int /\ now <= LastDay /\ LastDay \in Int
    BY CashCalendar DEF CashInv
  <2>3. QED BY <1>3, <2>1, <2>2
<1>5. PICK m \in Ms : \A k \in Ms : Forecast!Due(b0, m) <= Forecast!Due(b0, k)
  <2> DEFINE f == [m \in Ms |-> m]
  <2>1. f \in [Ms -> Nat]
    BY DEF CashMonth
  <2>2. PICK m \in Ms : \A k \in Ms : m <= k
    <3> HIDE DEF Ms
    <3>1. PICK x \in Ms : \A y \in Ms : f[x] <= f[y]
      BY <1>4, <2>1, Least
    <3>2. QED BY <3>1
  <2>3. ASSUME NEW k \in Ms PROVE Forecast!Due(b0, m) <= Forecast!Due(b0, k)
    <3>1. m \in CashMonth /\ k \in CashMonth /\ m <= k /\ m \in Int /\ k \in Int
      BY <2>2 DEF CashMonth
    <3>2. CASE m = k
      BY <1>3, <3>1, <3>2
    <3>3. CASE m < k
      BY <1>1, <1>3, <3>1, <3>3, DueGrows
    <3>4. QED BY <3>1, <3>2, <3>3
  <2>4. QED BY <2>3
<1>6. Forecast!Min(T) \in T
  <2>1. \E x \in T : \A y \in T : x <= y
    BY <1>5
  <2> HIDE DEF T
  <2>2. QED BY <2>1 DEF Forecast!Min
<1>7. PICK k \in CashMonth : Forecast!Min(T) = Forecast!Due(b0, k)
  BY <1>6
<1>8. Forecast!Due(b0, k) = Forecast!Due(b, k)
  BY <1>1, CashBills DEF Forecast!Due
<1>9. QED BY <1>2, <1>7, <1>8

LEMMA CashSyncKeeps == ASSUME CashInv, Forecast!Sync PROVE CashInv'
<1>1. PICK cards \in SUBSET Forecast!Cards :
        /\ known' = known \union {[card |-> c, day |-> Forecast!NextDebit(c)] : c \in cards}
        /\ fetched' = bank /\ now' = now /\ bank' = bank
  BY DEF Forecast!Sync
<1>2. \A k \in known' : /\ k.card \in Forecast!Cards
                        /\ \A b \in Bills : CardOf[b] = k.card =>
                             \E m \in CashMonth : k.day = Forecast!Due(b, m)
  <2> SUFFICES ASSUME NEW k \in known'
               PROVE  /\ k.card \in Forecast!Cards
                      /\ \A b \in Bills : CardOf[b] = k.card =>
                           \E m \in CashMonth : k.day = Forecast!Due(b, m)
    OBVIOUS
  <2>1. CASE k \in known
    BY <2>1 DEF CashInv
  <2>2. ASSUME NEW c \in cards, k = [card |-> c, day |-> Forecast!NextDebit(c)]
        PROVE  /\ k.card \in Forecast!Cards
               /\ \A b \in Bills : CardOf[b] = k.card =>
                    \E m \in CashMonth : k.day = Forecast!Due(b, m)
    BY <2>2, NextDebitIsDue
  <2>3. QED BY <1>1, <2>1, <2>2
<1>3. RowsAreRegular(bank)' /\ RowsAreRegular(fetched)'
  BY <1>1 DEF CashInv, RowsAreRegular, Lands, Forecast!MonthOf, Forecast!Due, Forecast!On,
     Forecast!MonthLength
<1>4. QED BY <1>1, <1>2, <1>3 DEF CashInv, Forecast!Due, Forecast!On, Forecast!MonthLength, Forecast!Cards

LEMMA CashStays == CashInv /\ [Forecast!Next]_(Forecast!vars) => CashInv'
<1> SUFFICES ASSUME CashInv, [Forecast!Next]_(Forecast!vars) PROVE CashInv'
  OBVIOUS
<1>1. CASE UNCHANGED Forecast!vars
  BY <1>1 DEF Forecast!vars, CashInv, RowsAreRegular, Lands, Forecast!MonthOf, Forecast!Due,
     Forecast!On, Forecast!MonthLength, Forecast!Cards
<1>2. ASSUME NEW b \in Bills, NEW status \in {"completed", "pending"}, Forecast!Post(b, status)
      PROVE  CashInv'
  BY <1>2, CashPostKeeps DEF CashStatuses
<1>3. ASSUME NEW r \in bank, Forecast!Complete(r) PROVE CashInv'
  BY <1>3, CashCompleteKeeps
<1>4. QED BY <1>1, <1>2, <1>3, CashDayKeeps, CashSyncKeeps DEF Forecast!Next

--------------------------------------------------------------------------------
(* The streams: the day of the month they are seen at, and what follows.    *)

LEMMA FetchedIs ==
  ASSUME CashInv, NEW r \in fetched
  PROVE  /\ r.bill \in Bills /\ r.day \in Int /\ r.day <= now /\ now \in Int
         /\ Forecast!MonthOf(r.day) \in CashMonth
         /\ Lands(r.bill, r.day, Forecast!MonthOf(r.day))
         /\ r.day - Forecast!Due(r.bill, Forecast!MonthOf(r.day)) \in -2 .. 2
         /\ Forecast!Due(r.bill, Forecast!MonthOf(r.day)) \in Int
<1>1. /\ r \in [bill : Bills, day : Int, status : CashStatuses] /\ r.day <= now /\ now \in Int
      /\ Lands(r.bill, r.day, Forecast!MonthOf(r.day))
  BY DEF CashInv, RowsAreRegular
<1>2. Forecast!MonthOf(r.day) \in CashMonth
  BY <1>1 DEF Lands
<1>3. QED BY <1>1, <1>2, LandsIsIn, DueIs

LEMMA DayOfIsNear ==
  ASSUME CashInv, NEW r \in fetched
  PROVE  /\ Forecast!DayOf(r) \in Int /\ Forecast!DayOf(r) <= DueDay[r.bill] + 2
         /\ DueDay[r.bill] - 2 <= Forecast!DayOf(r) \/ 26 <= Forecast!DayOf(r)
<1> DEFINE m == Forecast!MonthOf(r.day)
           a == CashFirst[m]
           n == CashFirst[m + 1] - CashFirst[m]
           D == DueDay[r.bill]
           due == Forecast!Due(r.bill, m)
<1>1. r.bill \in Bills /\ m \in CashMonth /\ r.day \in Int /\ r.day - due \in -2 .. 2 /\ due \in Int
  BY FetchedIs
<1>2. D \in 1 .. 31
  BY <1>1, CashBills
<1>3. a \in Nat /\ n \in 28 .. 31 /\ due = a - 1 + (IF D <= n THEN D ELSE n)
  BY <1>1, <1>2, OnIs, DueIs
<1>4. Forecast!DayOf(r) = r.day - a + 1
  BY DEF Forecast!DayOf
<1> HIDE DEF m, a, n, D, due
<1>5. /\ Forecast!DayOf(r) \in Int /\ Forecast!DayOf(r) <= D + 2
      /\ D - 2 <= Forecast!DayOf(r) \/ 26 <= Forecast!DayOf(r)
  BY <1>1, <1>2, <1>3, <1>4
<1>6. QED BY <1>5 DEF D

LEMMA RowsOfIs ==
  ASSUME CashInv, NEW b \in Bills
  PROVE  /\ IsFiniteSet(Forecast!RowsOf(b)) /\ Forecast!RowsOf(b) \subseteq fetched
         /\ \A r \in Forecast!RowsOf(b) : r.bill = b /\ r.day \in Int
<1>1. Forecast!RowsOf(b) \subseteq fetched /\ \A r \in Forecast!RowsOf(b) : r.bill = b
  BY DEF Forecast!RowsOf
<1>2. IsFiniteSet(fetched)
  BY DEF CashInv, RowsAreRegular
<1>3. QED BY <1>1, <1>2, FS_Subset, FetchedIs

(* The k-th smallest day of the rows is one of their days.                  *)
LEMMA RankedIsADay ==
  ASSUME NEW S, IsFiniteSet(S), \A r \in S : Forecast!DayOf(r) \in Int,
         NEW k \in Nat, k <= Cardinality(S), S # {}
  PROVE  \E r \in S :
           Forecast!Min({Forecast!DayOf(q) : q \in {q \in S :
             Forecast!Cardinality({p \in S : Forecast!DayOf(p) <= Forecast!DayOf(q)}) >= k}})
             = Forecast!DayOf(r)
<1> DEFINE f == [r \in S |-> Forecast!DayOf(r)]
           g == [r \in S |-> -Forecast!DayOf(r)]
           R == {q \in S : Forecast!Cardinality({p \in S : Forecast!DayOf(p) <= Forecast!DayOf(q)}) >= k}
           T == {Forecast!DayOf(q) : q \in R}
<1>1. PICK x \in S : \A y \in S : Forecast!DayOf(y) <= Forecast!DayOf(x)
  <2>1. \A r \in S : f[r] \in Int /\ f[r] = Forecast!DayOf(r)
    OBVIOUS
  <2> HIDE DEF f
  <2>2. PICK x \in S : \A y \in S : f[y] <= f[x]
    BY <2>1, Greatest
  <2>3. QED BY <2>1, <2>2
<1>2. x \in R
  <2>1. {p \in S : Forecast!DayOf(p) <= Forecast!DayOf(x)} = S
    BY <1>1
  <2>2. Forecast!Cardinality(S) >= k
    BY CashCardinality, FS_CardinalityType
  <2>3. QED BY <2>1, <2>2
<1>3. R \subseteq S /\ IsFiniteSet(R)
  BY FS_Subset
<1>4. PICK y \in R : \A z \in R : Forecast!DayOf(y) <= Forecast!DayOf(z)
  <2>1. \A r \in R : g[r] \in Int /\ g[r] = -Forecast!DayOf(r) /\ Forecast!DayOf(r) \in Int
    BY <1>3
  <2> HIDE DEF g, R
  <2>2. PICK y \in R : \A z \in R : g[z] <= g[y]
    BY <1>2, <1>3, <2>1, Greatest
  <2>3. QED BY <2>1, <2>2
<1>5. Forecast!DayOf(y) \in T /\ \A t \in T : Forecast!DayOf(y) <= t
  BY <1>4
<1>6. Forecast!Min(T) \in T
  <2> HIDE DEF T
  <2>1. QED BY <1>5 DEF Forecast!Min
<1>7. PICK r \in R : Forecast!Min(T) = Forecast!DayOf(r)
  BY <1>6
<1>8. QED BY <1>3, <1>7

LEMMA EligibleHasRows ==
  ASSUME CashInv, NEW b \in Bills, Forecast!Eligible(b)
  PROVE  Forecast!RowsOf(b) # {} /\ Cardinality(Forecast!RowsOf(b)) \in Nat
         /\ Cardinality(Forecast!RowsOf(b)) >= 2
<1>1. Cardinality(Forecast!RowsOf(b)) >= 2
  BY CashCardinality DEF Forecast!Eligible
<1>2. Cardinality(Forecast!RowsOf(b)) \in Nat
  BY RowsOfIs, FS_CardinalityType
<1>3. Cardinality({}) = 0
  BY FS_EmptySet
<1>4. QED BY <1>1, <1>2, <1>3

(* The median of days near the day a bill falls due is near it.             *)
LEMMA StreamDayIsNear ==
  ASSUME CashInv, NEW b \in Bills, Forecast!Eligible(b)
  PROVE  /\ Forecast!dayOfMonth(b) \in Int /\ Forecast!dayOfMonth(b) <= DueDay[b] + 2
         /\ DueDay[b] - 2 <= Forecast!dayOfMonth(b) \/ 26 <= Forecast!dayOfMonth(b)
<1> DEFINE S == Forecast!RowsOf(b)
           n == Forecast!Cardinality(S)
           Ranked(k) == Forecast!Min({Forecast!DayOf(q) : q \in {q \in S :
                          Forecast!Cardinality({p \in S : Forecast!DayOf(p) <= Forecast!DayOf(q)}) >= k}})
           D == DueDay[b]
           i == (n + 1) \div 2
           j == (n + 2) \div 2
<1>1. Forecast!TwiceMedian(S) = Ranked(i) + Ranked(j)
  BY DEF Forecast!TwiceMedian
<1>2. S # {} /\ IsFiniteSet(S) /\ n \in Nat /\ n >= 2 /\ n = Cardinality(S)
  BY EligibleHasRows, RowsOfIs, CashCardinality
<1>3. D \in 1 .. 31
  BY CashBills
<1>4. \A r \in S : /\ Forecast!DayOf(r) \in Int /\ Forecast!DayOf(r) <= D + 2
                   /\ D - 2 <= Forecast!DayOf(r) \/ 26 <= Forecast!DayOf(r)
  BY DayOfIsNear, RowsOfIs
<1> HIDE DEF S, n
<1>5. i \in Nat /\ j \in Nat /\ i <= n /\ j <= n
  BY <1>2
<1>6. Forecast!dayOfMonth(b) = (Ranked(i) + Ranked(j) + 1) \div 2
  BY <1>1 DEF Forecast!dayOfMonth, S
<1> HIDE DEF i, j, D
<1>7. PICK r \in S : Ranked(i) = Forecast!DayOf(r)
  BY <1>2, <1>4, <1>5, RankedIsADay
<1>8. PICK q \in S : Ranked(j) = Forecast!DayOf(q)
  BY <1>2, <1>4, <1>5, RankedIsADay
<1> DEFINE u == Forecast!DayOf(r)
           v == Forecast!DayOf(q)
<1>9. u \in Int /\ u <= D + 2 /\ (D - 2 <= u \/ 26 <= u)
      /\ v \in Int /\ v <= D + 2 /\ (D - 2 <= v \/ 26 <= v)
  BY <1>4
<1>10. Forecast!dayOfMonth(b) = (u + v + 1) \div 2
  BY <1>6, <1>7, <1>8
<1> HIDE DEF u, v, Ranked
<1>11. /\ Forecast!dayOfMonth(b) \in Int /\ Forecast!dayOfMonth(b) <= D + 2
       /\ D - 2 <= Forecast!dayOfMonth(b) \/ 26 <= Forecast!dayOfMonth(b)
  BY <1>3, <1>9, <1>10
<1>12. QED BY <1>11 DEF D

LEMMA StreamEnds ==
  ASSUME CashInv, NEW b \in Bills, Forecast!Eligible(b)
  PROVE  \E r \in Forecast!RowsOf(b) :
           Forecast!LastOf(b) = r.day /\ \A q \in Forecast!RowsOf(b) : q.day <= r.day
<1> DEFINE S == Forecast!RowsOf(b)
           f == [r \in S |-> r.day]
           T == {r.day : r \in S}
<1>1. S # {} /\ IsFiniteSet(S) /\ \A r \in S : r.day \in Int /\ f[r] = r.day
  BY EligibleHasRows, RowsOfIs
<1> HIDE DEF S, f
<1>2. PICK r \in S : \A q \in S : f[q] <= f[r]
  BY <1>1, Greatest
<1>3. r.day \in T /\ \A t \in T : r.day >= t
  BY <1>1, <1>2
<1>4. Forecast!Max(T) \in T /\ \A t \in T : Forecast!Max(T) >= t
  <2> HIDE DEF T
  <2>1. QED BY <1>3 DEF Forecast!Max
<1>5. PICK p \in S : Forecast!Max(T) = p.day
  BY <1>4
<1>6. Forecast!LastOf(b) = Forecast!Max(T)
  BY DEF Forecast!LastOf, S
<1>7. \A q \in S : q.day <= p.day
  BY <1>1, <1>4, <1>5
<1>8. QED BY <1>5, <1>6, <1>7 DEF S

(* Two days of a month and a later one: none of the later lies before.      *)
LEMMA MonthsFollowDays ==
  ASSUME CashInv, NEW r \in fetched, NEW q \in fetched, r.day <= q.day
  PROVE  Forecast!MonthOf(r.day) <= Forecast!MonthOf(q.day)
<1> DEFINE m == Forecast!MonthOf(r.day)
           k == Forecast!MonthOf(q.day)
<1>1. LiesIn(r.day, m) /\ LiesIn(q.day, k)
  BY FetchedIs, LandsIsIn
<1> HIDE DEF m, k
<1>2. m \in Int /\ k \in Int /\ k + 1 \in 0 .. CashMonths /\ m \in 0 .. CashMonths /\ k \in 0 .. CashMonths
  BY <1>1, CashCalendar DEF LiesIn, CashMonth
<1>3. ASSUME k < m PROVE FALSE
  <2>1. CashFirst[k + 1] <= CashFirst[m] /\ CashFirst[k + 1] \in Nat /\ CashFirst[m] \in Nat
    BY <1>2, <1>3, CashCalendar
  <2>2. QED BY <1>1, <2>1 DEF LiesIn
<1>4. m <= k
  BY <1>2, <1>3
<1>5. QED BY <1>4 DEF m, k

Stream(b, m) == Forecast!Event({b}, Forecast!On(m, Forecast!dayOfMonth(b)), "recurring")

(* What is projected of a stream: its day in each later month, when ahead.  *)
LEMMA ProjectedIs ==
  ASSUME CashInv, NEW b \in Bills, Forecast!Eligible(b)
  PROVE  /\ Forecast!MonthOf(Forecast!LastOf(b)) \in CashMonth
         /\ Forecast!Projected(b) =
              {Stream(b, m) : m \in {m \in CashMonth : /\ Forecast!MonthOf(Forecast!LastOf(b)) < m
                                                       /\ Forecast!Ahead(Stream(b, m).day)}}
         /\ \A m \in CashMonth : /\ Stream(b, m).day \in Int
                                 /\ Stream(b, m).day - Forecast!Due(b, m) \in -5 .. 5
<1> DEFINE last == Forecast!MonthOf(Forecast!LastOf(b))
           d == Forecast!dayOfMonth(b)
           Occurs(k) == Forecast!On(last + k, d)
<1>1. last \in CashMonth
  BY StreamEnds, RowsOfIs, FetchedIs
<1>2. Forecast!Projected(b) = {Forecast!Event({b}, Occurs(k), "recurring") :
                                 k \in {k \in 1 .. CashMonths - 1 - last : Forecast!Ahead(Occurs(k))}}
  BY DEF Forecast!Projected, Forecast!addMonthsClamped
<1>3. \A m : Stream(b, m).day = Forecast!On(m, d)
  BY DEF Stream, Forecast!Event
<1>4. \A m : Stream(b, m) = Forecast!Event({b}, Forecast!On(m, d), "recurring")
  BY DEF Stream
<1> HIDE DEF last, d
<1>5. CashMonths \in Nat /\ last \in Nat /\ last < CashMonths
  BY <1>1, CashCalendar DEF CashMonth
<1>6. ASSUME NEW e \in Forecast!Projected(b)
      PROVE  \E m \in CashMonth : last < m /\ Forecast!Ahead(Stream(b, m).day) /\ e = Stream(b, m)
  <2>1. PICK k \in 1 .. CashMonths - 1 - last :
          Forecast!Ahead(Occurs(k)) /\ e = Forecast!Event({b}, Occurs(k), "recurring")
    BY <1>2
  <2>2. last + k \in CashMonth /\ last < last + k
    BY <1>5, <2>1 DEF CashMonth
  <2>3. QED BY <1>3, <1>4, <2>1, <2>2
<1>7. ASSUME NEW m \in CashMonth, last < m, Forecast!Ahead(Stream(b, m).day)
      PROVE  Stream(b, m) \in Forecast!Projected(b)
  <2>1. m - last \in 1 .. CashMonths - 1 - last /\ last + (m - last) = m
    BY <1>5, <1>7 DEF CashMonth
  <2>2. Occurs(m - last) = Forecast!On(m, d)
    BY <2>1
  <2>3. QED BY <1>2, <1>3, <1>4, <1>7, <2>1, <2>2
<1>8. ASSUME NEW m \in CashMonth
      PROVE  Stream(b, m).day \in Int /\ Stream(b, m).day - Forecast!Due(b, m) \in -5 .. 5
  <2>1. DueDay[b] \in 1 .. 31 /\ Forecast!Due(b, m) = Forecast!On(m, DueDay[b])
    BY CashBills, DueIs
  <2>2. d \in Int /\ d <= DueDay[b] + 2 /\ (DueDay[b] - 2 <= d \/ 26 <= d)
    BY StreamDayIsNear DEF d
  <2>3. Forecast!On(m, d) - Forecast!On(m, DueDay[b]) \in -5 .. 5 /\ Forecast!On(m, d) \in Int
    BY <2>1, <2>2, OnIsNear, OnIs
  <2>4. QED BY <1>3, <2>1, <2>3
<1>9. QED BY <1>1, <1>6, <1>7, <1>8 DEF last

--------------------------------------------------------------------------------
(* The events: each near the day its bills fall due in one month.           *)

LEMMA DuesAreApart ==
  ASSUME NEW b \in Bills, NEW m \in CashMonth, NEW k \in CashMonth,
         Forecast!Due(b, m) - Forecast!Due(b, k) \in -27 .. 27
  PROVE  m = k
<1>1. m \in Int /\ k \in Int /\ Forecast!Due(b, m) \in Int /\ Forecast!Due(b, k) \in Int
  BY DueIs DEF CashMonth
<1>2. ASSUME m < k PROVE FALSE
  <2>1. Forecast!Due(b, m) + 28 <= Forecast!Due(b, k)
    BY <1>2, DueGrows
  <2>2. QED BY <1>1, <2>1
<1>3. ASSUME k < m PROVE FALSE
  <2>1. Forecast!Due(b, k) + 28 <= Forecast!Due(b, m)
    BY <1>3, DueGrows
  <2>2. QED BY <1>1, <2>1
<1>4. QED BY <1>1, <1>2, <1>3

Debit(k) == Forecast!Event({b \in Bills : CardOf[b] = k.card}, k.day, "known")
Waiting(r) == Forecast!Event({r.bill}, now + 1, "pending")

IsStream(e) ==
  \E b \in Bills, m \in CashMonth :
    /\ Forecast!Eligible(b) /\ e = Stream(b, m) /\ Forecast!MonthOf(Forecast!LastOf(b)) < m
    /\ \A k \in Forecast!Known : ~Forecast!Consumes(k, e)
IsDebit(e) == \E k \in Forecast!Known : e = Debit(k)
IsWaiting(e) ==
  \E r \in fetched : /\ r.status = "pending" /\ CardOf[r.bill] = NoCard /\ ~Forecast!Eligible(r.bill)
                     /\ r.day >= now - 14 /\ e = Waiting(r)

LEMMA EventsAre ==
  ASSUME CashInv, NEW e \in Forecast!forecastBalance
  PROVE  IsStream(e) \/ IsDebit(e) \/ IsWaiting(e)
<1>1. CASE e \in Forecast!projectEvents /\ \A k \in Forecast!Known : ~Forecast!Consumes(k, e)
  <2>1. PICK b \in Bills : Forecast!Eligible(b) /\ e \in Forecast!Projected(b)
    BY <1>1 DEF Forecast!projectEvents
  <2>2. \E m \in CashMonth : e = Stream(b, m) /\ Forecast!MonthOf(Forecast!LastOf(b)) < m
    BY <2>1, ProjectedIs
  <2>3. QED BY <1>1, <2>1, <2>2 DEF IsStream
<1>2. CASE e \in {Forecast!Event({b \in Bills : CardOf[b] = k.card}, k.day, "known") : k \in Forecast!Known}
  BY <1>2 DEF IsDebit, Debit
<1>3. CASE e \in Forecast!PendingEvents
  <2>1. PICK r \in fetched :
          /\ r.status = "pending" /\ CardOf[r.bill] = NoCard /\ ~Forecast!Eligible(r.bill)
          /\ r.day >= now - 14
          /\ e = Forecast!Event({r.bill}, IF r.day > now THEN r.day ELSE now + 1, "pending")
    BY <1>3 DEF Forecast!PendingEvents
  <2>2. ~(r.day > now)
    BY FetchedIs
  <2>3. QED BY <2>1, <2>2 DEF IsWaiting, Waiting
<1>4. QED BY <1>1, <1>2, <1>3 DEF Forecast!forecastBalance

LEMMA StreamIs ==
  ASSUME CashInv, NEW b \in Bills, NEW m \in CashMonth, Forecast!Eligible(b)
  PROVE  /\ Stream(b, m).bills = {b} /\ Stream(b, m).day \in Int
         /\ Stream(b, m).day - Forecast!Due(b, m) \in -5 .. 5 /\ Forecast!Due(b, m) \in Int
<1>1. Stream(b, m).bills = {b}
  BY DEF Stream, Forecast!Event
<1>2. QED BY <1>1, ProjectedIs, DueIs

LEMMA DebitIs ==
  ASSUME CashInv, NEW k \in Forecast!Known
  PROVE  /\ Debit(k).bills = {b \in Bills : CardOf[b] = k.card} /\ Debit(k).day = k.day
         /\ k.card # NoCard /\ now < k.day
         /\ \A b \in Bills : CardOf[b] = k.card => \E m \in CashMonth : k.day = Forecast!Due(b, m)
BY DEF Debit, Forecast!Event, Forecast!Known, Forecast!Ahead, CashInv, Forecast!Cards

LEMMA WaitingIs == \A r : Waiting(r).bills = {r.bill} /\ Waiting(r).day = now + 1
BY DEF Waiting, Forecast!Event

\* A known debit that does not replace a stream of its card is of another month.
LEMMA StreamAndDebit ==
  ASSUME CashInv, NEW b \in Bills, NEW m \in CashMonth, Forecast!Eligible(b),
         NEW k \in Forecast!Known, CardOf[b] = k.card, ~Forecast!Consumes(k, Stream(b, m))
  PROVE  Stream(b, m).day - k.day \notin -20 .. 20 /\ k.day - Stream(b, m).day \notin -20 .. 20
<1>1. PICK j \in CashMonth : k.day = Forecast!Due(b, j)
  BY DebitIs
<1> DEFINE d == Stream(b, m).day
<1>2. d - k.day \notin -7 .. 7
  BY StreamIs DEF Forecast!Consumes
<1>3. d \in Int /\ d - Forecast!Due(b, m) \in -5 .. 5 /\ Forecast!Due(b, m) \in Int /\ Forecast!Due(b, j) \in Int
  BY StreamIs, DueIs
<1>4. m # j
  BY <1>1, <1>2, <1>3
<1>5. Forecast!Due(b, m) - Forecast!Due(b, j) \notin -27 .. 27
  BY <1>4, DuesAreApart
<1> HIDE DEF d
<1>6. d - k.day \notin -20 .. 20 /\ k.day - d \notin -20 .. 20
  BY <1>1, <1>3, <1>5
<1>7. QED BY <1>6 DEF d

LEMMA EventsAreApart ==
  ASSUME CashInv, NEW e \in Forecast!forecastBalance, NEW f \in Forecast!forecastBalance, e # f,
         NEW b \in e.bills \intersect f.bills
  PROVE  f.day - e.day \notin -20 .. 20
<1>1. (IsStream(e) \/ IsDebit(e) \/ IsWaiting(e)) /\ (IsStream(f) \/ IsDebit(f) \/ IsWaiting(f))
  BY EventsAre
<1>2. CASE IsStream(e) /\ IsStream(f)
  <2>1. PICK c \in Bills, m \in CashMonth : Forecast!Eligible(c) /\ e = Stream(c, m)
    BY <1>2 DEF IsStream
  <2>2. PICK a \in Bills, k \in CashMonth : Forecast!Eligible(a) /\ f = Stream(a, k)
    BY <1>2 DEF IsStream
  <2>3. c = b /\ a = b
    BY <2>1, <2>2, StreamIs
  <2>4. m # k /\ m \in Int /\ k \in Int
    BY <2>1, <2>2, <2>3 DEF CashMonth
  <2>5. Forecast!dayOfMonth(b) \in Int
    BY <2>1, <2>3, StreamDayIsNear
  <2>6. e.day = Forecast!On(m, Forecast!dayOfMonth(b)) /\ f.day = Forecast!On(k, Forecast!dayOfMonth(b))
    BY <2>1, <2>2, <2>3 DEF Stream, Forecast!Event
  <2>7. e.day \in Int /\ f.day \in Int /\ (e.day + 28 <= f.day \/ f.day + 28 <= e.day)
    BY <2>4, <2>5, <2>6, OnGrows, OnIs
  <2>8. QED BY <2>7
<1>3. CASE IsStream(e) /\ IsDebit(f)
  <2>1. PICK c \in Bills, m \in CashMonth :
          Forecast!Eligible(c) /\ e = Stream(c, m) /\ \A k \in Forecast!Known : ~Forecast!Consumes(k, e)
    BY <1>3 DEF IsStream
  <2>2. PICK k \in Forecast!Known : f = Debit(k)
    BY <1>3 DEF IsDebit
  <2>3. c = b /\ CardOf[b] = k.card /\ f.day = k.day
    BY <2>1, <2>2, StreamIs, DebitIs
  <2>4. QED BY <2>1, <2>3, StreamAndDebit
<1>4. CASE IsDebit(e) /\ IsStream(f)
  <2>1. PICK c \in Bills, m \in CashMonth :
          Forecast!Eligible(c) /\ f = Stream(c, m) /\ \A k \in Forecast!Known : ~Forecast!Consumes(k, f)
    BY <1>4 DEF IsStream
  <2>2. PICK k \in Forecast!Known : e = Debit(k)
    BY <1>4 DEF IsDebit
  <2>3. c = b /\ CardOf[b] = k.card /\ e.day = k.day
    BY <2>1, <2>2, StreamIs, DebitIs
  <2>4. QED BY <2>1, <2>3, StreamAndDebit
<1>5. CASE IsDebit(e) /\ IsDebit(f)
  <2>1. PICK k \in Forecast!Known : e = Debit(k)
    BY <1>5 DEF IsDebit
  <2>2. PICK j \in Forecast!Known : f = Debit(j)
    BY <1>5 DEF IsDebit
  <2>3. b \in Bills /\ CardOf[b] = k.card /\ CardOf[b] = j.card /\ e.day = k.day /\ f.day = j.day
    BY <2>1, <2>2, DebitIs
  <2>4. k.day # j.day
    BY <2>1, <2>2, <2>3 DEF Debit
  <2>5. PICK m \in CashMonth : k.day = Forecast!Due(b, m)
    BY <2>3, DebitIs
  <2>6. PICK n \in CashMonth : j.day = Forecast!Due(b, n)
    BY <2>3, DebitIs
  <2>7. Forecast!Due(b, n) - Forecast!Due(b, m) \notin -27 .. 27
    BY <2>3, <2>4, <2>5, <2>6, DuesAreApart
  <2>8. Forecast!Due(b, n) \in Int /\ Forecast!Due(b, m) \in Int
    BY <2>3, DueIs
  <2>9. QED BY <2>3, <2>5, <2>6, <2>7, <2>8
<1>6. CASE (IsWaiting(e) /\ IsStream(f)) \/ (IsStream(e) /\ IsWaiting(f))
  <2>1. ASSUME NEW g, IsWaiting(g), NEW h, IsStream(h) PROVE g.bills \intersect h.bills = {}
    <3>1. PICK r \in fetched : ~Forecast!Eligible(r.bill) /\ g = Waiting(r)
      BY <2>1 DEF IsWaiting
    <3>2. PICK c \in Bills, m \in CashMonth : Forecast!Eligible(c) /\ h = Stream(c, m)
      BY <2>1 DEF IsStream
    <3>3. g.bills = {r.bill} /\ h.bills = {c} /\ r.bill # c
      BY <3>1, <3>2, StreamIs, WaitingIs
    <3>4. QED BY <3>3
  <2>2. QED BY <1>6, <2>1
<1>7. CASE (IsWaiting(e) /\ IsDebit(f)) \/ (IsDebit(e) /\ IsWaiting(f))
  <2>1. ASSUME NEW g, IsWaiting(g), NEW h, IsDebit(h) PROVE g.bills \intersect h.bills = {}
    <3>1. PICK r \in fetched : CardOf[r.bill] = NoCard /\ g = Waiting(r)
      BY <2>1 DEF IsWaiting
    <3>2. PICK k \in Forecast!Known : h = Debit(k)
      BY <2>1 DEF IsDebit
    <3>3. g.bills = {r.bill} /\ r.bill \notin h.bills
      BY <3>1, <3>2, DebitIs, WaitingIs
    <3>4. QED BY <3>3
  <2>2. QED BY <1>7, <2>1
<1>8. CASE IsWaiting(e) /\ IsWaiting(f)
  <2>1. PICK r \in fetched : e = Waiting(r)
    BY <1>8 DEF IsWaiting
  <2>2. PICK q \in fetched : f = Waiting(q)
    BY <1>8 DEF IsWaiting
  <2>3. r.bill = b /\ q.bill = b
    BY <2>1, <2>2, WaitingIs
  <2>4. e = f
    BY <2>1, <2>2, <2>3 DEF Waiting
  <2>5. QED BY <2>4
<1>9. QED BY <1>1, <1>2, <1>3, <1>4, <1>5, <1>6, <1>7, <1>8

(* What is expected of a month has not been posted in it.                   *)
LEMMA NothingPostedIsExpected ==
  ASSUME CashInv, NEW e \in Forecast!forecastBalance, NEW b \in Bills, b \in e.bills,
         NEW m \in CashMonth, e.day - Forecast!Due(b, m) \in -5 .. 5,
         NEW r \in Forecast!RowsOf(b), Forecast!MonthOf(r.day) = m
  PROVE  FALSE
<1>1. /\ r \in fetched /\ r.bill = b /\ r.status = "completed" /\ r.day \in Int /\ r.day <= now
      /\ now \in Int /\ r.day - Forecast!Due(b, m) \in -2 .. 2 /\ Forecast!Due(b, m) \in Int
      /\ Lands(b, r.day, m)
  BY FetchedIs DEF Forecast!RowsOf
<1>2. CASE IsStream(e)
  <2>1. PICK c \in Bills, k \in CashMonth :
          Forecast!Eligible(c) /\ e = Stream(c, k) /\ Forecast!MonthOf(Forecast!LastOf(c)) < k
    BY <1>2 DEF IsStream
  <2>2. c = b
    BY <2>1, StreamIs
  <2>3. e.day \in Int /\ e.day - Forecast!Due(b, k) \in -5 .. 5 /\ Forecast!Due(b, k) \in Int
    BY <2>1, <2>2, StreamIs
  <2>4. Forecast!Due(b, m) - Forecast!Due(b, k) \in -27 .. 27
    BY <1>1, <2>3
  <2>5. m = k
    BY <2>4, DuesAreApart
  <2>6. PICK q \in Forecast!RowsOf(b) : Forecast!LastOf(b) = q.day /\ r.day <= q.day
    BY <2>1, <2>2, StreamEnds
  <2>7. m <= Forecast!MonthOf(q.day) /\ Forecast!MonthOf(q.day) < m
    BY <1>1, <2>1, <2>2, <2>5, <2>6, MonthsFollowDays, RowsOfIs
  <2>8. m \in Int /\ Forecast!MonthOf(q.day) \in Int
    BY <2>6, RowsOfIs, FetchedIs DEF CashMonth
  <2>9. QED BY <2>7, <2>8
<1>3. CASE IsDebit(e)
  <2>1. PICK k \in Forecast!Known : e = Debit(k)
    BY <1>3 DEF IsDebit
  <2>2. CardOf[b] = k.card /\ k.card # NoCard /\ now < k.day /\ e.day = k.day
    BY <2>1, DebitIs
  <2>3. PICK j \in CashMonth : k.day = Forecast!Due(b, j)
    BY <2>2, DebitIs
  <2>4. Forecast!Due(b, j) \in Int
    BY DueIs
  <2>5. Forecast!Due(b, m) - Forecast!Due(b, j) \in -27 .. 27
    BY <1>1, <2>2, <2>3, <2>4
  <2>6. m = j
    BY <2>5, DuesAreApart
  <2>7. r.day - Forecast!Due(b, m) \in 0 .. 2
    BY <1>1, <2>2, CashBills DEF Lands
  <2>8. QED BY <1>1, <2>2, <2>3, <2>6, <2>7
<1>4. CASE IsWaiting(e)
  <2>1. PICK q \in fetched : q.status = "pending" /\ q.day >= now - 14 /\ e = Waiting(q)
    BY <1>4 DEF IsWaiting
  <2>2. q.bill = b /\ e.day = now + 1
    BY <2>1, WaitingIs
  <2>3. PICK j \in CashMonth : Forecast!MonthOf(q.day) = j
    BY FetchedIs
  <2>4. /\ q.day \in Int /\ q.day <= now /\ q.day - Forecast!Due(b, j) \in -2 .. 2
        /\ Forecast!Due(b, j) \in Int
    BY <2>2, <2>3, FetchedIs
  <2>5. Forecast!Due(b, m) - Forecast!Due(b, j) \in -27 .. 27
    BY <1>1, <2>1, <2>2, <2>4
  <2>6. m = j
    BY <2>5, DuesAreApart
  <2>7. q = r
    BY <1>1, <2>2, <2>3, <2>6 DEF CashInv, RowsAreRegular
  <2>8. QED BY <1>1, <2>1, <2>7
<1>5. QED BY <1>2, <1>3, <1>4, EventsAre

(* A bill of a stream that falls due ahead has its event.                   *)
LEMMA DueIsExpected ==
  ASSUME CashInv, NEW b \in Bills, NEW m \in CashMonth, Forecast!Eligible(b),
         now + 5 < Forecast!Due(b, m), Forecast!Due(b, m) + 5 <= now + Horizon
  PROVE  \E e \in Forecast!forecastBalance : Forecast!For(e, b, m)
<1> DEFINE e == Stream(b, m)
           L == Forecast!MonthOf(Forecast!LastOf(b))
<1>1. /\ e.bills = {b} /\ e.day \in Int /\ e.day - Forecast!Due(b, m) \in -5 .. 5
      /\ Forecast!Due(b, m) \in Int /\ now \in Int /\ Horizon \in Nat
  BY StreamIs, CashCalendar DEF CashInv
<1>2. L < m
  <2>1. PICK q \in Forecast!RowsOf(b) : Forecast!LastOf(b) = q.day
    BY StreamEnds
  <2>2. /\ L \in CashMonth /\ q.day \in Int /\ q.day <= now /\ q.day - Forecast!Due(b, L) \in -2 .. 2
        /\ Forecast!Due(b, L) \in Int
    BY <2>1, RowsOfIs, FetchedIs
  <2> HIDE DEF L
  <2>3. m \in Int /\ L \in Int
    BY <2>2 DEF CashMonth
  <2>4. ASSUME m <= L PROVE FALSE
    <3>1. Forecast!Due(b, m) <= Forecast!Due(b, L)
      <4>1. CASE m = L
        BY <1>1, <4>1
      <4>2. CASE m < L
        BY <1>1, <2>2, <4>2, DueGrows
      <4>3. QED BY <2>3, <2>4, <4>1, <4>2
    <3>2. QED BY <1>1, <2>2, <3>1
  <2>5. QED BY <2>3, <2>4
<1>3. Forecast!Ahead(e.day)
  BY <1>1 DEF Forecast!Ahead
<1>4. e \in Forecast!Projected(b)
  BY <1>2, <1>3, ProjectedIs
<1>5. e \in Forecast!projectEvents
  BY <1>4 DEF Forecast!projectEvents
<1> HIDE DEF e, L
<1>6. CASE \A k \in Forecast!Known : ~Forecast!Consumes(k, e)
  <2>1. e \in Forecast!forecastBalance
    BY <1>5, <1>6 DEF Forecast!forecastBalance
  <2>2. QED BY <1>1, <2>1 DEF Forecast!For, Forecast!Near
<1>7. ASSUME NEW k \in Forecast!Known, Forecast!Consumes(k, e)
      PROVE  \E f \in Forecast!forecastBalance : Forecast!For(f, b, m)
  <2>1. CardOf[b] = k.card /\ e.day - k.day \in -7 .. 7
    BY <1>1, <1>7 DEF Forecast!Consumes
  <2>2. PICK j \in CashMonth : k.day = Forecast!Due(b, j)
    BY <2>1, DebitIs
  <2>3. Forecast!Due(b, j) \in Int
    BY DueIs
  <2>4. Forecast!Due(b, m) - Forecast!Due(b, j) \in -27 .. 27
    BY <1>1, <2>1, <2>2, <2>3
  <2>5. m = j
    BY <2>4, DuesAreApart
  <2>6. b \in Debit(k).bills /\ Debit(k).day - Forecast!Due(b, m) \in -5 .. 5
    <3>1. Debit(k).day = Forecast!Due(b, m)
      BY <2>2, <2>5, DebitIs
    <3>2. b \in Debit(k).bills
      BY <2>1, DebitIs
    <3>3. QED BY <1>1, <3>1, <3>2
  <2>7. Debit(k) \in Forecast!forecastBalance
    BY DEF Forecast!forecastBalance, Debit
  <2>8. QED BY <2>6, <2>7 DEF Forecast!For, Forecast!Near
<1>8. QED BY <1>6, <1>7

(* Every bill of a stream that falls due ahead is expected, and no bill is  *)
(* expected twice, nor once it is in the balance (forecast.ts:519-521).     *)
THEOREM ForecastsAreExact == Forecast!Spec => []ForecastIsExact
<1>1. CashInv => ForecastIsExact
  <2> SUFFICES ASSUME CashInv PROVE Forecast!ForecastIsExact
    BY DEF ForecastIsExact
  <2> DEFINE events == Forecast!forecastBalance
  <2>1. Forecast!Months = CashMonth /\ Forecast!Near = 5
    BY DEF Forecast!Months, CashMonth, Forecast!Near
  <2>2. Forecast!NothingIsMissed(events)
    BY <2>1, DueIsExpected DEF Forecast!NothingIsMissed
  <2>3. Forecast!NothingIsExpectedTwice(events)
    <3>1. \A e, f \in events :
            e # f => \A b \in e.bills \intersect f.bills : f.day - e.day \notin -20 .. 20
      BY EventsAreApart
    <3>2. ASSUME NEW e \in events, NEW b \in e.bills, NEW m \in CashMonth, Forecast!For(e, b, m),
                 Forecast!Posted(b, m)
          PROVE  FALSE
      <4>1. b \in Bills
        <5>1. CASE IsStream(e)
          BY <5>1, StreamIs DEF IsStream
        <5>2. CASE IsDebit(e)
          BY <5>2, DebitIs DEF IsDebit
        <5>3. CASE IsWaiting(e)
          BY <5>3, WaitingIs, FetchedIs DEF IsWaiting
        <5>4. QED BY <5>1, <5>2, <5>3, EventsAre
      <4>2. e.day - Forecast!Due(b, m) \in -5 .. 5
        BY <2>1, <3>2 DEF Forecast!For
      <4>3. PICK r \in Forecast!RowsOf(b) : Forecast!MonthOf(r.day) = m
        BY <3>2 DEF Forecast!Posted
      <4>4. QED BY <4>1, <4>2, <4>3, NothingPostedIsExpected
    <3> HIDE DEF events
    <3>3. QED BY <2>1, <3>1, <3>2 DEF Forecast!NothingIsExpectedTwice
  <2>4. QED BY <2>2, <2>3 DEF Forecast!ForecastIsExact
<1>2. QED BY <1>1, CashStarts, CashStays, PTL DEF Forecast!Spec
================================================================================
