--------------------------- MODULE TransactionStore ---------------------------
(****************************************************************************)
(* The transactions of one profile and everything that puts a category on   *)
(* them: the sync of a connection, the user's verdicts, rules and sector    *)
(* mappings, their undos, the cash rows, the two wipes, and the backfill at *)
(* boot (server/src/routes.ts over server/src/db.ts and categories.ts).     *)
(*                                                                          *)
(* A handler without an await is one action. A sync awaits its browser, so  *)
(* it is one action per connection; the gate of routes.ts:342 answers 409   *)
(* to every other write meanwhile (Idle).                                   *)
(*                                                                          *)
(* Texts are abstracted to what the tiers ask of them: which patterns a     *)
(* description contains, which merchant it normalises to, its sector and    *)
(* what the vocabularies say of it. Two rules of one length cannot both     *)
(* match: the tie, which the older rule wins, is left out.                  *)
(****************************************************************************)
EXTENDS Naturals, Functions

CONSTANTS
  Connections,  \* ids of bank connections, AUTOINCREMENT: never reused
  Keys,         \* identities of scraped rows (makeTxnKey)
  CashKeys,     \* identities of the rows typed by hand
  Categories, Patterns, Sectors,
  Nothing,      \* SQL NULL
  Boot,         \* the value of sync before createApi has run
  Cash,         \* connection 0, company 'manual'
  Feed,         \* Feed[c]: the rows connection c can deliver; one account may be behind two
  Matches,      \* Matches[p]: the rows whose description contains p
  Length,       \* Length[p]: characters of p
  Sector,       \* Sector[k]: the issuer's sector, or Nothing
  SectorMap,    \* SectorMap[s]: what the built-in sector vocabulary says, or Nothing
  Words,        \* Words[k]: what the savings and semantic vocabularies say, or Nothing
  Merchant,     \* Merchant[k]: the normalised description
  Credit,       \* Credit[k]: money into a bank account
  Age           \* Age[k]: position in ORDER BY date DESC

AllKeys == Keys \union CashKeys
Statuses == {"pending", "completed"}
Sources == {"user", "rule", "issuer", "auto", "income"}

\* A description has no pattern longer than itself in it.
StoreAssumption ==
  /\ {"other", "income"} \subseteq Categories
  /\ Nothing \notin Categories \union Sectors \union Sources \union {Boot} /\ Cash \notin Connections
  /\ Keys \intersect CashKeys = {}
  /\ Feed \in [Connections -> SUBSET Keys]
  /\ Matches \in [Patterns -> SUBSET AllKeys] /\ Length \in [Patterns -> Nat]
  /\ \A k \in AllKeys : \E n \in {0} \union {Length[p] : p \in Patterns} :
       \A p \in Patterns : k \in Matches[p] => Length[p] <= n
  /\ \A p, q \in Patterns : p # q /\ Length[p] = Length[q] => Matches[p] \intersect Matches[q] = {}
  /\ Sector \in [AllKeys -> Sectors \union {Nothing}]
  /\ SectorMap \in [Sectors -> Categories \union {Nothing}]
  /\ Words \in [AllKeys -> Categories \union {Nothing}]
  /\ Credit \in [AllKeys -> BOOLEAN] /\ Age \in [AllKeys -> Nat]

VARIABLES
  rows,        \* transactions: a function from the stored keys
  connections, \* the connections that exist
  added,       \* the ids handed out so far
  rules,       \* category_rules: pattern (UNIQUE) -> category
  overrides,   \* sector_overrides: sector -> category
  stamped,     \* the setting autoCategorize is 'v3'
  sync,        \* what the running sync captured, Nothing, or Boot
  fed          \* history: fed[c], the statuses c's last successful scrape delivered

vars == <<rows, connections, added, rules, overrides, stamped, sync, fed>>

Machine == {"auto", "income"}
Verdicts == [category : Categories, source : Sources] \union {[category |-> Nothing, source |-> Nothing]}
Row == [status : Statuses, connection : Connections \union {Cash}, verdict : Verdicts]
Partial(S, T) == UNION {[D -> T] : D \in SUBSET S}

Verdict(c, s) == [category |-> c, source |-> s]
NoVerdict == Verdict(Nothing, Nothing)
Without(f, S) == Restrict(f, DOMAIN f \ S)
With(f, x, v) == [y \in DOMAIN f \union {x} |-> IF y = x THEN v ELSE f[y]]
Stored == DOMAIN rows
Judge(rs, S, v) == [k \in DOMAIN rs |-> IF k \in S THEN [rs[k] EXCEPT !.verdict = v] ELSE rs[k]]

----------------------------------------------------------------------------
(* The automatic engine.                                                    *)

Trust(k, rs) == CASE rs[k].verdict.source = "user"   -> 3
                  [] rs[k].verdict.source = "rule"   -> 2
                  [] rs[k].verdict.source = "issuer" -> 1
                  [] OTHER -> 0

\* merchantHints: what each merchant was categorised as by the most trusted, then newest row.
Hints(rs) ==
  LET teachers == {k \in DOMAIN rs : rs[k].verdict.category # "other" /\ Trust(k, rs) > 0}
      Best(m) == CHOOSE k \in teachers :
                   /\ Merchant[k] = m
                   /\ \A j \in teachers : Merchant[j] = m =>
                        \/ Trust(j, rs) < Trust(k, rs)
                        \/ Trust(j, rs) = Trust(k, rs) /\ Age[k] <= Age[j]
  IN [m \in {Merchant[k] : k \in teachers} |-> rs[Best(m)].verdict.category]

\* The engine's inputs beyond the row itself, read once per batch.
Context(rs) == [rules |-> rules, overrides |-> overrides, hints |-> Hints(rs)]

LongestRule(k, rs) == CHOOSE p \in DOMAIN rs :
  k \in Matches[p] /\ \A q \in DOMAIN rs : k \in Matches[q] => Length[q] <= Length[p]

\* resolveCategory: the first tier that speaks.
Resolve(k, ctx) ==
  IF \E p \in DOMAIN ctx.rules : k \in Matches[p] THEN Verdict(ctx.rules[LongestRule(k, ctx.rules)], "rule")
  ELSE IF Sector[k] \in DOMAIN ctx.overrides THEN Verdict(ctx.overrides[Sector[k]], "issuer")
  ELSE IF Sector[k] # Nothing /\ SectorMap[Sector[k]] # Nothing THEN Verdict(SectorMap[Sector[k]], "issuer")
  ELSE IF Words[k] # Nothing THEN Verdict(Words[k], "auto")
  ELSE IF Merchant[k] \in DOMAIN ctx.hints THEN Verdict(ctx.hints[Merchant[k]], "auto")
  ELSE IF Credit[k] THEN Verdict("income", "income")
  ELSE Verdict("other", "auto")

\* setResolvedCategories over a batch, every row judged in one context.
Resolved(rs, S, ctx) ==
  [k \in DOMAIN rs |-> IF k \in S THEN [rs[k] EXCEPT !.verdict = Resolve(k, ctx)] ELSE rs[k]]

\* getUncategorizedSinceMonth: pending rows are not in it.
Uncategorized(rs) == {k \in DOMAIN rs : rs[k].verdict = NoVerdict /\ rs[k].status = "completed"}

----------------------------------------------------------------------------
(* Start and restart.                                                       *)

\* A profile's first start on this version: empty, or one connection and the rows an
\* earlier version stored, which knew no categories.
Init ==
  /\ \E c \in Connections, S \in SUBSET Keys :
       /\ S \subseteq Feed[c]
       /\ rows = [k \in S |-> [status |-> "completed", connection |-> c, verdict |-> NoVerdict]]
       /\ connections = IF S = {} THEN {} ELSE {c}
  /\ added = connections
  /\ rules = << >> /\ overrides = << >>
  /\ stamped = FALSE
  /\ sync = Boot
  /\ fed = [c \in Connections |-> << >>]

\* backfillCategories, in two writes: the verdicts, then the stamp; the routes come after.
Backfill ==
  /\ sync = Boot /\ ~stamped
  /\ LET machine == {k \in Stored : rows[k].verdict.source \in Machine}
     IN rows' = Resolved(rows, Uncategorized(rows) \union machine, Context(rows))
  /\ stamped' = TRUE
  /\ UNCHANGED <<connections, added, rules, overrides, sync, fed>>

Serve ==
  /\ sync = Boot /\ stamped
  /\ sync' = Nothing
  /\ UNCHANGED <<rows, connections, added, rules, overrides, stamped, fed>>

Crash ==
  /\ sync # Boot
  /\ sync' = Boot
  /\ UNCHANGED <<rows, connections, added, rules, overrides, stamped, fed>>

\* The gate lets a write through: the routes are up and no sync holds the slot.
Idle == sync = Nothing

----------------------------------------------------------------------------
(* Connections and their sync.                                              *)

AddConnection(c) ==
  /\ Idle /\ c \notin added
  /\ connections' = connections \union {c} /\ added' = added \union {c}
  /\ UNCHANGED <<rows, rules, overrides, stamped, sync, fed>>

\* deleteConnection: the connection and all its transactions.
DeleteConnection(c) ==
  /\ Idle /\ c \in connections
  /\ connections' = connections \ {c}
  /\ rows' = Without(rows, {k \in Stored : rows[k].connection = c})
  /\ fed' = [fed EXCEPT ![c] = << >>]
  /\ UNCHANGED <<added, rules, overrides, stamped, sync>>

\* POST /sync: rules and context are read once, before the first scrape.
SyncStart ==
  /\ Idle /\ connections # {}
  /\ sync' = [queue |-> connections, context |-> Context(rows)]
  /\ UNCHANGED <<rows, connections, added, rules, overrides, stamped, fed>>

Pending(c, rs) == {k \in DOMAIN rs : rs[k].connection = c /\ rs[k].status = "pending"}

\* insertTxnsForSync: the connection's pending rows go, then INSERT OR IGNORE.
Delivered(c, feed) ==
  LET kept == Without(rows, Pending(c, rows))
      new == DOMAIN feed \ DOMAIN kept
  IN [k \in DOMAIN kept \union new |->
        IF k \in new THEN [status |-> feed[k], connection |-> c, verdict |-> Resolve(k, sync.context)]
        ELSE kept[k]]

Syncing == sync \notin {Boot, Nothing}

SyncOne(c) ==
  /\ Syncing /\ c \in sync.queue
  /\ \E feed \in Partial(Feed[c], Statuses) :
       /\ rows' = Delivered(c, feed)
       /\ fed' = [fed EXCEPT ![c] = feed]
  /\ sync' = [sync EXCEPT !.queue = @ \ {c}]
  /\ UNCHANGED <<connections, added, rules, overrides, stamped>>

SyncFails(c) ==
  /\ Syncing /\ c \in sync.queue
  /\ sync' = [sync EXCEPT !.queue = @ \ {c}]
  /\ UNCHANGED <<rows, connections, added, rules, overrides, stamped, fed>>

SyncEnd ==
  /\ Syncing /\ sync.queue = {}
  /\ sync' = Nothing
  /\ UNCHANGED <<rows, connections, added, rules, overrides, stamped, fed>>

----------------------------------------------------------------------------
(* Verdicts, rules, sector mappings and their undos.                        *)

\* PUT /txns/:key/category without a rule, or with one that is refused: the verdict is
\* written before the pattern is looked at.
Categorize(k, c) ==
  /\ Idle /\ k \in Stored
  /\ rows' = Judge(rows, {k}, Verdict(c, "user"))
  /\ UNCHANGED <<connections, added, rules, overrides, stamped, sync, fed>>

\* Faulty variant: whatever the row's verdict is.
GreedyApplied(rs, p, c) == Judge(rs, {k \in DOMAIN rs : k \in Matches[p]}, Verdict(c, "rule"))

\* applyRuleToExisting: every matching row the user has not judged himself.
Applied(rs, p, c) ==
  Judge(rs, {k \in DOMAIN rs : k \in Matches[p] /\ rs[k].verdict.source # "user"}, Verdict(c, "rule"))

CategorizeWithRule(k, c, p) ==
  /\ Idle /\ k \in Stored /\ p \notin DOMAIN rules
  /\ rules' = With(rules, p, c)
  /\ rows' = Applied(Judge(rows, {k}, Verdict(c, "user")), p, c)
  /\ UNCHANGED <<connections, added, overrides, stamped, sync, fed>>

\* DELETE /txns/:key/category: clearTxnCategory, then the engine, on a completed row.
Unjudge(k) ==
  /\ Idle /\ k \in Stored
  /\ LET cleared == Judge(rows, {k}, NoVerdict)
     IN rows' = Resolved(cleared, {k} \intersect Uncategorized(cleared), Context(cleared))
  /\ UNCHANGED <<connections, added, rules, overrides, stamped, sync, fed>>

\* DELETE /rules/:id from the settings: what it categorised stays.
DropRule(p) ==
  /\ Idle /\ p \in DOMAIN rules
  /\ rules' = Without(rules, {p})
  /\ UNCHANGED <<rows, connections, added, overrides, stamped, sync, fed>>

\* revertRuleApplications: the matching rows that carry the rule's own stamp.
Reverted(rs, p, c) ==
  Judge(rs, {k \in DOMAIN rs : k \in Matches[p] /\ rs[k].verdict = Verdict(c, "rule")}, NoVerdict)

\* DELETE /rules/:id?revert=1: the rule goes, its rows are cleared and every
\* uncategorised completed row is judged again.
RevertRule(p) ==
  /\ Idle /\ p \in DOMAIN rules
  /\ rules' = Without(rules, {p})
  /\ LET cleared == Reverted(rows, p, rules[p])
         ctx == [rules |-> rules', overrides |-> overrides, hints |-> Hints(cleared)]
     IN rows' = Resolved(cleared, Uncategorized(cleared), ctx)
  /\ UNCHANGED <<connections, added, overrides, stamped, sync, fed>>

\* Faulty variant: not behind the gate of the writes.
UngatedMapSector(s, c) ==
  /\ sync # Boot
  /\ overrides' = With(overrides, s, c)
  /\ rows' = Judge(rows, {k \in Stored : Sector[k] = s /\ rows[k].verdict.source \in Machine \union {"issuer"}},
                   Verdict(c, "issuer"))
  /\ UNCHANGED <<connections, added, rules, stamped, sync, fed>>

\* POST /issuer-sectors/map: stored, and applied to the machine's rows of the sector.
MapSector(s, c) ==
  /\ Idle
  /\ overrides' = With(overrides, s, c)
  /\ rows' = Judge(rows, {k \in Stored : Sector[k] = s /\ rows[k].verdict.source \in Machine \union {"issuer"}},
                   Verdict(c, "issuer"))
  /\ UNCHANGED <<connections, added, rules, stamped, sync, fed>>

----------------------------------------------------------------------------
(* Cash rows and the wipes.                                                 *)

\* POST /txns: the category is optional, and nothing resolves a missing one.
AddCash(k, v) ==
  /\ Idle /\ k \notin Stored
  /\ v = NoVerdict \/ v.source = "user"
  /\ rows' = With(rows, k, [status |-> "completed", connection |-> Cash, verdict |-> v])
  /\ UNCHANGED <<connections, added, rules, overrides, stamped, sync, fed>>

\* DELETE /txns/:key: only rows of company 'manual'.
DeleteCash(k) ==
  /\ Idle /\ k \in Stored /\ rows[k].connection = Cash
  /\ rows' = Without(rows, {k})
  /\ UNCHANGED <<connections, added, rules, overrides, stamped, sync, fed>>

\* clearScrapedDataInner.
NoRows == << >>

\* DELETE /data: the transactions; rules, mappings and connections survive.
WipeData ==
  /\ Idle
  /\ rows' = NoRows
  /\ fed' = [c \in Connections |-> << >>]
  /\ UNCHANGED <<connections, added, rules, overrides, stamped, sync>>

\* DELETE /data/full: the verdict and rule layer too (clearDataAndVerdicts).
WipeEverything ==
  /\ Idle
  /\ rows' = NoRows /\ rules' = << >> /\ overrides' = << >>
  /\ fed' = [c \in Connections |-> << >>]
  /\ UNCHANGED <<connections, added, stamped, sync>>

Start == Backfill \/ Serve \/ Crash
Fetch == \/ SyncStart \/ SyncEnd
         \/ \E c \in Connections : AddConnection(c) \/ DeleteConnection(c) \/ SyncOne(c) \/ SyncFails(c)
Judging == \/ \E k \in AllKeys, c \in Categories : Categorize(k, c)
           \/ \E k \in AllKeys, c \in Categories, p \in Patterns : CategorizeWithRule(k, c, p)
           \/ \E k \in AllKeys : Unjudge(k)
           \/ \E p \in Patterns : DropRule(p) \/ RevertRule(p)
           \/ \E s \in Sectors, c \in Categories : MapSector(s, c)
ByHand == \/ \E k \in CashKeys, v \in Verdicts : AddCash(k, v)
          \/ \E k \in CashKeys : DeleteCash(k)
          \/ WipeData \/ WipeEverything

Next == Start \/ Fetch \/ Judging \/ ByHand

Spec == Init /\ [][Next]_vars

----------------------------------------------------------------------------
(* Properties.                                                              *)

Rows(rs) == DOMAIN rs \subseteq AllKeys /\ \A k \in DOMAIN rs : rs[k] \in Row
Choices(f, S) == DOMAIN f \subseteq S /\ \A x \in DOMAIN f : f[x] \in Categories

\* Every variable stays in its domain.
TypeOK ==
  /\ Rows(rows)
  /\ connections \subseteq added /\ added \subseteq Connections
  /\ Choices(rules, Patterns) /\ Choices(overrides, Sectors)
  /\ stamped \in BOOLEAN
  /\ DOMAIN fed = Connections /\ \A c \in Connections : DOMAIN fed[c] \subseteq Keys /\ Range(fed[c]) \subseteq Statuses

\* Once the boot's backfill is stamped, every completed row a bank delivered has a
\* category, through every sync, undo, mapping and restart (routes.ts:555, 1051, 1086).
ScrapedRowsAreCategorized ==
  stamped => \A k \in Stored :
    rows[k].status = "completed" /\ rows[k].connection # Cash => rows[k].verdict # NoVerdict

\* The user's verdict on a completed row changes only by his own act on that row:
\* no sync, rule, undo, mapping or backfill touches it while the row exists (db.ts:1038).
UserVerdictStands ==
  [][\A k \in Stored \intersect DOMAIN rows' :
       /\ rows[k].status = "completed" /\ rows[k].verdict.source = "user"
       /\ rows'[k] # rows[k]
       => \/ Unjudge(k)
          \/ \E c \in Categories :
               /\ rows'[k].verdict = Verdict(c, "user")
               /\ Categorize(k, c) \/ \E p \in Patterns : CategorizeWithRule(k, c, p)]_vars

\* A standing order reaches every row, stored before it or synced after it: under a
\* live rule a completed scraped row bears a rule's stamp or the user's; in a mapped sector the
\* machine's rows bear the mapped category (routes.ts:988, 3267).
StandingOrdersReachEveryRow ==
  stamped => \A k \in Stored \ CashKeys :
    /\ rows[k].status = "completed" /\ (\E p \in DOMAIN rules : k \in Matches[p])
         => rows[k].verdict.source \in {"rule", "user"}
    /\ Sector[k] \in DOMAIN overrides /\ rows[k].verdict.source \in Machine \union {"issuer"}
         => rows[k].verdict.category = overrides[Sector[k]]

\* A connection's pending rows are the ones its last scrape called pending: nothing the
\* bank has settled or withdrawn lingers as pending, outside every sum (db.ts:777).
PendingIsCurrent ==
  \A c \in Connections : \A k \in Pending(c, rows) :
    k \in DOMAIN fed[c] /\ fed[c][k] = "pending"

\* What StoreIsSound of the runs says: outside a sync every row has the category its rules
\* give it, and no pending row lingers.
StoreIsSound ==
  TypeOK /\ ScrapedRowsAreCategorized /\ StandingOrdersReachEveryRow /\ PendingIsCurrent

\* The parts of the inductive invariant: what a boot that is not stamped finds is what an
\* earlier version left, and the gate keeps what a sync has read once for all its rows current.
UnstampedIsUntouched ==
  ~stamped => /\ sync = Boot
              /\ \A k \in Stored : rows[k].status = "completed" /\ rows[k].verdict = NoVerdict
SyncIsCurrent ==
  Syncing => /\ DOMAIN sync = {"queue", "context"}
             /\ sync.context.rules = rules /\ sync.context.overrides = overrides
             /\ Choices(sync.context.hints, DOMAIN sync.context.hints)
Inv == StoreIsSound /\ UnstampedIsUntouched /\ SyncIsCurrent

\* A row typed by hand leaves only when the user deletes it, or everything: the wipe of
\* routes.ts:3041 is of scraped data only, and one sync brings everything back.
CashSurvivesTheScrapedWipe ==
  [][\A k \in Stored \ DOMAIN rows' :
       rows[k].connection = Cash => DeleteCash(k) \/ WipeEverything]_vars

\* "Manual user categorization - never overwritten automatically" (db.ts:1038): as long as
\* its row is delivered, whatever its status, a sync keeps the user's verdict.
VerdictSurvivesSync ==
  [][\A c \in Connections : SyncOne(c) =>
       \A k \in Stored \intersect DOMAIN rows' :
         rows[k].verdict.source = "user" => rows'[k].verdict = rows[k].verdict]_vars
============================================================================
