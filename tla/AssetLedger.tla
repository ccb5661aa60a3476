----------------------------- MODULE AssetLedger -----------------------------
(****************************************************************************)
(* The holdings of one profile, their value timeline and the exchange-rate  *)
(* cache: POST, PUT and DELETE /assets, the pasted account state, and what  *)
(* GET /networth makes of them (server/src/routes.ts, db.ts, networth.ts,   *)
(* account-state.ts).                                                       *)
(*                                                                          *)
(* A handler that needs no rate, or a fresh one, is one action. One that    *)
(* waits for the network is two: other handlers run in between, and what it *)
(* read before may be stale when it writes. A reader changes only the cache. *)
(*                                                                          *)
(* Amounts are whole numbers and rates too; rounding is left out. A name is *)
(* the line it mentions, if any.                                            *)
(****************************************************************************)
EXTENDS Integers, FiniteSets, FiniteSetsExt, Sequences, SequencesExt, Functions

CONSTANTS
  Ids,        \* ids of assets in one run, a segment of the naturals
  Foreign,    \* currencies other than the shekel
  Quotes,     \* Quotes[c]: what the providers may quote for c
  NewAssets,  \* the assets the user may enter
  Patches,    \* the changes he may make: a field he leaves alone is Nothing
  Pastes,     \* the summaries he may paste: line -> amount
  Handlers,   \* writes in flight at once
  MaxDay, MaxPoints,
  Nothing

ILS == "ILS"
Currencies == Foreign \union {ILS}
Lines == {"deposit", "loan"}
Types == Lines \union {"other"}
Kinds == {"asset", "liability"}
Asset == [type : Types, kind : Kinds, amount : Nat, currency : Currencies, says : Lines \union {Nothing}]

LedgerAssumption ==
  /\ Ids = 1 .. Cardinality(Ids) /\ ILS \notin Foreign
  /\ Quotes \in [Foreign -> SUBSET (Nat \ {0})] /\ \A c \in Foreign : Quotes[c] # {}
  /\ NewAssets \subseteq Asset
  /\ Patches \subseteq [type : Types \union {Nothing}, amount : Nat \union {Nothing},
                        currency : Currencies \union {Nothing}]
  /\ \A p \in Pastes : DOMAIN p \subseteq Lines /\ Range(p) \subseteq Nat
  /\ MaxDay \in Nat /\ MaxPoints \in Nat
  /\ Nothing \notin Types \union Nat \union Currencies

VARIABLES
  assets,    \* the table: a function from the live ids
  timeline,  \* asset_snapshots of each live id, oldest first
  nextId,
  rates,     \* exchange_rates: currency -> rate and whether it is under 12 hours old
  writes,    \* writes[h]: the write that waits for its rate, or Nothing
  preview,   \* the last paste as the user reviewed it: line -> amount, action, id
  day,
  bankDay    \* the day of the latest bank snapshot, the last one of the history; 0 for none

vars == <<assets, timeline, nextId, rates, writes, preview, day, bankDay>>

Init ==
  /\ assets = << >> /\ timeline = << >> /\ nextId = 1
  /\ rates = << >>
  /\ writes = [h \in Handlers |-> Nothing]
  /\ preview = << >>
  /\ day = 1 /\ bankDay = 0

----------------------------------------------------------------------------
(* The tables.                                                              *)

KindForType(type, fallback) ==
  IF type = "loan" THEN "liability" ELSE IF type = "other" THEN fallback ELSE "asset"

Point(a, rate) ==
  [amount |-> a.amount, currency |-> a.currency, day |-> day,
   rate |-> IF a.currency = ILS THEN 1 ELSE rate]

With(f, k, v) == [x \in DOMAIN f \union {k} |-> IF x = k THEN v ELSE f[x]]

AddAsset(a, rate) ==
  /\ assets' = With(assets, nextId, [a EXCEPT !.kind = KindForType(a.type, a.kind)])
  /\ timeline' = With(timeline, nextId, <<Point(a, rate)>>)
  /\ nextId' = nextId + 1

Or(new, old) == IF new = Nothing THEN old ELSE new

\* Patch-shaped; a type given re-derives the kind.
Patched(a, p) ==
  [type |-> Or(p.type, a.type),
   kind |-> IF p.type = Nothing THEN a.kind ELSE KindForType(p.type, a.kind),
   amount |-> Or(p.amount, a.amount), currency |-> Or(p.currency, a.currency), says |-> a.says]

\* Whether a change earns a point of the timeline.
Moved(a, b) == a.amount # b.amount \/ a.currency # b.currency

\* updateAsset: nothing when the row is gone.
UpdateAsset(id, p, rate) ==
  /\ UNCHANGED nextId
  /\ IF id \notin DOMAIN assets THEN UNCHANGED <<assets, timeline>>
     ELSE LET after == Patched(assets[id], p) IN
          /\ assets' = [assets EXCEPT ![id] = after]
          /\ timeline' = [timeline EXCEPT ![id] =
                            IF Moved(assets[id], after) THEN Append(@, Point(after, rate)) ELSE @]

Room(id) == id \in DOMAIN timeline => Len(timeline[id]) < MaxPoints

----------------------------------------------------------------------------
(* Rates.                                                                   *)

Fresh(c) == c = ILS \/ (c \in DOMAIN rates /\ rates[c].fresh)

RateOf(c) == IF c = ILS THEN 1 ELSE IF c \in DOMAIN rates THEN rates[c].rate ELSE 0

\* ensureRates after its wait: a fetch brings every currency, or fails and leaves the cache.
Fetch(rs) ==
  \/ rs = rates
  \/ \E q \in [Foreign -> UNION Range(Quotes)] :
       /\ \A c \in Foreign : q[c] \in Quotes[c]
       /\ rs = [c \in Foreign |-> [rate |-> q[c], fresh |-> TRUE]]

----------------------------------------------------------------------------
(* POST and PUT /assets, DELETE /assets/:id.                                *)

Perform(w, rate) ==
  IF w.id = Nothing THEN AddAsset(w.asset, rate) ELSE UpdateAsset(w.id, w.patch, rate)

\* The currency whose rate the write will freeze, read before the wait.
Target(w) ==
  IF w.id = Nothing THEN w.asset.currency
  ELSE IF w.patch.currency # Nothing THEN w.patch.currency
  ELSE IF w.id \in DOMAIN assets THEN assets[w.id].currency ELSE ILS

NewWrites == [id : {Nothing}, asset : NewAssets] \union [id : DOMAIN assets, patch : Patches]

\* A write that finds its rate fresh never waits.
Write(w) ==
  /\ Fresh(Target(w))
  /\ IF w.id = Nothing THEN nextId \in Ids ELSE Room(w.id)
  /\ Perform(w, RateOf(Target(w)))
  /\ UNCHANGED <<rates, writes, preview, day, bankDay>>

WriteWaits(h, w) ==
  /\ writes[h] = Nothing /\ ~Fresh(Target(w))
  /\ writes' = [writes EXCEPT ![h] = [of |-> w, target |-> Target(w)]]
  /\ UNCHANGED <<assets, timeline, nextId, rates, preview, day, bankDay>>

\* With no rate at all it answers 409.
WriteResumes(h) ==
  /\ writes[h] # Nothing
  /\ Fetch(rates')
  /\ LET w == writes[h].of
     IN IF writes[h].target \in DOMAIN rates'
        THEN /\ IF w.id = Nothing THEN nextId \in Ids ELSE Room(w.id)
             /\ Perform(w, rates'[writes[h].target].rate)
        ELSE UNCHANGED <<assets, timeline, nextId>>
  /\ writes' = [writes EXCEPT ![h] = Nothing]
  /\ UNCHANGED <<preview, day, bankDay>>

Delete(id) ==
  /\ id \in DOMAIN assets
  /\ assets' = Restrict(assets, DOMAIN assets \ {id})
  /\ timeline' = Restrict(timeline, DOMAIN timeline \ {id})
  /\ UNCHANGED <<nextId, rates, writes, preview, day, bankDay>>

----------------------------------------------------------------------------
(* The pasted account state.                                                *)

Shekels == {id \in DOMAIN assets : assets[id].currency = ILS}

MayBeSameFact(a, line, amount) == (amount > 0 /\ a.amount = amount) \/ a.says = line

\* resolveLine: what a line means against the holdings there are now.
Resolve(line, amount) ==
  LET matches == {id \in Shekels : assets[id].type = line}
      candidate == \E id \in Shekels : assets[id].type = "other" /\ MayBeSameFact(assets[id], line, amount)
      Means(action, id) == [amount |-> amount, action |-> action, id |-> id]
  IN CASE Cardinality(matches) > 1 -> Means("ambiguous", Nothing)
       [] matches = {} /\ candidate -> Means("ambiguous", Nothing)
       [] matches = {} /\ ~candidate -> Means("create", Nothing)
       [] OTHER -> LET id == CHOOSE i \in matches : TRUE IN
                   Means(IF assets[id].amount = amount THEN "unchanged" ELSE "update", id)

\* POST /account-state/preview.
Preview(paste) ==
  /\ preview' = [line \in DOMAIN paste |-> Resolve(line, paste[line])]
  /\ UNCHANGED <<assets, timeline, nextId, rates, writes, day, bankDay>>

\* Faulty variant: what the user reviewed is taken at its word.
TrustingMayApply(rows) == \A line \in DOMAIN rows : rows[line].action # "ambiguous"

\* Every row must still mean what the user reviewed, or nothing is written.
MayApply(rows) ==
  \A line \in DOMAIN rows : rows[line].action # "ambiguous" /\ Resolve(line, rows[line].amount) = rows[line]

Created(line, amount) ==
  [type |-> line, kind |-> KindForType(line, "asset"), amount |-> amount, currency |-> ILS, says |-> line]

\* POST /account-state/apply of the rows of some lines, in one transaction.
Apply(S) ==
  LET rows == Restrict(preview, S)
      Ls(action) == {line \in S : rows[line].action = action}
      creates == SetToSeq(Ls("create"))
      new == nextId .. nextId + Len(creates) - 1
      NewRow(id) == Created(creates[id - nextId + 1], rows[creates[id - nextId + 1]].amount)
      LineOf(id) == CHOOSE line \in Ls("update") : rows[line].id = id
      touched == {rows[line].id : line \in Ls("update")} \intersect DOMAIN assets
  IN /\ S # {} /\ S \subseteq DOMAIN preview /\ MayApply(rows)
     /\ new \subseteq Ids /\ \A id \in touched : Room(id)
     /\ assets' = [id \in DOMAIN assets \union new |->
                     IF id \in new THEN NewRow(id)
                     ELSE IF id \in touched THEN [assets[id] EXCEPT !.amount = rows[LineOf(id)].amount]
                     ELSE assets[id]]
     /\ timeline' = [id \in DOMAIN assets' |->
                       IF id \in new THEN <<Point(assets'[id], 1)>>
                       ELSE IF id \in touched /\ Moved(assets[id], assets'[id])
                            THEN Append(timeline[id], Point(assets'[id], 1)) ELSE timeline[id]]
     /\ nextId' = nextId + Len(creates)
     /\ UNCHANGED <<rates, writes, preview, day, bankDay>>

----------------------------------------------------------------------------
(* GET /networth.                                                           *)

Sign(a) == IF a.kind = "liability" THEN -1 ELSE 1

NetWorth ==
  SumFunction([id \in DOMAIN assets |->
                 Sign(assets[id]) * assets[id].amount * RateOf(assets[id].currency)])

\* Faulty variant: every point keeps the rate it was written with.
FrozenSigned(id, i) == Sign(assets[id]) * timeline[id][i].amount * timeline[id][i].rate

\* A point of the history: the last of a holding at today's rate, the others at their own.
Signed(id, i) ==
  Sign(assets[id]) * timeline[id][i].amount *
    (IF i = Len(timeline[id]) /\ assets[id].currency \in DOMAIN rates
     THEN RateOf(assets[id].currency) ELSE timeline[id][i].rate)

\* stepTotals on day d: the last point of that day or before; before the first, the first.
Reached(id, d) == Max({1} \union {i \in DOMAIN timeline[id] : timeline[id][i].day <= d})

\* The history's last point: the bank's last day.
LastPoint == SumFunction([id \in DOMAIN timeline |-> Signed(id, Reached(id, bankDay))])

\* ensureRates of GET /networth, or of any other reader: only the cache changes.
Refresh ==
  /\ \E id \in DOMAIN assets : ~Fresh(assets[id].currency)
  /\ Fetch(rates')
  /\ UNCHANGED <<assets, timeline, nextId, writes, preview, day, bankDay>>

----------------------------------------------------------------------------

\* A sync stores the bank's balance of the day.
BankSync ==
  /\ bankDay # day
  /\ bankDay' = day
  /\ UNCHANGED <<assets, timeline, nextId, rates, writes, preview, day>>

\* The rates go stale overnight.
NextDay ==
  /\ day < MaxDay
  /\ day' = day + 1
  /\ rates' = [c \in DOMAIN rates |-> [rates[c] EXCEPT !.fresh = FALSE]]
  /\ UNCHANGED <<assets, timeline, nextId, writes, preview, bankDay>>

Next ==
  \/ \E w \in NewWrites : Write(w) \/ \E h \in Handlers : WriteWaits(h, w)
  \/ \E h \in Handlers : WriteResumes(h)
  \/ \E id \in Ids : Delete(id)
  \/ \E paste \in Pastes : Preview(paste)
  \/ \E S \in SUBSET Lines : Apply(S)
  \/ Refresh \/ BankSync \/ NextDay

Spec == Init /\ [][Next]_vars

----------------------------------------------------------------------------
(* Properties.                                                              *)

\* The timeline tells a holding's story and nothing else: its last point is what the
\* holding is, no two neighbours are the same, and it goes with the holding (db.ts:1125).
TimelineIsExact ==
  /\ DOMAIN timeline = DOMAIN assets
  /\ \A id \in DOMAIN assets :
       LET points == timeline[id] IN
       /\ Last(points).amount = assets[id].amount /\ Last(points).currency = assets[id].currency
       /\ \A i \in 1 .. Len(points) - 1 :
            /\ points[i].day <= points[i + 1].day
            /\ points[i].amount # points[i + 1].amount \/ points[i].currency # points[i + 1].currency

\* However old the review, applying a line leaves exactly one shekel holding of it, with the
\* amount pasted, and never beside an untyped one that may be the same fact (routes.ts:2873).
PasteIsTheFact ==
  [][\A S \in SUBSET DOMAIN preview : Apply(S) =>
       \A line \in S :
         LET same == {id \in DOMAIN assets' : assets'[id].currency = ILS /\ assets'[id].type = line}
         IN /\ Cardinality(same) = 1
            /\ \A id \in same : assets'[id].amount = preview[line].amount
            /\ same \subseteq DOMAIN assets
                 \/ \A id \in Shekels : assets[id].type = "other" => assets[id].says # line]_vars

\* As long as no holding changed after the last bank day, the history's last point is the
\* net worth, whatever the rates have done since (routes.ts:2472).
PresentAgrees ==
  (bankDay > 0 /\ \A id \in DOMAIN timeline : Last(timeline[id]).day <= bankDay) => LastPoint = NetWorth

\* "The present must agree with netWorth - one number, not two" (routes.ts:2472).
OneNumber == bankDay > 0 => LastPoint = NetWorth

\* The rate a point freezes is the shekel rate of its own currency (db.ts:1364): one the
\* providers quoted for it.
PointsHoldTheirOwnRate ==
  \A id \in DOMAIN timeline : \A i \in DOMAIN timeline[id] :
    LET p == timeline[id][i] IN p.rate \in IF p.currency = ILS THEN {1} ELSE Quotes[p.currency]
============================================================================
