# Misgeret: a formal model of its core

Misgeret is a personal-finance application that runs on one computer: an
Electron desktop process starts a Node utility process, which serves an HTTP API
over one SQLite database per profile and scrapes banks with a headless browser.
This directory models the parts of it that are concurrent, that must survive a
crash, that give up and retry, or that carry a decision over a long sequence of
calls: who may work on which database and when, what is on disk after any of it
was cut short, and what the numbers rest on.

Paths are relative to `src/`; `server/src/` is left out of file names.

## 1. The system

| Component | State it keeps | Operations | Hard behaviour | What makes it correct |
|---|---|---|---|---|
| Operation coordinator (`operation-coordinator.ts`), one per profile and one global | the active lease, the shutdown flag, waiting promises, listeners | tryBegin, release, beginShutdown, waitForIdle, subscribe | leases released late or twice, drains that overlap | one operation at a time; a drained coordinator stays drained; nobody waits for ever |
| Coordinator hub (`workspaces.ts`) | members, the last aggregate, the desktop's subscription | add, remove, recompute | members come and go while others work | the desktop quits and updates only when nothing works |
| Workspace pool (`workspaces.ts`) and per-profile dispatch (`app.ts`) | open databases, opens in flight, refcounts | acquire, release, evict, closeEntry, beginShutdown, closeAll | opens that take seconds, disconnects, the cap, deletion and shutdown between awaits | one handle per file, none closed in use, none left open |
| Opening and upgrade of a profile (`workspaces.ts`, `db.ts`) | the file, its version and marker, the old credential file, copies | openProfileDatabase, constructor, migrateLegacy, rebucketCardMonths | any step fails or is cut short, and the next request tries again | no credential, upgrade or copy is lost |
| Runtime (`runtime.ts`) | the HTTP server and the pool | start, close | shutdown while requests and opens are in flight | shutdown ends with every database closed |
| Sync (`routes.ts`), permits (`workspaces.ts`) | progress, two workers, a queue, a shared semaphore | POST /sync, acquire and release of a permit | workers fail alone, and outlive their request | no permit is lost, no profile is stuck syncing |
| Scraper (`scraper.ts`) | open browsers | launch, hand-over, timeout, picture, dispose | a timeout or the end of the runtime during a launch | no browser stays behind |
| Backup, restore, import, wipe (`routes.ts`) | the database and its backups | the five routes, and every write the gate lets in | writes between the awaits of a restore | what the user was told of is in the database or in a backup |
| Database file (`db.ts`) | live file, staged file, rollback files | restoreFrom, recoverInterruptedDatabase | a crash or a failure at each rename and copy | a restore happens entirely or not at all |
| Transactions (`routes.ts`, `db.ts`, `categories.ts`) | rows with their category and who gave it, rules, sector mappings | sync of a connection, verdicts, rules, mappings, their undos, cash rows, wipes, backfill | every order of machine and user writing one column | the user's word wins; no row is left without a category |
| Holdings and net worth (`routes.ts`, `db.ts`, `networth.ts`, `account-state.ts`, `currency.ts`) | assets, their timelines, exchange rates, a reviewed paste | POST, PUT, DELETE /assets, preview and apply of a paste, GET /networth | handlers that wait for a rate; a review that is stale when applied | timeline and table agree; what was confirmed is stored once |
| Cash-flow algorithms (`flow.ts`, `companies.ts`, `txns.ts`, `subscriptions.ts`, `expectation.ts`, `recurring.ts`, `patterns.ts`, `balance-history.ts`, `forecast.ts`, `year.ts`, `overview.ts`, `frame.ts`, `target.ts`, `advice.ts`, `goals.ts`) | none; marks, anchors, the declared frames, the savings target, verdicts on advice and goals in the database | the month of an income, what the sums leave out, vouched charges, what is committed, the balance in the bank, the plan of a month, the forecast, the statements of months and years, the proposals of a frame and of a target, the queue of advice and the progress of goals | rows arrive in any order and change what is said of earlier ones; each statement filters the rows on its own; months of 28 to 31 days | nothing counts twice, or never; all statements of a month agree; a finished month stands; what was declined stays away |
| Profile store (`profiles.ts`) and its routes (`profiles-api.ts`) | the list in memory, `profiles.json`, the directories | load, create, update, reorder, setActive, softDelete, migrateLegacyIntoProfile | a crash between a directory and the registry; a migration cut short repeatedly | list and disk agree whenever a server runs; nothing is stranded |
| Backup before an update (`profiles-api.ts`, `backup-policy.ts`, `desktop/src/main.ts`) | copies of each profile | createGlobalBackupApi, pruneAutomaticBackups, restartToUpdate | profiles are created, deleted and written during the loop; single copies fail | no update is installed over data without a copy |
| Desktop: runtime manager and lifecycle (`desktop/src/runtime-manager.ts`, `utility.ts`, `main.ts`) | the child process, expectedExit, restartAllowance, recoveryInProgress, runtimeSuspended, shutdownStarted | start, stop, retry, suspend, resume, shutdown | two processes that stop, crash and time out independently, several restarts at once | one runtime at a time; a quit waits for it and ends; no crash goes unnoticed |
| Desktop: migration and first run (`desktop/src/migration.ts`, `paths.ts`, `main.ts`) | files of an older installation, the marker, the wizard | copy, start, exit, import | a first start cut short, in any step, several times | the older data comes in once and whole; the exit spares the user's data |
| Desktop: quiet presence (`desktop/src/presence.ts`) | its ticking flag; the server's record of shown alerts | sync, read, show, report | any call fails, the profile is switched in between | an alert is shown some time, and not again once recorded |
| Client: session (`client/src/App.tsx`, `api.ts`, `Profiles.tsx`) | the profile shown, locks, the result of the last sync | boot, switch, create, delete, sync, refresh, retry | answers in any order, of a profile that was left | one profile's failures are not shown to another; nothing stays locked |
| HTTP gate (`app.ts`), credentials, window, preferences, logging, the views of the client, scripts | little or none | | | not modelled |

How they interact: a request passes the security gate of `app.ts`, then the
dispatch takes a pool lease (opening the database when needed) and calls the
profile's router. Routes that mutate or snapshot a database as a whole take the
profile's coordinator lease; other writing routes only ask its state. Each
coordinator tells the hub, the hub tells the desktop. Profile routes work under
the global coordinator. The shutdown shuts all gates, then closes the HTTP
server, waits for the coordinators and closes the databases. The desktop's
presence and the client are clients of the same API.

`PROJECT.json` lists the components with their status, every hazard found in
the code with its line and the properties that cover it (or why none does), and
the source lines each definition stands for.

## 2. Modules

Modules named `MC*` give the constants values; modules named `*_proofs` hold the
theorems. Operators marked `Faulty variant` are not part of a specification:
each is the definition after it with a plausible bug, and shows that a property
would notice.

**How time passes.** The server is one thread. Node runs a callback and every
promise it settles to completion before it delivers another event, so what lies
between two real waits (network, timer, asynchronous SQLite backup, another
process) is one action of the model. Where the end of the process matters
(`DatabaseRestore`, `ProfileStore`, `OpenProfile`, `FirstRun`) every transaction
and every change to the file system is an action, and a crash may come between
any two. Days and months pass by actions of their own where dates matter.

Concurrency and life cycle:

- **AdmissionGate**: the abstract promise of a coordinator: one exclusive slot
  behind a gate that shuts for good.
- **OperationCoordinator**: the class, method by method. A lease is the identity
  of the code's token; the closure's `released` flag and the token check are
  both there, so a stale release is a step that changes (almost) nothing.
- **CoordinatorHub**: the members in insertion order, `recompute`, and what the
  desktop hears. Each callback is an action, since the desktop hears each.
- **WorkspacePool**: `entries` and `opening` are the pool's two maps, a handle is
  one `FinanceDb` with its coordinator; requests go from waiting to running to
  done, and `conn` says whether the client is still there. The continuation of
  an open (check of `closed` and the registry, entry, cap, leases of everybody
  who waited) is one action, `OpenSucceeds` or `OpenFails`. Which idle entry the
  cap evicts is left open instead of least-recently-used, so what holds, holds
  for any order. Profile creation and deletion are the registry's part only.
- **ScrapeSync**: POST /sync in every profile, its workers, the permits they
  share. `Quiet` says that no worker has code left to run: events wait for it.
  The queue of connections is taken in any order. `StoreFails` says whether
  storing a failure can fail as well, as on a full disk.
- **Browsers**: the scrape with its three endings (result, failure, timeout), the
  library that launches and hands over a browser, and `dispose`. `browsers` is
  the scraper's list; a browser is in it only after it was handed over.
- **RuntimeManager**: the desktop's main process and the runtime it forks. The
  runtime takes its steps beside main and sends messages, `exit` being the last;
  main handles one event at a time (`Quiet`). A task is one activation of
  retryRuntime, or the boot; its `step` is where it awaits. Loading the runtime's
  page, its handshake and its asset manifest is one await that may fail. A kill
  ends the process at once.
- **Presence**: a tick is one activation of the timer's callback, with the
  profile its answers came from. The calls name no profile, so the server
  answers each for the profile that is active then.
- **ClientSession**: each asynchronous function of the root component is a task;
  a request may fail before it is handled, and answers come in any order.

What is on disk:

- **AtomicReplace** and **DatabaseRestore**: what a restore promises, and the
  renames, copies and recovery that are to keep the promise. A file is a healthy
  content, missing, or torn (a copy cut short). `reply = "lost"` is
  DatabaseRecoveryError: the connection stays closed until a restart.
- **OpenProfile**: a database is its version, its marker, its rows (of a bank or
  of a card, with or without a connection, by the month of the charge or of the
  purchase) and its connections. Three earlier states of the program are what a
  profile, or a file the user restores, may come from.
- **ProfileStore**: the registry file, the directories and the list in memory.
  A directory is the set of kinds of files in it; the four kinds are moved in
  the order the code moves them. `LoseRegistry` is the loss of the registry file
  while nothing runs. A damaged registry is rebuilt as a lost one is, except
  that it is rewritten even when the list is empty.
- **FirstRun**: the copy of an older installation file by file, the marker, and
  the wizard. Between two starts the older installation may be used and change.
- **UpdateBackup**: the loop over the profiles before an update, with the copies
  of other origins beside it and the retention that prunes both.
- **DatabaseOperations**: the operations of one profile with the writes the gate
  lets in between their awaits. A database is the set of the user's writes in
  it. `Assets` are the writes that may await an exchange rate.

What the numbers rest on:

- **TransactionStore**: a row is its connection, status and verdict (category and
  source). A description is what the tiers of `resolveCategory` ask of it. A
  sync is one action per connection; the gate refuses other writes meanwhile.
- **AssetLedger**: a handler that waits for a rate is two actions. The timeline
  of a holding freezes the rate of each point, as the table does.
- **FlowCalendar**: the month an income belongs to. Months keep their lengths,
  since the rule is about days before and after an anchor.
- **FlowExclusion**: `flagExcluded` after `dedupeAcrossConnections`. A fact is a
  real transaction; what is stored of it depends on the connections there were.
- **VouchedCharges**: the marks of one merchant's charges, the verdict derived
  from them, the anchored cost with its backfill, and the change of price.
- **Commitments**: what three screens take for committed: the patterns over all
  rows, the forecast and the plan over the analysis window, with marks, mutes and
  typed rows that come and go. A merchant is the set of months it charged in,
  steady (the detector sees its rhythm) or bursty (only the frequency path does);
  since all charges lie early in a month and the figures are read late in it, the
  ages the code compares in days are whole months.
- **BankBalance**: the snapshots of the balances, the sum and day made of them, the
  balance the forecast starts from, and the daily curve. A movement has the day it
  is dated and the tick at which the bank books it, and a day has several ticks,
  so a sync can come before a movement of its own day. `BalanceIsTrue` names when
  the sum is right: each account reports through one connection, and what a
  balance lacks is dated after the last of their days. The findings are what
  happens otherwise.
- **MonthPlan**: `buildExpectation` over a month whose bills come on their day,
  late or not at all, detected or not, vouched for or not.
- **CashForecast**: the movements the forecast expects: monthly streams detected
  in the rows, the debits of cards that are known in advance, pending rows. The
  bank posts a bill on its day, late or early, at once or as a pending row; a
  sync brings what the bank has.
- **MonthStatements**: what is said of a month by the summary and the categories,
  the year, the overview, the plan, the frame of the month and its review; the
  proposal of a frame and the suggestion of a savings target. Each statement is
  written with the filter its file has. The state is what they are computed
  from: the rows, which arrive late or pending, the streams the detector knows
  (`streams`) and those of them that still charge (`live`), the declared frames
  (`frame_history`, as the table: one entry per month, the last one wins) and the
  target. When a stream is found or ends is left open. Amounts are whole shekels
  and rates are thousandths; a year of the instance has 3 months.
- **AdviceQueue**: `buildAdvice`, `goalProgress` and the routes that keep verdicts
  and goals. An item is its key, tier, value and seed; four of the eleven rules
  are there, of which two build their key from prices and averages that move
  (`HikeKey`, `Creeps`), one seeds a goal measured by money (`Cushions`) and one
  looks for what is gone (`Dead`). Ranking, cap and verdict are those of all. The
  history variable `declined` says which prices were declined; the code has only
  the keys.

**One run, several parts.** Components that share no variable are explored in one
run: its `MC` module extends or instantiates them and a variable `part`, chosen
at the start, says which one moves while the others rest in one initial state.
Nothing is lost by that: no action of one reads a variable of another, so the
behaviours of the product add no state of a part that its own behaviours do not
reach, and each property names the variables of its own part. The parts are in
`MCOperationCoordinator` (coordinator, hub, scraper, notifications),
`MCProfileStore` (restore, profile store, first run, copies before an update),
`MCOpenProfile` (opening, statements, commitments, bank, advice, window of the
client) and `MCTransactionStore` (operations, transactions, holdings, calendar,
exclusion, charges, plan, forecast). A theorem about a property of such a run is
about the run's own specification, with the constants of each part left open.

Modelling of the environment: clients connect, disconnect and repeat at will;
browsers, exchange rates and SQLite answer late, fail, or do both; files fail to
be renamed or copied. The process may be killed, but the machine does not lose
power: a rename that returned has happened. A healthy file does not turn bad on
its own.

## 3. Runs

| Run | What it asks | Bounds, and why they are enough |
|---|---|---|
| `coordinator` | mutual exclusion, drain, current listeners, refinement of `AdmissionGate`, waiters released; the hub's aggregate is right through every join, leave and shutdown; no browser outlives `dispose`; a recorded alert stays quiet and a pending one is shown | 3 leases: one stale, one active, one refused; 2 promises that overlap; 3 members: one works, one leaves, one joins; 3 scrapes over 2 permits, so that one starts on the permit of a timeout; 2 profiles with 2 alerts each and 1 per tick, so that one must wait; 2 ticks that overlap |
| `pool` | no connected request and no operation loses its database; one handle per file; no ghost of a deleted profile; exact refcounts; the cap; nothing open after closeAll; waiting requests are answered and the shutdown completes | 3 profiles with a cap of 1, so that an open evicts; 2 requests, which can pin more than the cap; 3 handles, so that a profile is opened twice. The proofs cover every size |
| `pool_client_gone`, `pool_lease_leak` | findings 1 and 2 | 2 profiles, cap 1, 2 requests |
| `sync` | permits conserved and never idle, flag and lease agree, syncs end and workers get their permit | 2 profiles, 2 syncs of 3 connections (more than the 2 workers), 1 permit, so that all workers compete |
| `sync_orphan` | finding 3 | 1 profile, 2 permits |
| `disk` | a restore is atomic, the original is kept until the replacement is accepted, a database served is healthy; list and disk of the profiles agree and an answer is durable; the first start copies whole, once, and its exit spares the user's data; an update is installed over copied data only | 3 contents (original, replacement, and one of an earlier restore) and 3 rollback files; 3 ids and names (one deleted, one active, one being made), symmetric; an older installation that changes twice, once during a copy and once after; 2 profiles of which one copy is kept, so that each new copy prunes |
| `desktop` | one runtime at a time; a screen whose runtime is gone; an orderly quit that ends; recovery that ends | 2 processes: the second is used only if two ran at once; the boot and 2 overlapping retries, enough for every automatic restart to find a free one; 1 automatic restart, as in the code |
| `profile` | an opening loses neither credential, upgrade nor copy; in the window, failures are shown to the profile they belong to and no lock stays; all statements of a month agree, proposals keep what they promise, and a finished month is judged without what was declared or delivered for a later one; what is committed counts once and on every screen that has the marks for it; the balance in the bank holds every account and movement once; a declined price stays away, what was saved moves with verdicts only, and no goal is judged by a month before it or by the running one | 3 openings in a row, as many as copies are kept; 2 profiles, 2 tasks in flight: a sync and what overtakes it, or two switches; 3 finished months (the fewest that carry a proposal) in 4 variants, and 2 running ones, with a late row, a pending row, one frame, one target and a stream that begins and ends; a window of 2 months and a year of 3, so that each month has one of the year before; for the commitments a steady merchant of 6 months and a bursty one of 2, which is dense from its next month on, a window of 3 months over 8, 3 things said; for the balance a joint account behind 2 connections, another and a card, of which 3 are connected, and 5 ticks of 2 a day, so that one movement is booked after the sync of its day and one is dated a day earlier; for the advice 6 finished months (the fewest in which a category climbs) and 2 running ones in a window of 7, so that its start moves, a service that rose and rises again and one that rises once, a queue of 2 (one less than can be found), 2 verdicts or one verdict and a goal |
| `records` | no verdict is lost to a replacement of the database; rows have the category the standing orders give them and the user's word stands; timeline, table and paste agree; a salary counts in the month it funds; a purchase and its settlement do not both count; a dismissed change of price stays quiet; a bill is held back once; the forecast expects each movement once | 2 writes that do not await and 1 that does; 2 rows of one merchant behind 2 connections and a cash row, a rule, a sector; 2 holdings, 2 foreign currencies, 2 days; 7 months of 28 to 31 days, paydays 16 days early to 11 late, at most 5 incomes (4 make a salary fixed); 6 facts; a window of 2 months over 5; 3 bills in a month of 5 days; 4 bills over 3 months, a card with 2 names among them, 40 days ahead (a month and its tolerance) |
| `operations_late`, `store_wipe` | findings 4 and 5 | as in `records`; the transactions alone |

Types are checked by a run only where they are not proved (section 4).

Bounds that are constants of a module: `Handles` (databases opened in one run),
`Requests`, `Leases`, `Waiters`, `Runs`, `Litter` (rollback files that lie
about), `Ids` (UUIDs drawn), `Tasks` and `Slots` (activations that overlap),
`MaxBaskets` (purchases per category and month), `MaxSaid` (what the household says), `LastTick`, `MaxConnections`, `MaxVersions`, `MaxWrites`, `MaxCopies`, `MaxTries`, `MaxDay`, `MaxPoints`,
`MaxRows`, `LastMonth`, `LastDay`, `Horizon`. `PerMonth`, `Keep`, `Window`, `YearLength` and
`Horizon`, `Limit` stand for larger numbers of the code (10 copies, 12 months, 60 days, 6 items).
Deadlock is not checked where a behaviour really ends: all leases handed out,
all requests answered, no id left to draw, the pool closed, the last day over.

**Fairness.** Safety properties need none.

- `coordinator`: a held lease is released, since every handler that takes one
  releases it in a `finally` block or on each exit. A browser that is being
  launched comes up or fails, a scrape ends or times out by its timer, and a
  close that was begun ends. The presence's timer fires and its continuations
  run (weak fairness); a call that is made again and again succeeds at some time
  (strong fairness), else nothing could ever be shown.
- `pool`: an open ends, as SQLite answers or throws; a handler ends, as scrapes
  and fetches have timeouts; the awaits of the shutdown resume once their
  condition holds. No client is assumed to send or to leave.
- `sync`: a worker whose turn it is runs on; a scrape ends by its own timeout.
  Nothing is assumed about failures, which may always or never happen.
- `desktop`: main's own code runs on, its messages are handled, pages load or
  fail, and its timers fire, although other events come in between (strong
  fairness: a step is disabled while main works through another turn). Nothing
  is assumed of the runtime, which may hang in any state.
- `profile`: a request of the window is handled or fails, and its answer's continuation runs.
  The user is not assumed to do anything.

## 4. Proofs

Each theorem holds for every value of the constants, under the assumptions the
modules state: a "none" value is none of the others, sets that are counted are
finite, limits are positive, months have 28 to 31 days. Every safety property of
a passing run is stated by a theorem. In each module a component's
invariant is named `Inv`, `TypeOK` or after the part (`LedgerInv`), and the proof
of `Next` has one lemma per action.

- **OperationCoordinator_proofs.** Types, mutual exclusion
  (`OnlyHeldLeaseIsActive`), `ShutdownPromiseMeansDrained`, and the refinement
  of `AdmissionGate`. The properties need each other: a resolved shutdown
  promise stays true only because the gate was shut before the promise existed
  (`ShutdownPromiseShutsGate`), and a promise resolves at the right time because
  the slot is empty exactly when the operation is idle. For the hub: what the
  desktop heard last is `current` and the aggregate of the members as they are,
  since every callback recomputes; a workspace that is being evicted is no member,
  so its shutdown reaches nobody. For the browsers: a browser is open only while
  the library hands it over or drives it, and from `prepareBrowser` on it is in the
  list, in the list of `dispose`, or about to be closed. For the presence: the flag
  admits one tick, so that nothing is recorded between its reading and its showing.
- **WorkspacePool_proofs.** The safety invariants of the pool. None is
  inductive alone. `Inv` adds that the two maps and the handles' states agree in
  both directions and never name a profile twice, that a waiting request waits
  for an open in flight, that leases pin open handles, that an operation's
  request runs on its handle, and that no client is connected once the HTTP
  server has closed. The refcount theorem counts finite sets of leases with the
  lemmas of FiniteSetTheorems. `CapYieldsOnlyToUse`, a property of steps, counts
  what is left of the open handles once the victims are gone.
- **ScrapeSync_proofs.** Permits are conserved and never idle while somebody
  waits, and the flag agrees with the lease, for any number of profiles, syncs
  and permits. Conservation rests on the queue: it holds each waiting connection
  once and no other, so waking its head swaps one scrape for another.
- **RuntimeManager_proofs.** `RuntimeIsOrderly`. A process that has not exited for
  main is `this.child` (so a second one is never forked); the messages of a
  process arrive in the order its life gives them, `exit` last; each start or
  stop that is not settled has a task that awaits it; `recoveryInProgress` is
  held by a task, which is not the boot; no process is older than the boot's.
- **DataOnDisk_proofs.** Four parts on one disk. Where restoreFrom and the boot
  stand determines what is on disk: from it, an open database is healthy, the
  original is retained, a failed restore serves the original, and every step is a
  step or a stutter of `AtomicReplace`. The list of profiles is what the registry
  file says, up to the change that is being written, and a directory that is not
  listed is one being made, being deleted or of a lost registry. The files of the
  older installation are copied in their order, the marker is provisional until
  all are there, and one profile at most holds what came in. In the loop before
  an update, the newest copy of a profile survives the pruning and each profile
  the loop has left behind is covered.
- **OpenProfile_proofs.** *Opening*: through any number of openings cut
  short and tried again, as long as no more are tried in a row than copies are
  kept. `StepsAreTrue`: where an opening stands tells what is already in the
  database (a connection before the rows are stamped, all of that before the
  credential file goes, bucketed rows before the marker). `CopyIsNear`: the copy
  of the database as it was before the first of the tries lies at most as deep in
  the list of copies as there were tries, so pruning to `Keep` cannot reach it.
  `OpenProfileAssumption` (`MaxTries <= Keep`) is where the promise ends: see
  section 5. *Window*: the boot is alone, and a task's answer is shown only while
  the window shows the profile it asked for. *Bank*: a stored row or balance is as
  the bank had it, and the sum is taken over disjoint sets of movements, one per
  account. *Commitments*: the mark that dominates is borne by a charge, and the
  rhythm seen in the window is a rhythm of all rows. *Advice*: a price that was
  declined has its key among the verdicts, and the complete months lie before
  the running one. *Statements*: each statement splits the rows of a month into
  disjoint sums; a finite family of values has its k-th smallest, and the k
  categories that spent most spent something; rounding up to fifties adds less
  than fifty; and a finished month has the figures the declared frames gave it
  whatever is declared later.
- **TransactionStore_proofs.** *Transactions*: every row obeys what the standing
  orders say of it unless the user has spoken, and what was said survives each
  way of rewriting the column. *Operations*: the gate is shut during all steps of
  a replacement, so that between the copy and the swap only assets can enter the
  database. *Holdings*: the points of a holding tell its story, a write that
  waits for a rate aims at the currency it brings, and a rate is there for each
  currency that is held. *Calendar*: first days lie at least 28 days apart, each
  salary lands from 16 days before to 11 days after the start of the month it
  funds, so neither rule can take it for its neighbour's. *Exclusion*: a fact's
  rows are settled, paired or counted, never two of them. *Charges*: what was
  silenced is what the anchor alerts of. *Plan*: what is held back is what is owed
  plus what varies. *Forecast*: each row lies within two days of the day its bill
  falls due in its month, and is the only one of that bill and month; a known
  debit falls on such a day. So the median a stream is projected at is near that
  day whatever the length of the month, an event near the day of one month is four
  weeks from that of the next, and a debit that does not replace a projected one
  is of another month.
- **SumLemmas.** Sums over finite sets and over families of disjoint sets, a
  greatest value, images of finite sets. A sum is a recursive function of the
  set; facts about it are told as a least counterexample, by the well-foundedness
  of the natural numbers, since the induction theorems take an operator as a
  parameter, which the provers cannot instantiate. No module uses a RECURSIVE
  operator.

The theorems that state a property of a run (the others are the types, the
invariants and the single promises they rest on):

| Module | Theorem and the property it states |
|---|---|
| OperationCoordinator_proofs | `CoordinatorSafety`: CoordinatorIsSound; `RefinesGate`: ImplementsGate; `DesktopHearsTheTruth`: AggregateIsTrue; `OpenBrowsersAreKnown`: the invariant in BrowsersAreClosed; `AlertsStayQuiet`: the step property in AlertsArriveOnce |
| WorkspacePool_proofs | `HandleSafety`: HandlesAreSound; `ConnectedRequestsAreSafe`: ConnectedRequestKeepsDatabase; `OperationsAreSafe`: OperationKeepsDatabase; `CapIsObeyed`: CapYieldsOnlyToUse |
| ScrapeSync_proofs | `PermitSafety`: PermitsAreSound; `FlagsAgree`: RunningMeansSyncing |
| RuntimeManager_proofs | `RuntimeIsAlwaysOrderly`: RuntimeIsOrderly |
| DataOnDisk_proofs | `DataSafety`: DataIsSafe; `FailureIsHarmless`: FailedRestoreKeepsOriginal; `RefinesAtomicReplace`: ReplacesAtomically; `ListIsAlwaysTrue`: ListIsTrue; `AnswersAreDurable`: AnsweredIsDurable; `InstallsAreCovered`: InstallIsCovered; `FirstStartsAreSafe`: FirstStartIsSafe |
| OpenProfile_proofs | `OpeningSafety`: OpeningIsSound; `ReportsAreTheirs`: FailuresAreTheirs; `BalanceIsAlwaysTrue`: BalanceIsTrue; `CommitmentsAlwaysAgree`: CommitmentsAgree; `AdviceAlwaysStands`: AdviceStands; `StatementsAreAlwaysSound`: StatementsAreSound |
| TransactionStore_proofs | `StoreIsAlwaysSound`: StoreIsSound; `VerdictsStand`: UserVerdictStands; `VerdictsAreKept`: NoVerdictLost; `LedgerIsAlwaysSound`: LedgerIsSound; `PastesAreTheFact`: PasteIsTheFact; `MonthsAreAlwaysSound`: MonthsAreSound; `NothingEverCountsTwice`: NothingCountsTwice; `DismissalsStayQuiet`: DismissedStaysQuiet; `ExpectedStaysHeldBack`: ExpectedIsHeldBack; `ForecastsAreExact`: ForecastIsExact |

Only model-checked: the liveness properties (`WaitersAreReleased`,
`OpensHoldNobodyUp`, `EverybodyGetsOn`, `DesktopSettles`, `LocksAreReleased`) and
the leads-to parts of `BrowsersAreClosed` and `AlertsArriveOnce`, since fairness
and `ENABLED` are out of the prover's reach.

## 5. Findings

Each of these has a run that shows it:

1. **A client that goes away takes the database from its handler**
   (`pool_client_gone`). `app.ts:214` releases on `close`, which fires while the
   handler still awaits. With the refcount at zero, deletion or the cap closes
   the database under it, which the comment at `app.ts:183` says cannot happen.
2. **A client that goes away during an open leaves a lease behind**
   (`pool_lease_leak`). The listeners are added after the `await`; neither event
   comes again, and the profile can no longer be evicted or deleted.
3. **A worker outlives its sync** (`sync_orphan`). When storing a failure throws,
   the request ends and frees the slot while the other worker goes on writing.
   The permits stay right even then (`sync`).
4. **A write that awaited its rate is lost by a restore** (`operations_late`).
   POST /assets passes the gate, awaits, and writes after the copy the restore
   has made and before its swap.
5. **The wipe of scraped data takes rows typed by hand** (`store_wipe`), which no
   sync brings back (`db.ts:1650`, against `routes.ts:3041`).

Others are stated as properties which no run checks. To see one refuted, add it
to the configuration of the run its module is in, for an instance as
`Name == Instance!Name` in the `MC` module. `PROJECT.json` quotes what each
contradicts.

| Property | Module | What happens |
|---|---|---|
| `VerdictSurvivesSync` | TransactionStore | a sync replaces a pending row and the user's category on it |
| `OneNumber` | AssetLedger | the history's last point and the net worth differ once a holding changes after the last bank day |
| `PointsHoldTheirOwnRate` | AssetLedger | two PUTs in flight freeze a point of one currency at the rate of another |
| `PermitsBoundBrowsers` | Browsers | a scrape that timed out in its launch gives its permit back before its browser is there |
| `NothingFiresTwice`, `RecordedWasShown` | Presence | an alert whose report failed fires again; a report after a switch is recorded for the wrong profile |
| `EveryProfileIsCovered` | UpdateBackup | a profile created during the loop has no copy |
| `ImportIsKept` | FirstRun | an import the wizard did not hear of is moved aside by a later exit |
| `OneConnection` | OpenProfile | the old credential becomes a connection again at every opening that does not get to delete the file |
| `OpenIsUpgraded` | OpenProfile | a restored older file is served without migrateLegacy and re-bucketing |
| `LastSyncIsTheirs`, `ScreenFollowsRegistry` | ClientSession | a late answer sets another profile's sync time; window and registry end on different profiles |
| `TailAgrees` | FlowCalendar | a large one-off income is treated as waiting by one operator and not by the other |
| `ExactlyOneCounts`, `DetailsCoverSettlement` | FlowExclusion | a settlement that stands for its purchases is paired away as a transfer; a refund covers a debit of its size |
| `VerdictHolds`, `UntrackedHasNoAnchor` | VouchedCharges | a verdict ages out with its marks; taking single marks off leaves the anchor |
| `LastWordStands` | Commitments | marks of rows that left the window outvote what was said last |
| `MutesAgree` | Commitments | a muted stream stays in the patterns, and committed if it was marked |
| `TypedCounts` | Commitments | a typed charge gives way to a detection of its name that does not count |
| `ExpectedOnce` | Commitments | a charge that is typed and marked is in the forecast twice until it is detected |
| `HeldBackIsCommitted` | Commitments | the plan holds back what the patterns do not list yet, or no longer |
| `AccountCountsOnce` | BankBalance | the balance of an account behind two connections is added twice |
| `NothingIsLeftOut` | BankBalance | a movement booked after the sync of its day, or brought without a balance, is in no figure |
| `LiquidAgrees` | BankBalance | plan and advice take the balance of the snapshot, home and forecast that of today |
| `UnconfirmedReservesNothing`, `BillCountsOnce` | MonthPlan | a detected bill is held back unvouched; a paid vouched bill counts in two buckets |
| `SplitSumsToFrame` | MonthStatements | shares that are rounded up exceed the frame, and the remainder is shown only when it is positive |
| `PromiseBreaksOnlyAtFloor` | MonthStatements | rounding the recommended frame to fifties breaks its promise without the floor |
| `SuggestionIsFeasible` | MonthStatements | the highest rate is rounded up before the cap is taken from it: the suggestion is then called infeasible |
| `DriftsAgree` | MonthStatements | the review of the running month judges a month that is not complete, the plan's card does not |
| `FinishedMonthKeepsItsShape` | MonthStatements | a stream that is found, or ends, moves its rows of finished months between fixed and variable |
| `NoShekelTwice` | AdviceQueue | acting on two rises of one price claims more than it rose |
| `StoppedIsProposed` | AdviceQueue | a commitment that stopped is never found: it stops counting as committed when it stops being active |
| `AcceptedStays` | AdviceQueue | the cap cuts off accepted items |
| `GoalsRemember` | AdviceQueue | a goal older than the analysis forgets its first months |
| `PendingIsCounted` | CashForecast | a pending bill whose projected day has passed is in neither the projection nor the pending movements |

Seen while modelling, and not stated as a property:

- `profiles.ts`: create, reorder, setActive and softDelete keep their change in
  memory when the registry cannot be saved, against `profiles.ts:358` ("A write
  that did not land must not stay in memory either"); `AnsweredIsDurable`
  therefore speaks of requests answered with success.
- `db.ts`: if the installed replacement fails its check and cannot be
  quarantined either, the request answers RESTORE_FAILED while the next boot
  serves the replacement if it opens then (`QuarantineFails`). The copy from
  before an upgrade is pruned by the copies of ten failed openings in a row.
- `routes.ts`: taking the category off a pending row, and a cash row without
  one, leave NULL; a category that comes with a refused pattern is stored
  although the request answers an error; a newer, shorter rule is applied over
  the rows of a longer one until they are resolved again; the undo of a rule
  judges with hints from before it; GET /networth reads the holdings before it
  waits for the rates and their snapshots after.
- `forecast.ts`: a bill that is due but not posted disappears (its occurrence is
  hopped over), and one posted across the end of a month skips or repeats a
  month; `ForecastAssumption` excludes the latter.
- Desktop: the recovery page's button, while the runtime still runs, always
  fails the first time (`runtime-manager.ts:146`: `stop` resolves on the
  runtime's last message, `start` throws until the exit event); `retryRuntime`
  asks for `shutdownStarted` only before its own stop, so that a stop which a
  retry and the shutdown both wait for ends with a new runtime forked in the turn
  that quits, and `QuitIsOrderly` speaks of the runtime that was asked to stop;
  an alert whose report always fails keeps later ones from being shown.
- Client: `createProfile` switches with the closure of an older render;
  `retryStartup` adopts a profile without wiping what was shown. In the views:
  `Future.tsx:411` refreshes with the closure of the render in which the basis was
  changed; deleting a row in the review reloads the rows and not the figures;
  `Month.tsx:228` takes whichever answer comes last; `Overview.tsx:141` labels the
  figures of one range with the next.
- `routes.ts:2026` says that a set-aside goal opens its envelope; the code stores
  none, so that its progress is never measured.

## 6. Not modelled, and why

- Least-recently-used order, progress messages, one-time passwords, colours,
  avatars and timestamps: no property depends on them.
- The microtasks inside one turn (`closeEntry`'s await of an idle coordinator,
  two acquires of one turn, `workspaces.ts:238`).
- Retention inside `DatabaseOperations`, which keeps all copies: `NoVerdictLost`
  speaks of the time before the tenth newer automatic copy.
- SQLite's own transactions and page format; the statements inside one
  transaction of an upgrade; errors of SQLite while it closes.
- Loss of power, where a rename may be undone, and files that decay.
- The two import formats and the reader of a pasted account state: parsers of
  one text, reached by unit tests.
- Pure analyses without a sequence of calls: the figures of a pattern, purchases in
  installments, metrics, insights, seven of
  the rules of advice, alerts' texts, savings paces, the statistics of the balance curve, the days in the
  minus of the overview, the merchants and large purchases of the year, the sums and the band of the forecast with its
  variable spending, cadences other than the monthly one. They are functions of
  one input and their tests give it directly.
- The views of the client (charts, month, net worth, settings): a switch
  remounts them and they keep no state of record; what they show is a request's
  last answer.
- The HTTP gate, static files, preferences, the credential key, window state,
  preload, logging, menus, the check for updates; the time between `app.quit`
  and the end of the main process; scripts.

## 7. Plan

1. The requests of the client's views, whose answers may come out of order; the
   status of the updater; the other rules of advice; purchases in installments in
   Commitments.
2. A run for the memory that outlives a failed save in `profiles.ts`.
