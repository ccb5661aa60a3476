----------------------------- MODULE WorkspacePool -----------------------------
(****************************************************************************)
(* The WorkspacePool of server/src/workspaces.ts with its callers: the      *)
(* per-profile dispatch of app.ts, the profile routes of profiles-api.ts    *)
(* that create and delete, and the shutdown sequence of runtime.ts.         *)
(*                                                                          *)
(* A handle is one PoolEntry with its FinanceDb and its coordinator; every  *)
(* open makes a new one.  Node runs everything between two real waits (a    *)
(* pre-upgrade backup inside an open, an asynchronous handler, a response,  *)
(* a drain) to completion, microtasks included, before it delivers another  *)
(* event, so each such stretch is one action.  The LRU order is left open:  *)
(* the victims of the cap are any of the evictable entries.                 *)
(****************************************************************************)
EXTENDS Naturals, FiniteSets

CONSTANTS
  Profiles,  \* profile ids: the registry never reuses one
  Handles,   \* bound on how many databases are opened in one run
  Requests,  \* HTTP requests in flight at once
  None,      \* no handle, no request
  MaxOpen,   \* options.maxOpen
  First      \* the profile that is active, and opened, at boot

ASSUME FirstIsProfile == First \in Profiles
ASSUME NoneIsNothing == None \notin Handles \union Requests
ASSUME MaxOpenIsPositive == MaxOpen \in Nat \ {0}
ASSUME RequestsAreFinite == IsFiniteSet(Requests)

VARIABLES
  registry,  \* store.list(): the profiles that exist
  deleted,   \* profiles whose directory was moved to deleted-profiles
  entries,   \* entries[p]: the handle serving p, or None
  opening,   \* opening[p]: the handle an in-flight open will produce, or None
  status,    \* status[h]: the FinanceDb behind h
  profile,   \* profile[h]: whose database h is
  refcount,  \* refcount[h]: the entry's lease count
  op,        \* op[h]: the request holding h's coordinator lease, or None
  pc,        \* pc[r]: how far request r has come
  conn,      \* conn[r]: whether r's client is still there
  at,        \* at[r]: the handle r waits for or works on, or None
  leased,    \* leased[r]: r holds a pool lease it has not released
  phase      \* how far the runtime's shutdown has come

registryVars == <<registry, deleted>>
poolVars == <<entries, opening, status, profile, refcount, op>>
requestVars == <<pc, conn, at, leased>>
vars == <<registry, deleted, entries, opening, status, profile, refcount, op,
          pc, conn, at, leased, phase>>

Statuses == {"unused", "opening", "open", "closed"}
Steps == {"idle", "waiting", "running", "done"}
Phases == {"up", "draining", "drained", "closed"}

closed == phase # "up"           \* this.closed
Open == {h \in Handles : status[h] = "open"}
Waiting(h) == {r \in Requests : pc[r] = "waiting" /\ at[r] = h}
InHandler(r) == pc[r] = "running"
LeasesOn(h) == {r \in Requests : leased[r] /\ at[r] = h}

Init ==
  /\ \E others \in SUBSET (Profiles \ {First}) : registry = {First} \union others
  /\ deleted = {}
  /\ \E h \in Handles :
       /\ entries = [p \in Profiles |-> IF p = First THEN h ELSE None]
       /\ status = [g \in Handles |-> IF g = h THEN "open" ELSE "unused"]
  /\ opening = [p \in Profiles |-> None]
  /\ profile = [h \in Handles |-> First]
  /\ refcount = [h \in Handles |-> 0]
  /\ op = [h \in Handles |-> None]
  /\ pc = [r \in Requests |-> "idle"]
  /\ conn = [r \in Requests |-> "open"]
  /\ at = [r \in Requests |-> None]
  /\ leased = [r \in Requests |-> FALSE]
  /\ phase = "up"

--------------------------------------------------------------------------------
(* Requests: createProfileDispatch and WorkspacePool.acquire.               *)

(* A new request: the registry must know the id and the pool must be open.  *)
(* A refused one is answered at once and leaves no trace.                   *)
Arrives(r, p) ==
  /\ ~closed
  /\ p \in registry
  /\ pc[r] \in {"idle", "done"} /\ ~leased[r]
  /\ conn' = [conn EXCEPT ![r] = "open"]

(* entryFor finds the entry: the lease is granted and the router runs.  The *)
(* handler begins an operation, or answers at once (a refused tryBegin      *)
(* included), or awaits without a coordinator lease, as GET /dashboard does *)
(* while it fetches exchange rates.                                         *)
LeaseOpen(r, p) ==
  /\ Arrives(r, p)
  /\ entries[p] # None
  /\ at' = [at EXCEPT ![r] = entries[p]]
  /\ pc' = [pc EXCEPT ![r] = "running"]
  /\ leased' = [leased EXCEPT ![r] = TRUE]
  /\ refcount' = [refcount EXCEPT ![entries[p]] = @ + 1]
  /\ \/ op' = op
     \/ /\ op[entries[p]] = None
        /\ op' = [op EXCEPT ![entries[p]] = r]
  /\ UNCHANGED <<registryVars, entries, opening, status, profile, phase>>

(* entryFor joins the open that is already in flight.                       *)
JoinOpening(r, p) ==
  /\ Arrives(r, p)
  /\ entries[p] = None
  /\ opening[p] # None
  /\ at' = [at EXCEPT ![r] = opening[p]]
  /\ pc' = [pc EXCEPT ![r] = "waiting"]
  /\ UNCHANGED <<registryVars, poolVars, leased, phase>>

NewOpen(r, p, h) ==
  /\ status[h] = "unused"
  /\ status' = [status EXCEPT ![h] = "opening"]
  /\ profile' = [profile EXCEPT ![h] = p]
  /\ opening' = [opening EXCEPT ![p] = h]
  /\ at' = [at EXCEPT ![r] = h]
  /\ pc' = [pc EXCEPT ![r] = "waiting"]
  /\ UNCHANGED <<registryVars, entries, refcount, op, leased, phase>>

(* entryFor starts an open.                                                 *)
StartOpen(r, p, h) ==
  /\ Arrives(r, p)
  /\ entries[p] = None /\ opening[p] = None
  /\ NewOpen(r, p, h)

--------------------------------------------------------------------------------
(* Opening, the cap and eviction.                                           *)

\* Faulty variant: an entry is judged by its coordinator alone.
IdleLooking(h) == op[h] = None

(* isEvictable                                                              *)
Evictable(h) == refcount[h] = 0 /\ op[h] = None

\* Faulty variant: the loop stops one entry early.
OverCapLoosely(n) == IF n > MaxOpen + 1 THEN n - (MaxOpen + 1) ELSE 0

(* How many of n entries enforceCap wants closed.                           *)
OverCap(n) == IF n > MaxOpen THEN n - MaxOpen ELSE 0

(* The sets of entries enforceCap may close for a new entry: as many as the *)
(* cap asks for, or all evictable ones when that is not enough.             *)
Victims(h) ==
  LET candidates == {g \in Open \ {h} : Evictable(g)}
      wanted == OverCap(Cardinality(Open \union {h}))
  IN  {victims \in SUBSET candidates :
         \/ Cardinality(victims) = wanted
         \/ victims = candidates /\ Cardinality(candidates) < wanted}

(* The open's continuation: the entry joins the pool, the cap is enforced,  *)
(* and everybody who waited gets a lease and runs its handler, of which one *)
(* (or none) begins an operation.                                           *)
Enter(h, victims, starter) ==
  /\ status' = [g \in Handles |-> IF g = h THEN "open"
                                  ELSE IF g \in victims THEN "closed" ELSE status[g]]
  /\ entries' = [p \in Profiles |-> IF p = profile[h] THEN h
                                    ELSE IF entries[p] \in victims THEN None
                                    ELSE entries[p]]
  /\ opening' = [opening EXCEPT ![profile[h]] = None]
  /\ refcount' = [refcount EXCEPT ![h] = Cardinality(Waiting(h))]
  /\ pc' = [r \in Requests |-> IF r \in Waiting(h) THEN "running" ELSE pc[r]]
  /\ leased' = [r \in Requests |-> leased[r] \/ r \in Waiting(h)]
  /\ op' = [op EXCEPT ![h] = starter]
  /\ UNCHANGED <<registryVars, profile, conn, at, phase>>

OpenSucceeds(h) ==
  /\ status[h] = "opening"
  /\ ~closed
  /\ profile[h] \in registry
  /\ \E victims \in Victims(h), starter \in Waiting(h) \union {None} :
       Enter(h, victims, starter)

\* Faulty variant: the waiters of a failed open are not answered.
OpenFailsSilently(h) ==
  /\ status[h] = "opening"
  /\ status' = [status EXCEPT ![h] = "closed"]
  /\ opening' = [opening EXCEPT ![profile[h]] = None]
  /\ UNCHANGED <<registryVars, entries, profile, refcount, op, pc, conn, at, leased, phase>>

(* The database does not open, or the continuation finds the pool closed or *)
(* the profile gone and closes it again: acquire throws for every waiter    *)
(* and the dispatch answers with the error.                                 *)
OpenFails(h) ==
  /\ status[h] = "opening"
  /\ status' = [status EXCEPT ![h] = "closed"]
  /\ opening' = [opening EXCEPT ![profile[h]] = None]
  /\ pc' = [r \in Requests |-> IF r \in Waiting(h) THEN "done" ELSE pc[r]]
  /\ at' = [r \in Requests |-> IF r \in Waiting(h) THEN None ELSE at[r]]
  /\ UNCHANGED <<registryVars, entries, profile, refcount, op, conn, leased, phase>>

--------------------------------------------------------------------------------
(* Handlers and their responses.                                            *)

(* The dispatch's release and the lease's: it goes back exactly once.       *)
ReleaseLease(r) ==
  /\ leased' = [leased EXCEPT ![r] = FALSE]
  /\ refcount' = IF leased[r] THEN [refcount EXCEPT ![at[r]] = @ - 1] ELSE refcount

\* Faulty variant: the released flag is not set, the lease can go back twice.
TwiceReleasable(r) ==
  /\ pc[r] \in {"waiting", "running"} /\ conn[r] = "open"
  /\ conn' = [conn EXCEPT ![r] = "gone"]
  /\ refcount' = IF leased[r] THEN [refcount EXCEPT ![at[r]] = @ - 1] ELSE refcount
  /\ UNCHANGED <<registryVars, entries, opening, status, profile, op,
                 pc, at, leased, phase>>

(* The client goes away.  A response closed while its lease is held gives   *)
(* the lease back; one closed while acquire is still waiting has no         *)
(* listener yet.  The handler is not told and keeps running.                *)
Disconnect(r) ==
  /\ pc[r] \in {"waiting", "running"} /\ conn[r] = "open"
  /\ conn' = [conn EXCEPT ![r] = "gone"]
  /\ ReleaseLease(r)
  /\ UNCHANGED <<registryVars, entries, opening, status, profile, op,
                 pc, at, phase>>

(* The handler ends: its coordinator lease goes back in a finally block,    *)
(* and the response of a client that is still there finishes, which gives   *)
(* the pool lease back.  Nothing finishes for a client that is gone.        *)
Respond(r) ==
  /\ InHandler(r)
  /\ pc' = [pc EXCEPT ![r] = "done"]
  /\ op' = [h \in Handles |-> IF op[h] = r THEN None ELSE op[h]]
  /\ IF conn[r] = "open" THEN ReleaseLease(r) ELSE UNCHANGED <<leased, refcount>>
  /\ at' = [at EXCEPT ![r] = IF leased'[r] THEN @ ELSE None]
  /\ UNCHANGED <<registryVars, entries, opening, status, profile, conn, phase>>

--------------------------------------------------------------------------------
(* Profiles: profiles-api.ts and ProfileStore, reduced to the registry.     *)

CreateProfile(p) ==
  /\ ~closed
  /\ p \notin registry \union deleted
  /\ registry' = registry \union {p}
  /\ UNCHANGED <<deleted, poolVars, requestVars, phase>>

CloseAndDelete(p) ==
  /\ registry' = registry \ {p}
  /\ deleted' = deleted \union {p}
  /\ status' = [h \in Handles |-> IF h = entries[p] THEN "closed" ELSE status[h]]
  /\ entries' = [entries EXCEPT ![p] = None]
  /\ UNCHANGED <<opening, profile, refcount, op, requestVars, phase>>

(* DELETE /profiles/:id: the global gate, the last-profile guard, evict     *)
(* (busy while the profile is opened or in use), then softDelete.           *)
DeleteProfile(p) ==
  /\ ~closed
  /\ p \in registry /\ registry # {p}
  /\ opening[p] = None
  /\ entries[p] # None => Evictable(entries[p])
  /\ CloseAndDelete(p)

--------------------------------------------------------------------------------
(* Shutdown: handle.close of runtime.ts.                                    *)

(* pool.beginShutdown, synchronous: closes the pool and every gate.         *)
BeginShutdown ==
  /\ phase = "up"
  /\ phase' = "draining"
  /\ UNCHANGED <<registryVars, poolVars, requestVars>>

(* closeHttpServer resolves once no connection has a response outstanding.  *)
HttpClosed ==
  /\ phase = "draining"
  /\ \A r \in Requests : conn[r] = "open" => pc[r] \in {"idle", "done"}
  /\ phase' = "drained"
  /\ UNCHANGED <<registryVars, poolVars, requestVars>>

CloseEntries ==
  /\ phase = "drained"
  /\ status' = [h \in Handles |-> IF status[h] = "open" THEN "closed" ELSE status[h]]
  /\ entries' = [p \in Profiles |-> None]
  /\ phase' = "closed"
  /\ UNCHANGED <<registryVars, opening, profile, refcount, op, requestVars>>

(* closeAll: waits until every coordinator is idle, then closes the entries. *)
CloseAll ==
  /\ \A h \in Open : op[h] = None
  /\ CloseEntries

Next ==
  \/ \E r \in Requests, p \in Profiles :
       \/ LeaseOpen(r, p)
       \/ JoinOpening(r, p)
       \/ \E h \in Handles : StartOpen(r, p, h)
  \/ \E h \in Handles : OpenSucceeds(h) \/ OpenFails(h)
  \/ \E r \in Requests : Disconnect(r) \/ Respond(r)
  \/ \E p \in Profiles : CreateProfile(p) \/ DeleteProfile(p)
  \/ BeginShutdown
  \/ HttpClosed
  \/ CloseAll

Spec == Init /\ [][Next]_vars

(* An open ends one way or the other; a handler ends (a scrape is aborted   *)
(* by dispose or its own timeout, a fetch by its timeout); the shutdown's   *)
(* awaits resume once what they wait for has happened.                      *)
Fairness ==
  /\ \A h \in Handles : WF_vars(OpenSucceeds(h) \/ OpenFails(h))
  /\ \A r \in Requests : WF_vars(Respond(r))
  /\ WF_vars(HttpClosed)
  /\ WF_vars(CloseAll)

FairSpec == Spec /\ Fairness

--------------------------------------------------------------------------------
(* Every variable stays in its domain.                                      *)
TypeOK ==
  /\ registry \in SUBSET Profiles
  /\ deleted \in SUBSET Profiles
  /\ entries \in [Profiles -> Handles \union {None}]
  /\ opening \in [Profiles -> Handles \union {None}]
  /\ status \in [Handles -> Statuses]
  /\ profile \in [Handles -> Profiles]
  /\ refcount \in [Handles -> Nat]
  /\ op \in [Handles -> Requests \union {None}]
  /\ pc \in [Requests -> Steps]
  /\ conn \in [Requests -> {"open", "gone"}]
  /\ at \in [Requests -> Handles \union {None}]
  /\ leased \in [Requests -> BOOLEAN]
  /\ phase \in Phases

(* A client that is still connected is never served from a closed database, *)
(* whatever was evicted, deleted or shut down while its handler waited.     *)
ConnectedRequestKeepsDatabase ==
  \A r \in Requests : InHandler(r) /\ conn[r] = "open" => at[r] \in Open

(* The file of one profile is never open, or being opened, twice: two       *)
(* FinanceDb objects on one file would each believe they are the only       *)
(* writer, and a restore would swap the file under the other one.           *)
OneHandlePerProfile ==
  \A g, h \in Handles :
    /\ {status[g], status[h]} \subseteq {"opening", "open"}
    /\ profile[g] = profile[h]
    => g = h

(* A deleted profile has no open handle and no open in flight: its          *)
(* directory was moved, and an open would make an empty one in its place.   *)
NoGhost ==
  \A h \in Handles : status[h] \in {"opening", "open"} => profile[h] \in registry

(* The refcount of a live entry is the number of leases not yet released,   *)
(* across duplicated and missing finish and close events.                   *)
RefcountCountsLeases ==
  \A h \in Handles : refcount[h] = Cardinality(LeasesOn(h))

(* An operation's database stays open until the operation has ended, even   *)
(* when the client that started it is gone and the runtime shuts down.      *)
OperationKeepsDatabase == \A h \in Handles : op[h] # None => h \in Open

(* After closeAll no database is open, though an open was in flight when    *)
(* the shutdown began; the checkpointed files are the final ones.           *)
ClosedMeansClosed == phase = "closed" => Open = {}

(* The cap: an open leaves more than MaxOpen entries only when every other  *)
(* entry is busy or in use, and never closes more than the cap asks for.    *)
CapYieldsOnlyToUse ==
  [][\A h \in Handles : status[h] = "opening" /\ status'[h] = "open" =>
       /\ \/ Cardinality(Open') <= MaxOpen
          \/ \A g \in Open' \ {h} : ~Evictable(g)
       /\ Cardinality(Open') >= MaxOpen \/ Open \subseteq Open']_vars

(* The parts of the inductive invariant the properties above rest on.       *)
(* The pool's two maps and the handles they name agree, both ways.          *)
EntriesAreOpen ==
  \A p \in Profiles : entries[p] # None =>
    status[entries[p]] = "open" /\ profile[entries[p]] = p

OpenAreEntries == \A h \in Handles : status[h] = "open" => entries[profile[h]] = h

OpeningsAreInFlight ==
  \A p \in Profiles : opening[p] # None =>
    status[opening[p]] = "opening" /\ profile[opening[p]] = p

InFlightAreOpenings ==
  \A h \in Handles : status[h] = "opening" => opening[profile[h]] = h

NeverBoth == \A p \in Profiles : entries[p] = None \/ opening[p] = None

(* What a request waits for or works on, and what its lease protects.       *)
RequestsAreSomewhere ==
  \A r \in Requests :
    /\ pc[r] = "waiting" => at[r] \in Handles /\ status[at[r]] = "opening" /\ ~leased[r]
    /\ pc[r] = "running" => at[r] \in Handles /\ (conn[r] = "open" => leased[r])
    /\ pc[r] = "idle" => ~leased[r]

LeasesPinHandles ==
  \A r \in Requests : leased[r] =>
    at[r] \in Handles /\ status[at[r]] = IF phase = "closed" THEN "closed" ELSE "open"

OperationsRun ==
  \A h \in Handles : op[h] # None => pc[op[h]] = "running" /\ at[op[h]] = h

NoneConnectedAfterHttp ==
  phase \in {"drained", "closed"} =>
    \A r \in Requests : conn[r] = "open" => pc[r] \in {"idle", "done"}

Inv ==
  /\ EntriesAreOpen
  /\ OpenAreEntries
  /\ OpeningsAreInFlight
  /\ InFlightAreOpenings
  /\ NeverBoth
  /\ NoGhost
  /\ RequestsAreSomewhere
  /\ LeasesPinHandles
  /\ OperationsRun
  /\ OperationKeepsDatabase
  /\ NoneConnectedAfterHttp
  /\ ClosedMeansClosed
  /\ RefcountCountsLeases

(* Each profile has one owner of its file at most, counted by its leases,   *)
(* while the profile exists and the pool is open (workspaces.ts:228-380).   *)
HandlesAreSound ==
  /\ OneHandlePerProfile
  /\ NoGhost
  /\ RefcountCountsLeases
  /\ ClosedMeansClosed

(* A shutdown that has begun reaches its end: no request, open or operation *)
(* in flight can keep it from closing the databases.                        *)
ShutdownCompletes == phase # "up" ~> phase = "closed"

(* Every request waiting for an open gets an answer or its handler.         *)
WaitersAreServed == \A r \in Requests : pc[r] = "waiting" ~> pc[r] # "waiting"

(* No open that fails or is slow keeps a shutdown or a request waiting for  *)
(* ever (workspaces.ts:255-300, 392-408).                                   *)
OpensHoldNobodyUp == ShutdownCompletes /\ WaitersAreServed

(* app.ts:183-185: the lease outlives the handler, so that no eviction      *)
(* closes the database under a request in flight.                           *)
HandlerKeepsDatabase == \A r \in Requests : InHandler(r) => at[r] \in Open

(* app.ts:183: the lease is released on both finish and close, so a request *)
(* that is over holds none.                                                 *)
FinishedRequestHoldsNoLease == \A r \in Requests : pc[r] = "done" => ~leased[r]
================================================================================
