------------------------------ MODULE ScrapeSync ------------------------------
(****************************************************************************)
(* POST /sync of server/src/routes.ts in every profile: the gate and the    *)
(* coordinator that let one sync in, the two workers that empty its queue,  *)
(* and the browser permits the workers of all profiles share                *)
(* (createScrapeSemaphore of workspaces.ts).                                *)
(*                                                                          *)
(* Node delivers an event (a request, the end of a scrape) only when no     *)
(* promise is left to run, so an event waits until the workers are Quiet;   *)
(* the turns it sets off follow one by one.  The queue's order is left open.*)
(****************************************************************************)
EXTENDS Naturals, Sequences, FiniteSets

CONSTANTS
  Profiles,   \* profiles, each with its router and its coordinator
  Runs,       \* POST /sync requests
  Conns,      \* the connections of every profile
  Permits,    \* createScrapeSemaphore(limit)
  StoreFails  \* whether storing a failure can fail too (a full disk)

ASSUME PermitsAreNumbered == Permits \in Nat \ {0}
ASSUME ConnsAreFinite == IsFiniteSet(Conns) /\ Conns # {}
ASSUME RunsAreFinite == IsFiniteSet(Runs)
ASSUME StoreFailsIsBoolean == StoreFails \in BOOLEAN

VARIABLES
  slot,       \* slot[p]: the state of p's coordinator
  running,    \* running[p]: syncProgress.running
  call,       \* call[r]: how far POST /sync r has come
  host,       \* host[r]: the profile r syncs
  stage,      \* stage[r, c]: what r's workers have done with connection c
  free,       \* free[r]: how many of r's workers are between two connections
  available,  \* the semaphore's permits that nobody holds
  waiting     \* the semaphore's queue

semaphoreVars == <<available, waiting>>
syncVars == <<running, call, host, stage, free>>
vars == <<slot, running, call, host, stage, free, available, waiting>>

OperationStates == {"idle", "syncing", "other"}
Stages == {"queued", "waiting", "scraping", "ok", "error", "lost"}

Jobs == Runs \X Conns
Workers == IF Cardinality(Conns) < 2 THEN Cardinality(Conns) ELSE 2
Scraping == {j \in Jobs : stage[j] = "scraping"}

Init ==
  /\ slot = [p \in Profiles |-> "idle"]
  /\ running = [p \in Profiles |-> FALSE]
  /\ call = [r \in Runs |-> "new"]
  /\ host \in [Runs -> Profiles]
  /\ stage = [j \in Jobs |-> "queued"]
  /\ free = [r \in Runs |-> 0]
  /\ available = Permits
  /\ waiting = <<>>

(* Every worker awaits a permit or a scrape, or has returned.               *)
Quiet ==
  \A r \in Runs :
    /\ free[r] > 0 => \A c \in Conns : stage[<<r, c>>] # "queued"
    /\ call[r] = "syncing" => \E c \in Conns : stage[<<r, c>>] \notin {"ok", "error"}

--------------------------------------------------------------------------------
(* POST /sync.                                                              *)

(* The gate, the check of syncProgress and tryBegin let one sync in.  A     *)
(* refused request changes nothing.                                         *)
StartSync(r) ==
  /\ Quiet
  /\ call[r] = "new"
  /\ slot[host[r]] = "idle" /\ ~running[host[r]]
  /\ slot' = [slot EXCEPT ![host[r]] = "syncing"]
  /\ running' = [running EXCEPT ![host[r]] = TRUE]
  /\ call' = [call EXCEPT ![r] = "syncing"]
  /\ free' = [free EXCEPT ![r] = Workers]
  /\ UNCHANGED <<host, stage, semaphoreVars>>

\* Faulty variant: the progress is not reset when a worker throws.
FailWithoutFinally(r) ==
  IF call[r] = "syncing"
  THEN /\ call' = [call EXCEPT ![r] = "failed"]
       /\ slot' = [slot EXCEPT ![host[r]] = "idle"]
       /\ UNCHANGED running
  ELSE UNCHANGED <<call, running, slot>>

(* A worker throws: the first rejection fails Promise.all, whose finally    *)
(* blocks end the request.  The other worker is not told.                   *)
FailRequest(r) ==
  IF call[r] = "syncing"
  THEN /\ call' = [call EXCEPT ![r] = "failed"]
       /\ running' = [running EXCEPT ![host[r]] = FALSE]
       /\ slot' = [slot EXCEPT ![host[r]] = "idle"]
  ELSE UNCHANGED <<call, running, slot>>

(* A connection is settled: its result is stored and its worker goes on, or *)
(* storing the failure fails too and the worker dies.                       *)
Settle(r, result, workers) ==
  \/ /\ result \in {"ok", "error"}
     /\ free' = [free EXCEPT ![r] = workers + 1]
     /\ UNCHANGED <<call, running, slot>>
  \/ /\ result = "lost" /\ StoreFails
     /\ free' = [free EXCEPT ![r] = workers]
     /\ FailRequest(r)

(* A worker takes a connection from the queue and asks for a permit.        *)
Take(r, c) ==
  /\ free[r] > 0 /\ stage[<<r, c>>] = "queued"
  /\ free' = [free EXCEPT ![r] = @ - 1]
  /\ IF available > 0
     THEN /\ available' = available - 1
          /\ stage' = [stage EXCEPT ![<<r, c>>] = "scraping"]
          /\ UNCHANGED waiting
     ELSE /\ waiting' = Append(waiting, <<r, c>>)
          /\ stage' = [stage EXCEPT ![<<r, c>>] = "waiting"]
          /\ UNCHANGED available
  /\ UNCHANGED <<slot, running, call, host>>

(* Its credentials are missing or cannot be decrypted.                      *)
TakeBroken(r, c) ==
  /\ free[r] > 0 /\ stage[<<r, c>>] = "queued"
  /\ \E result \in {"error", "lost"} :
       /\ stage' = [stage EXCEPT ![<<r, c>>] = result]
       /\ Settle(r, result, free[r] - 1)
  /\ UNCHANGED <<host, semaphoreVars>>

\* Faulty variant: the permit goes back to the pot, nobody is woken.
ReleaseToPot(r, c, result) ==
  /\ stage' = [stage EXCEPT ![<<r, c>>] = result]
  /\ available' = available + 1
  /\ UNCHANGED waiting

\* Faulty variant: the permit goes back only after a good scrape.
ReleaseAfterSuccess(r, c, result) ==
  /\ stage' = [stage EXCEPT ![<<r, c>>] = result]
  /\ available' = IF result = "ok" /\ waiting = <<>> THEN available + 1 ELSE available
  /\ UNCHANGED waiting

(* The semaphore's release: the permit goes to the first in the queue.      *)
ReleasePermit(r, c, result) ==
  IF waiting = <<>>
  THEN /\ stage' = [stage EXCEPT ![<<r, c>>] = result]
       /\ available' = available + 1
       /\ UNCHANGED waiting
  ELSE /\ stage' = [stage EXCEPT ![<<r, c>>] = result,
                                 ![Head(waiting)] = "scraping"]
       /\ waiting' = Tail(waiting)
       /\ UNCHANGED available

(* The scrape ends, by its own timeout at the latest: the permit goes back  *)
(* in a finally block and the outcome is stored.                            *)
ScrapeEnds(r, c) ==
  /\ Quiet
  /\ stage[<<r, c>>] = "scraping"
  /\ \E result \in {"ok", "error", "lost"} :
       /\ ReleasePermit(r, c, result)
       /\ Settle(r, result, free[r])
  /\ UNCHANGED host

(* All workers have returned: the response, and the coordinator's lease.    *)
FinishSync(r) ==
  /\ call[r] = "syncing"
  /\ \A c \in Conns : stage[<<r, c>>] \in {"ok", "error"}
  /\ call' = [call EXCEPT ![r] = "answered"]
  /\ running' = [running EXCEPT ![host[r]] = FALSE]
  /\ slot' = [slot EXCEPT ![host[r]] = "idle"]
  /\ UNCHANGED <<host, stage, free, semaphoreVars>>

--------------------------------------------------------------------------------
(* The other operations of the profile: backup, restore, import, wipe.      *)
StartOther(p) ==
  /\ Quiet /\ slot[p] = "idle"
  /\ slot' = [slot EXCEPT ![p] = "other"]
  /\ UNCHANGED <<syncVars, semaphoreVars>>

EndOther(p) ==
  /\ Quiet /\ slot[p] = "other"
  /\ slot' = [slot EXCEPT ![p] = "idle"]
  /\ UNCHANGED <<syncVars, semaphoreVars>>

Next ==
  \/ \E r \in Runs : StartSync(r) \/ FinishSync(r)
  \/ \E r \in Runs, c \in Conns : Take(r, c) \/ TakeBroken(r, c) \/ ScrapeEnds(r, c)
  \/ \E p \in Profiles : StartOther(p) \/ EndOther(p)

Spec == Init /\ [][Next]_vars

(* The workers' own code runs on; a scrape ends by its timeout.             *)
Fairness ==
  /\ \A r \in Runs, c \in Conns :
       WF_vars(Take(r, c) \/ TakeBroken(r, c)) /\ WF_vars(ScrapeEnds(r, c))
  /\ \A r \in Runs : WF_vars(FinishSync(r))

FairSpec == Spec /\ Fairness

--------------------------------------------------------------------------------
(* Every variable stays in its domain.                                      *)
TypeOK ==
  /\ slot \in [Profiles -> OperationStates]
  /\ running \in [Profiles -> BOOLEAN]
  /\ call \in [Runs -> {"new", "syncing", "answered", "failed"}]
  /\ host \in [Runs -> Profiles]
  /\ stage \in [Jobs -> Stages]
  /\ free \in [Runs -> 0 .. 2]
  /\ available \in 0 .. Permits
  /\ waiting \in Seq(Jobs)

(* workspaces.ts:150: two browsers in all, however many profiles sync.      *)
(* Every permit is with a scrape or available, none is lost or doubled,     *)
(* though workers fail, die and outlive their request.                      *)
PermitsConserved == available + Cardinality(Scraping) = Permits

(* No permit lies idle while a worker waits for one.                        *)
NoIdlePermit == available > 0 => waiting = <<>>

(* The permits of the two browsers are neither lost nor kept from a worker  *)
(* that waits for one (workspaces.ts:150-176).                              *)
PermitsAreSound == PermitsConserved /\ NoIdlePermit

(* syncProgress says "running" exactly while the coordinator is syncing: a  *)
(* stuck flag would refuse every later sync of the profile.                 *)
RunningMeansSyncing == \A p \in Profiles : running[p] <=> slot[p] = "syncing"

(* A sync ends, so its profile becomes idle again, and a worker that waits  *)
(* for a permit gets one, even when other workers died (workspaces.ts:155,  *)
(* routes.ts:613).                                                          *)
SyncEnds == \A r \in Runs : call[r] = "syncing" ~> call[r] # "syncing"
WaitersAreServed ==
  \A r \in Runs, c \in Conns : stage[<<r, c>>] = "waiting" ~> stage[<<r, c>>] # "waiting"
EverybodyGetsOn == SyncEnds /\ WaitersAreServed

(* The parts of the inductive invariant PermitsConserved rests on: the      *)
(* queue holds each waiting connection at most once, and nothing else.      *)
QueueTyped ==
  /\ stage \in [Jobs -> Stages]
  /\ available \in Nat
  /\ waiting \in Seq(Jobs)

QueuedOnce ==
  /\ \A i \in 1 .. Len(waiting) : stage[waiting[i]] = "waiting"
  /\ \A i, k \in 1 .. Len(waiting) : waiting[i] = waiting[k] => i = k

Inv == QueueTyped /\ QueuedOnce /\ NoIdlePermit /\ PermitsConserved /\ RunningMeansSyncing

(* operation-coordinator.ts:10: operations that mutate the database are     *)
(* serialized, so a worker is at work only while its sync holds the lease.  *)
WorkersHoldTheSlot ==
  \A r \in Runs, c \in Conns : stage[<<r, c>>] \in {"waiting", "scraping"} =>
    call[r] = "syncing" /\ slot[host[r]] = "syncing"
================================================================================
