--------------------------- MODULE ScrapeSync_proofs ---------------------------
(* Proofs about ScrapeSync for every number of profiles, syncs, connections *)
(* and permits, whether or not storing a failure can fail.                  *)
EXTENDS ScrapeSync, FiniteSetTheorems, TLAPS

(* The jobs are finitely many, so the scrapes can be counted.               *)
LEMMA ScrapesAreFinite == IsFiniteSet(Scraping) /\ Cardinality(Scraping) \in Nat
<1>1. IsFiniteSet(Jobs)
  BY RunsAreFinite, ConnsAreFinite, FS_Product DEF Jobs
<1>2. IsFiniteSet(Scraping)
  BY <1>1, FS_Subset DEF Scraping
<1>3. QED BY <1>2, FS_CardinalityType

(* An element is swapped for one that was not there: as many as before.     *)
LEMMA SwapKeepsSize ==
  ASSUME NEW S, IsFiniteSet(S), NEW x \in S, NEW y, y \notin S
  PROVE  Cardinality((S \ {x}) \union {y}) = Cardinality(S)
<1>1. IsFiniteSet(S \ {x}) /\ Cardinality(S \ {x}) = Cardinality(S) - 1
  BY FS_RemoveElement
<1>2. Cardinality((S \ {x}) \union {y}) = Cardinality(S \ {x}) + 1
  BY <1>1, FS_AddElement
<1>3. Cardinality(S) \in Nat
  BY FS_CardinalityType
<1>4. QED BY <1>1, <1>2, <1>3

(* Appending a connection that is not in a queue without repetitions.       *)
LEMMA AppendKeepsOnce ==
  ASSUME NEW q \in Seq(Jobs), NEW j \in Jobs,
         \A i, k \in 1 .. Len(q) : q[i] = q[k] => i = k,
         \A i \in 1 .. Len(q) : q[i] # j
  PROVE  /\ Append(q, j) \in Seq(Jobs)
         /\ Len(Append(q, j)) = Len(q) + 1
         /\ \A i \in 1 .. Len(q) + 1 : Append(q, j)[i] = IF i = Len(q) + 1 THEN j ELSE q[i]
         /\ \A i, k \in 1 .. Len(Append(q, j)) : Append(q, j)[i] = Append(q, j)[k] => i = k
OBVIOUS

(* What is left of a queue without repetitions when its head has gone.      *)
LEMMA TailKeepsOnce ==
  ASSUME NEW q \in Seq(Jobs), q # <<>>,
         \A i, k \in 1 .. Len(q) : q[i] = q[k] => i = k
  PROVE  /\ Head(q) \in Jobs /\ Head(q) = q[1] /\ 1 \in 1 .. Len(q)
         /\ Tail(q) \in Seq(Jobs)
         /\ Len(Tail(q)) = Len(q) - 1
         /\ \A i \in 1 .. Len(Tail(q)) :
              Tail(q)[i] = q[i + 1] /\ i + 1 \in 1 .. Len(q) /\ Tail(q)[i] # Head(q)
         /\ \A i, k \in 1 .. Len(Tail(q)) : Tail(q)[i] = Tail(q)[k] => i = k
OBVIOUS

(* A job is a run and a connection.                                         *)
LEMMA JobParts ==
  /\ \A r \in Runs, c \in Conns : <<r, c>> \in Jobs /\ <<r, c>>[1] = r /\ <<r, c>>[2] = c
  /\ \A j \in Jobs : j[1] \in Runs /\ j[2] \in Conns /\ j = <<j[1], j[2]>>
BY DEF Jobs

(* The semaphore's part of the invariant.                                   *)
Semaphore == QueueTyped /\ QueuedOnce /\ NoIdlePermit /\ PermitsConserved

(* A worker asks for a permit.                                              *)
LEMMA TakeKeeps ==
  ASSUME NEW r \in Runs, NEW c \in Conns, Semaphore, Take(r, c)
  PROVE  Semaphore'
<1> USE DEF Semaphore, QueueTyped, QueuedOnce, NoIdlePermit, PermitsConserved
<1>1. <<r, c>> \in Jobs /\ stage[<<r, c>>] = "queued" /\ <<r, c>> \notin Scraping
  BY JobParts DEF Take, Scraping
<1>2. \A i \in 1 .. Len(waiting) : waiting[i] \in Jobs /\ waiting[i] # <<r, c>>
  BY <1>1
<1>3. CASE available > 0
  <2>1. /\ available' = available - 1 /\ waiting' = waiting /\ waiting = <<>>
        /\ stage' = [stage EXCEPT ![<<r, c>>] = "scraping"]
    BY <1>3 DEF Take
  <2>2. Scraping' = Scraping \union {<<r, c>>}
    BY <1>1, <2>1 DEF Scraping
  <2>3. Cardinality(Scraping') = Cardinality(Scraping) + 1
    BY <1>1, <2>2, ScrapesAreFinite, FS_AddElement
  <2>4. PermitsConserved'
    BY <2>1, <2>3, ScrapesAreFinite, PermitsAreNumbered
  <2>5. stage' \in [Jobs -> Stages]
    BY <1>1, <2>1 DEF Stages
  <2>6. QED BY <1>3, <2>1, <2>4, <2>5
<1>4. CASE ~(available > 0)
  <2>1. /\ available' = available /\ waiting' = Append(waiting, <<r, c>>)
        /\ stage' = [stage EXCEPT ![<<r, c>>] = "waiting"]
    BY <1>4 DEF Take
  <2>2. Scraping' = Scraping
    BY <1>1, <2>1 DEF Scraping
  <2>3. PermitsConserved'
    BY <2>1, <2>2
  <2>4. stage' \in [Jobs -> Stages]
    BY <1>1, <2>1 DEF Stages
  <2>5. /\ waiting' \in Seq(Jobs) /\ Len(waiting') = Len(waiting) + 1
        /\ \A i \in 1 .. Len(waiting') :
             waiting'[i] = IF i = Len(waiting) + 1 THEN <<r, c>> ELSE waiting[i]
        /\ \A i, k \in 1 .. Len(waiting') : waiting'[i] = waiting'[k] => i = k
    <3> DEFINE job == <<r, c>>
    <3>1. /\ waiting \in Seq(Jobs) /\ job \in Jobs
          /\ \A i, k \in 1 .. Len(waiting) : waiting[i] = waiting[k] => i = k
          /\ \A i \in 1 .. Len(waiting) : waiting[i] # job
      BY <1>1, <1>2
    <3> HIDE DEF job, Semaphore, QueueTyped, QueuedOnce, NoIdlePermit, PermitsConserved
    <3>2. /\ Append(waiting, job) \in Seq(Jobs)
          /\ Len(Append(waiting, job)) = Len(waiting) + 1
          /\ \A i \in 1 .. Len(waiting) + 1 :
               Append(waiting, job)[i] = IF i = Len(waiting) + 1 THEN job ELSE waiting[i]
          /\ \A i, k \in 1 .. Len(Append(waiting, job)) :
               Append(waiting, job)[i] = Append(waiting, job)[k] => i = k
      BY <3>1, AppendKeepsOnce
    <3>3. QED BY <2>1, <3>2 DEF job
  <2>6. ASSUME NEW i \in 1 .. Len(waiting') PROVE stage'[waiting'[i]] = "waiting"
    <3>1. CASE i = Len(waiting) + 1
      BY <1>1, <2>1, <2>5, <3>1
    <3>2. CASE i # Len(waiting) + 1
      <4>1. i \in 1 .. Len(waiting) /\ waiting'[i] = waiting[i]
        BY <2>5, <3>2
      <4>2. QED BY <1>2, <2>1, <4>1
    <3>3. QED BY <3>1, <3>2
  <2>7. QED BY <1>4, <2>1, <2>3, <2>4, <2>5, <2>6
<1>5. QED BY <1>3, <1>4

(* A connection fails before a permit was asked for.                        *)
LEMMA TakeBrokenKeeps ==
  ASSUME NEW r \in Runs, NEW c \in Conns, Semaphore, TakeBroken(r, c)
  PROVE  Semaphore'
<1> USE DEF Semaphore, QueueTyped, QueuedOnce, NoIdlePermit, PermitsConserved
<1>1. PICK result \in {"error", "lost"} : stage' = [stage EXCEPT ![<<r, c>>] = result]
  BY DEF TakeBroken
<1>2. /\ <<r, c>> \in Jobs /\ stage[<<r, c>>] = "queued"
      /\ available' = available /\ waiting' = waiting
  BY JobParts DEF TakeBroken, semaphoreVars
<1>3. stage' \in [Jobs -> Stages] /\ Scraping' = Scraping
  BY <1>1, <1>2 DEF Scraping, Stages
<1>4. \A i \in 1 .. Len(waiting) : waiting[i] \in Jobs /\ waiting[i] # <<r, c>>
  BY <1>2
<1>5. QED BY <1>1, <1>2, <1>3, <1>4

(* A scrape ends and its permit goes to the pot or to the next in line.     *)
LEMMA ScrapeEndsKeeps ==
  ASSUME NEW r \in Runs, NEW c \in Conns, Semaphore, ScrapeEnds(r, c)
  PROVE  Semaphore'
<1> USE DEF Semaphore, QueueTyped, QueuedOnce, NoIdlePermit, PermitsConserved
<1>1. PICK result \in {"ok", "error", "lost"} : ReleasePermit(r, c, result)
  BY DEF ScrapeEnds
<1>2. <<r, c>> \in Jobs /\ stage[<<r, c>>] = "scraping" /\ <<r, c>> \in Scraping
  BY JobParts DEF ScrapeEnds, Scraping
<1>3. \A i \in 1 .. Len(waiting) : waiting[i] \in Jobs /\ waiting[i] # <<r, c>>
  BY <1>2
<1>4. CASE waiting = <<>>
  <2>1. /\ available' = available + 1 /\ waiting' = waiting
        /\ stage' = [stage EXCEPT ![<<r, c>>] = result]
    BY <1>1, <1>4 DEF ReleasePermit
  <2>2. stage' \in [Jobs -> Stages] /\ Scraping' = Scraping \ {<<r, c>>}
    BY <1>2, <2>1 DEF Scraping, Stages
  <2>3. Cardinality(Scraping') = Cardinality(Scraping) - 1
    BY <1>2, <2>2, ScrapesAreFinite, FS_RemoveElement
  <2>4. PermitsConserved'
    BY <2>1, <2>3, ScrapesAreFinite, PermitsAreNumbered
  <2>5. QED BY <1>4, <2>1, <2>2, <2>4
<1>5. CASE waiting # <<>>
  <2> DEFINE next == Head(waiting)
  <2>1. /\ next \in Jobs /\ next = waiting[1] /\ 1 \in 1 .. Len(waiting)
        /\ Tail(waiting) \in Seq(Jobs)
        /\ \A i \in 1 .. Len(Tail(waiting)) :
             /\ Tail(waiting)[i] = waiting[i + 1] /\ i + 1 \in 1 .. Len(waiting)
             /\ Tail(waiting)[i] # next
        /\ \A i, k \in 1 .. Len(Tail(waiting)) :
             Tail(waiting)[i] = Tail(waiting)[k] => i = k
    BY <1>5, TailKeepsOnce
  <2>2. next # <<r, c>> /\ stage[next] = "waiting" /\ next \notin Scraping
    BY <1>3, <2>1 DEF Scraping
  <2>3. /\ available' = available /\ waiting' = Tail(waiting)
        /\ stage' = [stage EXCEPT ![<<r, c>>] = result, ![next] = "scraping"]
    BY <1>1, <1>5 DEF ReleasePermit
  <2> HIDE DEF next
  <2>4. /\ stage' \in [Jobs -> Stages]
        /\ \A j \in Jobs : stage'[j] = IF j = <<r, c>> THEN result
                                        ELSE IF j = next THEN "scraping" ELSE stage[j]
    BY <1>2, <2>1, <2>2, <2>3 DEF Stages
  <2>5. Scraping' = (Scraping \ {<<r, c>>}) \union {next}
    BY <1>2, <2>1, <2>2, <2>4 DEF Scraping
  <2>6. Cardinality(Scraping') = Cardinality(Scraping)
    BY <1>2, <2>2, <2>5, ScrapesAreFinite, SwapKeepsSize
  <2>7. ASSUME NEW i \in 1 .. Len(waiting') PROVE stage'[waiting'[i]] = "waiting"
    <3>1. waiting'[i] = waiting[i + 1] /\ i + 1 \in 1 .. Len(waiting) /\ waiting'[i] # next
      BY <2>1, <2>3
    <3>2. QED BY <1>3, <2>4, <3>1
  <2>8. NoIdlePermit'
    BY <1>5, <2>3
  <2>9. QED BY <2>1, <2>3, <2>4, <2>6, <2>7, <2>8
<1>6. QED BY <1>4, <1>5

(* No other step touches the semaphore.                                     *)
LEMMA OthersKeep ==
  Semaphore /\ UNCHANGED <<stage, available, waiting>> => Semaphore'
BY DEF Semaphore, QueueTyped, QueuedOnce, NoIdlePermit, PermitsConserved, Scraping

(* The initial state: nothing is scraped and every permit is there.         *)
LEMMA InitEstablishes == Init => Inv
<1> SUFFICES ASSUME Init PROVE Inv
  OBVIOUS
<1>1. Scraping = {}
  BY JobParts DEF Init, Scraping
<1>2. PermitsConserved
  BY <1>1, FS_EmptySet, PermitsAreNumbered DEF Init, PermitsConserved
<1>3. QED
  BY <1>2, PermitsAreNumbered
  DEF Init, Inv, QueueTyped, QueuedOnce, NoIdlePermit, RunningMeansSyncing, Stages

(* The flag of the sync and the coordinator move together, in every step.   *)
LEMMA FlagFollows ==
  /\ slot \in [Profiles -> OperationStates] /\ running \in [Profiles -> BOOLEAN]
  /\ RunningMeansSyncing /\ [Next]_vars
  => RunningMeansSyncing'
<1> SUFFICES ASSUME slot \in [Profiles -> OperationStates], running \in [Profiles -> BOOLEAN],
                    RunningMeansSyncing, [Next]_vars
             PROVE  RunningMeansSyncing'
  OBVIOUS
<1> USE DEF RunningMeansSyncing, OperationStates
<1>1. CASE \E r \in Runs : StartSync(r) \/ FinishSync(r)
  BY <1>1 DEF StartSync, FinishSync
<1>2. CASE \E r \in Runs, c \in Conns : Take(r, c) \/ TakeBroken(r, c) \/ ScrapeEnds(r, c)
  BY <1>2 DEF Take, TakeBroken, ScrapeEnds, Settle, FailRequest
<1>3. CASE \E p \in Profiles : StartOther(p) \/ EndOther(p)
  BY <1>3 DEF StartOther, EndOther, syncVars
<1>4. CASE UNCHANGED vars
  BY <1>4 DEF vars
<1>5. QED BY <1>1, <1>2, <1>3, <1>4 DEF Next

(* Every step keeps the invariant.                                          *)
LEMMA StepKeepsInv ==
  /\ slot \in [Profiles -> OperationStates] /\ running \in [Profiles -> BOOLEAN]
  /\ Inv /\ [Next]_vars
  => Inv'
<1> SUFFICES ASSUME slot \in [Profiles -> OperationStates], running \in [Profiles -> BOOLEAN],
                    Inv, [Next]_vars
             PROVE  Inv'
  OBVIOUS
<1>1. Semaphore
  BY DEF Inv, Semaphore
<1>2. Semaphore'
  <2>1. CASE \E r \in Runs : StartSync(r) \/ FinishSync(r)
    BY <1>1, <2>1, OthersKeep DEF StartSync, FinishSync, semaphoreVars
  <2>2. CASE \E r \in Runs, c \in Conns : Take(r, c) \/ TakeBroken(r, c) \/ ScrapeEnds(r, c)
    BY <1>1, <2>2, TakeKeeps, TakeBrokenKeeps, ScrapeEndsKeeps
  <2>3. CASE \E p \in Profiles : StartOther(p) \/ EndOther(p)
    BY <1>1, <2>3, OthersKeep DEF StartOther, EndOther, syncVars, semaphoreVars
  <2>4. CASE UNCHANGED vars
    BY <1>1, <2>4, OthersKeep DEF vars
  <2>5. QED BY <2>1, <2>2, <2>3, <2>4 DEF Next
<1>3. RunningMeansSyncing'
  BY FlagFollows DEF Inv
<1>4. QED BY <1>2, <1>3 DEF Inv, Semaphore

(* The coordinators and the flags stay in their domains.                    *)
LEMMA FlagsTyped ==
  Spec => [](slot \in [Profiles -> OperationStates] /\ running \in [Profiles -> BOOLEAN])
<1> DEFINE Typed == slot \in [Profiles -> OperationStates] /\ running \in [Profiles -> BOOLEAN]
<1>1. Init => Typed
  BY DEF Init, OperationStates
<1>2. Typed /\ [Next]_vars => Typed'
  <2> SUFFICES ASSUME Typed, [Next]_vars PROVE Typed'
    OBVIOUS
  <2> USE DEF OperationStates
  <2>1. CASE \E r \in Runs : StartSync(r) \/ FinishSync(r)
    BY <2>1 DEF StartSync, FinishSync
  <2>2. CASE \E r \in Runs, c \in Conns : Take(r, c) \/ TakeBroken(r, c) \/ ScrapeEnds(r, c)
    BY <2>2 DEF Take, TakeBroken, ScrapeEnds, Settle, FailRequest
  <2>3. CASE \E p \in Profiles : StartOther(p) \/ EndOther(p)
    BY <2>3 DEF StartOther, EndOther, syncVars
  <2>4. CASE UNCHANGED vars
    BY <2>4 DEF vars
  <2>5. QED BY <2>1, <2>2, <2>3, <2>4 DEF Next
<1>3. QED BY <1>1, <1>2, PTL DEF Spec

(* The invariant holds in every reachable state.                            *)
THEOREM SyncInvariant == Spec => []Inv
<1>1. QED BY InitEstablishes, StepKeepsInv, FlagsTyped, PTL DEF Spec

(* Every browser permit is with a scrape or available.                      *)
THEOREM PermitsAreConserved == Spec => []PermitsConserved
<1>1. Inv => PermitsConserved
  BY DEF Inv
<1>2. QED BY <1>1, SyncInvariant, PTL

(* No permit lies idle while a worker waits for one.                        *)
THEOREM NoPermitIsIdle == Spec => []NoIdlePermit
<1>1. Inv => NoIdlePermit
  BY DEF Inv
<1>2. QED BY <1>1, SyncInvariant, PTL

(* The progress flag and the coordinator agree.                             *)
THEOREM FlagsAgree == Spec => []RunningMeansSyncing
<1>1. Inv => RunningMeansSyncing
  BY DEF Inv
<1>2. QED BY <1>1, SyncInvariant, PTL

(* Permits are neither lost nor doubled, and none lies idle.                *)
THEOREM PermitSafety == Spec => []PermitsAreSound
<1>1. Inv => PermitsAreSound
  BY DEF Inv, PermitsAreSound
<1>2. QED BY <1>1, SyncInvariant, PTL
================================================================================
