------------------------- MODULE WorkspacePool_proofs -------------------------
(* Proofs about WorkspacePool for every set of profiles, handles and (finite) *)
(* requests, and every cap.                                                   *)
EXTENDS WorkspacePool, FiniteSetTheorems, TLAPS

(* The lease holders of a handle are finitely many.                           *)
LEMMA LeasesAreFinite == \A h \in Handles : IsFiniteSet(LeasesOn(h))
BY RequestsAreFinite, FS_Subset DEF LeasesOn

(* The pool starts in a state that satisfies its invariant.                   *)
LEMMA InitEstablishes == Init => TypeOK /\ Inv
<1> SUFFICES ASSUME Init PROVE TypeOK /\ Inv
  OBVIOUS
<1> USE NoneIsNothing, FirstIsProfile DEF Init
<1>1. PICK h \in Handles :
        /\ entries = [p \in Profiles |-> IF p = First THEN h ELSE None]
        /\ status = [g \in Handles |-> IF g = h THEN "open" ELSE "unused"]
  OBVIOUS
<1>2. TypeOK
  BY <1>1 DEF TypeOK, Statuses, Steps, Phases
<1>3. RefcountCountsLeases
  <2>1. \A g \in Handles : LeasesOn(g) = {}
    BY DEF LeasesOn
  <2>2. QED BY <2>1, FS_EmptySet DEF RefcountCountsLeases
<1>4. /\ EntriesAreOpen
      /\ OpenAreEntries
      /\ OpeningsAreInFlight
      /\ InFlightAreOpenings
      /\ NeverBoth
      /\ NoGhost
  BY <1>1 DEF EntriesAreOpen, OpenAreEntries, OpeningsAreInFlight,
     InFlightAreOpenings, NeverBoth, NoGhost
<1>5. /\ RequestsAreSomewhere
      /\ LeasesPinHandles
      /\ OperationsRun
      /\ OperationKeepsDatabase
      /\ NoneConnectedAfterHttp
      /\ ClosedMeansClosed
  BY DEF RequestsAreSomewhere, LeasesPinHandles, OperationsRun,
     OperationKeepsDatabase, NoneConnectedAfterHttp, ClosedMeansClosed
<1>6. QED BY <1>2, <1>3, <1>4, <1>5 DEF Inv

--------------------------------------------------------------------------------
(* A request granted a lease at once is counted at once.                      *)
LEMMA LeaseOpenKeeps ==
  ASSUME NEW r \in Requests, NEW p \in Profiles, TypeOK, Inv, LeaseOpen(r, p)
  PROVE  TypeOK' /\ Inv'
<1> USE NoneIsNothing DEF LeaseOpen, Arrives, closed, registryVars, poolVars,
    requestVars
<1>1. /\ EntriesAreOpen'
      /\ OpenAreEntries'
      /\ OpeningsAreInFlight'
      /\ InFlightAreOpenings'
      /\ NeverBoth'
      /\ NoGhost'
      /\ ClosedMeansClosed'
  BY DEF TypeOK, Inv, EntriesAreOpen, OpenAreEntries, OpeningsAreInFlight,
     InFlightAreOpenings, NeverBoth, NoGhost, ClosedMeansClosed, Open
<1>2. RequestsAreSomewhere'
  BY DEF TypeOK, Inv, RequestsAreSomewhere, EntriesAreOpen
<1>3. LeasesPinHandles'
  BY DEF TypeOK, Inv, LeasesPinHandles, EntriesAreOpen, ClosedMeansClosed,
     Open
<1>4. OperationsRun'
  BY DEF TypeOK, Inv, OperationsRun, EntriesAreOpen
<1>5. OperationKeepsDatabase'
  BY DEF TypeOK, Inv, OperationKeepsDatabase, EntriesAreOpen, Open
<1>6. NoneConnectedAfterHttp'
  BY DEF TypeOK, Inv, NoneConnectedAfterHttp
<1>7. \A g \in Handles :
        LeasesOn(g)' = IF g = entries[p] THEN LeasesOn(g) \union {r} ELSE LeasesOn(g)
  BY DEF TypeOK, LeasesOn
<1>8. entries[p] \in Handles /\ r \notin LeasesOn(entries[p])
  BY DEF TypeOK, LeasesOn
<1>9. Cardinality(LeasesOn(entries[p]) \union {r})
         = Cardinality(LeasesOn(entries[p])) + 1
  <2> HIDE DEF LeaseOpen
  <2>1. IsFiniteSet(LeasesOn(entries[p]))
    BY <1>8, LeasesAreFinite
  <2>2. QED BY <1>8, <2>1, FS_AddElement, Zenon
<1>10. RefcountCountsLeases'
  BY <1>7, <1>8, <1>9 DEF TypeOK, Inv, RefcountCountsLeases
<1>11. RefcountCountsLeases' /\ TypeOK'
  BY <1>8, <1>10 DEF TypeOK, Steps, Phases
<1>12. QED BY <1>1, <1>2, <1>3, <1>4, <1>5, <1>6, <1>11 DEF Inv

(* A request that joins an open in flight holds no lease yet.                 *)
LEMMA JoinOpeningKeeps ==
  ASSUME NEW r \in Requests, NEW p \in Profiles, TypeOK, Inv, JoinOpening(r, p)
  PROVE  TypeOK' /\ Inv'
<1> USE NoneIsNothing DEF JoinOpening, Arrives, closed, registryVars,
    poolVars, requestVars
<1>1. /\ EntriesAreOpen'
      /\ OpenAreEntries'
      /\ OpeningsAreInFlight'
      /\ InFlightAreOpenings'
      /\ NeverBoth'
      /\ NoGhost'
      /\ OperationKeepsDatabase'
      /\ ClosedMeansClosed'
  BY DEF TypeOK, Inv, EntriesAreOpen, OpenAreEntries, OpeningsAreInFlight,
     InFlightAreOpenings, NeverBoth, NoGhost, OperationKeepsDatabase,
     ClosedMeansClosed, Open
<1>2. RequestsAreSomewhere'
  BY DEF TypeOK, Inv, RequestsAreSomewhere, OpeningsAreInFlight
<1>3. LeasesPinHandles'
  BY DEF TypeOK, Inv, LeasesPinHandles
<1>4. OperationsRun'
  BY DEF TypeOK, Inv, OperationsRun
<1>5. NoneConnectedAfterHttp'
  BY DEF TypeOK, Inv, NoneConnectedAfterHttp
<1>6. \A g \in Handles : LeasesOn(g)' = LeasesOn(g)
  BY DEF TypeOK, Inv, LeasesOn
<1>7. RefcountCountsLeases' /\ TypeOK'
  BY <1>6 DEF TypeOK, Inv, RefcountCountsLeases, Statuses, Steps, Phases
<1>8. QED BY <1>1, <1>2, <1>3, <1>4, <1>5, <1>7 DEF Inv

(* A new open takes a fresh handle for a profile that has none.               *)
LEMMA StartOpenKeeps ==
  ASSUME NEW r \in Requests, NEW p \in Profiles, NEW h \in Handles, TypeOK, Inv, StartOpen(r, p, h)
  PROVE  TypeOK' /\ Inv'
<1> USE NoneIsNothing DEF StartOpen, NewOpen, Arrives, closed, registryVars,
    poolVars, requestVars
<1>1. EntriesAreOpen'
  BY DEF TypeOK, Inv, EntriesAreOpen
<1>2. OpenAreEntries'
  BY DEF TypeOK, Inv, OpenAreEntries
<1>3. OpeningsAreInFlight'
  BY DEF TypeOK, Inv, OpeningsAreInFlight
<1>4. InFlightAreOpenings'
  BY DEF TypeOK, Inv, InFlightAreOpenings
<1>5. NeverBoth'
  BY DEF TypeOK, Inv, NeverBoth
<1>6. NoGhost'
  BY DEF TypeOK, Inv, NoGhost
<1>7. RequestsAreSomewhere'
  BY DEF TypeOK, Inv, RequestsAreSomewhere
<1>8. LeasesPinHandles'
  BY DEF TypeOK, Inv, LeasesPinHandles
<1>9. OperationsRun'
  BY DEF TypeOK, Inv, OperationsRun
<1>10. OperationKeepsDatabase'
  BY DEF TypeOK, Inv, OperationKeepsDatabase, Open
<1>11. NoneConnectedAfterHttp'
  BY DEF TypeOK, Inv, NoneConnectedAfterHttp
<1>12. ClosedMeansClosed'
  BY DEF TypeOK, Inv, ClosedMeansClosed, Open
<1>13. \A g \in Handles : LeasesOn(g)' = LeasesOn(g)
  BY DEF TypeOK, Inv, LeasesOn
<1>14. RefcountCountsLeases' /\ TypeOK'
  BY <1>13 DEF TypeOK, Inv, RefcountCountsLeases, Statuses, Steps, Phases
<1>15. QED BY <1>1, <1>2, <1>3, <1>4, <1>5, <1>6, <1>7, <1>8, <1>9, <1>10,
    <1>11, <1>12, <1>14 DEF Inv

(* An open that ends well; its victims are held by no lease.                  *)
LEMMA OpenSucceedsKeeps ==
  ASSUME NEW h \in Handles, TypeOK, Inv, OpenSucceeds(h)
  PROVE  TypeOK' /\ Inv'
<1> USE NoneIsNothing DEF OpenSucceeds, Enter, Waiting, Victims, Evictable,
    closed, registryVars, poolVars, requestVars
<1>1. EntriesAreOpen'
  BY DEF TypeOK, Inv, EntriesAreOpen, OpenAreEntries
<1>2. OpenAreEntries'
  BY DEF TypeOK, Inv, OpenAreEntries, EntriesAreOpen, NeverBoth,
     OpeningsAreInFlight, InFlightAreOpenings
<1>3. OpeningsAreInFlight'
  BY DEF TypeOK, Inv, OpeningsAreInFlight, InFlightAreOpenings, Open
<1>4. InFlightAreOpenings'
  BY DEF TypeOK, Inv, InFlightAreOpenings, OpeningsAreInFlight
<1>5. NeverBoth'
  BY DEF TypeOK, Inv, NeverBoth
<1>6. NoGhost'
  BY DEF TypeOK, Inv, NoGhost
<1>7. RequestsAreSomewhere'
  <2>1. \A g \in Handles \ {h} : status[g] = "opening" => status'[g] = "opening"
    BY DEF Open
  <2>2. /\ at' = at /\ conn' = conn
        /\ \A r \in Requests : pc'[r] = IF pc[r] = "waiting" /\ at[r] = h THEN "running" ELSE pc[r]
        /\ \A r \in Requests : leased'[r] = (leased[r] \/ (pc[r] = "waiting" /\ at[r] = h))
    OBVIOUS
  <2> HIDE DEF OpenSucceeds, Enter, Victims, Evictable
  <2>3. QED BY <2>1, <2>2 DEF Inv, RequestsAreSomewhere
<1>8. LeasesPinHandles'
  <2>1. \A g \in Handles : refcount[g] = 0 => LeasesOn(g) = {}
    BY LeasesAreFinite, FS_EmptySet DEF Inv, RefcountCountsLeases
  <2>2. QED
    BY <2>1 DEF TypeOK, Inv, RequestsAreSomewhere, LeasesPinHandles, LeasesOn, ClosedMeansClosed, Open
<1>9. OperationsRun'
  BY DEF TypeOK, Inv, OperationsRun
<1>10. OperationKeepsDatabase'
  BY DEF TypeOK, Inv, OperationKeepsDatabase, OperationsRun, Open
<1>11. NoneConnectedAfterHttp'
  BY DEF TypeOK, Inv, NoneConnectedAfterHttp
<1>12. ClosedMeansClosed'
  BY DEF TypeOK, Inv, ClosedMeansClosed, Open
<1>13. \A g \in Handles :
        LeasesOn(g)' = IF g = h THEN Waiting(h) ELSE LeasesOn(g)
  <2>1. \A r \in Requests : leased[r] => at[r] # h
    BY DEF Inv, LeasesPinHandles
  <2>2. /\ at' = at
        /\ \A r \in Requests : leased'[r] = (leased[r] \/ (pc[r] = "waiting" /\ at[r] = h))
    OBVIOUS
  <2>3. \A r \in Requests : pc[r] = "waiting" => ~leased[r]
    BY DEF Inv, RequestsAreSomewhere
  <2> HIDE DEF OpenSucceeds, Enter, Victims, Evictable
  <2>4. \A g \in Handles, r \in Requests :
          (leased'[r] /\ at'[r] = g)
            <=> IF g = h THEN pc[r] = "waiting" /\ at[r] = h ELSE leased[r] /\ at[r] = g
    BY <2>1, <2>2
  <2>5. QED BY <2>4 DEF LeasesOn
<1>14. refcount' = [refcount EXCEPT ![h] = Cardinality(Waiting(h))]
  OBVIOUS
<1>15. RefcountCountsLeases'
  BY <1>13, <1>14, ZenonT(30) DEF TypeOK, Inv, RefcountCountsLeases
<1>16. Cardinality(Waiting(h)) \in Nat
  BY RequestsAreFinite, FS_Subset, FS_CardinalityType
<1>17. RefcountCountsLeases' /\ TypeOK'
  <2>1. refcount' \in [Handles -> Nat]
    BY <1>14, <1>16 DEF TypeOK
  <2>2. QED BY <1>15, <2>1 DEF TypeOK, Statuses, Steps, Phases
<1>18. QED BY <1>1, <1>2, <1>3, <1>4, <1>5, <1>6, <1>7, <1>8, <1>9, <1>10,
    <1>11, <1>12, <1>17 DEF Inv

(* An open that fails, or comes back too late, answers its waiters.           *)
LEMMA OpenFailsKeeps ==
  ASSUME NEW h \in Handles, TypeOK, Inv, OpenFails(h)
  PROVE  TypeOK' /\ Inv'
<1> USE NoneIsNothing DEF OpenFails, Waiting, registryVars, poolVars,
    requestVars
<1>1. /\ OpenAreEntries'
      /\ NeverBoth'
      /\ NoGhost'
      /\ OperationKeepsDatabase'
      /\ NoneConnectedAfterHttp'
      /\ ClosedMeansClosed'
  BY DEF TypeOK, Inv, OpenAreEntries, NeverBoth, NoGhost,
     OperationKeepsDatabase, NoneConnectedAfterHttp, ClosedMeansClosed, Open
<1>2. EntriesAreOpen'
  BY DEF TypeOK, Inv, EntriesAreOpen
<1>3. OpeningsAreInFlight'
  BY DEF TypeOK, Inv, OpeningsAreInFlight
<1>4. InFlightAreOpenings'
  BY DEF TypeOK, Inv, InFlightAreOpenings
<1>5. RequestsAreSomewhere'
  BY DEF TypeOK, Inv, RequestsAreSomewhere
<1>6. LeasesPinHandles'
  BY DEF TypeOK, Inv, LeasesPinHandles
<1>7. OperationsRun'
  BY DEF TypeOK, Inv, OperationsRun
<1>8. \A g \in Handles : LeasesOn(g)' = LeasesOn(g)
  BY DEF TypeOK, Inv, LeasesOn, RequestsAreSomewhere
<1>9. RefcountCountsLeases' /\ TypeOK'
  BY <1>8 DEF TypeOK, Inv, RefcountCountsLeases, Statuses, Steps, Phases
<1>10. QED BY <1>1, <1>2, <1>3, <1>4, <1>5, <1>6, <1>7, <1>9 DEF Inv

(* A client that goes gives its lease back, if it had one.                    *)
LEMMA DisconnectKeeps ==
  ASSUME NEW r \in Requests, TypeOK, Inv, Disconnect(r)
  PROVE  TypeOK' /\ Inv'
<1> USE NoneIsNothing DEF Disconnect, ReleaseLease, registryVars, poolVars,
    requestVars
<1>1. /\ EntriesAreOpen'
      /\ OpenAreEntries'
      /\ OpeningsAreInFlight'
      /\ InFlightAreOpenings'
      /\ NeverBoth'
      /\ NoGhost'
      /\ OperationsRun'
      /\ OperationKeepsDatabase'
      /\ ClosedMeansClosed'
  BY DEF TypeOK, Inv, EntriesAreOpen, OpenAreEntries, OpeningsAreInFlight,
     InFlightAreOpenings, NeverBoth, NoGhost, OperationsRun,
     OperationKeepsDatabase, ClosedMeansClosed, Open
<1>2. RequestsAreSomewhere'
  BY DEF TypeOK, Inv, RequestsAreSomewhere
<1>3. LeasesPinHandles'
  BY DEF TypeOK, Inv, LeasesPinHandles
<1>4. NoneConnectedAfterHttp'
  BY DEF TypeOK, Inv, NoneConnectedAfterHttp
<1>5. \A g \in Handles :
        LeasesOn(g)' = IF leased[r] /\ g = at[r] THEN LeasesOn(g) \ {r} ELSE LeasesOn(g)
  BY DEF TypeOK, LeasesOn
<1>6. leased[r] => at[r] \in Handles /\ r \in LeasesOn(at[r])
  BY DEF Inv, LeasesPinHandles, LeasesOn
<1>7. RefcountCountsLeases' /\ TypeOK'
  <2>1. CASE leased[r]
    <3>1. refcount' = [refcount EXCEPT ![at[r]] = @ - 1]
      BY <2>1
    <3>2. refcount[at[r]] - 1 = Cardinality(LeasesOn(at[r]) \ {r})
      BY <1>6, <2>1, LeasesAreFinite, FS_RemoveElement, ZenonT(30) DEF Inv, RefcountCountsLeases
    <3>3. refcount[at[r]] - 1 \in Nat
      BY <1>6, <2>1, <3>2, LeasesAreFinite, FS_RemoveElement, FS_CardinalityType
    <3>4. RefcountCountsLeases'
      BY <1>5, <1>6, <2>1, <3>1, <3>2 DEF TypeOK, Inv, RefcountCountsLeases
    <3>5. refcount' \in [Handles -> Nat]
      BY <3>1, <3>3 DEF TypeOK
    <3>6. TypeOK'
      BY <3>5 DEF TypeOK, Steps, Phases
    <3>7. QED BY <3>4, <3>6
  <2>2. CASE ~(leased[r])
    BY <1>5, <2>2 DEF TypeOK, Inv, RefcountCountsLeases, Steps, Phases
  <2>3. QED BY <2>1, <2>2
<1>8. QED BY <1>1, <1>2, <1>3, <1>4, <1>7 DEF Inv

(* A handler that ends gives back what it still holds.                        *)
LEMMA RespondKeeps ==
  ASSUME NEW r \in Requests, TypeOK, Inv, Respond(r)
  PROVE  TypeOK' /\ Inv'
<1> USE NoneIsNothing DEF Respond, ReleaseLease, InHandler, registryVars,
    poolVars, requestVars
<1>1. /\ EntriesAreOpen'
      /\ OpenAreEntries'
      /\ OpeningsAreInFlight'
      /\ InFlightAreOpenings'
      /\ NeverBoth'
      /\ NoGhost'
      /\ ClosedMeansClosed'
  BY DEF TypeOK, Inv, EntriesAreOpen, OpenAreEntries, OpeningsAreInFlight,
     InFlightAreOpenings, NeverBoth, NoGhost, ClosedMeansClosed, Open
<1>2. RequestsAreSomewhere'
  BY DEF TypeOK, Inv, RequestsAreSomewhere
<1>3. LeasesPinHandles'
  BY DEF TypeOK, Inv, LeasesPinHandles
<1>4. OperationsRun'
  BY DEF TypeOK, Inv, OperationsRun
<1>5. OperationKeepsDatabase'
  BY DEF TypeOK, Inv, OperationKeepsDatabase, Open
<1>6. NoneConnectedAfterHttp'
  BY DEF TypeOK, Inv, NoneConnectedAfterHttp
<1>7. \A g \in Handles :
        LeasesOn(g)' = IF leased[r] /\ conn[r] = "open" /\ g = at[r] THEN LeasesOn(g) \ {r} ELSE LeasesOn(g)
  BY DEF TypeOK, LeasesOn
<1>8. leased[r] => at[r] \in Handles /\ r \in LeasesOn(at[r])
  BY DEF Inv, LeasesPinHandles, LeasesOn
<1>9. RefcountCountsLeases' /\ TypeOK'
  <2>1. CASE leased[r] /\ conn[r] = "open"
    <3>1. refcount' = [refcount EXCEPT ![at[r]] = @ - 1]
      BY <2>1
    <3>2. refcount[at[r]] - 1 = Cardinality(LeasesOn(at[r]) \ {r})
      BY <1>8, <2>1, LeasesAreFinite, FS_RemoveElement DEF Inv, RefcountCountsLeases
    <3>3. refcount[at[r]] - 1 \in Nat
      BY <1>8, <2>1, <3>2, LeasesAreFinite, FS_RemoveElement, FS_CardinalityType
    <3>4. RefcountCountsLeases'
      BY <1>7, <1>8, <2>1, <3>1, <3>2 DEF TypeOK, Inv, RefcountCountsLeases
    <3>5. refcount' \in [Handles -> Nat]
      BY <3>1, <3>3 DEF TypeOK
    <3>6. TypeOK'
      BY <3>5 DEF TypeOK, Steps, Phases
    <3>7. QED BY <3>4, <3>6
  <2>2. CASE ~(leased[r] /\ conn[r] = "open")
    BY <1>7, <2>2 DEF TypeOK, Inv, RefcountCountsLeases, Steps, Phases
  <2>3. QED BY <2>1, <2>2
<1>10. QED BY <1>1, <1>2, <1>3, <1>4, <1>5, <1>6, <1>9 DEF Inv

(* A deleted profile was neither opened nor leased.                           *)
LEMMA DeleteProfileKeeps ==
  ASSUME NEW p \in Profiles, TypeOK, Inv, DeleteProfile(p)
  PROVE  TypeOK' /\ Inv'
<1> USE NoneIsNothing DEF DeleteProfile, CloseAndDelete, Evictable, closed,
    registryVars, poolVars, requestVars
<1>1. /\ OperationsRun'
      /\ NoneConnectedAfterHttp'
  BY DEF TypeOK, Inv, OperationsRun, NoneConnectedAfterHttp
<1>2. EntriesAreOpen'
  BY DEF TypeOK, Inv, EntriesAreOpen
<1>3. OpenAreEntries'
  BY DEF TypeOK, Inv, OpenAreEntries, EntriesAreOpen
<1>4. OpeningsAreInFlight'
  BY DEF TypeOK, Inv, OpeningsAreInFlight, EntriesAreOpen
<1>5. InFlightAreOpenings'
  BY DEF TypeOK, Inv, InFlightAreOpenings, EntriesAreOpen
<1>6. NeverBoth'
  BY DEF TypeOK, Inv, NeverBoth
<1>7. NoGhost'
  BY DEF TypeOK, Inv, NoGhost, OpenAreEntries, InFlightAreOpenings,
     EntriesAreOpen
<1>8. RequestsAreSomewhere'
  BY DEF TypeOK, Inv, RequestsAreSomewhere, EntriesAreOpen
<1>9. LeasesPinHandles'
  <2>1. \A g \in Handles : refcount[g] = 0 => LeasesOn(g) = {}
    BY LeasesAreFinite, FS_EmptySet DEF Inv, RefcountCountsLeases
  <2>2. QED
    BY <2>1 DEF TypeOK, Inv, RequestsAreSomewhere, LeasesPinHandles, LeasesOn, ClosedMeansClosed, Open
<1>10. OperationKeepsDatabase'
  BY DEF TypeOK, Inv, OperationKeepsDatabase, Open
<1>11. ClosedMeansClosed'
  BY DEF TypeOK, Inv, ClosedMeansClosed, Open
<1>12. \A g \in Handles : LeasesOn(g)' = LeasesOn(g)
  BY DEF TypeOK, Inv, LeasesOn
<1>13. RefcountCountsLeases' /\ TypeOK'
  BY <1>12 DEF TypeOK, Inv, RefcountCountsLeases, Statuses, Steps, Phases
<1>14. QED BY <1>1, <1>2, <1>3, <1>4, <1>5, <1>6, <1>7, <1>8, <1>9, <1>10,
    <1>11, <1>13 DEF Inv

(* closeAll finds no operation and no connected request.                      *)
LEMMA CloseAllKeeps ==
  ASSUME TypeOK, Inv, CloseAll
  PROVE  TypeOK' /\ Inv'
<1> USE NoneIsNothing DEF CloseAll, CloseEntries, registryVars, poolVars,
    requestVars
<1>1. /\ OpeningsAreInFlight'
      /\ InFlightAreOpenings'
      /\ NeverBoth'
      /\ NoGhost'
      /\ OperationsRun'
      /\ NoneConnectedAfterHttp'
  BY DEF TypeOK, Inv, OpeningsAreInFlight, InFlightAreOpenings, NeverBoth,
     NoGhost, OperationsRun, NoneConnectedAfterHttp
<1>2. EntriesAreOpen'
  BY DEF TypeOK, Inv, EntriesAreOpen
<1>3. OpenAreEntries'
  BY DEF TypeOK, Inv, OpenAreEntries
<1>4. RequestsAreSomewhere'
  BY DEF TypeOK, Inv, RequestsAreSomewhere
<1>5. LeasesPinHandles'
  BY DEF TypeOK, Inv, LeasesPinHandles
<1>6. OperationKeepsDatabase'
  BY DEF TypeOK, Inv, OperationKeepsDatabase, Open
<1>7. ClosedMeansClosed'
  BY DEF TypeOK, Inv, ClosedMeansClosed, Open
<1>8. \A g \in Handles : LeasesOn(g)' = LeasesOn(g)
  BY DEF TypeOK, Inv, LeasesOn
<1>9. RefcountCountsLeases' /\ TypeOK'
  BY <1>8 DEF TypeOK, Inv, RefcountCountsLeases, Statuses, Steps, Phases
<1>10. QED BY <1>1, <1>2, <1>3, <1>4, <1>5, <1>6, <1>7, <1>9 DEF Inv

(* Creating a profile and the two steps that only advance the shutdown.       *)
LEMMA OthersKeep ==
  ASSUME TypeOK, Inv,
         (\E p \in Profiles : CreateProfile(p)) \/ BeginShutdown \/ HttpClosed
  PROVE  TypeOK' /\ Inv'
<1> USE DEF CreateProfile, BeginShutdown, HttpClosed, closed, registryVars,
    poolVars, requestVars
<1>1. \A g \in Handles : LeasesOn(g)' = LeasesOn(g)
  BY DEF LeasesOn
<1>2. RefcountCountsLeases' /\ TypeOK'
  BY <1>1 DEF TypeOK, Inv, RefcountCountsLeases, Phases
<1>3. /\ EntriesAreOpen'
      /\ OpenAreEntries'
      /\ OpeningsAreInFlight'
      /\ InFlightAreOpenings'
      /\ NeverBoth'
      /\ NoGhost'
      /\ RequestsAreSomewhere'
      /\ OperationsRun'
  BY DEF Inv, EntriesAreOpen, OpenAreEntries, OpeningsAreInFlight,
     InFlightAreOpenings, NeverBoth, NoGhost, RequestsAreSomewhere, OperationsRun
<1>4. LeasesPinHandles' /\ OperationKeepsDatabase' /\ ClosedMeansClosed'
  BY DEF Inv, LeasesPinHandles, OperationKeepsDatabase, ClosedMeansClosed, Open
<1>5. NoneConnectedAfterHttp'
  BY DEF TypeOK, Inv, NoneConnectedAfterHttp
<1>6. QED BY <1>2, <1>3, <1>4, <1>5 DEF Inv

--------------------------------------------------------------------------------
(* The types and the inductive invariant hold in every reachable state.       *)
THEOREM PoolInvariant == Spec => [](TypeOK /\ Inv)
<1>1. TypeOK /\ Inv /\ [Next]_vars => TypeOK' /\ Inv'
  <2> SUFFICES ASSUME TypeOK, Inv, [Next]_vars PROVE TypeOK' /\ Inv'
    OBVIOUS
  <2>1. CASE UNCHANGED vars
    BY <2>1 DEF vars, TypeOK, Inv, EntriesAreOpen, OpenAreEntries,
       OpeningsAreInFlight, InFlightAreOpenings, NeverBoth, NoGhost,
       RequestsAreSomewhere, LeasesPinHandles, OperationsRun,
       OperationKeepsDatabase, NoneConnectedAfterHttp, ClosedMeansClosed,
       RefcountCountsLeases, LeasesOn, Open
  <2>2. QED
    BY <2>1, LeaseOpenKeeps, JoinOpeningKeeps, StartOpenKeeps,
       OpenSucceedsKeeps, OpenFailsKeeps, DisconnectKeeps, RespondKeeps,
       DeleteProfileKeeps, CloseAllKeeps, OthersKeep DEF Next
<1>2. QED BY <1>1, InitEstablishes, PTL DEF Spec

(* Every variable of the pool stays in its domain: no refcount is negative.   *)
THEOREM TypeCorrect == Spec => []TypeOK
BY PoolInvariant, PTL

(* No connected client is ever served from a closed database.                 *)
THEOREM ConnectedRequestsAreSafe == Spec => []ConnectedRequestKeepsDatabase
<1>1. TypeOK /\ Inv => ConnectedRequestKeepsDatabase
  BY DEF TypeOK, Inv, ConnectedRequestKeepsDatabase, RequestsAreSomewhere,
     LeasesPinHandles, NoneConnectedAfterHttp, InHandler, Open
<1>2. QED BY <1>1, PoolInvariant, PTL

(* One database file is never open, or being opened, twice.                   *)
THEOREM HandlesAreUnique == Spec => []OneHandlePerProfile
<1>1. TypeOK /\ Inv => OneHandlePerProfile
  BY NoneIsNothing DEF TypeOK, Inv, OneHandlePerProfile, OpenAreEntries,
     InFlightAreOpenings, NeverBoth
<1>2. QED BY <1>1, PoolInvariant, PTL

(* A deleted profile has neither an open database nor an open in flight.      *)
THEOREM NoGhostProfiles == Spec => []NoGhost
<1>1. Inv => NoGhost
  BY DEF Inv
<1>2. QED BY <1>1, PoolInvariant, PTL

(* The refcount of every entry is exactly the number of unreleased leases.    *)
THEOREM RefcountsAreExact == Spec => []RefcountCountsLeases
<1>1. Inv => RefcountCountsLeases
  BY DEF Inv
<1>2. QED BY <1>1, PoolInvariant, PTL

(* An operation's database is open until the operation ends.                  *)
THEOREM OperationsAreSafe == Spec => []OperationKeepsDatabase
<1>1. Inv => OperationKeepsDatabase
  BY DEF Inv
<1>2. QED BY <1>1, PoolInvariant, PTL

(* After closeAll no database is open, however late an open came back.        *)
THEOREM ShutdownLeavesNothingOpen == Spec => []ClosedMeansClosed
<1>1. Inv => ClosedMeansClosed
  BY DEF Inv
<1>2. QED BY <1>1, PoolInvariant, PTL

(* The pool's handles: one each, none of a deleted profile, counted exactly,  *)
(* and closed in the end.                                                     *)
THEOREM HandleSafety == Spec => []HandlesAreSound
<1>1. QED
  BY HandlesAreUnique, NoGhostProfiles, RefcountsAreExact, ShutdownLeavesNothingOpen, PTL
  DEF HandlesAreSound

--------------------------------------------------------------------------------
(* The cap.                                                                   *)

(* A database opens by the end of its open, and in no other way.              *)
LEMMA OnlyOpensOpen ==
  ASSUME TypeOK, [Next]_vars, NEW h \in Handles, status[h] # "open", status'[h] = "open"
  PROVE  OpenSucceeds(h)
<1> USE DEF TypeOK
<1>1. ASSUME NEW g \in Handles, OpenSucceeds(g) PROVE g = h
  BY <1>1 DEF OpenSucceeds, Enter
<1>2. ASSUME NEW g \in Handles, OpenFails(g) PROVE FALSE
  BY <1>2 DEF OpenFails
<1>3. ASSUME NEW r \in Requests, NEW p \in Profiles, NEW g \in Handles, StartOpen(r, p, g) PROVE FALSE
  BY <1>3 DEF StartOpen, NewOpen
<1>4. ASSUME NEW r \in Requests, NEW p \in Profiles, LeaseOpen(r, p) \/ JoinOpening(r, p) PROVE FALSE
  BY <1>4 DEF LeaseOpen, JoinOpening, poolVars
<1>5. ASSUME NEW p \in Profiles, DeleteProfile(p) PROVE FALSE
  BY <1>5 DEF DeleteProfile, CloseAndDelete
<1>6. ASSUME CloseAll PROVE FALSE
  BY <1>6 DEF CloseAll, CloseEntries
<1>7. ASSUME UNCHANGED status PROVE FALSE
  BY <1>7
<1>8. ASSUME NEW r \in Requests, Disconnect(r) \/ Respond(r) PROVE UNCHANGED status
  BY <1>8 DEF Disconnect, Respond, poolVars
<1>9. ASSUME NEW p \in Profiles, CreateProfile(p) PROVE UNCHANGED status
  BY <1>9 DEF CreateProfile, poolVars
<1>10. ASSUME BeginShutdown \/ HttpClosed \/ UNCHANGED vars PROVE UNCHANGED status
  BY <1>10 DEF BeginShutdown, HttpClosed, vars, poolVars
<1>11. QED
  BY <1>1, <1>2, <1>3, <1>4, <1>5, <1>6, <1>7, <1>8, <1>9, <1>10 DEF Next

(* There are finitely many open databases: each open adds one.                *)
LEMMA OpenStaysFinite ==
  ASSUME TypeOK, IsFiniteSet(Open), [Next]_vars PROVE IsFiniteSet(Open')
<1>1. \E h : Open' \subseteq Open \cup {h}
  <2>1. ASSUME NEW h \in Handles, OpenSucceeds(h) PROVE Open' \subseteq Open \cup {h}
    BY <2>1 DEF OpenSucceeds, Enter, Open, TypeOK
  <2>2. ASSUME ~(\E h \in Handles : OpenSucceeds(h)) PROVE Open' \subseteq Open
    BY <2>2, OnlyOpensOpen DEF Open
  <2>3. QED BY <2>1, <2>2
<1>2. PICK h : Open' \subseteq Open \cup {h}
  BY <1>1
<1>3. QED BY <1>2, FS_AddElement, FS_Subset

(* What the loop of enforceCap leaves of the entries when one more comes in.  *)
LEMMA CapIsKept ==
  ASSUME TypeOK, IsFiniteSet(Open), NEW h \in Handles, status[h] = "opening",
         NEW victims \in Victims(h), NEW S, S = (Open \cup {h}) \ victims
  PROVE  /\ Cardinality(S) <= MaxOpen \/ \A g \in S \ {h} : ~Evictable(g)
         /\ Cardinality(S) >= MaxOpen \/ Open \subseteq S
<1> DEFINE candidates == {g \in Open \ {h} : Evictable(g)}
           n == Cardinality(Open \cup {h})
<1>1. /\ victims \subseteq candidates
      /\ \/ Cardinality(victims) = OverCap(n)
         \/ victims = candidates /\ Cardinality(candidates) < OverCap(n)
  BY DEF Victims
<1>2. IsFiniteSet(Open \cup {h}) /\ victims \subseteq Open \cup {h}
  BY <1>1, FS_AddElement
<1>3. /\ IsFiniteSet(victims) /\ Cardinality(victims) \in Nat /\ n \in Nat
      /\ Cardinality(S) = n - Cardinality(victims)
  <2>1. (Open \cup {h}) \cap victims = victims
    BY <1>2
  <2>2. IsFiniteSet(victims) /\ Cardinality(victims) \in Nat
    BY <1>2, FS_Subset, FS_CardinalityType
  <2>3. n \in Nat /\ Cardinality(S) = n - Cardinality(victims)
    BY <1>2, <2>1, FS_CardinalityType, FS_Difference, ZenonT(30)
  <2>4. QED BY <2>2, <2>3
<1>4. MaxOpen \in Nat
  BY MaxOpenIsPositive
<1>5. CASE Cardinality(victims) = OverCap(n) /\ n <= MaxOpen
  <2>1. Cardinality(victims) = 0
    BY <1>3, <1>4, <1>5 DEF OverCap
  <2>2. victims = {}
    BY <1>3, <2>1, FS_EmptySet
  <2>3. QED BY <1>3, <1>4, <1>5, <2>1, <2>2
<1>6. CASE Cardinality(victims) = OverCap(n) /\ n > MaxOpen
  BY <1>3, <1>4, <1>6 DEF OverCap
<1>7. CASE victims = candidates /\ Cardinality(candidates) < OverCap(n)
  <2>1. \A g \in S \ {h} : ~Evictable(g)
    BY <1>7
  <2>2. Cardinality(S) >= MaxOpen
    BY <1>3, <1>4, <1>7 DEF OverCap
  <2>3. QED BY <2>1, <2>2
<1>8. QED BY <1>1, <1>3, <1>4, <1>5, <1>6, <1>7

(* The cap of open databases yields to databases in use only, and closes no   *)
(* more than it asks for, whichever idle ones it takes (workspaces.ts:327).   *)
THEOREM CapIsObeyed == Spec => CapYieldsOnlyToUse
<1>1. Init => IsFiniteSet(Open)
  <2> SUFFICES ASSUME Init PROVE IsFiniteSet(Open)
    OBVIOUS
  <2>1. PICK h \in Handles : Open = {h}
    BY DEF Init, Open
  <2>2. QED BY <2>1, FS_Singleton
<1>2. TypeOK /\ IsFiniteSet(Open) /\ [Next]_vars => IsFiniteSet(Open)'
  BY OpenStaysFinite
<1>3. TypeOK /\ IsFiniteSet(Open) /\ [Next]_vars =>
        [\A h \in Handles : status[h] = "opening" /\ status'[h] = "open" =>
           /\ \/ Cardinality(Open') <= MaxOpen
              \/ \A g \in Open' \ {h} : ~Evictable(g)
           /\ Cardinality(Open') >= MaxOpen \/ Open \subseteq Open']_vars
  <2> SUFFICES ASSUME TypeOK, IsFiniteSet(Open), [Next]_vars,
                      NEW h \in Handles, status[h] = "opening", status'[h] = "open"
               PROVE  /\ \/ Cardinality(Open') <= MaxOpen
                         \/ \A g \in Open' \ {h} : ~Evictable(g)
                      /\ Cardinality(Open') >= MaxOpen \/ Open \subseteq Open'
    OBVIOUS
  <2>1. OpenSucceeds(h)
    BY OnlyOpensOpen
  <2>2. PICK victims \in Victims(h) :
          status' = [g \in Handles |-> IF g = h THEN "open" ELSE IF g \in victims THEN "closed" ELSE status[g]]
    BY <2>1 DEF OpenSucceeds, Enter
  <2>3. h \notin victims
    BY DEF Victims
  <2>4. Open' = (Open \cup {h}) \ victims
    BY <2>2, <2>3 DEF Open
  <2>5. QED BY <2>4, CapIsKept
<1>4. QED BY <1>1, <1>2, <1>3, PoolInvariant, PTL DEF Spec, CapYieldsOnlyToUse
================================================================================
