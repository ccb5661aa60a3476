---------------------- MODULE OperationCoordinator_proofs ----------------------
(* Proofs about OperationCoordinator for every set of leases, promises and   *)
(* listeners, about CoordinatorHub for every set of workspaces and of        *)
(* operations, about Browsers for every set of scrapes, and about Presence   *)
(* for every set of profiles, alerts and ticks.                              *)
EXTENDS MCOperationCoordinator, Sequences, SumLemmas, TLAPS

(* Type correctness: every variable of a coordinator stays in its domain.    *)
THEOREM TypeCorrect == Spec => []TypeOK
<1> USE DEF TypeOK, Kinds, States, LeaseStates, PromiseStates, Origins
<1>1. ASSUME Init PROVE TypeOK
  <2>1. promise \in [Waiters -> [state : PromiseStates, from : Origins]]
    BY <1>1 DEF Init
  <2>2. told \in [Listeners -> States]
    BY <1>1 DEF Init
  <2>3. lease \in [Leases -> LeaseStates]
    BY <1>1 DEF Init
  <2>4. QED BY <1>1, <2>1, <2>2, <2>3 DEF Init
<1>2. TypeOK /\ [Next]_vars => TypeOK'
  <2> SUFFICES ASSUME TypeOK, [Next]_vars PROVE TypeOK'
    OBVIOUS
  <2>1. ASSUME NEW l \in Leases, NEW k \in Kinds, TryBegin(l, k) PROVE TypeOK'
    BY <2>1 DEF TryBegin, Grant, Emit
  <2>2. ASSUME NEW l \in Leases, Release(l) PROVE TypeOK'
    <3>1. CASE lease[l] = "held" /\ active = l
      BY <2>2, <3>1 DEF Release, FreeSlot, NotifyIdle, Emit
    <3>2. CASE ~(lease[l] = "held" /\ active = l)
      BY <2>2, <3>2 DEF Release
    <3>3. QED BY <3>1, <3>2
  <2>3. ASSUME NEW w \in Waiters, BeginShutdown(w) PROVE TypeOK'
    BY <2>3 DEF BeginShutdown, NewPromise, Emit
  <2>4. ASSUME NEW w \in Waiters, WaitForIdle(w) PROVE TypeOK'
    BY <2>4 DEF WaitForIdle, NewPromise
  <2>5. ASSUME NEW x \in Listeners, Subscribe(x) PROVE TypeOK'
    BY <2>5 DEF Subscribe, State
  <2>6. ASSUME NEW x \in Listeners, Unsubscribe(x) PROVE TypeOK'
    BY <2>6 DEF Unsubscribe
  <2>7. CASE UNCHANGED vars
    BY <2>7 DEF vars
  <2>8. QED
    BY <2>1, <2>2, <2>3, <2>4, <2>5, <2>6, <2>7 DEF Next
<1>3. QED BY <1>1, <1>2, PTL DEF Spec

--------------------------------------------------------------------------------
(* A step preserves the coordinator's invariant, action by action.           *)
LEMMA StepKeepsInv == TypeOK /\ TypeOK' /\ Inv /\ [Next]_vars => Inv'
<1> SUFFICES ASSUME TypeOK, TypeOK', Inv, [Next]_vars PROVE Inv'
  OBVIOUS
<1> USE DEF Inv, OnlyHeldLeaseIsActive, ShutdownPromiseMeansDrained,
            PendingOnlyWhileActive, ListenersAreCurrent, State,
            ShutdownPromiseShutsGate
<1>1. ASSUME NEW l \in Leases, NEW k \in Kinds, TryBegin(l, k) PROVE Inv'
  <2>1. OnlyHeldLeaseIsActive' /\ (active = NoLease <=> operation = "idle")'
    BY <1>1, NoLeaseNotALease DEF TryBegin, Grant, TypeOK, Kinds
  <2>2. ShutdownPromiseMeansDrained' /\ PendingOnlyWhileActive'
    BY <1>1, NoLeaseNotALease DEF TryBegin, Grant, TypeOK
  <2>3. ListenersAreCurrent'
    BY <1>1 DEF TryBegin, Grant, Emit, TypeOK
  <2>4. ShutdownPromiseShutsGate'
    BY <1>1 DEF TryBegin, Grant
  <2>5. QED BY <2>1, <2>2, <2>3, <2>4
<1>2. ASSUME NEW l \in Leases, Release(l) PROVE Inv'
  <2>1. CASE lease[l] = "held" /\ active = l
    <3>1. OnlyHeldLeaseIsActive' /\ (active = NoLease <=> operation = "idle")'
      BY <1>2, <2>1, NoLeaseNotALease DEF Release, FreeSlot, TypeOK
    <3>2. \A w \in Waiters : promise'[w].state # "pending"
      BY <1>2, <2>1 DEF Release, FreeSlot, NotifyIdle, TypeOK
    <3>3. ShutdownPromiseMeansDrained'
      <4>1. shuttingDown' = shuttingDown /\ active' = NoLease
        BY <1>2, <2>1 DEF Release, FreeSlot
      <4>2. ASSUME NEW w \in Waiters,
                   promise'[w] = [state |-> "resolved", from |-> "beginShutdown"]
            PROVE  promise[w].from = "beginShutdown" /\ promise[w].state # "none"
        BY <1>2, <2>1, <4>2 DEF Release, FreeSlot, NotifyIdle, TypeOK,
           PromiseStates, Origins
      <4>3. QED BY <4>1, <4>2
    <3>4. ListenersAreCurrent'
      BY <1>2, <2>1 DEF Release, FreeSlot, Emit, TypeOK
    <3>5. ShutdownPromiseShutsGate'
      BY <1>2, <2>1 DEF Release, FreeSlot, NotifyIdle, TypeOK
    <3>6. QED BY <3>1, <3>2, <3>3, <3>4, <3>5
  <2>2. CASE ~(lease[l] = "held" /\ active = l)
    BY <1>2, <2>2 DEF Release, TypeOK, LeaseStates
  <2>3. QED BY <2>1, <2>2
<1>3. ASSUME NEW w \in Waiters, BeginShutdown(w) PROVE Inv'
  <2>1. OnlyHeldLeaseIsActive' /\ (active = NoLease <=> operation = "idle")'
    BY <1>3 DEF BeginShutdown
  <2>2. ShutdownPromiseMeansDrained' /\ PendingOnlyWhileActive'
    BY <1>3 DEF BeginShutdown, NewPromise, TypeOK
  <2>3. ListenersAreCurrent'
    BY <1>3 DEF BeginShutdown, Emit, TypeOK
  <2>4. ShutdownPromiseShutsGate'
    BY <1>3 DEF BeginShutdown
  <2>5. QED BY <2>1, <2>2, <2>3, <2>4
<1>4. ASSUME NEW w \in Waiters, WaitForIdle(w) PROVE Inv'
  BY <1>4 DEF WaitForIdle, NewPromise, TypeOK
<1>5. ASSUME NEW x \in Listeners, Subscribe(x) PROVE Inv'
  BY <1>5 DEF Subscribe, TypeOK
<1>6. ASSUME NEW x \in Listeners, Unsubscribe(x) PROVE Inv'
  BY <1>6 DEF Unsubscribe, TypeOK
<1>7. CASE UNCHANGED vars
  BY <1>7 DEF vars
<1>8. QED
  BY <1>1, <1>2, <1>3, <1>4, <1>5, <1>6, <1>7 DEF Next

(* What a coordinator guarantees in every reachable state: the slot names    *)
(* the one held lease, a resolved shutdown promise means drained for good,   *)
(* no waiter is forgotten and no listener is stale.                          *)
THEOREM InvHolds == Spec => []Inv
<1>1. Init => Inv
  BY NoLeaseNotALease DEF Init, Inv, ShutdownPromiseShutsGate, OnlyHeldLeaseIsActive, State,
     ShutdownPromiseMeansDrained, PendingOnlyWhileActive, ListenersAreCurrent
<1>2. QED BY <1>1, StepKeepsInv, TypeCorrect, PTL DEF Spec

(* At most one lease is held, and it is the active one.                      *)
THEOREM MutualExclusion == Spec => []OnlyHeldLeaseIsActive
<1>1. Inv => OnlyHeldLeaseIsActive
  BY DEF Inv
<1>2. QED BY <1>1, InvHolds, PTL

(* A resolved beginShutdown() promise stays a promise: nothing runs again.   *)
THEOREM DrainedForGood == Spec => []ShutdownPromiseMeansDrained
<1>1. Inv => ShutdownPromiseMeansDrained
  BY DEF Inv
<1>2. QED BY <1>1, InvHolds, PTL

(* One holder at a time, a drain that is final, and listeners that know.     *)
THEOREM CoordinatorSafety == Spec => []CoordinatorIsSound
<1>1. Inv => CoordinatorIsSound
  BY DEF Inv, CoordinatorIsSound
<1>2. QED BY <1>1, InvHolds, PTL

--------------------------------------------------------------------------------
(* Every step of the coordinator is a step of the abstract gate or stutters.  *)
LEMMA StepIsGateStep ==
  TypeOK /\ Inv /\ [Next]_vars => [Gate!GateNext]_(Gate!gateVars)
<1> DEFINE spent == {l \in Leases : lease[l] # "fresh"}
<1> SUFFICES ASSUME TypeOK, Inv, [Next]_vars
             PROVE  Gate!GateNext \/ UNCHANGED <<active, ~shuttingDown, spent>>
  BY DEF Gate!gateVars
<1>1. ASSUME NEW l \in Leases, NEW k \in Kinds, TryBegin(l, k)
      PROVE  Gate!Admit(l)
  <2>1. spent' = spent \union {l} /\ l \notin spent
    BY <1>1 DEF TryBegin, Grant, TypeOK
  <2>2. QED BY <1>1, <2>1 DEF TryBegin, Grant, Gate!Admit
<1>2. ASSUME NEW l \in Leases, Release(l)
      PROVE  Gate!Leave \/ UNCHANGED <<active, ~shuttingDown, spent>>
  <2>1. spent' = spent
    BY <1>2 DEF Release, FreeSlot, TypeOK
  <2>2. CASE lease[l] = "held" /\ active = l
    BY <1>2, <2>1, <2>2, NoLeaseNotALease DEF Release, FreeSlot, Gate!Leave
  <2>3. CASE ~(lease[l] = "held" /\ active = l)
    BY <1>2, <2>1, <2>3 DEF Release
  <2>4. QED BY <2>2, <2>3
<1>3. ASSUME NEW w \in Waiters, BeginShutdown(w)
      PROVE  Gate!Shut
  BY <1>3 DEF BeginShutdown, Gate!Shut
<1>4. ASSUME NEW w \in Waiters, WaitForIdle(w)
      PROVE  UNCHANGED <<active, ~shuttingDown, spent>>
  BY <1>4 DEF WaitForIdle
<1>5. ASSUME NEW x \in Listeners, Subscribe(x) \/ Unsubscribe(x)
      PROVE  UNCHANGED <<active, ~shuttingDown, spent>>
  BY <1>5 DEF Subscribe, Unsubscribe
<1>6. CASE UNCHANGED vars
  BY <1>6 DEF vars
<1>7. QED
  BY <1>1, <1>2, <1>3, <1>4, <1>5, <1>6 DEF Next, Gate!GateNext

(* The coordinator implements the exclusive slot behind a one-way gate.      *)
THEOREM RefinesGate == Spec => ImplementsGate
<1>1. Init => Gate!GateInit
  BY DEF Init, Gate!GateInit
<1>2. QED
  BY <1>1, StepIsGateStep, TypeCorrect, InvHolds, PTL
  DEF Spec, ImplementsGate, Gate!GateSpec

--------------------------------------------------------------------------------
(* The hub.                                                                 *)

(* A set of places has a first one.                                         *)
LEMMA FirstOne ==
  ASSUME NEW S \in SUBSET Nat, S # {} PROVE Hub!Min(S) \in S
<1> DEFINE at == [n \in S |-> n]
<1>1. at \in [S -> Nat]
  OBVIOUS
<1>2. PICK n \in S : \A k \in S : at[n] <= at[k]
  BY <1>1, Least
<1>3. \A k \in S : n <= k
  BY <1>2
<1>4. QED BY <1>3 DEF Hub!Min

(* What recompute makes of the members' states.                             *)
LEMMA AggregateIs ==
  ASSUME NEW ms \in Seq(Ids \cup {Global}), NEW st \in [Ids \cup {Global} -> Hub!CoordinatorStates]
  PROVE  /\ Hub!Aggregate(ms, st) \in Hub!CoordinatorStates
         /\ Hub!Aggregate(ms, st) = "idle" <=> \A i \in Hub!ToSet(ms) : st[i] = "idle"
         /\ Hub!Aggregate(ms, st) = "shuttingDown" <=> \E i \in Hub!ToSet(ms) : st[i] = "shuttingDown"
<1> DEFINE busy == {n \in DOMAIN ms : st[ms[n]] # "idle"}
<1>1. /\ \A n \in DOMAIN ms : ms[n] \in Hub!ToSet(ms) /\ ms[n] \in Ids \cup {Global}
      /\ \A i \in Hub!ToSet(ms) : \E n \in DOMAIN ms : i = ms[n]
      /\ busy \in SUBSET Nat
  BY DEF Hub!ToSet
<1>2. CASE \E i \in Hub!ToSet(ms) : st[i] = "shuttingDown"
  BY <1>2 DEF Hub!Aggregate, Hub!CoordinatorStates
<1>3. CASE ~(\E i \in Hub!ToSet(ms) : st[i] = "shuttingDown") /\ busy = {}
  <2>1. Hub!Aggregate(ms, st) = "idle"
    BY <1>3 DEF Hub!Aggregate
  <2>2. \A i \in Hub!ToSet(ms) : st[i] = "idle"
    BY <1>1, <1>3
  <2>3. QED BY <1>3, <2>1, <2>2 DEF Hub!CoordinatorStates
<1>4. CASE ~(\E i \in Hub!ToSet(ms) : st[i] = "shuttingDown") /\ busy # {}
  <2>1. Hub!Aggregate(ms, st) = st[ms[Hub!Min(busy)]]
    BY <1>4 DEF Hub!Aggregate
  <2>2. Hub!Min(busy) \in busy
    BY <1>1, <1>4, FirstOne
  <2>3. /\ ms[Hub!Min(busy)] \in Hub!ToSet(ms) /\ st[ms[Hub!Min(busy)]] # "idle"
        /\ st[ms[Hub!Min(busy)]] \in Hub!CoordinatorStates
    BY <1>1, <2>2
  <2>4. QED BY <1>4, <2>1, <2>3
<1>5. QED BY <1>2, <1>3, <1>4

(* A member leaves: the others are members still, each once.                *)
LEMMA OthersStay ==
  ASSUME NEW i, members \in Seq(Ids \cup {Global}), Hub!IsInjective(members), Hub!Leave(i)
  PROVE  /\ members' \in Seq(Ids \cup {Global}) /\ Hub!IsInjective(members')
         /\ Hub!ToSet(members') = Hub!ToSet(members) \ {i}
<1> DEFINE S == Ids \cup {Global}
<1>1. PICK n \in DOMAIN members : members[n] = i /\ members' = Hub!RemoveAt(members, n)
  BY DEF Hub!Leave
<1> DEFINE before == SubSeq(members, 1, n - 1)
           after == SubSeq(members, n + 1, Len(members))
<1>2. n \in 1 .. Len(members) /\ Len(members) \in Nat
  OBVIOUS
<1>3. /\ before \in Seq(S) /\ Len(before) = n - 1
      /\ \A k \in 1 .. n - 1 : before[k] = members[k]
  BY <1>2
<1>4. /\ after \in Seq(S) /\ Len(after) = Len(members) - n
      /\ \A k \in 1 .. Len(members) - n : after[k] = members[n + k]
  BY <1>2
<1>5. members' = before \o after
  BY <1>1 DEF Hub!RemoveAt
<1> HIDE DEF before, after
<1>6. /\ members' \in Seq(S) /\ Len(members') = Len(members) - 1
      /\ DOMAIN members' = 1 .. Len(members) - 1
      /\ \A k \in 1 .. n - 1 : members'[k] = members[k]
      /\ \A k \in n .. Len(members) - 1 : members'[k] = members[k + 1]
  <2>1. /\ members' \in Seq(S) /\ Len(members') = Len(members) - 1
        /\ \A k \in 1 .. Len(members') :
             members'[k] = IF k <= n - 1 THEN before[k] ELSE after[k - (n - 1)]
    BY <1>2, <1>3, <1>4, <1>5
  <2>2. \A k \in 1 .. n - 1 : k \in 1 .. Len(members')
    BY <1>2, <2>1
  <2>3. ASSUME NEW k \in n .. Len(members) - 1 PROVE members'[k] = members[k + 1]
    <3>1. members'[k] = after[k - (n - 1)] /\ k - (n - 1) \in 1 .. Len(members) - n
      <4>1. k \in 1 .. Len(members') /\ ~(k <= n - 1) /\ k - (n - 1) \in 1 .. Len(members) - n
        BY <1>2, <2>1
      <4>2. QED BY <2>1, <4>1
    <3>2. n + (k - (n - 1)) = k + 1
      BY <1>2
    <3>3. QED BY <1>4, <3>1, <3>2
  <2>4. QED BY <1>3, <2>1, <2>2, <2>3
<1>7. \A a, b \in 1 .. Len(members) : members[a] = members[b] => a = b
  BY DEF Hub!IsInjective
<1>8. Hub!IsInjective(members')
  <2> SUFFICES ASSUME NEW a \in 1 .. Len(members) - 1, NEW b \in 1 .. Len(members) - 1,
                      members'[a] = members'[b]
               PROVE  a = b
    BY <1>6 DEF Hub!IsInjective
  <2> DEFINE was(k) == IF k < n THEN k ELSE k + 1
  <2>1. members'[a] = members[was(a)] /\ members'[b] = members[was(b)]
    BY <1>2, <1>6, SMTT(30)
  <2>2. was(a) \in 1 .. Len(members) /\ was(b) \in 1 .. Len(members)
    BY <1>2
  <2>3. was(a) = was(b)
    BY <1>7, <2>1, <2>2
  <2>4. QED BY <1>2, <2>3
<1>9. ASSUME NEW j \in Hub!ToSet(members') PROVE j \in Hub!ToSet(members) \ {i}
  <2>1. PICK k \in 1 .. Len(members) - 1 : j = members'[k]
    BY <1>6 DEF Hub!ToSet
  <2> DEFINE was == IF k < n THEN k ELSE k + 1
  <2>2. was \in 1 .. Len(members) /\ was # n /\ j = members[was]
    BY <1>2, <1>6, <2>1
  <2>3. QED BY <1>1, <1>2, <1>7, <2>2 DEF Hub!ToSet
<1>10. ASSUME NEW j \in Hub!ToSet(members), j # i PROVE j \in Hub!ToSet(members')
  <2>1. PICK k \in 1 .. Len(members) : j = members[k]
    BY DEF Hub!ToSet
  <2> DEFINE is == IF k < n THEN k ELSE k - 1
  <2>2. is \in 1 .. Len(members) - 1 /\ members'[is] = j
    <3>1. k # n
      BY <1>1, <1>10, <2>1
    <3>2. CASE k < n
      BY <1>2, <1>6, <2>1, <3>2
    <3>3. CASE k > n
      <4>1. k - 1 \in n .. Len(members) - 1 /\ (k - 1) + 1 = k /\ is = k - 1
        BY <1>2, <2>1, <3>3
      <4>2. QED BY <1>2, <1>6, <2>1, <4>1
    <3>4. QED BY <1>2, <2>1, <3>1, <3>2, <3>3
  <2>3. QED BY <1>6, <2>2 DEF Hub!ToSet
<1>11. QED BY <1>6, <1>8, <1>9, <1>10

(* The desktop has heard the aggregate of the members; and a gate that is   *)
(* shut is that of a shutdown, or of a workspace nobody listens to.         *)
HubInv ==
  /\ Hub!TypeOK
  /\ heard = current /\ current = Hub!Aggregate(members, state)
  /\ evicting \intersect Hub!ToSet(members) = {}
  /\ Global \in Hub!ToSet(members)
  /\ ~closed => \A i \in Hub!ToSet(members) : state[i] # "shuttingDown"
  /\ closed => state[Global] = "shuttingDown"

(* Recomputing after a change of members or states.                         *)
LEMMA RecomputeKeeps ==
  ASSUME Hub!TypeOK, heard = current, Hub!Recompute(members', state'),
         members' \in Seq(Ids \cup {Global}), state' \in [Ids \cup {Global} -> Hub!CoordinatorStates]
  PROVE  /\ {current', heard'} \subseteq Hub!CoordinatorStates
         /\ heard' = current' /\ current' = Hub!Aggregate(members, state)'
<1>1. Hub!Aggregate(members', state') \in Hub!CoordinatorStates
  BY AggregateIs
<1>2. QED BY <1>1 DEF Hub!Recompute

(* What is heard is true in every such state.                               *)
LEMMA HeardIsTrue ==
  HubInv => Hub!IdleMeansIdle /\ Hub!NoPhantomShutdown /\ (heard = "shuttingDown" <=> closed)
<1> SUFFICES ASSUME HubInv
             PROVE  Hub!IdleMeansIdle /\ Hub!NoPhantomShutdown /\ (heard = "shuttingDown" <=> closed)
  OBVIOUS
<1>1. members \in Seq(Ids \cup {Global}) /\ state \in [Ids \cup {Global} -> Hub!CoordinatorStates]
  BY DEF HubInv, Hub!TypeOK
<1>2. /\ heard = "idle" <=> \A i \in Hub!ToSet(members) : state[i] = "idle"
      /\ heard = "shuttingDown" <=> \E i \in Hub!ToSet(members) : state[i] = "shuttingDown"
  BY <1>1, AggregateIs DEF HubInv
<1>3. closed \in BOOLEAN
  BY DEF HubInv, Hub!TypeOK
<1>4. QED BY <1>2, <1>3 DEF HubInv, Hub!IdleMeansIdle, Hub!NoPhantomShutdown

LEMMA HubStarts == Hub!Init => HubInv
<1> SUFFICES ASSUME Hub!Init PROVE HubInv
  OBVIOUS
<1>1. Hub!TypeOK
  <2>1. members \in Seq(Ids \cup {Global}) /\ DOMAIN members = {1}
    BY DEF Hub!Init
  <2>2. Hub!IsInjective(members)
    BY <2>1 DEF Hub!IsInjective
  <2>3. QED BY <2>1, <2>2 DEF Hub!Init, Hub!TypeOK, Hub!CoordinatorStates
<1>2. Hub!ToSet(members) = {Global}
  BY DEF Hub!Init, Hub!ToSet
<1>3. current = Hub!Aggregate(members, state)
  BY <1>1, <1>2, AggregateIs DEF Hub!Init, Hub!TypeOK
<1>4. QED BY <1>1, <1>2, <1>3 DEF HubInv, Hub!Init

(* Every callback of the hub, and every gate that is shut unheard.          *)
LEMMA HubStaysTrue == HubInv /\ [Hub!Next]_(Hub!vars) => HubInv'
<1> SUFFICES ASSUME HubInv, [Hub!Next]_(Hub!vars) PROVE HubInv'
  OBVIOUS
<1>1. /\ members \in Seq(Ids \cup {Global}) /\ Hub!IsInjective(members)
      /\ state \in [Ids \cup {Global} -> Hub!CoordinatorStates]
      /\ {current, heard} \subseteq Hub!CoordinatorStates
      /\ evicting \in SUBSET Ids /\ closed \in BOOLEAN
  BY DEF HubInv, Hub!TypeOK
<1>2. /\ heard = current /\ current = Hub!Aggregate(members, state)
      /\ evicting \intersect Hub!ToSet(members) = {}
      /\ Global \in Hub!ToSet(members)
      /\ ~closed => \A i \in Hub!ToSet(members) : state[i] # "shuttingDown"
      /\ closed => state[Global] = "shuttingDown"
  BY DEF HubInv
<1>3. Global \notin Ids /\ "idle" \notin HubKinds /\ "shuttingDown" \notin HubKinds
  BY HubAssumption DEF Hub!HubAssumption
<1>4. Hub!ToSet(members) \subseteq Ids \cup {Global}
  BY <1>1 DEF Hub!ToSet
<1> USE DEF Hub!CoordinatorStates
<1>5. ASSUME members' \in Seq(Ids \cup {Global}), Hub!IsInjective(members)',
             state' \in [Ids \cup {Global} -> Hub!CoordinatorStates],
             Hub!Recompute(members', state'),
             evicting' \in SUBSET Ids, closed' \in BOOLEAN,
             (evicting \intersect Hub!ToSet(members) = {})', Global \in Hub!ToSet(members)',
             ~closed' => \A i \in Hub!ToSet(members)' : state'[i] # "shuttingDown",
             closed' => state'[Global] = "shuttingDown"
      PROVE  HubInv'
  <2>1. /\ {current', heard'} \subseteq Hub!CoordinatorStates
        /\ heard' = current' /\ current' = Hub!Aggregate(members, state)'
    BY <1>2, <1>5, RecomputeKeeps DEF HubInv
  <2>2. Hub!TypeOK'
    BY <1>5, <2>1 DEF Hub!TypeOK
  <2>3. QED BY <1>5, <2>1, <2>2 DEF HubInv
<1>6. ASSUME NEW i \in Ids, Hub!Add(i) PROVE HubInv'
  <2>1. /\ members' = Append(members, i) /\ state' = [state EXCEPT ![i] = "idle"]
        /\ i \notin Hub!ToSet(members) /\ i \notin evicting /\ ~closed /\ closed' = closed /\ evicting' = evicting
    BY <1>6 DEF Hub!Add
  <2>2. /\ members' \in Seq(Ids \cup {Global}) /\ Len(members') = Len(members) + 1
        /\ DOMAIN members' = 1 .. Len(members) + 1
        /\ \A n \in 1 .. Len(members) : members'[n] = members[n] /\ members[n] # i
        /\ members'[Len(members) + 1] = i
    BY <1>1, <2>1 DEF Hub!ToSet
  <2>3. Hub!ToSet(members)' = Hub!ToSet(members) \cup {i}
    <3>1. Hub!ToSet(members') = Hub!ToSet(members) \cup {i}
      BY <1>1, <2>2 DEF Hub!ToSet
    <3>2. QED BY <3>1 DEF Hub!ToSet
  <2>4. Hub!IsInjective(members)'
    BY <1>1, <2>2 DEF Hub!IsInjective
  <2>5. state' \in [Ids \cup {Global} -> Hub!CoordinatorStates]
    BY <1>1, <2>1
  <2>6. /\ (evicting \intersect Hub!ToSet(members) = {})' /\ Global \in Hub!ToSet(members)'
        /\ \A k \in Hub!ToSet(members)' : state'[k] # "shuttingDown"
    BY <1>1, <1>2, <1>4, <2>1, <2>3
  <2>7. Hub!Recompute(members', state')
    BY <1>6 DEF Hub!Add
  <2>8. QED BY <1>1, <1>5, <2>1, <2>2, <2>4, <2>5, <2>6, <2>7
<1>7. ASSUME NEW i \in Ids, Hub!Leave(i), Hub!Recompute(members', state'), UNCHANGED <<state, closed>>,
             evicting' \in {evicting, evicting \cup {i}}
      PROVE  HubInv'
  <2>1. /\ members' \in Seq(Ids \cup {Global}) /\ Hub!IsInjective(members')
        /\ Hub!ToSet(members') = Hub!ToSet(members) \ {i}
    BY <1>1, <1>7, OthersStay
  <2>2. Hub!ToSet(members)' = Hub!ToSet(members) \ {i} /\ Hub!IsInjective(members)'
    BY <2>1 DEF Hub!ToSet, Hub!IsInjective
  <2>3. state' = state /\ closed' = closed
    BY <1>7
  <2>4. (evicting \intersect Hub!ToSet(members) = {})' /\ evicting' \in SUBSET Ids /\ Global \in Hub!ToSet(members)'
    BY <1>1, <1>2, <1>3, <1>7, <2>2
  <2>5. QED BY <1>1, <1>2, <1>5, <1>7, <2>1, <2>2, <2>3, <2>4
<1>8. ASSUME NEW i \in Ids, Hub!EvictRemove(i) PROVE HubInv'
  BY <1>7, <1>8 DEF Hub!EvictRemove
<1>9. ASSUME NEW i \in Ids, Hub!CloseAllRemove(i) PROVE HubInv'
  BY <1>7, <1>9 DEF Hub!CloseAllRemove
<1>10. ASSUME NEW i \in Ids, Hub!EvictGate(i) PROVE HubInv'
  <2>1. /\ state' = [state EXCEPT ![i] = "shuttingDown"] /\ evicting' = evicting \ {i} /\ i \in evicting
        /\ members' = members /\ current' = current /\ heard' = heard /\ closed' = closed
    BY <1>10 DEF Hub!EvictGate
  <2>2. state' \in [Ids \cup {Global} -> Hub!CoordinatorStates]
    BY <1>1, <2>1
  <2>3. \A k \in Hub!ToSet(members) : state'[k] = state[k]
    BY <1>1, <1>2, <1>4, <2>1
  <2>4. Hub!Aggregate(members', state') = Hub!Aggregate(members, state)
    <3>1. /\ \A n \in DOMAIN members : state'[members[n]] = state[members[n]]
          /\ (\E k \in Hub!ToSet(members) : state'[k] = "shuttingDown")
               <=> \E k \in Hub!ToSet(members) : state[k] = "shuttingDown"
      BY <2>3 DEF Hub!ToSet
    <3>2. {n \in DOMAIN members : state'[members[n]] # "idle"} = {n \in DOMAIN members : state[members[n]] # "idle"}
      BY <3>1
    <3> DEFINE busy == {n \in DOMAIN members : state[members[n]] # "idle"}
    <3>3. busy # {} => state'[members[Hub!Min(busy)]] = state[members[Hub!Min(busy)]]
      <4>1. SUFFICES ASSUME busy # {} PROVE Hub!Min(busy) \in DOMAIN members
        BY <3>1
      <4>2. busy \in SUBSET Nat
        BY <1>1
      <4>3. Hub!Min(busy) \in busy
        BY <4>1, <4>2, FirstOne
      <4>4. QED BY <4>3
    <3>4. QED BY <2>1, <3>1, <3>2, <3>3 DEF Hub!Aggregate
  <2>5. current' = Hub!Aggregate(members, state)'
    BY <1>2, <2>1, <2>4 DEF Hub!Aggregate, Hub!ToSet, Hub!Min
  <2>6. Hub!ToSet(members)' = Hub!ToSet(members) /\ Hub!IsInjective(members)'
    BY <1>1, <2>1 DEF Hub!ToSet, Hub!IsInjective
  <2>7. Hub!TypeOK'
    BY <1>1, <2>1, <2>2, <2>6 DEF Hub!TypeOK
  <2>8. (evicting \intersect Hub!ToSet(members) = {})' /\ Global \in Hub!ToSet(members)'
    BY <1>2, <2>1, <2>6
  <2>9. /\ ~closed' => \A k \in Hub!ToSet(members)' : state'[k] # "shuttingDown"
        /\ closed' => state'[Global] = "shuttingDown"
    BY <1>2, <2>1, <2>3, <2>6
  <2>10. QED BY <1>2, <2>1, <2>5, <2>7, <2>8, <2>9 DEF HubInv
<1>11. ASSUME NEW i \in Ids \cup {Global}, NEW s \in HubKinds \cup {"idle"},
              state[i] # "shuttingDown", state' = [state EXCEPT ![i] = s], Hub!Recompute(members, state'),
              UNCHANGED <<members, evicting, closed>>
       PROVE  HubInv'
  <2>1. members' = members /\ evicting' = evicting /\ closed' = closed /\ Hub!Recompute(members', state')
    BY <1>11
  <2>2. Hub!ToSet(members)' = Hub!ToSet(members) /\ Hub!IsInjective(members)'
    BY <1>1, <2>1 DEF Hub!ToSet, Hub!IsInjective
  <2>3. /\ state' \in [Ids \cup {Global} -> Hub!CoordinatorStates]
        /\ \A k \in Ids \cup {Global} : state'[k] = "shuttingDown" <=> state[k] = "shuttingDown"
    BY <1>1, <1>3, <1>11
  <2>4. QED BY <1>1, <1>2, <1>4, <1>5, <2>1, <2>2, <2>3
<1>12. ASSUME NEW i \in Ids \cup {Global}, NEW k \in HubKinds, Hub!ChildBegins(i, k) PROVE HubInv'
  BY <1>11, <1>12 DEF Hub!ChildBegins
<1>13. ASSUME NEW i \in Ids \cup {Global}, Hub!ChildEnds(i) PROVE HubInv'
  BY <1>3, <1>11, <1>13 DEF Hub!ChildEnds
<1>14. ASSUME Hub!BeginShutdown PROVE HubInv'
  <2>1. /\ members' = members /\ evicting' = evicting /\ closed' = TRUE /\ Hub!Recompute(members', state')
        /\ state' = [i \in DOMAIN state |-> IF i \in Hub!ToSet(members) THEN "shuttingDown" ELSE state[i]]
    BY <1>14 DEF Hub!BeginShutdown, Hub!Gated
  <2>2. Hub!ToSet(members)' = Hub!ToSet(members) /\ Hub!IsInjective(members)'
    BY <1>1, <2>1 DEF Hub!ToSet, Hub!IsInjective
  <2>3. state' \in [Ids \cup {Global} -> Hub!CoordinatorStates] /\ state'[Global] = "shuttingDown"
    BY <1>1, <1>2, <2>1
  <2>4. QED BY <1>1, <1>2, <1>5, <2>1, <2>2, <2>3
<1>15. CASE UNCHANGED Hub!vars
  <2>1. members' = members /\ state' = state /\ current' = current /\ heard' = heard /\ evicting' = evicting
        /\ closed' = closed
    BY <1>15 DEF Hub!vars
  <2>2. Hub!ToSet(members)' = Hub!ToSet(members) /\ Hub!IsInjective(members)'
    BY <1>1, <2>1 DEF Hub!ToSet, Hub!IsInjective
  <2>3. current' = Hub!Aggregate(members, state)'
    BY <1>2, <2>1 DEF Hub!Aggregate, Hub!ToSet, Hub!Min
  <2>4. Hub!TypeOK'
    BY <1>1, <2>1, <2>2 DEF Hub!TypeOK
  <2>5. QED BY <1>2, <2>1, <2>2, <2>3, <2>4 DEF HubInv
<1>16. QED BY <1>6, <1>8, <1>9, <1>10, <1>12, <1>13, <1>14, <1>15 DEF Hub!Next

(* What the desktop hears of the workspaces is true, and a shutdown that    *)
(* was announced is never taken back, for any workspaces and operations     *)
(* (workspaces.ts:83-90, 359-365).                                          *)
THEOREM DesktopHearsTheTruth == Hub!Spec => AggregateIsTrue
<1>1. HubInv => Hub!TypeOK /\ Hub!IdleMeansIdle /\ Hub!NoPhantomShutdown
  BY HeardIsTrue DEF HubInv
<1>2. ASSUME HubInv, HubInv', [Hub!Next]_(Hub!vars) PROVE heard = "shuttingDown" => heard' = "shuttingDown"
  <2>1. heard = "shuttingDown" <=> closed
    BY <1>2, HeardIsTrue
  <2>2. (HubInv => (heard = "shuttingDown" <=> closed))'
    BY HeardIsTrue, PTL
  <2>3. closed => closed'
    BY <1>2 DEF Hub!Next, Hub!Add, Hub!EvictRemove, Hub!EvictGate, Hub!CloseAllRemove,
       Hub!ChildBegins, Hub!ChildEnds, Hub!BeginShutdown, Hub!vars
  <2>4. QED BY <1>2, <2>1, <2>2, <2>3
<1>3. QED BY <1>1, <1>2, HubStarts, HubStaysTrue, PTL
      DEF Hub!Spec, AggregateIsTrue, Hub!AggregateIsTrue, Hub!ShutdownIsFinal

--------------------------------------------------------------------------------
(* A browser is open only while the library hands it over or drives it, and  *)
(* then the scraper knows it, has it closed by dispose or closes it itself.  *)
BrowserTypes ==
  /\ scrape \in [Scrapes -> {"new", "started", "capturing", "closing", "cancelled", "ended"}]
  /\ library \in [Scrapes -> {"none", "launching", "handing", "driving", "done"}]
  /\ browser \in [Scrapes -> {"none", "open", "closed"}]

BrowserInv ==
  /\ BrowserTypes
  /\ \A s \in Scrapes : /\ scrape[s] = "new" => library[s] = "none"
                        /\ browser[s] = "open" => library[s] \in {"handing", "driving"}
  /\ disposed \in BOOLEAN /\ (~disposed => disposing = {})
  /\ RealScraper!OpenIsKnown

LEMMA BrowsersStart == RealScraper!Init => BrowserInv
<1> SUFFICES ASSUME RealScraper!Init PROVE BrowserInv
  OBVIOUS
<1>1. BrowserTypes
  <2>1. scrape \in [Scrapes -> {"new", "started", "capturing", "closing", "cancelled", "ended"}]
    BY DEF RealScraper!Init
  <2>2. library \in [Scrapes -> {"none", "launching", "handing", "driving", "done"}]
    BY DEF RealScraper!Init
  <2>3. browser \in [Scrapes -> {"none", "open", "closed"}]
    BY DEF RealScraper!Init
  <2>4. QED BY <2>1, <2>2, <2>3 DEF BrowserTypes
<1>2. \A s \in Scrapes : library[s] = "none" /\ browser[s] # "open"
  BY DEF RealScraper!Init
<1>3. QED BY <1>1, <1>2 DEF RealScraper!Init, BrowserInv, RealScraper!OpenIsKnown

LEMMA BrowsersStayKnown == BrowserInv /\ [RealScraper!Next]_(RealScraper!vars) => BrowserInv'
<1> SUFFICES ASSUME BrowserInv, [RealScraper!Next]_(RealScraper!vars) PROVE BrowserInv'
  OBVIOUS
<1> USE DEF BrowserInv, BrowserTypes, RealScraper!OpenIsKnown
<1>1. ASSUME NEW s \in Scrapes, RealScraper!Start(s) PROVE BrowserInv'
  <2>1. library[s] = "none" /\ browser[s] # "open"
    BY <1>1 DEF RealScraper!Start
  <2>2. UNCHANGED <<browser, browsers, disposed, disposing>>
    BY <1>1 DEF RealScraper!Start
  <2>3. BrowserTypes'
    BY <1>1, <2>2 DEF RealScraper!Start
  <2>4. \A u \in Scrapes \ {s} : scrape'[u] = scrape[u] /\ library'[u] = library[u]
    BY <1>1 DEF RealScraper!Start
  <2>5. scrape'[s] # "new"
    BY <1>1 DEF RealScraper!Start
  <2>6. ASSUME NEW u \in Scrapes
        PROVE  /\ scrape'[u] = "new" => library'[u] = "none"
               /\ browser'[u] = "open" =>
                    /\ library'[u] \in {"handing", "driving"}
                    /\ \/ u \in browsers' \cup disposing'
                       \/ library'[u] = "handing" \/ scrape'[u] = "closing"
    <3>1. CASE u = s
      BY <2>1, <2>2, <2>5, <3>1
    <3>2. CASE u # s
      BY <2>2, <2>4, <3>2
    <3>3. QED BY <3>1, <3>2
  <2>7. QED BY <2>2, <2>3, <2>6
<1>2. ASSUME NEW s \in Scrapes, RealScraper!Launched(s) PROVE BrowserInv'
  BY <1>2 DEF RealScraper!Launched
<1>3. ASSUME NEW s \in Scrapes, RealScraper!Prepare(s) PROVE BrowserInv'
  <2>1. CASE disposed
    BY <1>3, <2>1 DEF RealScraper!Prepare, RealScraper!ClosedAtOnce
  <2>2. CASE ~disposed
    BY <1>3, <2>2 DEF RealScraper!Prepare, RealScraper!ClosedAtOnce
  <2>3. QED BY <2>1, <2>2
<1>4. ASSUME NEW s \in Scrapes, RealScraper!LibraryEnds(s) PROVE BrowserInv'
  BY <1>4 DEF RealScraper!LibraryEnds
<1>5. ASSUME NEW s \in Scrapes, RealScraper!ScrapeEnds(s) PROVE BrowserInv'
  BY <1>5 DEF RealScraper!ScrapeEnds
<1>6. ASSUME NEW s \in Scrapes, RealScraper!TimesOut(s) PROVE BrowserInv'
  BY <1>6 DEF RealScraper!TimesOut
<1>7. ASSUME NEW s \in Scrapes, RealScraper!Captured(s) PROVE BrowserInv'
  BY <1>7 DEF RealScraper!Captured
<1>8. ASSUME NEW s \in Scrapes, RealScraper!EndsClosed(s) PROVE BrowserInv'
  BY <1>8 DEF RealScraper!EndsClosed, RealScraper!CloseTimedOut
<1>9. ASSUME NEW s \in Scrapes, RealScraper!CloseOne(s) PROVE BrowserInv'
  BY <1>9 DEF RealScraper!CloseOne
<1>10. ASSUME RealScraper!Dispose PROVE BrowserInv'
  BY <1>10 DEF RealScraper!Dispose
<1>11. CASE UNCHANGED RealScraper!vars
  BY <1>11 DEF RealScraper!vars
<1>12. QED BY <1>1, <1>2, <1>3, <1>4, <1>5, <1>6, <1>7, <1>8, <1>9, <1>10, <1>11 DEF RealScraper!Next

(* Whatever is launching, timing out or being photographed when the runtime  *)
(* stops, no open browser is lost from the scraper's sight: dispose closes   *)
(* it, or prepareBrowser or closeBrowser does (scraper.ts:89, 156).          *)
THEOREM OpenBrowsersAreKnown == RealScraper!Spec => []RealScraper!OpenIsKnown
<1>1. BrowserInv => RealScraper!OpenIsKnown
  BY DEF BrowserInv
<1>2. QED BY <1>1, BrowsersStart, BrowsersStayKnown, PTL DEF RealScraper!Spec

--------------------------------------------------------------------------------
(* The flag of the class admits one tick at a time, so that nothing is       *)
(* recorded between the moment a tick reads what is pending and shows it.    *)
TrayInv ==
  /\ tick \in [Ticks -> {None} \cup [at : {"status", "pending", "show", "ack"},
                                    from : Profiles \cup {None}, batch : SUBSET Keys]]
  /\ profile \in Profiles /\ facts \in [Profiles -> SUBSET Keys]
  /\ \A t \in Ticks : tick[t] # None => ticking
  /\ \A t, u \in Ticks : tick[t] # None /\ tick[u] # None => t = u
  /\ \A t \in Ticks : Tray!At(t, "show") => tick[t].batch \cap acked[tick[t].from] = {}

LEMMA TrayStarts == Tray!Init => TrayInv
BY DEF Tray!Init, TrayInv, Tray!At

LEMMA TrayStaysQuiet == TrayInv /\ [Tray!Next]_(Tray!vars) => TrayInv'
<1> SUFFICES ASSUME TrayInv, [Tray!Next]_(Tray!vars) PROVE TrayInv'
  OBVIOUS
<1> USE DEF TrayInv, Tray!At
<1>1. ASSUME NEW t \in Ticks, Tray!Tick(t) PROVE TrayInv'
  BY <1>1 DEF Tray!Tick, Tray!MayTick
<1>2. ASSUME NEW t \in Ticks, Tray!Synced(t) PROVE TrayInv'
  BY <1>2 DEF Tray!Synced, Tray!Goes
<1>3. ASSUME NEW t \in Ticks, Tray!Read(t) PROVE TrayInv'
  <2>1. Tray!Batch(profile) \subseteq Keys /\ Tray!Batch(profile) \cap acked[profile] = {}
    BY DEF Tray!Batch, Tray!Pending
  <2>2. QED BY <1>3, <2>1 DEF Tray!Read
<1>4. ASSUME NEW t \in Ticks, tick[t] # None, Tray!Ends(t), UNCHANGED <<profile, facts>>
      PROVE  TrayInv'
  BY <1>4 DEF Tray!Ends
<1>5. ASSUME NEW t \in Ticks, Tray!Show(t) PROVE TrayInv'
  BY <1>5 DEF Tray!Show, Tray!Goes
<1>6. ASSUME NEW t \in Ticks, Tray!ReadNothing(t) \/ Tray!Ack(t) \/ Tray!AckFails(t) PROVE TrayInv'
  BY <1>4, <1>6 DEF Tray!ReadNothing, Tray!Ack, Tray!AckFails
<1>7. CASE Tray!Hide \/ Tray!Toggle \/ Tray!Switch
  BY <1>7 DEF Tray!Hide, Tray!Toggle, Tray!Switch
<1>8. CASE UNCHANGED Tray!vars
  BY <1>8 DEF Tray!vars
<1>9. QED BY <1>1, <1>2, <1>3, <1>5, <1>6, <1>7, <1>8 DEF Tray!Next

(* An alert that was recorded as shown in a profile is not shown again for   *)
(* it, although a tick reads, shows and reports in three calls, each may     *)
(* fail, and the profile may change between them (presence.ts:8, 81-119).    *)
THEOREM AlertsStayQuiet == Tray!Spec => Tray!AckedStaysQuiet
<1>1. TrayInv => \A t \in Ticks : Tray!At(t, "show") => tick[t].batch \cap acked[tick[t].from] = {}
  BY DEF TrayInv
<1>2. TrayInv => [\A t \in Ticks : Tray!At(t, "show") /\ Tray!Goes(t, "ack")
                    => tick[t].batch \cap acked[tick[t].from] = {}]_(Tray!vars)
  BY <1>1
<1>3. QED BY <1>2, TrayStarts, TrayStaysQuiet, PTL DEF Tray!Spec, Tray!AckedStaysQuiet
================================================================================
