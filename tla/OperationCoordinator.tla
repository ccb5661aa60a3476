-------------------------- MODULE OperationCoordinator --------------------------
(****************************************************************************)
(* server/src/operation-coordinator.ts: the class that serialises the       *)
(* operations which mutate or snapshot one database.                        *)
(*                                                                          *)
(* Every method is synchronous, so each is one action.  A lease is a value  *)
(* of Leases (its identity is the code's token symbol); its holder may      *)
(* release it again long after another lease was granted.  The asynchronous *)
(* callers are the waiters: promises of beginShutdown or waitForIdle, and   *)
(* observers subscribed to the state.                                       *)
(****************************************************************************)
CONSTANTS
  Leases,     \* lease objects tryBegin may return, each at most once
  Waiters,    \* promises beginShutdown and waitForIdle may return
  Listeners,  \* callbacks that may subscribe
  NoLease     \* this.active = null

ASSUME NoLeaseNotALease == NoLease \notin Leases

Kinds == {"syncing", "backingUp", "restoring", "migrating"}
States == Kinds \union {"idle", "shuttingDown"}

VARIABLES
  active,        \* the lease whose token is this.active.token, or NoLease
  operation,     \* this.active?.operation ?? 'idle'
  shuttingDown,  \* this.shuttingDown
  lease,         \* lease[l]: "fresh", "held", or "released" (the closure's flag)
  promise,       \* promise[w]: its state, and which method returned it
  listening,     \* the subscribed listeners
  told           \* told[x]: the state listener x was last called with

vars == <<active, operation, shuttingDown, lease, promise, listening, told>>

LeaseStates == {"fresh", "held", "released"}
PromiseStates == {"none", "pending", "resolved"}
Origins == {"none", "beginShutdown", "waitForIdle"}

(* The getter `state`: shutting down hides whatever is still running. *)
State == IF shuttingDown THEN "shuttingDown" ELSE operation

(* emitState: every subscribed listener is called with the new state. *)
Emit(state) ==
  told' = [x \in Listeners |-> IF x \in listening THEN state ELSE told[x]]

(* notifyIdle: every pending promise resolves. *)
NotifyIdle ==
  promise' = [w \in Waiters |->
                IF promise[w].state = "pending"
                THEN [promise[w] EXCEPT !.state = "resolved"]
                ELSE promise[w]]

Init ==
  /\ active = NoLease
  /\ operation = "idle"
  /\ shuttingDown = FALSE
  /\ lease = [l \in Leases |-> "fresh"]
  /\ promise = [w \in Waiters |-> [state |-> "none", from |-> "none"]]
  /\ listening = {}
  /\ told = [x \in Listeners |-> "idle"]

Grant(l, k) ==
  /\ lease[l] = "fresh"
  /\ active' = l
  /\ operation' = k
  /\ lease' = [lease EXCEPT ![l] = "held"]
  /\ Emit(k)
  /\ UNCHANGED <<shuttingDown, promise, listening>>

\* Faulty variant: the gate is not consulted.
UngatedTryBegin(l, k) == active = NoLease /\ Grant(l, k)

(* A refused call returns null and changes nothing. *)
TryBegin(l, k) == ~shuttingDown /\ active = NoLease /\ Grant(l, k)

\* Faulty variant: the waiters are not notified.
SilentFreeSlot(l) ==
  /\ active' = NoLease
  /\ operation' = "idle"
  /\ lease' = [lease EXCEPT ![l] = "released"]
  /\ Emit(IF shuttingDown THEN "shuttingDown" ELSE "idle")
  /\ UNCHANGED <<shuttingDown, promise, listening>>

FreeSlot(l) ==
  /\ active' = NoLease
  /\ operation' = "idle"
  /\ lease' = [lease EXCEPT ![l] = "released"]
  /\ NotifyIdle
  /\ Emit(IF shuttingDown THEN "shuttingDown" ELSE "idle")
  /\ UNCHANGED <<shuttingDown, listening>>

\* Faulty variant: neither the released flag nor the token is compared.
FlaglessRelease(l) == lease[l] # "fresh" /\ FreeSlot(l)

(* release(): frees the slot while the token matches; a second call returns  *)
(* at the closure's flag, which is set either way.                           *)
Release(l) ==
  /\ lease[l] # "fresh"
  /\ IF lease[l] = "held" /\ active = l
     THEN FreeSlot(l)
     ELSE /\ lease' = [lease EXCEPT ![l] = "released"]
          /\ UNCHANGED <<active, operation, shuttingDown, promise, listening, told>>

NewPromise(w, from) ==
  /\ promise[w].state = "none"
  /\ promise' = [promise EXCEPT ![w] =
                   [state |-> IF active = NoLease THEN "resolved" ELSE "pending",
                    from  |-> from]]

BeginShutdown(w) ==
  /\ NewPromise(w, "beginShutdown")
  /\ shuttingDown' = TRUE
  /\ Emit("shuttingDown")
  /\ UNCHANGED <<active, operation, lease, listening>>

WaitForIdle(w) ==
  /\ NewPromise(w, "waitForIdle")
  /\ UNCHANGED <<active, operation, shuttingDown, lease, listening, told>>

(* subscribe calls the listener at once with the current state. *)
Subscribe(x) ==
  /\ x \notin listening
  /\ listening' = listening \union {x}
  /\ told' = [told EXCEPT ![x] = State]
  /\ UNCHANGED <<active, operation, shuttingDown, lease, promise>>

Unsubscribe(x) ==
  /\ x \in listening
  /\ listening' = listening \ {x}
  /\ UNCHANGED <<active, operation, shuttingDown, lease, promise, told>>

Next ==
  \/ \E l \in Leases, k \in Kinds : TryBegin(l, k)
  \/ \E l \in Leases : Release(l)
  \/ \E w \in Waiters : BeginShutdown(w) \/ WaitForIdle(w)
  \/ \E x \in Listeners : Subscribe(x) \/ Unsubscribe(x)

(* Every handler of routes.ts that takes a lease releases it in a finally   *)
(* block (or on each of its exits), so a held lease is eventually released. *)
Fairness == \A l \in Leases : WF_vars(lease[l] = "held" /\ Release(l))

Spec == Init /\ [][Next]_vars
FairSpec == Spec /\ Fairness

--------------------------------------------------------------------------------
(* Every variable stays in its domain. *)
TypeOK ==
  /\ active \in Leases \union {NoLease}
  /\ operation \in Kinds \union {"idle"}
  /\ shuttingDown \in BOOLEAN
  /\ lease \in [Leases -> LeaseStates]
  /\ promise \in [Waiters -> [state : PromiseStates, from : Origins]]
  /\ listening \in SUBSET Listeners
  /\ told \in [Listeners -> States]

(* The slot names exactly the lease that is held: no two operations hold a  *)
(* lease at once, no released lease keeps the slot, and a late second       *)
(* release() of an old lease never frees the slot under a newer one         *)
(* (operation-coordinator.ts:34-44, the released flag and the token check). *)
OnlyHeldLeaseIsActive ==
  \A l \in Leases : lease[l] = "held" <=> active = l

(* A resolved beginShutdown() promise means drained for good: no operation  *)
(* is active when it resolves or ever after, which is what closeAll and     *)
(* closeEntry rely on when they close the database behind it.               *)
ShutdownPromiseMeansDrained ==
  \A w \in Waiters :
    promise[w] = [state |-> "resolved", from |-> "beginShutdown"]
      => shuttingDown /\ active = NoLease

(* A promise is left pending only while an operation is active: no caller   *)
(* of waitForIdle is forgotten once the slot is free.                       *)
PendingOnlyWhileActive ==
  (\E w \in Waiters : promise[w].state = "pending") => active # NoLease

(* A subscribed listener's view is never stale: what it was last told is    *)
(* the state now (the hub recomputes only when it is called).               *)
ListenersAreCurrent == \A x \in listening : told[x] = State

(* What every caller of the coordinator relies on: one operation at a time, *)
(* drained when the shutdown says so, and nobody told a stale state         *)
(* (operation-coordinator.ts:22-76).                                        *)
CoordinatorIsSound ==
  /\ OnlyHeldLeaseIsActive
  /\ ShutdownPromiseMeansDrained
  /\ ListenersAreCurrent

(* The gate is shut before the first beginShutdown() promise exists.         *)
ShutdownPromiseShutsGate ==
  \A w \in Waiters : promise[w].from = "beginShutdown" => shuttingDown

(* The conjunction that is inductive: each property above needs the others. *)
Inv ==
  /\ OnlyHeldLeaseIsActive
  /\ active = NoLease <=> operation = "idle"
  /\ ShutdownPromiseShutsGate
  /\ ShutdownPromiseMeansDrained
  /\ PendingOnlyWhileActive
  /\ ListenersAreCurrent

(* Every caller waiting for the drain is eventually released, provided      *)
(* lease holders release.                                                   *)
WaitersAreReleased ==
  \A w \in Waiters : promise[w].state = "pending" ~> promise[w].state = "resolved"

(* The coordinator implements the exclusive slot behind a one-way gate.     *)
Gate == INSTANCE AdmissionGate WITH
          holder <- active, open <- ~shuttingDown,
          spent <- {l \in Leases : lease[l] # "fresh"}
ImplementsGate == Gate!GateSpec
================================================================================
