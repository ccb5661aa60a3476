----------------------------- MODULE CoordinatorHub -----------------------------
(****************************************************************************)
(* The CoordinatorHub of server/src/workspaces.ts: it folds the state of    *)
(* the global coordinator and of every open workspace's coordinator into    *)
(* the one scalar the desktop acts on (it refuses to quit or to update      *)
(* silently while that scalar is not "idle").                               *)
(*                                                                          *)
(* The environment of the hub is modelled as far as it calls it: workspaces *)
(* are opened (add), evicted (remove, then beginShutdown on a coordinator   *)
(* nobody listens to any more), and the pool is shut down and closed.  Each *)
(* callback is a step, because the desktop hears every single emission.     *)
(****************************************************************************)
EXTENDS Integers, Sequences, SequencesExt

CONSTANTS
  Ids,     \* profile ids whose workspaces may be opened
  Global,  \* the member '__profiles__', added before any workspace
  Kinds    \* the operation kinds in use

HubAssumption == Global \notin Ids /\ {"idle", "shuttingDown"} \intersect Kinds = {}

VARIABLES
  members,   \* ids in insertion order
  state,     \* state[i]: the state of i's current coordinator
  current,   \* this.current
  heard,     \* the last state the desktop's listener was called with
  evicting,  \* ids removed from the hub whose coordinator is not shut down yet
  closed     \* the pool's `closed` flag

vars == <<members, state, current, heard, evicting, closed>>

CoordinatorStates == Kinds \union {"idle", "shuttingDown"}

(* recompute: shuttingDown > any operation > idle; among operations, the     *)
(* first non-idle member by insertion order.                                 *)
Aggregate(ms, st) ==
  LET busy == {n \in DOMAIN ms : st[ms[n]] # "idle"}
  IN  IF \E i \in ToSet(ms) : st[i] = "shuttingDown" THEN "shuttingDown"
      ELSE IF busy = {} THEN "idle" ELSE st[ms[Min(busy)]]

(* recompute's tail: listeners are called only when the aggregate changed.   *)
Recompute(ms, st) ==
  /\ current' = Aggregate(ms, st)
  /\ heard' = IF Aggregate(ms, st) = current THEN heard ELSE Aggregate(ms, st)

(* runtime.ts:116-119: the global coordinator joins first, then the desktop  *)
(* subscribes and is called at once.                                         *)
Init ==
  /\ members = <<Global>>
  /\ state = [i \in Ids \union {Global} |-> "idle"]
  /\ current = "idle"
  /\ heard = "idle"
  /\ evicting = {}
  /\ closed = FALSE

(* remove: a member leaves, the others keep their order.                     *)
Leave(i) == \E n \in DOMAIN members : members[n] = i /\ members' = RemoveAt(members, n)

(* add: WorkspacePool.open registers a workspace with a new coordinator.     *)
Add(i) ==
  /\ ~closed
  /\ i \notin ToSet(members) \union evicting
  /\ members' = Append(members, i)
  /\ state' = [state EXCEPT ![i] = "idle"]
  /\ Recompute(members', state')
  /\ UNCHANGED <<evicting, closed>>

(* A member's coordinator emits; its callback recomputes the aggregate.      *)
ChildBegins(i, k) ==
  /\ i \in ToSet(members)
  /\ state[i] = "idle"
  /\ state' = [state EXCEPT ![i] = k]
  /\ Recompute(members, state')
  /\ UNCHANGED <<members, evicting, closed>>

ChildEnds(i) ==
  /\ i \in ToSet(members)
  /\ state[i] \in Kinds
  /\ state' = [state EXCEPT ![i] = "idle"]
  /\ Recompute(members, state')
  /\ UNCHANGED <<members, evicting, closed>>

\* Faulty variant: closeEntry shuts the coordinator down while it is a member.
GateThenRemove(i) ==
  /\ i \in ToSet(members) \ {Global}
  /\ state[i] = "idle"
  /\ ~closed
  /\ state' = [state EXCEPT ![i] = "shuttingDown"]
  /\ Recompute(members, state')
  /\ UNCHANGED <<members, evicting, closed>>

(* closeEntry, first half: an idle workspace's member leaves the hub ...     *)
EvictRemove(i) ==
  /\ ~closed
  /\ i \in ToSet(members) \ {Global}
  /\ state[i] = "idle"
  /\ Leave(i)
  /\ Recompute(members', state)
  /\ evicting' = evicting \union {i}
  /\ UNCHANGED <<state, closed>>

(* ... and only then its coordinator is shut down, unheard.                  *)
EvictGate(i) ==
  /\ i \in evicting
  /\ state' = [state EXCEPT ![i] = "shuttingDown"]
  /\ evicting' = evicting \ {i}
  /\ UNCHANGED <<members, current, heard, closed>>

(* The coordinators WorkspacePool.beginShutdown gates.                       *)
Gated == ToSet(members)

(* WorkspacePool.beginShutdown, synchronous: the closed flag, the global     *)
(* coordinator's gate and every entry's.  The first gate already moves the   *)
(* aggregate to shuttingDown, so the rest of the loop emits nothing more.    *)
BeginShutdown ==
  /\ ~closed
  /\ closed' = TRUE
  /\ state' = [i \in DOMAIN state |->
                 IF i \in Gated THEN "shuttingDown" ELSE state[i]]
  /\ Recompute(members, state')
  /\ UNCHANGED <<members, evicting>>

(* closeAll's finally block: each closed workspace leaves the hub.           *)
CloseAllRemove(i) ==
  /\ closed
  /\ i \in ToSet(members) \ {Global}
  /\ Leave(i)
  /\ Recompute(members', state)
  /\ UNCHANGED <<state, evicting, closed>>

Next ==
  \/ \E i \in Ids : \/ Add(i)
                    \/ EvictRemove(i)
                    \/ EvictGate(i)
                    \/ CloseAllRemove(i)
  \/ \E i \in Ids \union {Global} :
       \/ \E k \in Kinds : ChildBegins(i, k)
       \/ ChildEnds(i)
  \/ BeginShutdown

Spec == Init /\ [][Next]_vars

--------------------------------------------------------------------------------
(* Every variable stays in its domain; a workspace is a member at most once. *)
TypeOK ==
  /\ members \in Seq(Ids \union {Global})
  /\ IsInjective(members)
  /\ state \in [Ids \union {Global} -> CoordinatorStates]
  /\ {current, heard} \subseteq CoordinatorStates
  /\ evicting \in SUBSET Ids
  /\ closed \in BOOLEAN

(* The desktop never takes the runtime for idle while some member works, nor *)
(* for busy when none does: whatever is opened or evicted meanwhile          *)
(* (workspaces.ts:83-90).                                                    *)
IdleMeansIdle ==
  heard = "idle" <=> \A i \in ToSet(members) : state[i] = "idle"

(* "shuttingDown" reaches the desktop only for a real shutdown, never for an *)
(* eviction nobody asked about (workspaces.ts:359-365).                      *)
NoPhantomShutdown == heard = "shuttingDown" => closed

(* Once shutdown was announced the aggregate never goes back to idle, though *)
(* closeAll takes every workspace out of the hub again.                      *)
ShutdownIsFinal == [][heard = "shuttingDown" => heard' = "shuttingDown"]_vars

(* What the desktop hears is true of the workspaces (workspaces.ts:83-90,    *)
(* 359-365): it may quit or update without asking exactly when it may.       *)
AggregateIsTrue == [](TypeOK /\ IdleMeansIdle /\ NoPhantomShutdown) /\ ShutdownIsFinal
================================================================================
