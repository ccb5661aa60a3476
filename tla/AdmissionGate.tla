----------------------------- MODULE AdmissionGate -----------------------------
(****************************************************************************)
(* What server/src/operation-coordinator.ts promises to its callers, and    *)
(* nothing about how: one exclusive slot behind a gate that shuts for good. *)
(****************************************************************************)
CONSTANTS
  Leases,   \* the leases that may ever be handed out
  NoLease   \* the value of an empty slot

VARIABLES
  holder,   \* the lease in the slot, or NoLease
  open,     \* the gate still admits
  spent     \* the leases handed out so far: none is handed out twice

gateVars == <<holder, open, spent>>

GateInit ==
  /\ holder = NoLease
  /\ open = TRUE
  /\ spent = {}

Admit(l) ==
  /\ open
  /\ holder = NoLease
  /\ l \notin spent
  /\ holder' = l
  /\ spent' = spent \union {l}
  /\ UNCHANGED open

Leave ==
  /\ holder # NoLease
  /\ holder' = NoLease
  /\ UNCHANGED <<open, spent>>

Shut ==
  /\ open' = FALSE
  /\ UNCHANGED <<holder, spent>>

GateNext == (\E l \in Leases : Admit(l)) \/ Leave \/ Shut

GateSpec == GateInit /\ [][GateNext]_gateVars
================================================================================
