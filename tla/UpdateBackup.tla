---------------------------- MODULE UpdateBackup ----------------------------
(****************************************************************************)
(* The copies made before an update is installed: restartToUpdate of        *)
(* desktop/src/main.ts, POST /backup/automatic over all profiles            *)
(* (createGlobalBackupApi of server/src/profiles-api.ts), and the retention *)
(* of automatic copies (server/src/backup-policy.ts), while profiles are    *)
(* created, deleted, written and backed up beside it.                       *)
(****************************************************************************)
EXTENDS Naturals, Sequences, FiniteSets

CONSTANTS
  Profiles,
  Keep,       \* how many automatic copies of a profile are kept
  MaxWrites,  \* how often a profile is written
  MaxCopies,  \* how many copies of a profile are made
  None

UpdateBackupAssumption == Keep \in Nat \ {0} /\ None \notin Profiles

VARIABLES
  existing,  \* the profiles of the registry
  gone,      \* the profiles that were deleted: an id is used once
  version,   \* version[p]: how often p's data was written
  copies,    \* copies[p]: its backup files, the newest first
  busy,      \* busy[p]: p's coordinator is held by an operation
  request,   \* "none", "looping", "copying", "ok", "failed" or "installing"
  targets,   \* what the loop has still to visit
  current,   \* the profile whose copy is being made
  failed,    \* failed > 0
  began      \* began[p]: p's version when the update was accepted, or None (history)

loop == <<request, targets, current, failed, began>>
vars == <<existing, gone, version, copies, busy, loop>>

Init ==
  /\ existing \in SUBSET Profiles \ {{}} /\ gone = {}
  /\ version = [p \in Profiles |-> 0] /\ copies = [p \in Profiles |-> <<>>]
  /\ busy = [p \in Profiles |-> FALSE]
  /\ request = "none" /\ targets = {} /\ current = None /\ failed = FALSE
  /\ began = [p \in Profiles |-> None]

Idle == \A p \in Profiles : ~busy[p]

Automatic(copy) == copy.kind = "automatic"
Younger(s, i) == {j \in 1 .. i - 1 : Automatic(s[j])}

KeptNewest(s, i) == Cardinality(Younger(s, i)) < Keep

\* pruneAutomaticBackups: manual copies are never considered.
Prune(s) ==
  LET Spared(i) == ~Automatic(s[i]) \/ KeptNewest(s, i)
      spared == {i \in DOMAIN s : Spared(i)}
  IN  [n \in 1 .. Cardinality(spared) |->
        s[CHOOSE i \in spared : Cardinality({j \in spared : j < i}) = n - 1]]

WithCopy(p, kind) == <<[kind |-> kind, version |-> version[p]]>> \o copies[p]

----------------------------------------------------------------------------
(* restartToUpdate and the loop over the profiles, in the registry's order. *)

Begin ==
  /\ request = "none" /\ Idle
  /\ request' = "looping" /\ targets' = existing /\ failed' = FALSE
  /\ began' = [p \in Profiles |-> IF p \in existing THEN version[p] ELSE None]
  /\ UNCHANGED <<existing, gone, version, copies, busy, current>>

RefuseBusy(p) == request' = "failed" /\ UNCHANGED failed

\* acquire and tryBegin: a profile deleted meanwhile, or that does not open, is a failure.
Visit(p) ==
  /\ request = "looping" /\ p \in targets
  /\ targets' = targets \ {p}
  /\ \/ /\ p \in existing /\ ~busy[p]
        /\ request' = "copying" /\ current' = p /\ busy' = [busy EXCEPT ![p] = TRUE]
        /\ UNCHANGED failed
     \/ p \in existing /\ busy[p] /\ RefuseBusy(p) /\ UNCHANGED <<current, busy>>
     \/ failed' = TRUE /\ UNCHANGED <<request, current, busy>>
  /\ UNCHANGED <<existing, gone, version, copies, began>>

\* The copy is written and old ones are pruned, or it fails; then the release.
Copied ==
  /\ request = "copying"
  /\ \/ copies' = [copies EXCEPT ![current] = Prune(WithCopy(current, "automatic"))] /\ UNCHANGED failed
     \/ failed' = TRUE /\ UNCHANGED copies
  /\ busy' = [busy EXCEPT ![current] = FALSE]
  /\ request' = "looping" /\ current' = None
  /\ UNCHANGED <<existing, gone, version, targets, began>>

\* Faulty variant: what was copied is good enough.
HalfIsEnough == "ok"

\* A partial failure is a failure.
Verdict == IF failed THEN "failed" ELSE "ok"

Answer ==
  /\ request = "looping" /\ targets = {}
  /\ request' = Verdict
  /\ UNCHANGED <<existing, gone, version, copies, busy, targets, current, failed, began>>

\* The desktop stops the runtime and installs, or tells why it did not.
Install ==
  /\ request = "ok"
  /\ request' = "installing"
  /\ UNCHANGED <<existing, gone, version, copies, busy, targets, current, failed, began>>

GiveUp ==
  /\ request = "failed"
  /\ request' = "none" /\ targets' = {} /\ began' = [p \in Profiles |-> None]
  /\ UNCHANGED <<existing, gone, version, copies, busy, current, failed>>

----------------------------------------------------------------------------
(* The other requests, until the runtime stops.                             *)

Running == request # "installing"
WritesLeft(p) == version[p] < MaxWrites

\* POST and DELETE of /profiles hold the global coordinator, not those of the profiles; a
\* delete waits for the leases of the profile.
Create(p) ==
  /\ Running /\ p \notin existing \union gone
  /\ existing' = existing \union {p}
  /\ UNCHANGED <<gone, version, copies, busy, loop>>

Delete(p) ==
  /\ Running /\ p \in existing /\ existing # {p} /\ ~busy[p]
  /\ existing' = existing \ {p} /\ gone' = gone \union {p}
  /\ copies' = [copies EXCEPT ![p] = <<>>]
  /\ UNCHANGED <<version, busy, loop>>

Write(p) ==
  /\ Running /\ p \in existing /\ WritesLeft(p)
  /\ version' = [version EXCEPT ![p] = @ + 1]
  /\ UNCHANGED <<existing, gone, copies, busy, loop>>

\* POST /backup, or an operation that keeps an automatic copy of its own, in one profile.
StartBackup(p) ==
  /\ Running /\ p \in existing /\ ~busy[p]
  /\ busy' = [busy EXCEPT ![p] = TRUE]
  /\ UNCHANGED <<existing, gone, version, copies, loop>>

EndBackup(p) ==
  /\ busy[p] /\ current # p /\ Len(copies[p]) < MaxCopies
  /\ \/ copies' = [copies EXCEPT ![p] = WithCopy(p, "manual")]
     \/ copies' = [copies EXCEPT ![p] = Prune(WithCopy(p, "automatic"))]
  /\ busy' = [busy EXCEPT ![p] = FALSE]
  /\ UNCHANGED <<existing, gone, version, loop>>

Next ==
  \/ Begin \/ Copied \/ Answer \/ Install \/ GiveUp
  \/ \E p \in Profiles :
       Visit(p) \/ Create(p) \/ Delete(p) \/ Write(p) \/ StartBackup(p) \/ EndBackup(p)

Spec == Init /\ [][Next]_vars

----------------------------------------------------------------------------
(* Properties.                                                              *)

Covered(p, since) == \E i \in DOMAIN copies[p] : copies[p][i].version >= since

\* An update is installed only over data of which every profile that was there when the
\* user accepted it has a copy as new as that, still on disk, whatever failed, was busy,
\* was deleted or was pruned meanwhile (profiles-api.ts:139, 192).
InstallIsCovered ==
  request = "installing" =>
    \A p \in existing : began[p] # None => Covered(p, began[p])

(* The parts of the inductive invariant it rests on. A profile that was     *)
(* there when the update was accepted is there or was deleted, and is only  *)
(* written further; until something fails, each that the loop has left      *)
(* behind is covered; and the profile being copied is held.                 *)
IsList(s) == Len(s) \in Nat /\ s = [i \in 1 .. Len(s) |-> s[i]]

Types ==
  /\ existing \subseteq Profiles /\ targets \subseteq Profiles
  /\ version \in [Profiles -> Nat] /\ began \in [Profiles -> Nat \union {None}]
  /\ DOMAIN copies = Profiles /\ \A p \in Profiles : IsList(copies[p])
  /\ busy \in [Profiles -> BOOLEAN] /\ failed \in BOOLEAN
  /\ current \in Profiles \union {None}
  /\ request \in {"none", "looping", "copying", "ok", "failed", "installing"}

BeganIsOld ==
  \A p \in Profiles : began[p] # None => p \in existing \union gone /\ began[p] <= version[p]

LoopIsHeld ==
  /\ request = "copying" <=> current # None
  /\ current # None => current \in existing /\ busy[current]
  /\ request \in {"ok", "installing"} => targets = {} /\ ~failed

VisitedIsCovered ==
  request \in {"looping", "copying", "ok", "installing"} /\ ~failed =>
    \A p \in existing \ (targets \union {current}) : began[p] # None => Covered(p, began[p])

Inv == Types /\ BeganIsOld /\ LoopIsHeld /\ VisitedIsCovered

\* The pre-update snapshot fans out over every profile (profiles-api.ts:140): what is
\* installed over has a copy.
EveryProfileIsCovered ==
  request = "installing" => \A p \in existing : Covered(p, 0)
=============================================================================
