---------------------------- MODULE DatabaseRestore ----------------------------
(****************************************************************************)
(* How a replacement reaches the disk: FinanceDb.restoreFrom of             *)
(* server/src/db.ts with its error paths, the end of the process between    *)
(* any two of its file operations, and the boot that follows                *)
(* (recoverInterruptedDatabase, then openProfileDatabase of workspaces.ts). *)
(*                                                                          *)
(* Every action is one operation on the files beside the live path.  No     *)
(* request is served between them: restoreFrom runs from the close of the   *)
(* connection to its reopening in one turn.  A copy is two actions, for the *)
(* process may end inside it; a rename is atomic.  Rollback files are       *)
(* ordered by modification time, taken to be the order they were made in.   *)
(****************************************************************************)
EXTENDS Naturals, Sequences

CONSTANTS
  Contents,  \* contents of a healthy database
  None,      \* no file; no replacement
  Torn,      \* a copy that was not finished: quick_check fails
  Litter     \* bound on the rollback files that may lie about

RestoreAssumption ==
  /\ None \notin Contents /\ Torn \notin Contents /\ None # Torn
  /\ Litter \in Nat \ {0}

VARIABLES
  live,       \* the file at dbPath
  staging,    \* the file at dbPath.restore-<suffix>
  rollbacks,  \* the files dbPath.rollback-*, oldest first
  handle,     \* open, closed by restoreFrom, or down: not opened yet
  step,       \* where restoreFrom or the boot stands
  wanted,     \* the backup being restored
  base,       \* what the database holds but for the restore under way
  reply       \* how the last restore ended

files == <<live, staging, rollbacks>>
vars == <<live, staging, rollbacks, handle, step, wanted, base, reply>>

RestoreSteps == {"staging", "moving", "installing", "checking", "accepted",
                 "quarantining", "puttingBack", "copyingBack", "reopening"}
BootSteps == {"inspecting", "copying", "opening"}
Healthy(file) == file \in Contents
Newest == rollbacks[Len(rollbacks)]
Older == SubSeq(rollbacks, 1, Len(rollbacks) - 1)

Init ==
  /\ live \in Contents
  /\ staging = None
  /\ rollbacks = <<>>
  /\ handle = "open"
  /\ step = "none"
  /\ wanted = None
  /\ base = live
  /\ reply = "none"

--------------------------------------------------------------------------------
(* restoreFrom.                                                             *)

(* backupTo and inspectDatabaseFile have passed: the backup is staged.      *)
Begin(backup) ==
  /\ handle = "open" /\ step = "none"
  /\ Len(rollbacks) < Litter
  /\ wanted' = backup
  /\ step' = "staging"
  /\ reply' = "none"
  /\ UNCHANGED <<files, handle, base>>

(* The restore is over: with the connection open, or lost until a restart.  *)
(* The finally block removes the staged file.                               *)
Finish(answer, connection) ==
  /\ step' = "none"
  /\ reply' = answer
  /\ handle' = connection
  /\ wanted' = None
  /\ staging' = None
  /\ base' = live

StagingFails ==
  /\ step = "staging"
  /\ Finish("failed", "open")
  /\ UNCHANGED <<live, rollbacks>>

(* The copy is reconciled and healthy; the connection is closed.            *)
Stage ==
  /\ step = "staging"
  /\ staging' = wanted
  /\ handle' = "closed"
  /\ step' = "moving"
  /\ UNCHANGED <<live, rollbacks, wanted, base, reply>>

(* live -> rollback                                                         *)
MoveLive ==
  /\ step = "moving"
  /\ rollbacks' = Append(rollbacks, live)
  /\ live' = None
  /\ step' = "installing"
  /\ UNCHANGED <<staging, handle, wanted, base, reply>>

(* liveMoved is false: the original is reopened where it is, or cannot be.  *)
MoveLiveFails ==
  /\ step = "moving"
  /\ \/ Finish("failed", "open")
     \/ Finish("lost", "closed")
  /\ UNCHANGED <<live, rollbacks>>

\* Faulty variant: the rollback is removed before the replacement is accepted.
InstallAndTidy ==
  /\ step = "installing"
  /\ live' = staging
  /\ staging' = None
  /\ rollbacks' = Older
  /\ step' = "checking"
  /\ UNCHANGED <<handle, wanted, base, reply>>

(* staging -> live                                                          *)
Install ==
  /\ step = "installing"
  /\ live' = staging
  /\ staging' = None
  /\ step' = "checking"
  /\ UNCHANGED <<rollbacks, handle, wanted, base, reply>>

InstallFails ==
  /\ step = "installing"
  /\ step' = "puttingBack"
  /\ UNCHANGED <<files, handle, wanted, base, reply>>

(* reopen and assertHealthy: replacementAccepted.                           *)
Check ==
  /\ step = "checking"
  /\ handle' = "open"
  /\ step' = "accepted"
  /\ UNCHANGED <<files, wanted, base, reply>>

\* Faulty variant: every failure is treated as if the original had not moved.
CheckFailsInPlace ==
  /\ step = "checking"
  /\ step' = "reopening"
  /\ UNCHANGED <<files, handle, wanted, base, reply>>

CheckFails ==
  /\ step = "checking"
  /\ step' = "quarantining"
  /\ UNCHANGED <<files, handle, wanted, base, reply>>

(* The finally block of an accepted replacement; removing is best effort.   *)
Accept ==
  /\ step = "accepted"
  /\ rollbacks' \in {rollbacks, Older}
  /\ Finish("restored", "open")
  /\ UNCHANGED live

(* live -> failed                                                           *)
Quarantine ==
  /\ step = "quarantining"
  /\ live' = None
  /\ step' = "puttingBack"
  /\ UNCHANGED <<staging, rollbacks, handle, wanted, base, reply>>

(* The replacement stays at the live path and the original beside it.       *)
QuarantineFails ==
  /\ step = "quarantining"
  /\ Finish("lost", "closed")
  /\ UNCHANGED <<live, rollbacks>>

(* rollback -> live                                                         *)
PutBack ==
  /\ step = "puttingBack"
  /\ live' = Newest
  /\ rollbacks' = Older
  /\ step' = "reopening"
  /\ UNCHANGED <<staging, handle, wanted, base, reply>>

\* Faulty variant: the rollback is consumed before its copy is complete.
PutBackConsumes ==
  /\ step = "puttingBack"
  /\ live' = Torn
  /\ rollbacks' = Older
  /\ step' = "copyingBack"
  /\ UNCHANGED <<staging, handle, wanted, base, reply>>

(* The rename failed: copyExclusive begins.                                 *)
PutBackByCopy ==
  /\ step = "puttingBack"
  /\ live' = Torn
  /\ step' = "copyingBack"
  /\ UNCHANGED <<staging, rollbacks, handle, wanted, base, reply>>

CopiedBack ==
  /\ step = "copyingBack"
  /\ live' = Newest
  /\ step' = "reopening"
  /\ UNCHANGED <<staging, rollbacks, handle, wanted, base, reply>>

(* The copy fails; what it has written may stay.                            *)
CopyBackFails ==
  /\ step = "copyingBack"
  /\ live' \in {None, Torn}
  /\ step' = "none"
  /\ reply' = "lost"
  /\ staging' = None
  /\ wanted' = None
  /\ UNCHANGED <<rollbacks, handle, base>>

(* The original is reopened and healthy, or cannot be.                      *)
Reopen ==
  /\ step = "reopening"
  /\ \/ Finish("failed", "open")
     \/ Finish("lost", "closed")
  /\ UNCHANGED <<live, rollbacks>>

--------------------------------------------------------------------------------
(* The end of the process, and the boot that follows.                       *)

(* What recoverInterruptedDatabase would make of the files as they are.     *)
Recovered ==
  IF Healthy(live) THEN live ELSE IF rollbacks # <<>> THEN Newest ELSE None

(* The process ends: anywhere in restoreFrom, in a boot, or between.        *)
Crash ==
  /\ handle # "down" \/ step # "none"
  /\ handle' = "down"
  /\ step' = "none"
  /\ wanted' = None
  /\ base' = Recovered
  /\ UNCHANGED <<files, reply>>

(* recoverInterruptedDatabase: nothing to do when there is no rollback file *)
(* or the live file is healthy.                                             *)
Boot ==
  /\ handle = "down" /\ step = "none"
  /\ step' = IF rollbacks = <<>> \/ Healthy(live) THEN "opening" ELSE "inspecting"
  /\ UNCHANGED <<files, handle, wanted, base, reply>>

(* A torn live file is moved to failed-recovery, which may fail.            *)
QuarantineTorn ==
  /\ step = "inspecting" /\ live = Torn
  /\ \/ live' = None /\ UNCHANGED step
     \/ step' = "none" /\ UNCHANGED live
  /\ UNCHANGED <<staging, rollbacks, handle, wanted, base, reply>>

(* copyFileSync of the newest rollback begins.                              *)
CopyRollback ==
  /\ step = "inspecting" /\ live = None
  /\ live' = Torn
  /\ step' = "copying"
  /\ UNCHANGED <<staging, rollbacks, handle, wanted, base, reply>>

(* It ends, healthy; or it fails, and what it wrote is removed or stays.    *)
CopyRollbackEnds ==
  /\ step = "copying"
  /\ \/ live' = Newest /\ step' = "opening"
     \/ live' \in {None, Torn} /\ step' = "none"
  /\ UNCHANGED <<staging, rollbacks, handle, wanted, base, reply>>

(* openProfileDatabase: a file that is there must pass inspection; where    *)
(* there is none a new, empty database is made.                             *)
Open ==
  /\ step = "opening" /\ live # Torn
  /\ handle' = "open"
  /\ step' = "none"
  /\ UNCHANGED <<files, wanted, base, reply>>

OpenFails ==
  /\ step = "opening"
  /\ step' = "none"
  /\ UNCHANGED <<files, handle, wanted, base, reply>>

Restore ==
  \/ \E backup \in Contents : Begin(backup)
  \/ StagingFails \/ Stage \/ MoveLive \/ MoveLiveFails \/ Install \/ InstallFails
  \/ Check \/ CheckFails \/ Accept \/ Quarantine \/ QuarantineFails
  \/ PutBack \/ PutBackByCopy \/ CopiedBack \/ CopyBackFails \/ Reopen

Next ==
  \/ Restore
  \/ Crash
  \/ Boot \/ QuarantineTorn \/ CopyRollback \/ CopyRollbackEnds \/ Open \/ OpenFails

Spec == Init /\ [][Next]_vars

--------------------------------------------------------------------------------
(* Every variable stays in its domain.                                      *)
TypeOK ==
  /\ live \in Contents \union {None, Torn}
  /\ staging \in Contents \union {None}
  /\ rollbacks \in Seq(Contents)
  /\ handle \in {"open", "closed", "down"}
  /\ step \in {"none"} \union RestoreSteps \union BootSteps
  /\ wanted \in Contents \union {None}
  /\ base \in Contents
  /\ reply \in {"none", "restored", "failed", "lost"}

(* An open database is one of the user's: never one that a boot made anew   *)
(* because the live file was missing, nor a copy that was not finished.     *)
OpenMeansHealthy == handle = "open" => Healthy(live)

(* db.ts:1482: until a replacement is accepted the original is on disk, at  *)
(* the live path or as a rollback, through every error path.                *)
OriginalRetained ==
  step \in RestoreSteps \ {"accepted"} =>
    base = live \/ \E i \in 1 .. Len(rollbacks) : rollbacks[i] = base

(* What the user stored survives a restore, at every step and through every *)
(* crash: the open database is one of theirs, and the original is not given *)
(* up before its replacement is accepted (db.ts:1482).                      *)
DataIsSafe == OpenMeansHealthy /\ OriginalRetained

(* A restore that reports a failure and goes on serving serves the original.*)
FailedRestoreKeepsOriginal ==
  [][/\ step \in RestoreSteps /\ step' = "none"
     /\ reply' = "failed" /\ handle' = "open"
     => live' = base]_vars

(* The replacement is atomic: a boot finds all of it or nothing of it.      *)
Abstract == INSTANCE AtomicReplace WITH content <- Recovered
ReplacesAtomically == Abstract!Spec

(* The parts of the inductive invariant the theorems rest on: where         *)
(* restoreFrom and the boot stand says what is on disk.                     *)
AtRest ==
  step \notin RestoreSteps =>
    wanted = None /\ Recovered = base /\ (handle = "open" => live = base)

Restoring ==
  step \in RestoreSteps =>
    wanted \in Contents /\ handle = IF step \in {"staging", "accepted"} THEN "open" ELSE "closed"

OriginalLive == step \in {"staging", "moving", "reopening", "opening"} => live = base

ReplacementStaged == step \in {"moving", "installing"} => staging = wanted

ReplacementLive == step \in {"checking", "quarantining", "accepted"} => live = wanted

RollbackKept ==
  step \in {"installing", "checking", "quarantining", "puttingBack", "copyingBack"} =>
    rollbacks # <<>> /\ Newest = base

LiveMissing ==
  /\ step \in {"installing", "puttingBack"} => live = None
  /\ step \in {"copyingBack", "copying"} => live = Torn

Booting ==
  /\ step \in BootSteps => handle = "down"
  /\ step \in {"inspecting", "copying"} => ~Healthy(live) /\ rollbacks # <<>>

Inv ==
  /\ AtRest
  /\ Restoring
  /\ OriginalLive
  /\ ReplacementStaged
  /\ ReplacementLive
  /\ RollbackKept
  /\ LiveMissing
  /\ Booting
================================================================================
