---------------------------- MODULE MCProfileStore ----------------------------
(* What keeps the user's data on the disk, each part explored by itself:    *)
(* the restore of a database, the store of profiles, the first start of an  *)
(* installation and the copies made before an update. `part` chooses one at *)
(* the start; the others rest in their initial states.                      *)
(*                                                                          *)
(* Three contents of a database, so that a second restore has an original   *)
(* that is neither the first one nor its own replacement. The ids of the    *)
(* store are interchangeable.                                               *)
EXTENDS ProfileStore, TLC

CONSTANTS Contents, Torn, Litter, \* of the restore
          FirstIds, MaxVersions, \* of the first start
          Profiles, Keep, MaxWrites, MaxCopies  \* of the copies

VARIABLES part,
          live, staging, rollbacks, handle, restoreStep, wanted, base, restoreReply,
          older, root, marker, firstPlace, firstContent, registered,
          phase, copied, created, answered,
          existing, gone, version, copies, busy, request, targets, current, failed, began
restoreVars == <<live, staging, rollbacks, handle, restoreStep, wanted, base, restoreReply>>
firstVars == <<older, root, marker, firstPlace, firstContent, registered,
               phase, copied, created, answered>>
backupVars == <<existing, gone, version, copies, busy, request, targets, current, failed, began>>

Restore == INSTANCE DatabaseRestore WITH step <- restoreStep, reply <- restoreReply
First == INSTANCE FirstRun WITH
           Ids <- FirstIds, legacy <- older, place <- firstPlace, content <- firstContent
Backup == INSTANCE UpdateBackup
ASSUME StoreAssumptions == StoreAssumption
ASSUME FilesDiffer == Restore!RestoreAssumption
ASSUME FirstAssumption == First!FirstRunAssumption
ASSUME BackupAssumption == Backup!UpdateBackupAssumption

MCInit == /\ part \in {"restore", "store", "first", "backup"}
          /\ Init /\ Restore!Init /\ First!Init /\ Backup!Init
          /\ part # "restore" => live = CHOOSE d \in Contents : TRUE
          /\ part # "store" => registry = None /\ legacy = {}
          /\ part # "first" => older = None
          /\ part # "backup" => existing = Profiles
MCNext ==
  \/ part = "store" /\ Next /\ UNCHANGED <<part, restoreVars, firstVars, backupVars>>
  \/ part = "restore" /\ Restore!Next /\ UNCHANGED <<part, vars, firstVars, backupVars>>
  \/ part = "first" /\ First!Next /\ UNCHANGED <<part, vars, restoreVars, backupVars>>
  \/ part = "backup" /\ Backup!Next /\ UNCHANGED <<part, vars, restoreVars, firstVars>>
MCSpec == MCInit /\ [][MCNext]_<<part, vars, restoreVars, firstVars, backupVars>>

IdSymmetry == Permutations(Ids)

\* Of DatabaseRestore: what opens is the user's, and the original is there until its
\* replacement is accepted (db.ts:1482).
DataIsSafe == Restore!DataIsSafe
\* A restore that fails and goes on serving serves the original (db.ts:1482).
FailedRestoreKeepsOriginal == Restore!FailedRestoreKeepsOriginal
\* The restore and the recovery of a boot implement AtomicReplace.
ReplacesAtomically == Restore!ReplacesAtomically

\* CopyIsWhole, LegacyComesOnce and WizardIsAnswered of FirstRun: a first start that is killed
\* anywhere neither mixes nor repeats the copy, nor skips the wizard (migration.ts:85);
\* ExitSparesData: the exit of the wizard moves no data of the user aside (main.ts:170).
FirstStartIsSafe ==
  []First!FirstRunIsSound /\ First!ExitSparesData

\* InstallIsCovered of UpdateBackup: an update is installed over data that has a copy on disk
\* (profiles-api.ts:139, 192).
InstallIsCovered == Backup!InstallIsCovered
================================================================================
