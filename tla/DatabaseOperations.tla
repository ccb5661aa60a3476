--------------------------- MODULE DatabaseOperations ---------------------------
(****************************************************************************)
(* The routes of server/src/routes.ts that snapshot, replace or wipe one    *)
(* profile's database, and the routes that write to it without an operation *)
(* of their own, which only the router's gate holds back.                   *)
(*                                                                          *)
(* What runs between two real waits (an SQLite backup or copy, the fetch of *)
(* an exchange rate) is one action.  The database and its backups are       *)
(* reduced to the user's writes in them; retention, which keeps the ten     *)
(* newest automatic copies, is left out.  What a sync does to it is in      *)
(* ScrapeSync, how a replacement reaches the disk in DatabaseRestore.       *)
(****************************************************************************)
EXTENDS Naturals, FiniteSets

CONSTANTS
  Writes,  \* the user's writes: verdicts, rules, assets
  Assets   \* those that may have to await an exchange rate

AssetsAreWrites == Assets \subseteq Writes

VARIABLES
  slot,     \* coordinator.state
  step,     \* how far the operation that holds the slot has come
  live,     \* the writes in the database
  archive,  \* the contents of the backups, manual and automatic
  write     \* write[w]: how far write w has come

vars == <<slot, step, live, archive, write>>

OperationStates == {"idle", "syncing", "backingUp", "restoring", "migrating"}
OperationSteps == {"none", "syncing", "backup", "saving", "staging", "wiping"}

Init ==
  /\ slot = "idle"
  /\ step = "none"
  /\ live = {}
  /\ archive = {{}}
  /\ write = [w \in Writes |-> "new"]

--------------------------------------------------------------------------------
(* Operations: tryBegin, the awaits, and release in a finally block.        *)

Begin(operation, first) ==
  /\ slot = "idle"
  /\ slot' = operation
  /\ step' = first
  /\ UNCHANGED <<live, archive, write>>

StartSync == Begin("syncing", "syncing")
StartBackup == Begin("backingUp", "backup")
StartRestore == Begin("restoring", "saving")
StartImport == Begin("migrating", "saving")
StartFullWipe == Begin("restoring", "wiping")

End ==
  /\ slot' = "idle"
  /\ step' = "none"

(* The copy backupTo makes, through the live connection: what was written   *)
(* while it ran is in it.                                                   *)
Copy == archive' = archive \union {live}

BackupEnds ==
  /\ step = "backup"
  /\ Copy
  /\ End
  /\ UNCHANGED <<live, write>>

(* restoreFrom has its pre-restore copy and stages the replacement.         *)
SaveEnds ==
  /\ step = "saving"
  /\ Copy
  /\ step' = "staging"
  /\ UNCHANGED <<slot, live, write>>

(* The staged copy of one of the backups becomes the live database.         *)
Swap ==
  /\ step = "staging"
  /\ live' \in archive
  /\ End
  /\ UNCHANGED <<archive, write>>

(* DELETE /data/full: the safety copy is there; verdicts and rules go, the  *)
(* assets stay.                                                             *)
WipeAll ==
  /\ step = "wiping"
  /\ Copy
  /\ live' = live \intersect Assets
  /\ End
  /\ UNCHANGED write

(* A sync ends, or one of the awaits fails: the database stays as it is.    *)
OperationEnds ==
  /\ step # "none"
  /\ End
  /\ UNCHANGED <<live, archive, write>>

--------------------------------------------------------------------------------
(* Writes.                                                                  *)

\* Faulty variant: the gate knows of restores but not of imports.
AdmitsDuringImport == slot \notin {"syncing", "restoring"}

(* The router's gate, for methods other than GET.                           *)
Admits == slot \notin {"syncing", "restoring", "migrating"}

Store(w) ==
  /\ live' = live \union {w}
  /\ write' = [write EXCEPT ![w] = "answered"]
  /\ UNCHANGED <<slot, step, archive>>

(* The route asks for no rate, or ensureRates finds a fresh one.            *)
WriteNow(w) ==
  /\ write[w] = "new" /\ Admits
  /\ Store(w)

(* POST and PUT /assets in a foreign currency whose rate is not fresh.      *)
AwaitRates(w) ==
  /\ w \in Assets
  /\ write[w] = "new" /\ Admits
  /\ write' = [write EXCEPT ![w] = "fetching"]
  /\ UNCHANGED <<slot, step, live, archive>>

(* The fetch has ended and some rate, new or old, is there.                 *)
WriteAfterRates(w) ==
  /\ write[w] = "fetching"
  /\ Store(w)

(* The fetch has failed and there is no rate: 409, nothing is written.      *)
RefuseWrite(w) ==
  /\ write[w] = "fetching"
  /\ write' = [write EXCEPT ![w] = "refused"]
  /\ UNCHANGED <<slot, step, live, archive>>

Next ==
  \/ StartSync \/ StartBackup \/ StartRestore \/ StartImport \/ StartFullWipe
  \/ BackupEnds \/ SaveEnds \/ Swap \/ WipeAll \/ OperationEnds
  \/ \E w \in Writes :
       WriteNow(w) \/ AwaitRates(w) \/ WriteAfterRates(w) \/ RefuseWrite(w)

Spec == Init /\ [][Next]_vars

--------------------------------------------------------------------------------
(* Every variable stays in its domain; only assets await a rate.            *)
TypeOK ==
  /\ slot \in OperationStates
  /\ step \in OperationSteps
  /\ live \in SUBSET Writes
  /\ archive \in SUBSET SUBSET Writes
  /\ write \in [Writes -> {"new", "fetching", "answered", "refused"}]
  /\ \A w \in Writes : write[w] \in {"fetching", "refused"} => w \in Assets

(* A write the user was told of is in the database or in one of its backups.*)
Kept(w) == write[w] = "answered" => w \in live \union UNION archive

(* No verdict or rule is lost, whatever was restored, imported or wiped     *)
(* since: the copies are complete because the gate keeps writes out while   *)
(* the database is being replaced.                                          *)
NoVerdictLost == \A w \in Writes \ Assets : Kept(w)

(* db.test.ts:281: a restore keeps a snapshot of what it replaces; so no    *)
(* write at all is lost, the ones that awaited a rate included.             *)
NoWriteLost == \A w \in Writes : Kept(w)

(* The parts of the inductive invariant NoVerdictLost rests on: nothing but *)
(* an asset enters the database between the copy and the swap, because the  *)
(* gate is shut from the first step to the last.                            *)
StagedIsSaved == step = "staging" => live \ Assets \subseteq UNION archive
GateIsShut == step \in {"saving", "staging", "wiping"} => slot \in {"restoring", "migrating"}

Inv == NoVerdictLost /\ StagedIsSaved /\ GateIsShut
================================================================================
