------------------------------ MODULE FirstRun ------------------------------
(****************************************************************************)
(* The first start of the desktop application (desktop/src/migration.ts,    *)
(* paths.ts and the first-run functions of main.ts): the data of an older   *)
(* installation is copied in, a marker is left while the wizard is open,    *)
(* and the exit of the wizard moves aside the profile this start created.   *)
(*                                                                          *)
(* The process may be killed between any two steps and inside a copy. The   *)
(* runtime's own start is abstracted to its result: a database at the root  *)
(* of the data directory becomes a profile, and an empty installation gets  *)
(* an empty one. Between two starts the older installation may still be     *)
(* used.                                                                    *)
(****************************************************************************)
EXTENDS Naturals, Sequences

CONSTANTS
  Ids,          \* the profiles that may come to exist
  MaxVersions,  \* how often the older installation may change
  None

FirstRunAssumption ==
  /\ Ids \intersect {None, "torn", "plain"} = {} /\ None \notin {"torn", "plain"}
  /\ MaxVersions \in Nat

VARIABLES
  legacy,      \* the older installation: [version, wal, marker], or None
  root,        \* the files at the root of the data directory: [database, wal]
  marker,      \* first-run.pending: None, "torn", "plain", or the provisional profile
  place,       \* place[id]: "nowhere", "profiles" or "deleted"
  content,     \* content[id]: "empty", "legacy", "imported" or "own"
  registered,  \* the profiles the registry names
  phase,       \* "off", "copying", "gate", "starting", "started", "wizard", "imported", "open"
  copied,      \* how many files of the copy are done
  created,     \* firstRunCreatedData
  answered     \* the user has answered the wizard (history)

disk == <<legacy, root, marker, place, content, registered>>
vars == <<disk, phase, copied, created, answered>>

Live == {id \in Ids : place[id] = "profiles"}

Init ==
  /\ legacy \in {None} \union [version : {0}, wal : BOOLEAN, marker : BOOLEAN]
  /\ root = [database |-> None, wal |-> None]
  /\ marker = None
  /\ place = [id \in Ids |-> "nowhere"] /\ content = [id \in Ids |-> "empty"] /\ registered = {}
  /\ phase = "off" /\ copied = 0 /\ created = FALSE /\ answered = FALSE

----------------------------------------------------------------------------
(* The copy of the older installation, at every start.                      *)

\* hasExistingData: a registered profile that is still there, a database at the root, or a
\* profile's database.
HasExistingData == root.database # None \/ Live # {}

\* Faulty variant: the database before what belongs to it.
DatabaseFirst == <<"marker", "database", "wal">>

\* The database last: it is what marks the copy as complete.
CopyOrder == <<"marker", "wal", "database">>

Boot ==
  /\ phase = "off"
  /\ phase' = IF legacy = None \/ HasExistingData THEN "gate" ELSE "copying"
  /\ copied' = 0
  /\ UNCHANGED <<disk, created, answered>>

\* syncSidecar.
SyncSidecar == IF legacy.wal THEN legacy.version ELSE None

Copied(file) ==
  \/ file = "marker" /\ marker' = (IF legacy.marker THEN "plain" ELSE marker) /\ UNCHANGED root
  \/ file = "wal" /\ root' = [root EXCEPT !.wal = SyncSidecar] /\ UNCHANGED marker
  \/ /\ file = "database"
     /\ root' = [root EXCEPT !.database = [version |-> legacy.version, wal |-> legacy.wal]]
     /\ UNCHANGED marker

CopyFile ==
  /\ phase = "copying" /\ copied < Len(CopyOrder)
  /\ Copied(CopyOrder[copied + 1])
  /\ copied' = copied + 1
  /\ phase' = IF copied' = Len(CopyOrder) THEN "gate" ELSE "copying"
  /\ UNCHANGED <<legacy, place, content, registered, created, answered>>

\* copyFileAtomic removes the destination before it renames the copy: killed in between.
KilledInCopy ==
  /\ phase = "copying"
  /\ LET file == CopyOrder[copied + 1] IN
       \/ file = "marker" /\ legacy.marker /\ marker' = None /\ UNCHANGED root
       \/ file = "wal" /\ root' = [root EXCEPT !.wal = None] /\ UNCHANGED marker
       \/ file = "database" /\ root' = [root EXCEPT !.database = None] /\ UNCHANGED marker
  /\ phase' = "off"
  /\ UNCHANGED <<legacy, place, content, registered, copied, created, answered>>

----------------------------------------------------------------------------
(* The marker, and the start of the runtime.                                *)

\* ensureFirstRunPendingMarker without an id: created exclusively.
EnsureMarker == marker' = IF marker = None THEN "plain" ELSE marker

\* initialize, up to the start of the runtime.
Gate ==
  /\ phase = "gate"
  /\ created' = ~HasExistingData
  /\ IF HasExistingData THEN UNCHANGED marker ELSE EnsureMarker
  /\ phase' = "starting"
  /\ UNCHANGED <<legacy, root, place, content, registered, copied, answered>>

\* The marker is written in place: killed with it empty.
KilledInMarker ==
  /\ phase = "gate" /\ ~HasExistingData /\ marker = None
  /\ marker' = "torn" /\ phase' = "off"
  /\ UNCHANGED <<legacy, root, place, content, registered, copied, created, answered>>

\* The runtime starts, or is killed with the older database moved into a profile that it has
\* not registered yet; killed with an empty profile half made, it leaves only litter.
StartRuntime ==
  /\ phase = "starting"
  /\ \/ Live # {} /\ registered' = Live /\ UNCHANGED <<place, content>>
     \/ /\ Live = {}
        /\ \E id \in Ids :
             /\ place[id] = "nowhere"
             /\ place' = [place EXCEPT ![id] = "profiles"]
             /\ content' = [content EXCEPT ![id] = IF root.database = None THEN "empty" ELSE "legacy"]
             /\ registered' \in IF root.database = None THEN {Live'} ELSE {Live', registered}
  /\ phase' = IF registered' = Live' THEN "started" ELSE "off"
  /\ root' = [database |-> None, wal |-> None]
  /\ UNCHANGED <<legacy, marker, copied, created, answered>>

Active == CHOOSE id \in Live : id \in registered

\* Faulty variant: the active profile is provisional whichever start created it.
AlwaysRecorded(id) == TRUE

\* recordProvisionalProfile: only a profile this start caused to be created.
Recorded(id) == created

\* ensureFirstRunPendingMarker with an id: annotates a marker it can read.
Wizard ==
  /\ phase = "started" /\ marker # None
  /\ marker' = IF Recorded(Active) /\ marker # "torn" THEN Active ELSE marker
  /\ phase' = "wizard"
  /\ UNCHANGED <<legacy, root, place, content, registered, copied, created, answered>>

Open ==
  /\ phase = "started" /\ marker = None
  /\ phase' = "open"
  /\ UNCHANGED <<disk, copied, created, answered>>

----------------------------------------------------------------------------
(* The wizard.                                                              *)

\* "Start new", or the word of an import that is done: completeFirstRun.
StartNew ==
  /\ phase = "wizard"
  /\ marker' = None /\ phase' = "open" /\ answered' = TRUE
  /\ UNCHANGED <<legacy, root, place, content, registered, copied, created>>

\* "Import": the runtime replaces the database; the wizard hears of it later.
Import ==
  /\ phase = "wizard"
  /\ content' = [content EXCEPT ![Active] = "imported"]
  /\ phase' = "imported"
  /\ UNCHANGED <<legacy, root, marker, place, registered, copied, created, answered>>

ImportHeard ==
  /\ phase = "imported"
  /\ marker' = None /\ phase' = "open" /\ answered' = TRUE
  /\ UNCHANGED <<legacy, root, place, content, registered, copied, created>>

\* "Exit": discardProvisionalFirstRunData, which may fail, then completeFirstRun.
Discarded ==
  IF marker \in Live THEN place' \in {place, [place EXCEPT ![marker] = "deleted"]}
  ELSE UNCHANGED place

Exit ==
  /\ phase = "wizard"
  /\ Discarded
  /\ marker' = None /\ phase' = "off" /\ answered' = TRUE
  /\ UNCHANGED <<legacy, root, content, registered, copied, created>>

\* Killed between the two.
KilledInExit ==
  /\ phase = "wizard" /\ marker \in Live
  /\ place' = [place EXCEPT ![marker] = "deleted"]
  /\ phase' = "off" /\ answered' = TRUE
  /\ UNCHANGED <<legacy, root, marker, content, registered, copied, created>>

----------------------------------------------------------------------------
(* The user, before and after.                                              *)

Use ==
  /\ phase = "open"
  /\ content' = [content EXCEPT ![Active] = "own"]
  /\ UNCHANGED <<legacy, root, marker, place, registered, phase, copied, created, answered>>

Killed ==
  /\ phase # "off" /\ phase' = "off"
  /\ UNCHANGED <<disk, copied, created, answered>>

\* The older installation is used once more; its log may have been folded in.
UseLegacy ==
  /\ phase = "off" /\ legacy # None /\ legacy.version < MaxVersions
  /\ \E wal \in BOOLEAN : legacy' = [legacy EXCEPT !.version = @ + 1, !.wal = wal]
  /\ UNCHANGED <<root, marker, place, content, registered, phase, copied, created, answered>>

Next ==
  \/ Boot \/ CopyFile \/ KilledInCopy \/ Gate \/ KilledInMarker \/ StartRuntime
  \/ Wizard \/ Open \/ StartNew \/ Import \/ ImportHeard \/ Exit \/ KilledInExit
  \/ Use \/ Killed \/ UseLegacy

Spec == Init /\ [][Next]_vars

----------------------------------------------------------------------------
(* Properties.                                                              *)

\* A database at the root comes with the write-ahead log it had, and with no other: a copy
\* that was killed anywhere, then rerun after the source changed, is never mistaken for
\* one that is complete (migration.ts:85).
CopyIsWhole ==
  root.database # None =>
    root.wal = IF root.database.wal THEN root.database.version ELSE None

\* The data of the older installation comes in once, and never over data that is there: no
\* start copies it again after it became a profile (migration.ts:49, paths.ts:104).
LegacyComesOnce ==
  /\ \A i, j \in Ids : content[i] = "legacy" /\ content[j] = "legacy" => i = j
  /\ root.database # None => Live = {}

\* The exit of the wizard moves aside the profile the first run created, never one that
\* came from the older installation or that the user has worked in (main.ts:170).
ExitSparesData ==
  [][\A id \in Ids : place'[id] = "deleted" /\ place[id] # "deleted" => content[id] \notin {"legacy", "own"}]_vars

\* A kill at any point does not end the first run: the application opens on a profile that
\* nobody asked for only after the wizard was answered (main.ts:122).
WizardIsAnswered ==
  phase = "open" => answered \/ content[Active] # "empty"

\* What FirstStartIsSafe of the runs says of each state.
FirstRunIsSound == CopyIsWhole /\ LegacyComesOnce /\ WizardIsAnswered

(* The parts of the inductive invariant: one profile lives at most; a copy  *)
(* under way has the log that belongs to the database to come; the marker   *)
(* names a profile without data of the user; a start that finds nothing     *)
(* leaves a marker first; and what serves is registered.                    *)
Types ==
  /\ legacy \in {None} \union [version : Nat, wal : BOOLEAN, marker : BOOLEAN]
  /\ root \in [database : {None} \union [version : Nat, wal : BOOLEAN], wal : {None} \union Nat]
  /\ marker \in {None, "torn", "plain"} \union Ids
  /\ place \in [Ids -> {"nowhere", "profiles", "deleted"}]
  /\ content \in [Ids -> {"empty", "legacy", "imported", "own"}]
  /\ phase \in {"off", "copying", "gate", "starting", "started", "wizard", "imported", "open"}
  /\ copied \in 0 .. 3 /\ created \in BOOLEAN /\ answered \in BOOLEAN

OneLives == \A i, j \in Live : i = j

CopyIsCurrent ==
  phase = "copying" =>
    /\ legacy # None /\ copied < 3 /\ Live = {} /\ root.database = None
    /\ copied = 2 => root.wal = SyncSidecar

DataStays ==
  \A id \in Ids :
    /\ content[id] \in {"legacy", "own"} => place[id] = "profiles"
    /\ place[id] = "nowhere" => content[id] = "empty"

MarkerIsProvisional ==
  marker \in Ids => place[marker] # "nowhere" /\ content[marker] \notin {"legacy", "own"}

CreatedIsEmpty ==
  created =>
    /\ phase = "starting" => Live = {} /\ root.database = None
    /\ phase = "started" => \A id \in Live : content[id] = "empty"

WizardIsDue ==
  /\ \A id \in Live : content[id] = "empty" => answered \/ marker # None
  /\ phase = "starting" /\ Live = {} /\ root.database = None => marker # None

ServedIsRegistered ==
  /\ phase \in {"started", "wizard", "imported", "open"} => Live # {} /\ registered = Live
  /\ phase = "open" => marker = None

Inv ==
  /\ Types /\ OneLives /\ CopyIsWhole /\ LegacyComesOnce /\ CopyIsCurrent /\ DataStays
  /\ MarkerIsProvisional /\ CreatedIsEmpty /\ WizardIsDue /\ ServedIsRegistered

\* A profile is provisional until an import completes (main.ts:170): the exit of the wizard
\* never moves imported data aside.
ImportIsKept ==
  [][\A id \in Ids : place'[id] = "deleted" /\ place[id] # "deleted" => content[id] # "imported"]_vars
=============================================================================
