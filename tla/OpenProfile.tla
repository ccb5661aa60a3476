----------------------------- MODULE OpenProfile -----------------------------
(****************************************************************************)
(* How the database of a profile is opened and brought up to date:          *)
(* openProfileDatabase of server/src/workspaces.ts over the constructor of  *)
(* FinanceDb and migrateLegacy of db.ts; and the restore of a backup, which *)
(* replaces an open database without that way.                              *)
(*                                                                          *)
(* Each transaction and each change of a file is a step, and before any of  *)
(* them the process may end or the step may throw, which closes the         *)
(* database: what was committed stays. An opening is tried again by the     *)
(* next request. The first phase of the program knew one bank, its rows     *)
(* name no company and its credential is a file; the second bucketed the    *)
(* rows of cards by the month of the purchase.                              *)
(****************************************************************************)
EXTENDS Naturals, Sequences, SequencesExt

CONSTANTS
  Version,   \* DATABASE_SCHEMA_VERSION
  Keep,      \* how many automatic copies are kept
  MaxTries,  \* how often an opening is tried in a row
  Absent     \* no database

Rows == [of : {"bank", "card"}, owned : BOOLEAN, month : {"charge", "purchase"}]
Databases == [version : 0 .. Version, marked : BOOLEAN, rows : SUBSET Rows, connections : Nat]

ASSUME OpenProfileAssumption ==
  Version \in Nat \ {0} /\ Keep \in Nat /\ MaxTries \in 1 .. Keep /\ Absent \notin Databases

VARIABLES
  db,        \* the database: version, marker, rows and number of connections
  blob,      \* the credential file of the first phase is there
  backups,   \* the automatic copies, the newest first
  manual,    \* files of earlier phases the user may restore or import
  at,        \* where the opening stands
  tries,     \* openings since the database was last served
  origin,    \* the database as it was before the first of them (history)
  entrusted  \* a credential was given to the profile (history)
vars == <<db, blob, backups, manual, at, tries, origin, entrusted>>

Row(of, owned, month) == [of |-> of, owned |-> owned, month |-> month]
Database(version, marked, rows, connections) ==
  [version |-> version, marked |-> marked, rows |-> rows, connections |-> connections]

FirstPhase == Database(0, FALSE, {Row("bank", FALSE, "charge")}, 0)
SecondPhase == Database(0, FALSE, {Row("bank", TRUE, "charge"), Row("card", TRUE, "purchase")}, 1)
ThirdPhase == Database(Version - 1, TRUE, {Row("bank", TRUE, "charge"), Row("card", TRUE, "charge")}, 1)
Empty == Database(Version, FALSE, {}, 0)

Init ==
  /\ db \in {Absent, FirstPhase, SecondPhase, ThirdPhase}
  /\ blob \in IF db \in {Absent, FirstPhase} THEN BOOLEAN ELSE {FALSE}
  /\ manual \in SUBSET {FirstPhase, SecondPhase}
  /\ backups = <<>> /\ at = "closed" /\ tries = 0 /\ origin = db
  /\ entrusted = (blob \/ db \in {SecondPhase, ThirdPhase})

Kept(copies) == IF Len(copies) > Keep THEN SubSeq(copies, 1, Keep) ELSE copies
Upgraded(d) == IF d = Absent THEN Empty ELSE [d EXCEPT !.version = Version]

----------------------------------------------------------------------------
(* openProfileDatabase. The copy is awaited; nothing else touches the files *)
(* of a profile that is being opened.                                       *)

Outdated == db # Absent /\ (db.version < Version \/ ~db.marked)

Begin ==
  /\ at = "closed" /\ tries < MaxTries
  /\ at' = IF Outdated THEN "copying" ELSE "constructing"
  /\ tries' = tries + 1 /\ origin' = IF tries = 0 THEN db ELSE origin
  /\ UNCHANGED <<db, blob, backups, manual, entrusted>>

Copy ==
  /\ at = "copying"
  /\ backups' = Kept(<<db>> \o backups) /\ at' = "constructing"
  /\ UNCHANGED <<db, blob, manual, tries, origin, entrusted>>

\* Faulty variant: the file goes as soon as it is read.
DeleteFirst == <<"deleting", "adding", "stamping">>
\* The steps of migrateLegacy.
Migration == <<"adding", "stamping", "deleting">>
After(step) ==
  LET i == CHOOSE n \in DOMAIN Migration : Migration[n] = step
  IN  IF i = Len(Migration) THEN "bucketing" ELSE Migration[i + 1]

\* The constructor: reconcileSchema and the stamp of the version are one transaction.
Construct ==
  /\ at = "constructing"
  /\ db' = Upgraded(db) /\ at' = IF blob THEN Migration[1] ELSE "bucketing"
  /\ UNCHANGED <<blob, backups, manual, tries, origin, entrusted>>

AddConnection ==
  /\ at = "adding"
  /\ db' = [db EXCEPT !.connections = @ + 1] /\ at' = After(at)
  /\ UNCHANGED <<blob, backups, manual, tries, origin, entrusted>>

\* backfillLegacyTxns.
Stamp ==
  /\ at = "stamping"
  /\ db' = [db EXCEPT !.rows = {[r EXCEPT !.owned = TRUE] : r \in @}] /\ at' = After(at)
  /\ UNCHANGED <<blob, backups, manual, tries, origin, entrusted>>

DeleteBlob ==
  /\ at = "deleting"
  /\ blob' = FALSE /\ at' = After(at)
  /\ UNCHANGED <<db, backups, manual, tries, origin, entrusted>>

Serve == at' = "open" /\ tries' = 0

\* rebucketCardMonths, one transaction; the rows of no company are not looked at.
Rebucket ==
  /\ at = "bucketing"
  /\ \/ db.marked /\ Serve /\ UNCHANGED db
     \/ /\ ~db.marked /\ at' = "marking" /\ UNCHANGED tries
        /\ db' = [db EXCEPT !.rows = {IF r.owned THEN [r EXCEPT !.month = "charge"] ELSE r : r \in @}]
  /\ UNCHANGED <<blob, backups, manual, origin, entrusted>>

Mark ==
  /\ at = "marking"
  /\ db' = [db EXCEPT !.marked = TRUE] /\ Serve
  /\ UNCHANGED <<blob, backups, manual, origin, entrusted>>

\* The process ends or a step throws. A copy that was cut short may stay, and opens as nothing.
Fail ==
  /\ at \notin {"closed", "open"}
  /\ at' = "closed"
  /\ backups' \in {backups} \union (IF at = "copying" THEN {<<Absent>> \o backups} ELSE {})
  /\ UNCHANGED <<db, blob, manual, tries, origin, entrusted>>

----------------------------------------------------------------------------
(* While it is open.                                                        *)

Close ==
  /\ at = "open"
  /\ at' = "closed"
  /\ UNCHANGED <<db, blob, backups, manual, tries, origin, entrusted>>

\* A sync brings a row of a card that is not stored yet, under its charge month.
Sync ==
  /\ at = "open" /\ db.connections > 0 /\ \A r \in db.rows : r.of # "card"
  /\ db' = [db EXCEPT !.rows = @ \union {Row("card", TRUE, "charge")}]
  /\ UNCHANGED <<blob, backups, manual, at, tries, origin, entrusted>>

\* POST /backups/restore, and the import of a file: the staged copy is constructed, and nothing
\* else is done to its rows.
Restore(b) ==
  /\ at = "open" /\ b \in manual
  /\ backups' = Kept(<<db>> \o backups)
  /\ db' = Upgraded(b) /\ entrusted' = (b.connections > 0)
  /\ UNCHANGED <<blob, manual, at, tries, origin>>

Next ==
  \/ Begin \/ Copy \/ Construct \/ AddConnection \/ Stamp \/ DeleteBlob \/ Rebucket \/ Mark \/ Fail
  \/ Close \/ Sync \/ \E b \in manual : Restore(b)

Spec == Init /\ [][Next]_vars

----------------------------------------------------------------------------
(* Properties.                                                              *)

Steps == {"closed", "copying", "constructing", "adding", "stamping", "deleting", "bucketing",
          "marking", "open"}
Files == Databases \union {Absent}

\* What the variables range over.
TypeOK ==
  /\ db \in Files /\ blob \in BOOLEAN /\ backups \in Seq(Files)
  /\ manual \subseteq {FirstPhase, SecondPhase}
  /\ at \in Steps /\ tries \in 0 .. MaxTries /\ origin \in Files /\ entrusted \in BOOLEAN

\* A credential given to the profile is in the file or in a connection, through any opening
\* that is cut short (db.ts:1698).
CredentialIsKept == entrusted => blob \/ (db # Absent /\ db.connections > 0)

\* The marker says that the rows are bucketed by the month of the charge, and it is never
\* there before they are: no later opening would look at them again (workspaces.ts:71).
MarkerIsTrue == db # Absent /\ db.marked => \A r \in db.rows : r.month = "charge"

\* Whatever an opening has changed, what was there before it is kept as a copy, though it is
\* cut short and tried again as often as copies are kept (workspaces.ts:47-50: never "with no
\* pre-upgrade backup at all").
UpgradeIsCovered ==
  tries > 0 /\ origin # Absent /\ db # origin => origin \in ToSet(backups)

\* The three of them: an opening that is cut short loses neither the credential, nor an upgrade,
\* nor what was there before (workspaces.ts:51-81).
OpeningIsSound == TypeOK /\ CredentialIsKept /\ MarkerIsTrue /\ UpgradeIsCovered

(* What makes them inductive: where an opening stands tells what is already *)
(* in the database, and how deep in the list the copy of its origin lies.   *)

Constructed == {"adding", "stamping", "deleting", "bucketing", "marking", "open"}

StepsAreTrue ==
  /\ at \in Constructed => db # Absent
  /\ at \in {"stamping", "deleting"} => db.connections > 0
  /\ at \in {"adding", "stamping", "deleting"} => blob
  /\ at \in {"bucketing", "marking", "open"} => ~blob
  /\ at = "marking" => \A r \in db.rows : r.month = "charge"
  /\ blob /\ db # Absent => ~db.marked
  /\ db # Absent => \A r \in db.rows : r.owned \/ r.month = "charge"
  /\ IF at = "open" THEN tries = 0 ELSE at = "closed" \/ tries > 0

Among(copies, d, n) == \E k \in 1 .. Len(copies) : k <= n /\ copies[k] = d

CopyIsNear ==
  tries > 0 /\ origin # Absent =>
    CASE at = "closed" -> db = origin \/ Among(backups, origin, tries)
      [] at = "copying" -> db = origin \/ Among(backups, origin, tries - 1)
      [] OTHER -> (db = origin /\ ~Outdated) \/ Among(backups, origin, tries)

Inv == OpeningIsSound /\ StepsAreTrue /\ CopyIsNear

\* migrateLegacy is called idempotent (db.ts:1697): the credential becomes one connection.
OneConnection == db # Absent => db.connections <= 1

\* An open database is up to date: its card rows line up with the settlements they cancel
\* (db.ts:1662) and every row has its connection (db.ts:1686).
OpenIsUpgraded == at = "open" => \A r \in db.rows : r.owned /\ r.month = "charge"
=============================================================================
