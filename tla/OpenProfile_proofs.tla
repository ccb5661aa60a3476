-------------------------- MODULE OpenProfile_proofs ---------------------------
(* Proofs about OpenProfile for every version, every number of copies that  *)
(* are kept and every number of tries up to it, and about the parts that    *)
(* are checked with it: the window, the bank, the commitments, the advice   *)
(* and the statements of the months.                                        *)
EXTENDS MCOpenProfile, SequenceTheorems, SumLemmas, FiniteSetTheorems, TLAPS

(* The three steps of migrateLegacy follow each other.                      *)
LEMMA AfterEach ==
  /\ After("adding") = "stamping"
  /\ After("stamping") = "deleting"
  /\ After("deleting") = "bucketing"
<1> DEFINE At(step) == CHOOSE n \in DOMAIN Migration : Migration[n] = step
<1>1. /\ DOMAIN Migration = 1 .. 3 /\ Len(Migration) = 3
      /\ Migration[1] = "adding" /\ Migration[2] = "stamping" /\ Migration[3] = "deleting"
  BY DEF Migration
<1>2. At("adding") = 1 /\ At("stamping") = 2 /\ At("deleting") = 3
  <2>1. \A n \in 1 .. 3 : n = 1 \/ n = 2 \/ n = 3
    OBVIOUS
  <2>2. QED BY <1>1, <2>1
<1>3. QED BY <1>1, <1>2 DEF After

(* A copy put in front of others is the first; an older one moves by one.   *)
LEMMA InFront ==
  ASSUME NEW S, NEW s \in Seq(S), NEW d \in S, NEW u, u = <<d>> \o s
  PROVE  /\ u \in Seq(S) /\ Len(u) = Len(s) + 1 /\ u[1] = d
         /\ \A k \in 1 .. Len(s) : u[k + 1] = s[k]
<1> DEFINE one == <<d>>
<1>1. one \in Seq(S) /\ Len(one) = 1 /\ one[1] = d
  OBVIOUS
<1>2. u = one \o s
  OBVIOUS
<1> HIDE DEF one
<1>3. /\ u \in Seq(S) /\ Len(u) = 1 + Len(s)
      /\ \A i \in 1 .. Len(u) : u[i] = IF i <= 1 THEN one[i] ELSE s[i - 1]
  BY <1>1, <1>2, ConcatProperties
<1>4. Len(s) \in Nat
  OBVIOUS
<1>5. QED BY <1>1, <1>3, <1>4

(* That one is kept if its new place is among those that are.               *)
LEMMA KeptKeeps ==
  ASSUME Keep \in Nat \ {0}, NEW S, NEW s \in Seq(S), NEW d \in S,
         NEW t, t = Kept(<<d>> \o s)
  PROVE  /\ t \in Seq(S)
         /\ Len(t) > 0 /\ t[1] = d
         /\ \A k \in 1 .. Len(s) : k + 1 <= Keep => k + 1 <= Len(t) /\ t[k + 1] = s[k]
<1> DEFINE u == <<d>> \o s
<1>1. t = Kept(u)
  OBVIOUS
<1>2. /\ u \in Seq(S) /\ Len(u) = Len(s) + 1 /\ u[1] = d
      /\ \A k \in 1 .. Len(s) : u[k + 1] = s[k]
  BY InFront
<1> HIDE DEF u
<1>3. CASE Len(u) > Keep
  <2>1. t = SubSeq(u, 1, Keep)
    BY <1>1, <1>3 DEF Kept
  <2>2. /\ t \in Seq(S) /\ Len(t) = Keep
        /\ \A i \in 1 .. Keep : t[i] = u[i]
    <3>1. \A i \in 1 .. Keep : u[i] \in S
      BY <1>2, <1>3
    <3>2. /\ SubSeq(u, 1, Keep) \in Seq(S)
          /\ Len(SubSeq(u, 1, Keep)) = (IF 1 <= Keep THEN Keep - 1 + 1 ELSE 0)
          /\ \A i \in 1 .. Keep - 1 + 1 : SubSeq(u, 1, Keep)[i] = u[1 + i - 1]
      BY <3>1, SubSeqProperties
    <3>3. Keep - 1 + 1 = Keep /\ \A i \in 1 .. Keep : 1 + i - 1 = i
      OBVIOUS
    <3>4. \A i \in 1 .. Keep : SubSeq(u, 1, Keep)[i] = u[i]
      BY <3>2, <3>3
    <3>5. 1 <= Keep
      OBVIOUS
    <3>6. Len(SubSeq(u, 1, Keep)) = Keep
      BY <3>2, <3>3, <3>5
    <3>7. QED BY <2>1, <3>2, <3>4, <3>6
  <2>3. Len(s) \in Nat
    OBVIOUS
  <2>4. QED BY <1>2, <2>2, <2>3
<1>4. CASE ~(Len(u) > Keep)
  <2>1. t = u
    BY <1>1, <1>4 DEF Kept
  <2>2. Len(s) \in Nat
    OBVIOUS
  <2>3. t \in Seq(S) /\ Len(t) = Len(s) + 1 /\ t[1] = d
    BY <1>2, <2>1
  <2>4. \A k \in 1 .. Len(s) : t[k + 1] = s[k]
    BY <1>2, <2>1
  <2>5. QED BY <2>2, <2>3, <2>4
<1>5. QED BY <1>3, <1>4

(* What the databases of the earlier phases hold.                           *)
LEMMA KnownDatabases ==
  /\ {FirstPhase, SecondPhase, ThirdPhase, Empty} \subseteq Databases
  /\ ~FirstPhase.marked /\ ~SecondPhase.marked /\ ~Empty.marked
  /\ \A r \in FirstPhase.rows \union ThirdPhase.rows : r.month = "charge"
  /\ \A r \in SecondPhase.rows : r.owned
  /\ FirstPhase.connections = 0
  /\ SecondPhase.connections = 1 /\ ThirdPhase.connections = 1
  /\ Empty.rows = {} /\ Empty.version = Version
BY OpenProfileAssumption DEF FirstPhase, SecondPhase, ThirdPhase, Empty, Database, Row,
       Databases, Rows

LEMMA InitIsSound == Init => Inv
<1> SUFFICES ASSUME Init PROVE Inv
  OBVIOUS
<1> USE KnownDatabases
<1>1. db \in {Absent, FirstPhase, SecondPhase, ThirdPhase} /\ Absent \notin Databases
  BY OpenProfileAssumption DEF Init
<1>2. at = "closed" /\ tries = 0 /\ origin = db /\ backups = <<>>
  BY DEF Init
<1>3. blob => db \in {Absent, FirstPhase}
  BY DEF Init
<1>4. TypeOK
  <2>1. blob \in BOOLEAN /\ entrusted \in BOOLEAN /\ manual \subseteq {FirstPhase, SecondPhase}
    BY DEF Init
  <2>2. QED BY <1>1, <1>2, <2>1, OpenProfileAssumption DEF TypeOK, Files, Steps
<1>5. CredentialIsKept
  <2>1. entrusted => blob \/ db \in {SecondPhase, ThirdPhase}
    BY DEF Init
  <2>2. QED BY <1>1, <2>1, OpenProfileAssumption DEF CredentialIsKept
<1>6. MarkerIsTrue
  BY <1>1 DEF MarkerIsTrue
<1>7. UpgradeIsCovered /\ CopyIsNear
  BY <1>2 DEF UpgradeIsCovered, CopyIsNear
<1>8. StepsAreTrue
  BY <1>1, <1>2, <1>3 DEF StepsAreTrue, Constructed
<1>9. QED BY <1>4, <1>5, <1>6, <1>7, <1>8 DEF Inv, OpeningIsSound

(* A change of one field leaves a row a row and a database a database.      *)
LEMMA RowFields ==
  ASSUME NEW r \in Rows
  PROVE  [r EXCEPT !.owned = TRUE] \in Rows /\ [r EXCEPT !.month = "charge"] \in Rows
BY DEF Rows

LEMMA DatabaseFields ==
  ASSUME NEW d \in Databases, NEW R \in SUBSET Rows
  PROVE  /\ [d EXCEPT !.marked = TRUE] \in Databases
         /\ [d EXCEPT !.connections = @ + 1] \in Databases
         /\ [d EXCEPT !.rows = R] \in Databases
<1>1. [d EXCEPT !.marked = TRUE] \in Databases
  BY DEF Databases
<1>2. [d EXCEPT !.connections = @ + 1] \in Databases
  BY DEF Databases
<1>3. [d EXCEPT !.rows = R] \in Databases
  BY DEF Databases
<1>4. QED BY <1>1, <1>2, <1>3

(* A step keeps every variable in its domain.                               *)
LEMMA StepKeepsTypes ==
  Inv /\ [Next]_vars => TypeOK'
<1> SUFFICES ASSUME Inv, [Next]_vars PROVE TypeOK'
  OBVIOUS
<1> USE KnownDatabases DEF Inv, OpeningIsSound, TypeOK, Files, Steps
<1>1. Keep \in Nat \ {0} /\ MaxTries \in Nat /\ Version \in Nat \ {0}
  BY OpenProfileAssumption
<1>2. \A d \in Files : Upgraded(d) \in Databases
  BY <1>1 DEF Upgraded, Databases
<1>3. db \in Databases => Kept(<<db>> \o backups) \in Seq(Files)
  BY <1>1, KeptKeeps
<1>4. at \in Constructed => db \in Databases
  BY DEF StepsAreTrue
<1>5. CASE Begin
  BY <1>1, <1>5 DEF Begin
<1>6. CASE Copy
  BY <1>1, <1>6, KeptKeeps DEF Copy
<1>7. CASE Construct
  BY <1>2, <1>7 DEF Construct, Migration
<1>8. CASE AddConnection
  BY <1>4, <1>8, AfterEach, DatabaseFields DEF AddConnection, Constructed
<1>9. CASE Stamp
  <2>1. {[r EXCEPT !.owned = TRUE] : r \in db.rows} \in SUBSET Rows
    BY <1>4, <1>9, RowFields DEF Stamp, Constructed, Databases
  <2>2. QED BY <1>4, <1>9, <2>1, AfterEach, DatabaseFields DEF Stamp, Constructed
<1>10. CASE DeleteBlob
  BY <1>10, AfterEach DEF DeleteBlob
<1>11. CASE Rebucket
  <2> DEFINE R == {IF r.owned THEN [r EXCEPT !.month = "charge"] ELSE r : r \in db.rows}
  <2>1. db \in Databases
    BY <1>4, <1>11 DEF Rebucket, Constructed
  <2>2. R \in SUBSET Rows
    <3>1. db.rows \subseteq Rows
      BY <2>1 DEF Databases
    <3>2. QED BY <3>1, RowFields
  <2>3. db' = db \/ db' = [db EXCEPT !.rows = R]
    BY <1>11 DEF Rebucket
  <2>4. at' \in Steps /\ tries' \in 0 .. MaxTries
    BY <1>1, <1>11 DEF Rebucket, Serve
  <2>5. db' \in Files
    <3> HIDE DEF R
    <3>1. [db EXCEPT !.rows = R] \in Databases
      BY <2>1, <2>2, DatabaseFields
    <3>2. QED BY <2>1, <2>3, <3>1
  <2>6. QED BY <1>11, <2>4, <2>5 DEF Rebucket
<1>12. CASE Mark
  <2>1. db' \in Files
    BY <1>4, <1>12, DatabaseFields DEF Mark, Constructed
  <2>2. at' \in Steps /\ tries' \in 0 .. MaxTries
    BY <1>1, <1>12 DEF Mark, Serve
  <2>3. QED BY <1>12, <2>1, <2>2 DEF Mark
<1>13. CASE Fail
  BY <1>1, <1>13 DEF Fail
<1>14. CASE Close
  BY <1>14 DEF Close
<1>15. CASE Sync
  <2>1. Row("card", TRUE, "charge") \in Rows
    BY DEF Row, Rows
  <2>2. QED BY <1>4, <1>15, <2>1 DEF Sync, Constructed, Databases
<1>16. ASSUME NEW b \in manual, Restore(b) PROVE TypeOK'
  <2>1. b \in Databases
    OBVIOUS
  <2>2. db \in Databases
    BY <1>4, <1>16 DEF Restore, Constructed
  <2>3. (b.connections > 0) \in BOOLEAN
    OBVIOUS
  <2>4. QED BY <1>2, <1>3, <1>16, <2>1, <2>2, <2>3 DEF Restore
<1>17. CASE UNCHANGED vars
  BY <1>17 DEF vars
<1>18. QED
  BY <1>5, <1>6, <1>7, <1>8, <1>9, <1>10, <1>11, <1>12, <1>13, <1>14, <1>15, <1>16, <1>17 DEF Next

(* A step leaves what was committed where the next step expects it.         *)
LEMMA StepKeepsSteps ==
  Inv /\ [Next]_vars
    => StepsAreTrue' /\ CredentialIsKept' /\ MarkerIsTrue'
<1> SUFFICES ASSUME Inv, [Next]_vars
             PROVE  StepsAreTrue' /\ CredentialIsKept' /\ MarkerIsTrue'
  OBVIOUS
<1> USE KnownDatabases DEF Inv, OpeningIsSound, StepsAreTrue, CredentialIsKept, MarkerIsTrue, Constructed
<1>1. Absent \notin Databases /\ tries \in Nat
  BY OpenProfileAssumption DEF TypeOK
<1>2. db = Absent \/ db \in Databases
  BY DEF TypeOK, Files
<1>3. CASE Begin
  BY <1>1, <1>3 DEF Begin
<1>4. CASE Copy
  BY <1>4 DEF Copy
(* The constructor keeps the rows, the marker and the connections.          *)
<1>5. CASE Construct
  <2>1. db' \in Databases
    BY <1>2, <1>5, OpenProfileAssumption DEF Construct, Upgraded, Databases
  <2>2. CASE db = Absent
    BY <1>1, <1>5, <2>1, <2>2 DEF Construct, Upgraded, Migration
  <2>3. CASE db # Absent
    <3>1. /\ db'.marked = db.marked /\ db'.rows = db.rows
          /\ db'.connections = db.connections
      BY <1>2, <1>5, <2>3 DEF Construct, Upgraded, Databases
    <3>2. QED BY <1>1, <1>5, <2>1, <2>3, <3>1 DEF Construct, Migration
  <2>4. QED BY <2>2, <2>3
<1>6. CASE AddConnection
  <2>1. /\ db \in Databases /\ db' = [db EXCEPT !.connections = @ + 1]
        /\ blob' = blob /\ at' = "stamping" /\ tries' = tries /\ at = "adding"
    BY <1>2, <1>6, AfterEach DEF AddConnection
  <2>2. /\ db' \in Databases /\ db'.marked = db.marked /\ db'.rows = db.rows
        /\ db'.connections > 0
    BY <2>1 DEF Databases
  <2>3. QED BY <1>1, <2>1, <2>2
<1>7. CASE Stamp
  <2>1. /\ db \in Databases /\ blob' = blob /\ at' = "deleting" /\ tries' = tries /\ at = "stamping"
        /\ db' = [db EXCEPT !.rows = {[r EXCEPT !.owned = TRUE] : r \in @}]
    BY <1>2, <1>7, AfterEach DEF Stamp
  <2>2. /\ db'.marked = db.marked /\ db'.connections = db.connections
        /\ db'.rows = {[r EXCEPT !.owned = TRUE] : r \in db.rows} /\ db.rows \subseteq Rows
    BY <2>1 DEF Databases
  <2>3. \A r \in db'.rows : r.owned
    BY <2>2 DEF Rows
  <2>4. db' # Absent
    <3>1. db' \in Files
      BY StepKeepsTypes DEF TypeOK
    <3>2. {[r EXCEPT !.owned = TRUE] : r \in db.rows} \in SUBSET Rows
      BY <2>2, RowFields
    <3>3. db' \in Databases
      BY <2>1, <3>2, DatabaseFields
    <3>4. QED BY <1>1, <3>3
  <2>5. ~db.marked
    BY <1>1, <2>1
  <2>6. QED BY <1>1, <2>1, <2>2, <2>3, <2>4, <2>5
<1>8. CASE DeleteBlob
  BY <1>1, <1>8, AfterEach DEF DeleteBlob
<1>9. CASE Rebucket
  <2>1. CASE db.marked
    BY <1>1, <1>9, <2>1 DEF Rebucket, Serve
  <2>2. CASE ~db.marked
    <3> DEFINE R == {IF r.owned THEN [r EXCEPT !.month = "charge"] ELSE r : r \in db.rows}
    <3>1. /\ db \in Databases /\ blob' = blob /\ at' = "marking" /\ tries' = tries /\ at = "bucketing"
          /\ db' = [db EXCEPT !.rows = R] /\ entrusted' = entrusted
      BY <1>2, <1>9, <2>2 DEF Rebucket
    <3>2. db.rows \subseteq Rows /\ \A r \in db.rows : r.owned \/ r.month = "charge"
      BY <1>1, <3>1 DEF Databases
    <3>3. R \in SUBSET Rows
      BY <3>2, RowFields
    <3>4. \A r \in R : r.month = "charge"
      BY <3>2 DEF Rows
    <3>5. /\ db' \in Databases /\ db'.rows = R /\ db'.marked = db.marked
          /\ db'.connections = db.connections
      BY <3>1, <3>3 DEF Databases
    <3> HIDE DEF R
    <3>6. QED BY <1>1, <2>2, <3>1, <3>4, <3>5
  <2>3. QED BY <2>1, <2>2
<1>10. CASE Mark
  <2>1. /\ db \in Databases /\ blob' = blob /\ at' = "open" /\ tries' = 0 /\ at = "marking"
        /\ db' = [db EXCEPT !.marked = TRUE] /\ entrusted' = entrusted
    BY <1>2, <1>10 DEF Mark, Serve
  <2>2. db' \in Databases /\ db'.rows = db.rows /\ db'.connections = db.connections
    BY <2>1 DEF Databases
  <2>3. QED BY <1>1, <2>1, <2>2
<1>11. CASE Fail
  BY <1>11 DEF Fail
<1>12. CASE Close
  BY <1>12 DEF Close
<1>13. CASE Sync
  <2>1. Row("card", TRUE, "charge").month = "charge" /\ Row("card", TRUE, "charge") \in Rows
    BY DEF Row, Rows
  <2>2. /\ db \in Databases /\ db' = [db EXCEPT !.rows = @ \union {Row("card", TRUE, "charge")}]
        /\ at = "open" /\ UNCHANGED <<blob, at, tries, entrusted>>
    BY <1>2, <1>13 DEF Sync
  <2>3. /\ db' \in Databases /\ db'.marked = db.marked /\ db'.connections = db.connections
        /\ db'.rows = db.rows \union {Row("card", TRUE, "charge")}
    BY <2>1, <2>2 DEF Databases
  <2>4. QED BY <1>1, <2>1, <2>2, <2>3
<1>14. ASSUME NEW b \in manual, Restore(b)
       PROVE  StepsAreTrue' /\ CredentialIsKept' /\ MarkerIsTrue'
  <2>1. b \in {FirstPhase, SecondPhase} /\ b \in Databases
    BY DEF TypeOK
  <2>2. /\ db' = Upgraded(b) /\ entrusted' = (b.connections > 0)
        /\ at = "open" /\ UNCHANGED <<blob, at, tries>>
    BY <1>14 DEF Restore
  <2>3. /\ db' \in Databases /\ db'.marked = b.marked /\ db'.connections = b.connections
        /\ db'.rows = b.rows
    BY <1>1, <2>1, <2>2, OpenProfileAssumption DEF Upgraded, Databases
  <2>4. QED BY <1>1, <2>1, <2>2, <2>3
<1>15. CASE UNCHANGED vars
  BY <1>15 DEF vars
<1>16. QED
  BY <1>3, <1>4, <1>5, <1>6, <1>7, <1>8, <1>9, <1>10, <1>11, <1>12, <1>13, <1>14, <1>15 DEF Next

(* A copy within the first places is among the copies.                      *)
LEMMA NearMeansCovered == TypeOK /\ CopyIsNear => UpgradeIsCovered
<1> SUFFICES ASSUME TypeOK, CopyIsNear, tries > 0, origin # Absent, db # origin
             PROVE  origin \in ToSet(backups)
  BY DEF UpgradeIsCovered
<1>1. \E k \in 1 .. Len(backups) : backups[k] = origin
  BY DEF CopyIsNear, Among
<1>2. DOMAIN backups = 1 .. Len(backups)
  BY DEF TypeOK
<1>3. QED BY <1>1, <1>2 DEF ToSet

(* A new copy moves an older one by one place.                              *)
LEMMA NearMoves ==
  ASSUME NEW s \in Seq(Files), NEW o, NEW n \in Nat, Among(s, o, n)
  PROVE  /\ \A d \in Files : Among(<<d>> \o s, o, n + 1)
         /\ Keep \in Nat \ {0} /\ n + 1 <= Keep => \A d \in Files : Among(Kept(<<d>> \o s), o, n + 1)
<1>1. PICK k \in 1 .. Len(s) : k <= n /\ s[k] = o
  BY DEF Among
<1>2. k \in Nat /\ k >= 1 /\ k <= Len(s) /\ Len(s) \in Nat
  OBVIOUS
<1>3. ASSUME NEW d \in Files PROVE Among(<<d>> \o s, o, n + 1)
  <2> DEFINE u == <<d>> \o s
  <2>1. Len(u) = Len(s) + 1 /\ u[k + 1] = o
    BY <1>1, InFront
  <2> HIDE DEF u
  <2>2. k + 1 \in 1 .. Len(u) /\ k + 1 <= n + 1
    BY <1>1, <1>2, <2>1
  <2>3. Among(u, o, n + 1)
    BY <2>1, <2>2 DEF Among
  <2>4. QED BY <2>3 DEF u
<1>4. ASSUME Keep \in Nat \ {0}, n + 1 <= Keep, NEW d \in Files
      PROVE  Among(Kept(<<d>> \o s), o, n + 1)
  <2> DEFINE t == Kept(<<d>> \o s)
  <2>1. k + 1 <= Keep
    BY <1>1, <1>2, <1>4
  <2>2. t \in Seq(Files) /\ k + 1 <= Len(t) /\ t[k + 1] = o
    BY <1>1, <1>4, <2>1, KeptKeeps
  <2> HIDE DEF t
  <2>3. k + 1 \in 1 .. Len(t) /\ k + 1 <= n + 1
    BY <1>1, <1>2, <2>2
  <2>4. Among(t, o, n + 1)
    BY <2>2, <2>3 DEF Among
  <2>5. QED BY <2>4 DEF t
<1>5. QED BY <1>3, <1>4

(* There is one automatic copy for each try at most, so the copy of the     *)
(* origin is as near as there were tries.                                   *)
LEMMA StepKeepsCopy ==
  Inv /\ [Next]_vars => CopyIsNear'
<1> SUFFICES ASSUME Inv, [Next]_vars, tries' > 0, origin' # Absent
             PROVE  CopyIsNear'
  BY DEF CopyIsNear
<1>1. /\ tries \in Nat /\ tries <= MaxTries /\ MaxTries \in Nat /\ MaxTries <= Keep /\ Keep \in Nat \ {0}
      /\ backups \in Seq(Files) /\ Absent \in Files /\ db \in Files /\ Absent \notin Databases
      /\ Version \in Nat
  BY OpenProfileAssumption DEF Inv, OpeningIsSound, TypeOK, Files
<1>2. /\ at \in Constructed => db # Absent
      /\ at \in {"adding", "stamping", "deleting"} => blob
      /\ blob /\ db # Absent => ~db.marked
      /\ IF at = "open" THEN tries = 0 ELSE at = "closed" \/ tries > 0
  BY DEF Inv, StepsAreTrue
<1> DEFINE Near == Among(backups, origin, tries)
<1>3. tries > 0 /\ origin # Absent =>
        /\ at = "closed" => db = origin \/ Near
        /\ at = "copying" => db = origin \/ Among(backups, origin, tries - 1)
        /\ at \notin {"closed", "copying"} => (db = origin /\ ~Outdated) \/ Near
  BY DEF Inv, CopyIsNear
<1>4. CASE Begin
  <2>1. /\ at = "closed" /\ tries' = tries + 1 /\ db' = db /\ backups' = backups
        /\ origin' = (IF tries = 0 THEN db ELSE origin)
        /\ at' = IF Outdated THEN "copying" ELSE "constructing"
    BY <1>4 DEF Begin
  <2>2. Outdated' <=> Outdated
    BY <2>1 DEF Outdated
  <2>3. db = origin' \/ Among(backups, origin', tries)
    BY <1>1, <1>3, <2>1
  <2>4. Among(backups, origin', tries) => Among(backups, origin', tries + 1)
    BY <1>1 DEF Among
  <2>5. tries' - 1 = tries
    BY <1>1, <2>1
  <2>6. QED BY <2>1, <2>2, <2>3, <2>4, <2>5 DEF CopyIsNear
<1>5. CASE Copy
  <2>1. /\ at = "copying" /\ tries' = tries /\ db' = db /\ origin' = origin
        /\ backups' = Kept(<<db>> \o backups) /\ at' = "constructing"
    BY <1>5 DEF Copy
  <2>2. CASE db = origin
    <3>1. backups' \in Seq(Files) /\ Len(backups') > 0 /\ backups'[1] = db
      BY <1>1, <2>1, KeptKeeps
    <3>2. 1 \in 1 .. Len(backups') /\ 1 <= tries
      BY <1>1, <1>2, <2>1, <3>1
    <3>3. Among(backups', origin, tries)
      BY <2>2, <3>1, <3>2 DEF Among
    <3>4. QED BY <2>1, <3>3 DEF CopyIsNear
  <2>3. CASE Among(backups, origin, tries - 1)
    <3>1. tries - 1 \in Nat /\ (tries - 1) + 1 = tries /\ tries <= Keep
      BY <1>1, <1>2, <2>1
    <3>2. Among(backups', origin, tries)
      BY <1>1, <2>1, <2>3, <3>1, NearMoves
    <3>3. QED BY <2>1, <3>2 DEF CopyIsNear
  <2>4. QED BY <1>2, <1>3, <2>1, <2>2, <2>3
(* A database that was not copied is up to date: its constructor and what   *)
(* follows leave it as it is.                                               *)
<1>6. CASE Construct
  <2>1. /\ at = "constructing" /\ UNCHANGED <<backups, origin, tries>>
        /\ db' = Upgraded(db) /\ at' = IF blob THEN "adding" ELSE "bucketing"
    BY <1>6 DEF Construct, Migration
  <2>2. ASSUME db = origin, ~Outdated PROVE db' = db
    <3>1. db \in Databases /\ db.version = Version
      BY <1>1, <2>1, <2>2 DEF Outdated, Files, Databases
    <3>2. db # Absent /\ db' = [db EXCEPT !.version = db.version]
      BY <1>1, <2>1, <3>1 DEF Upgraded
    <3>3. \A d \in Databases : [d EXCEPT !.version = d.version] = d
      BY DEF Databases
    <3>4. QED BY <3>1, <3>2, <3>3
  <2>3. (db = origin /\ ~Outdated) \/ Near
    BY <1>2, <1>3, <2>1
  <2>4. QED BY <2>1, <2>2, <2>3 DEF CopyIsNear, Outdated
<1>7. CASE AddConnection \/ Stamp \/ DeleteBlob
  <2>1. /\ at \in {"adding", "stamping", "deleting"}
        /\ at' \in {"stamping", "deleting", "bucketing"}
        /\ UNCHANGED <<backups, origin, tries>>
    BY <1>7, AfterEach DEF AddConnection, Stamp, DeleteBlob
  <2>2. Outdated
    BY <1>2, <2>1 DEF Outdated, Constructed
  <2>3. QED BY <1>2, <1>3, <2>1, <2>2 DEF CopyIsNear
<1>8. CASE Rebucket
  <2>1. ~db.marked /\ at = "bucketing" /\ at' = "marking" /\ UNCHANGED <<backups, origin, tries>>
    BY <1>8 DEF Rebucket, Serve
  <2>2. Outdated
    BY <1>2, <2>1 DEF Outdated, Constructed
  <2>3. QED BY <1>2, <1>3, <2>1, <2>2 DEF CopyIsNear
<1>9. CASE Mark
  BY <1>9 DEF Mark, Serve
(* A copy that was cut short is in front of the others.                     *)
<1>10. CASE Fail
  <2>1. /\ at \notin {"closed", "open"} /\ at' = "closed" /\ UNCHANGED <<db, origin, tries>>
        /\ backups' = backups \/ (at = "copying" /\ backups' = <<Absent>> \o backups)
    BY <1>10 DEF Fail
  <2>2. CASE at = "copying"
    <3>1. tries - 1 \in Nat /\ (tries - 1) + 1 = tries
      BY <1>1, <1>2, <2>1, <2>2
    <3>2. ASSUME Among(backups, origin, tries - 1) PROVE Among(backups', origin, tries)
      <4>1. Among(<<Absent>> \o backups, origin, tries)
        BY <1>1, <3>1, <3>2, NearMoves
      <4>2. Among(backups, origin, tries)
        BY <3>1, <3>2 DEF Among
      <4>3. QED BY <2>1, <4>1, <4>2
    <3>3. QED BY <1>2, <1>3, <2>1, <2>2, <3>2 DEF CopyIsNear
  <2>3. CASE at # "copying"
    BY <1>2, <1>3, <2>1, <2>3 DEF CopyIsNear
  <2>4. QED BY <2>2, <2>3
<1>11. CASE Close \/ Sync \/ \E b \in manual : Restore(b)
  <2>1. at = "open" /\ tries' = tries
    BY <1>11 DEF Close, Sync, Restore
  <2>2. QED BY <1>1, <1>2, <2>1
<1>12. CASE UNCHANGED vars
  BY <1>12 DEF vars, Inv, CopyIsNear, Outdated
<1>13. QED
  BY <1>4, <1>5, <1>6, <1>7, <1>8, <1>9, <1>10, <1>11, <1>12 DEF Next

(* An opening cut short anywhere, and tried again as often as copies are    *)
(* kept, loses neither the credential, nor an upgrade, nor what was there   *)
(* before it (workspaces.ts:51-81).                                         *)
THEOREM OpeningSafety == Spec => []OpeningIsSound
<1>1. Init => Inv
  BY InitIsSound
<1>2. Inv /\ [Next]_vars => Inv'
  <2> SUFFICES ASSUME Inv, [Next]_vars PROVE Inv'
    OBVIOUS
  <2>1. TypeOK' /\ StepsAreTrue' /\ CredentialIsKept' /\ MarkerIsTrue' /\ CopyIsNear'
    BY StepKeepsTypes, StepKeepsSteps, StepKeepsCopy
  <2>2. UpgradeIsCovered'
    BY <2>1, NearMeansCovered, PTL
  <2>3. QED BY <2>1, <2>2 DEF Inv, OpeningIsSound
<1>3. Inv => OpeningIsSound
  BY DEF Inv
<1>4. QED BY <1>1, <1>2, <1>3, PTL DEF Spec
--------------------------------------------------------------------------------
(* The window.                                                              *)

(* What a task becomes is one.                                              *)
LEMMA TaskFields ==
  ASSUME NEW t \in Client!Tasks
  PROVE  /\ \A a \in Client!Answers : /\ [t EXCEPT !.answer = a] \in Client!Tasks
                                      /\ [t EXCEPT !.answer = a].do = t.do
                                      /\ [t EXCEPT !.answer = a].on = t.on
         /\ \A i \in Client!Answers :
              /\ [t EXCEPT !.on = "status", !.id = i, !.answer = None] \in Client!Tasks
              /\ [t EXCEPT !.on = "status", !.id = i, !.answer = None].do = t.do
         /\ \A i \in Client!Answers :
              /\ [t EXCEPT !.on = "profiles", !.made = i, !.answer = None] \in Client!Tasks
              /\ [t EXCEPT !.on = "profiles", !.made = i, !.answer = None].do = t.do
         /\ \A b \in BOOLEAN : /\ [t EXCEPT !.blocked = b] \in Client!Tasks
                               /\ [t EXCEPT !.blocked = b].do = t.do
<1>1. None \in Client!Answers
  BY DEF Client!Answers
<1>2. QED BY <1>1 DEF Client!Tasks

LEMMA NewTask ==
  ASSUME NEW id \in Client!Answers,
         NEW do \in {"boot", "switch", "refresh", "retry", "reload", "create", "delete", "sync"},
         NEW on \in {"profiles", "activate", "status", "create", "delete", "sync"}
  PROVE  /\ Client!Task(do, on, id) \in Client!Tasks
         /\ Client!Task(do, on, id).do = do /\ Client!Task(do, on, id).on = on
BY DEF Client!Task, Client!Tasks, Client!Answers

(* A task waits for whom to show at first.                                  *)
Looking(t) == t # None /\ t.do = "boot" /\ t.on # "status"
Alone(s) == /\ view = "loading" /\ shown = None /\ failures = None
            /\ \A r \in Slots \ {s} : task[r] = None

LEMMA AloneMeans ==
  Client!BootIsAlone <=> \A s \in Slots : Looking(task[s]) => Alone(s)
BY DEF Client!BootIsAlone, Client!Free, Looking, Alone

(* A step that puts no such task anywhere leaves none where there was none. *)
LEMMA NobodyLooks ==
  ASSUME Client!TypeOK, NEW s \in Slots, NEW t \in Client!Tasks \union {None}, ~Looking(t),
         task' = [task EXCEPT ![s] = t]
  PROVE  /\ task' \in [Slots -> Client!Tasks \union {None}]
         /\ \A r \in Slots : Looking(task'[r]) => r # s /\ task'[r] = task[r] /\ Looking(task[r])
BY DEF Client!TypeOK

(* While a task goes on, only it may be looking; so nobody is when it has   *)
(* become t, and refreshProfiles beside it.                                 *)
LEMMA GoesOn ==
  ASSUME Client!TypeOK, Client!BootIsAlone, NEW s \in Slots, ~Client!Free(s),
         NEW t \in Client!Tasks \union {None}, ~Looking(t),
         Client!Awaits(s, t) \/ Client!AwaitsBeside(s, t)
  PROVE  /\ task' \in [Slots -> Client!Tasks \union {None}]
         /\ \A r \in Slots : ~Looking(task'[r])
<1>1. \A r \in Slots \ {s} : ~Looking(task[r])
  BY AloneMeans DEF Alone, Client!Free
<1>2. Client!Refresh \in Client!Tasks /\ ~Looking(Client!Refresh)
  <2>1. None \in Client!Answers
    BY DEF Client!Answers
  <2>2. QED BY <2>1, NewTask DEF Client!Refresh, Looking
<1>3. CASE Client!Awaits(s, t)
  BY <1>1, <1>3, NobodyLooks DEF Client!Awaits
<1>4. CASE \E r \in Slots \ {s} : task' = [task EXCEPT ![s] = t, ![r] = Client!Refresh]
  <2>1. PICK r \in Slots \ {s} : task' = [task EXCEPT ![s] = t, ![r] = Client!Refresh]
    BY <1>4
  <2>2. task \in [Slots -> Client!Tasks \union {None}]
    BY DEF Client!TypeOK
  <2>3. /\ task' \in [Slots -> Client!Tasks \union {None}]
        /\ task'[r] = Client!Refresh /\ task'[s] = t
        /\ \A q \in Slots \ {s, r} : task'[q] = task[q]
    BY <1>2, <2>1, <2>2
  <2>4. QED BY <1>1, <1>2, <2>3
<1>5. QED BY <1>3, <1>4 DEF Client!AwaitsBeside, Client!Free

(* Once somebody is shown, or the start has failed, nobody is looking, nor  *)
(* will be when a task starts.                                              *)
LEMMA Begins ==
  ASSUME Client!TypeOK, Client!BootIsAlone, view # "loading" \/ shown # None,
         NEW t \in Client!Tasks \union {None}, ~Looking(t), Client!Starts(t)
  PROVE  /\ task' \in [Slots -> Client!Tasks \union {None}]
         /\ \A r \in Slots : ~Looking(task'[r])
<1>1. \A r \in Slots : ~Looking(task[r])
  BY AloneMeans DEF Alone
<1>2. PICK s \in Slots : task' = [task EXCEPT ![s] = t]
  BY DEF Client!Starts, Client!Awaits
<1>3. QED BY <1>1, <1>2, NobodyLooks

(* What the server does leaves every task what it is.                       *)
LEMMA ServerKeeps ==
  ASSUME Client!TypeOK, Client!BootIsAlone, NEW s \in Slots, Client!Serve(s)
  PROVE  Client!TypeOK' /\ Client!BootIsAlone'
<1>1. /\ task[s] \in Client!Tasks /\ task[s] # None
      /\ UNCHANGED <<view, shown, switching, syncing, lastSync, failures>>
  BY DEF Client!Serve, Client!Free, Client!TypeOK
<1>2. existing \subseteq Profiles /\ registry \in Profiles
  BY DEF Client!TypeOK
<1>3. /\ existing' \subseteq Profiles /\ registry' \in Profiles
      /\ \E a \in Client!Answers : task' = [task EXCEPT ![s].answer = a]
  <2>1. Profiles \subseteq Client!Answers /\ "failed" \in Client!Answers
    BY DEF Client!Answers
  <2>2. CASE Client!Refuse(s)
    BY <1>2, <2>1, <2>2 DEF Client!Refuse, Client!Answer, Client!server
  <2>3. CASE Client!Handle(s)
    <3>1. CASE task[s].on = "profiles"
      BY <1>2, <2>1, <2>3, <3>1 DEF Client!Handle, Client!Answer, Client!server
    <3>2. CASE task[s].on = "activate"
      BY <1>2, <2>1, <2>3, <3>2 DEF Client!Handle, Client!Answer, Client!server
    <3>3. CASE task[s].on \in {"status", "sync"}
      BY <1>2, <2>1, <2>3, <3>3 DEF Client!Handle, Client!Answer, Client!server
    <3>4. CASE task[s].on = "create"
      BY <1>2, <2>1, <2>3, <3>4 DEF Client!Handle, Client!Answer, Client!server
    <3>5. CASE task[s].on = "delete"
      <4>1. /\ task[s].id \in existing /\ task' = [task EXCEPT ![s].answer = task[s].id]
            /\ existing' = existing \ {task[s].id}
            /\ registry' \in IF registry = task[s].id THEN existing' ELSE {registry}
        BY <2>3, <3>5 DEF Client!Handle, Client!Answer
      <4>2. QED BY <1>2, <2>1, <4>1
    <3>6. QED BY <1>1, <3>1, <3>2, <3>3, <3>4, <3>5 DEF Client!Tasks
  <2>4. QED BY <2>2, <2>3 DEF Client!Serve
<1>4. PICK a \in Client!Answers : task' = [task EXCEPT ![s].answer = a]
  BY <1>3
<1>5. /\ task' \in [Slots -> Client!Tasks \union {None}]
      /\ \A r \in Slots \ {s} : task'[r] = task[r]
      /\ Looking(task'[s]) => Looking(task[s])
  <2>1. /\ [task[s] EXCEPT !.answer = a] \in Client!Tasks
        /\ [task[s] EXCEPT !.answer = a].do = task[s].do
        /\ [task[s] EXCEPT !.answer = a].on = task[s].on
    BY <1>1, TaskFields
  <2>2. /\ task' \in [Slots -> Client!Tasks \union {None}]
        /\ \A r \in Slots \ {s} : task'[r] = task[r]
        /\ task'[s] = [task[s] EXCEPT !.answer = a]
    BY <1>4, <2>1 DEF Client!TypeOK
  <2>3. QED BY <1>1, <2>1, <2>2 DEF Looking
<1>6. Client!TypeOK'
  BY <1>1, <1>3, <1>5 DEF Client!TypeOK
<1>7. ASSUME NEW r \in Slots, Looking(task'[r]) PROVE Alone(r)'
  BY <1>1, <1>5, <1>7, AloneMeans DEF Alone
<1>8. Client!BootIsAlone'
  BY <1>7 DEF Alone, Looking, Client!BootIsAlone, Client!Free
<1>9. QED BY <1>6, <1>8

Theirs ==
  /\ failures' \notin {None, failures} => failures' = shown'
  /\ shown' # shown => failures' = None \/ \E s \in Slots : ~Client!Free(s) /\ task[s].do = "retry"

(* What is left of a step that put no looking task anywhere.                *)
LEMMA NobodyLeft ==
  ASSUME Client!TypeOK, UNCHANGED <<existing, registry>>,
         task' \in [Slots -> Client!Tasks \union {None}], \A r \in Slots : ~Looking(task'[r]),
         view' \in {"loading", "failed", "ready"}, {shown', lastSync', failures'} \subseteq Client!Answers,
         switching' \in BOOLEAN, syncing' \in BOOLEAN
  PROVE  Client!TypeOK' /\ Client!BootIsAlone'
BY DEF Client!TypeOK, Client!BootIsAlone, Client!Free, Looking

(* The boot shows somebody, or activates whom it remembered, or gives up.   *)
LEMMA BootKeeps ==
  ASSUME Client!TypeOK, Client!BootIsAlone, NEW s \in Slots,
         Client!BootGotList(s) \/ Client!BootActivated(s)
  PROVE  Client!TypeOK' /\ Client!BootIsAlone' /\ Theirs
<1>1. /\ task[s] \in Client!Tasks /\ ~Client!Free(s) /\ Looking(task[s])
      /\ UNCHANGED <<existing, registry, switching, syncing, lastSync, failures>>
  BY DEF Client!BootGotList, Client!BootActivated, Client!Answered, Client!Free, Client!TypeOK,
         Client!server, Looking
<1>2. Alone(s)
  BY <1>1, AloneMeans
<1>3. Theirs
  BY <1>1, <1>2 DEF Alone, Theirs
<1>4. /\ {shown, lastSync, failures} \subseteq Client!Answers /\ switching \in BOOLEAN /\ syncing \in BOOLEAN
      /\ view \in {"loading", "failed", "ready"} /\ None \in Client!Answers
      /\ task[s].answer \in Client!Answers /\ task[s].id \in Client!Answers
      /\ Profiles \subseteq Client!Answers
  BY <1>1 DEF Client!TypeOK, Client!Tasks, Client!Answers
<1>5. ASSUME view' = "failed", Client!Ends(s), UNCHANGED shown
      PROVE  Client!TypeOK' /\ Client!BootIsAlone'
  <2>1. None \in Client!Tasks \union {None} /\ ~Looking(None)
    BY DEF Looking
  <2>2. /\ task' \in [Slots -> Client!Tasks \union {None}]
        /\ \A r \in Slots : ~Looking(task'[r])
    BY <1>1, <1>5, <2>1, GoesOn DEF Client!Ends
  <2>3. QED BY <1>1, <1>4, <1>5, <2>2, NobodyLeft
<1>6. ASSUME NEW id \in Client!Answers, shown' = id, UNCHANGED view,
             \/ Client!Awaits(s, Client!Task("boot", "status", id))
             \/ Client!AwaitsBeside(s, Client!Task("boot", "status", id))
      PROVE  Client!TypeOK' /\ Client!BootIsAlone'
  <2> DEFINE t == Client!Task("boot", "status", id)
  <2>1. t \in Client!Tasks /\ ~Looking(t)
    BY NewTask DEF Looking
  <2>2. /\ task' \in [Slots -> Client!Tasks \union {None}]
        /\ \A r \in Slots : ~Looking(task'[r])
    <3>1. Client!Awaits(s, t) \/ Client!AwaitsBeside(s, t)
      BY <1>6
    <3> HIDE DEF t
    <3>2. QED BY <1>1, <2>1, <3>1, GoesOn
  <2>3. QED BY <1>1, <1>4, <1>6, <2>2, NobodyLeft
<1>7. ASSUME NEW id \in Profiles, Client!Awaits(s, Client!Task("boot", "activate", id)), UNCHANGED <<shown, view>>
      PROVE  Client!TypeOK' /\ Client!BootIsAlone'
  <2> DEFINE t == Client!Task("boot", "activate", id)
  <2>1. t \in Client!Tasks
    BY <1>4, NewTask
  <2>2. task' = [task EXCEPT ![s] = t]
    BY <1>7 DEF Client!Awaits
  <2>3. /\ task' \in [Slots -> Client!Tasks \union {None}]
        /\ \A r \in Slots \ {s} : task'[r] = task[r]
    <3> HIDE DEF t
    <3>1. QED BY <2>1, <2>2 DEF Client!TypeOK
  <2>4. Client!TypeOK'
    BY <1>1, <1>7, <2>3 DEF Client!TypeOK
  <2>5. Client!BootIsAlone'
    BY <1>1, <1>2, <1>7, <2>3 DEF Client!BootIsAlone, Client!Free, Alone
  <2>6. QED BY <2>4, <2>5
<1>8. CASE Client!BootGotList(s)
  <2>1. CASE ~Client!Ok(s)
    BY <1>3, <1>5, <1>8, <2>1 DEF Client!BootGotList
  <2>2. CASE Client!Adopt(task[s].answer) /\ Client!Awaits(s, Client!Task("boot", "status", shown')) /\ UNCHANGED view
    <3>1. shown' = task[s].answer
      BY <2>2 DEF Client!Adopt
    <3>2. Client!Awaits(s, Client!Task("boot", "status", task[s].answer))
      BY <2>2, <3>1 DEF Client!Awaits
    <3>3. QED BY <1>3, <1>4, <1>6, <2>2, <3>1, <3>2
  <2>3. CASE /\ \E id \in Profiles \ {task[s].answer} : Client!Awaits(s, Client!Task("boot", "activate", id))
             /\ UNCHANGED <<shown, view>>
    BY <1>3, <1>7, <2>3
  <2>4. QED BY <1>8, <2>1, <2>2, <2>3 DEF Client!BootGotList
<1>9. CASE Client!BootActivated(s)
  <2>1. CASE ~Client!Ok(s)
    BY <1>3, <1>5, <1>9, <2>1 DEF Client!BootActivated
  <2>2. CASE Client!Ok(s)
    <3>1. shown' = task[s].id /\ UNCHANGED view
      BY <1>9, <2>2 DEF Client!BootActivated, Client!Adopt
    <3>2. Client!AwaitsBeside(s, Client!Task("boot", "status", task[s].id))
      BY <1>9, <2>2, <3>1 DEF Client!BootActivated, Client!AwaitsBeside, Client!Awaits, Client!Task
    <3>3. QED BY <1>3, <1>4, <1>6, <3>1, <3>2
  <2>3. QED BY <2>1, <2>2
<1>10. QED BY <1>8, <1>9

(* So does every other continuation.                                        *)
LEMMA TaskKeeps ==
  ASSUME Client!TypeOK, Client!BootIsAlone, NEW s \in Slots, Client!Continue(s),
         ~Client!BootGotList(s), ~Client!BootActivated(s)
  PROVE  Client!TypeOK' /\ Client!BootIsAlone' /\ Theirs
<1>1. /\ task[s] # None /\ task[s] \in Client!Tasks /\ ~Client!Free(s)
      /\ UNCHANGED <<existing, registry>>
  BY DEF Client!Continue, Client!Activated, Client!RefreshGotList, Client!RefreshUnmoved,
         Client!RetryGotList, Client!GotStatus, Client!Created, Client!CreateSwitches, Client!Deleted,
         Client!Synced, Client!BootGotList, Client!BootActivated, Client!Answered, Client!Free,
         Client!TypeOK, Client!server
<1>2. /\ {shown, lastSync, failures} \subseteq Client!Answers /\ switching \in BOOLEAN /\ syncing \in BOOLEAN
      /\ view \in {"loading", "failed", "ready"} /\ None \in Client!Answers
      /\ task[s].answer \in Client!Answers /\ task[s].id \in Client!Answers /\ task[s].made \in Client!Answers
  BY <1>1 DEF Client!TypeOK, Client!Tasks, Client!Answers
<1>3. ASSUME NEW t \in Client!Tasks \union {None}, ~Looking(t),
             Client!Awaits(s, t) \/ Client!AwaitsBeside(s, t),
             view' \in {"loading", "failed", "ready"}, {shown', lastSync', failures'} \subseteq Client!Answers,
             switching' \in BOOLEAN, syncing' \in BOOLEAN
      PROVE  Client!TypeOK' /\ Client!BootIsAlone'
  <2>1. /\ task' \in [Slots -> Client!Tasks \union {None}]
        /\ \A r \in Slots : ~Looking(task'[r])
    BY <1>1, <1>3, GoesOn
  <2>2. QED BY <1>1, <1>3, <2>1, NobodyLeft
<1>4. None \in Client!Tasks \union {None} /\ ~Looking(None)
  BY DEF Looking
<1>5. ASSUME Client!Ends(s),
             view' \in {"loading", "failed", "ready"}, {shown', lastSync', failures'} \subseteq Client!Answers,
             switching' \in BOOLEAN, syncing' \in BOOLEAN
      PROVE  Client!TypeOK' /\ Client!BootIsAlone'
  BY <1>3, <1>4, <1>5 DEF Client!Ends
<1>6. \A id \in Client!Answers :
        /\ \A do \in {"switch", "retry"} : \A on \in {"activate", "status"} :
             Client!Task(do, on, id) \in Client!Tasks /\ ~Looking(Client!Task(do, on, id))
        /\ Client!Refresh \in Client!Tasks /\ ~Looking(Client!Refresh)
  <2>1. ASSUME NEW id \in Client!Answers, NEW do \in {"switch", "retry"}, NEW on \in {"activate", "status"}
        PROVE  /\ Client!Task(do, on, id) \in Client!Tasks
               /\ Client!Task(do, on, id).do \in {"switch", "retry"}
    BY NewTask
  <2>2. Client!Refresh \in Client!Tasks /\ Client!Refresh.do = "refresh"
    BY <1>2, NewTask DEF Client!Refresh
  <2>3. QED BY <2>1, <2>2 DEF Looking
<1>7. CASE Client!Activated(s)
  <2>1. CASE Client!Ok(s)
    <3> DEFINE id == task[s].id
               t == Client!Task("switch", "status", id)
    <3>1. /\ shown' = id /\ lastSync' = None /\ failures' = None
          /\ UNCHANGED <<view, switching, syncing>>
      BY <1>7, <2>1 DEF Client!Activated, Client!Adopt, Client!Reset
    <3>2. Client!AwaitsBeside(s, t)
      BY <1>7, <2>1, <3>1 DEF Client!Activated, Client!AwaitsBeside, Client!Awaits, Client!Task
    <3>3. t \in Client!Tasks /\ ~Looking(t)
      BY <1>2, <1>6
    <3>4. Client!TypeOK' /\ Client!BootIsAlone'
      <4> HIDE DEF t
      <4>1. QED BY <1>2, <1>3, <3>1, <3>2, <3>3
    <3>5. QED BY <3>1, <3>4 DEF Theirs
  <2>2. CASE ~Client!Ok(s)
    BY <1>2, <1>5, <1>7, <2>2 DEF Client!Activated, Theirs
  <2>3. QED BY <2>1, <2>2
<1>8. CASE Client!RefreshGotList(s)
  <2> DEFINE id == task[s].answer
             t == [task[s] EXCEPT !.on = "status", !.id = id, !.answer = None]
  <2>1. /\ shown' = id /\ lastSync' = None /\ failures' = None
        /\ UNCHANGED <<view, switching, syncing>>
    BY <1>8 DEF Client!RefreshGotList, Client!Adopt, Client!Reset
  <2>2. Client!Awaits(s, t) /\ task[s].do \in {"refresh", "create"}
    BY <1>8, <2>1 DEF Client!RefreshGotList, Client!Awaits, Client!Answered
  <2>3. t \in Client!Tasks /\ ~Looking(t)
    <3>1. t \in Client!Tasks /\ t.do = task[s].do
      BY <1>1, <1>2, TaskFields
    <3>2. QED BY <2>2, <3>1 DEF Looking
  <2>4. Client!TypeOK' /\ Client!BootIsAlone'
    <3> HIDE DEF t
    <3>1. QED BY <1>2, <1>3, <2>1, <2>2, <2>3
  <2>5. QED BY <2>1, <2>4 DEF Theirs
<1>9. CASE Client!RefreshUnmoved(s)
  BY <1>2, <1>5, <1>9 DEF Client!RefreshUnmoved, Theirs
<1>10. CASE Client!RetryGotList(s)
  <2>1. Theirs
    BY <1>1, <1>10 DEF Client!RetryGotList, Client!Answered, Theirs
  <2>2. CASE Client!Ok(s)
    <3> DEFINE id == task[s].answer
               t == Client!Task("retry", "status", id)
    <3>1. shown' = id /\ UNCHANGED <<view, lastSync, failures, switching, syncing>>
      BY <1>10, <2>2 DEF Client!RetryGotList, Client!Adopt
    <3>2. Client!Awaits(s, t)
      BY <1>10, <2>2, <3>1 DEF Client!RetryGotList, Client!Awaits
    <3>3. t \in Client!Tasks /\ ~Looking(t)
      BY <1>2, <1>6
    <3>4. Client!TypeOK' /\ Client!BootIsAlone'
      <4> HIDE DEF t
      <4>1. QED BY <1>2, <1>3, <3>1, <3>2, <3>3
    <3>5. QED BY <2>1, <3>4
  <2>3. CASE ~Client!Ok(s)
    BY <1>2, <1>5, <1>10, <2>1, <2>3 DEF Client!RetryGotList
  <2>4. QED BY <2>2, <2>3
<1>11. CASE Client!GotStatus(s)
  <2>1. /\ lastSync' \in {lastSync, task[s].id} /\ UNCHANGED <<shown, syncing, failures>>
        /\ view' \in {"ready", "failed", view} /\ switching' \in BOOLEAN /\ Client!Ends(s)
    BY <1>2, <1>11 DEF Client!GotStatus
  <2>2. QED BY <1>2, <1>5, <2>1 DEF Theirs
<1>12. CASE Client!Created(s)
  <2>1. /\ UNCHANGED <<view, shown, switching, syncing, lastSync, failures>> /\ task[s].do = "create"
    BY <1>12 DEF Client!Created, Client!Answered
  <2>2. CASE Client!Ok(s)
    <3> DEFINE t == [task[s] EXCEPT !.on = "profiles", !.made = task[s].answer, !.answer = None]
    <3>1. Client!Awaits(s, t)
      BY <1>12, <2>2 DEF Client!Created
    <3>2. t \in Client!Tasks /\ ~Looking(t)
      <4>1. t \in Client!Tasks /\ t.do = task[s].do
        BY <1>1, <1>2, TaskFields
      <4>2. QED BY <2>1, <4>1 DEF Looking
    <3> HIDE DEF t
    <3>3. QED BY <1>2, <1>3, <2>1, <3>1, <3>2 DEF Theirs
  <2>3. CASE ~Client!Ok(s)
    BY <1>2, <1>5, <1>12, <2>1, <2>3 DEF Client!Created, Theirs
  <2>4. QED BY <2>2, <2>3
<1>13. CASE Client!CreateSwitches(s)
  <2>1. /\ UNCHANGED <<view, shown, syncing, failures>> /\ lastSync' \in {lastSync, task[s].id}
    BY <1>13 DEF Client!CreateSwitches
  <2>2. CASE Client!Ends(s) /\ UNCHANGED switching
    BY <1>2, <1>5, <2>1, <2>2 DEF Theirs
  <2>3. CASE Client!Awaits(s, Client!Task("switch", "activate", task[s].made)) /\ switching' = TRUE
    <3> DEFINE t == Client!Task("switch", "activate", task[s].made)
    <3>1. t \in Client!Tasks /\ ~Looking(t) /\ Client!Awaits(s, t)
      BY <1>2, <1>6, <2>3
    <3> HIDE DEF t
    <3>2. QED BY <1>2, <1>3, <2>1, <2>3, <3>1 DEF Theirs
  <2>4. QED BY <1>13, <2>2, <2>3 DEF Client!CreateSwitches
<1>14. CASE Client!Deleted(s)
  <2>1. /\ UNCHANGED <<view, shown, switching, syncing, lastSync, failures>>
        /\ Client!Awaits(s, IF Client!Ok(s) THEN Client!Refresh ELSE None)
    BY <1>14 DEF Client!Deleted
  <2>2. (IF Client!Ok(s) THEN Client!Refresh ELSE None) \in {Client!Refresh, None}
    OBVIOUS
  <2>3. QED BY <1>2, <1>3, <1>4, <1>6, <2>1, <2>2 DEF Theirs
<1>15. CASE Client!Synced(s)
  <2>1. UNCHANGED <<view, shown, switching>> /\ syncing' = FALSE
    BY <1>15 DEF Client!Synced
  <2>2. /\ lastSync' \in {lastSync, shown} /\ failures' \in {None, failures, shown}
        /\ Client!Awaits(s, None) \/ Client!AwaitsBeside(s, None)
    BY <1>15 DEF Client!Synced, Client!Ends
  <2>3. Client!TypeOK' /\ Client!BootIsAlone'
    BY <1>2, <1>3, <1>4, <2>1, <2>2
  <2>4. QED BY <2>1, <2>2, <2>3 DEF Theirs
<1>16. QED
  BY <1>7, <1>8, <1>9, <1>10, <1>11, <1>12, <1>13, <1>14, <1>15 DEF Client!Continue

(* Whatever the user starts waits until the boot has shown somebody or      *)
(* given up.                                                                *)
LEMMA UserKeeps ==
  ASSUME Client!TypeOK, Client!BootIsAlone,
         \/ \E id \in Profiles : Client!Switch(id) \/ Client!Delete(id)
         \/ Client!Create \/ Client!Sync \/ Client!Reload \/ Client!Retry
  PROVE  Client!TypeOK' /\ Client!BootIsAlone' /\ Theirs
<1>1. /\ {shown, lastSync, failures} \subseteq Client!Answers /\ switching \in BOOLEAN /\ syncing \in BOOLEAN
      /\ view \in {"loading", "failed", "ready"} /\ None \in Client!Answers
      /\ Profiles \subseteq Client!Answers
  BY DEF Client!TypeOK, Client!Answers
<1>2. /\ view # "loading" \/ shown # None
      /\ UNCHANGED <<existing, registry, shown, lastSync>> /\ failures' \in {None, failures}
      /\ view' \in {view, "loading"} /\ switching' \in {switching, TRUE} /\ syncing' \in {syncing, TRUE}
  BY DEF Client!Switch, Client!Delete, Client!Create, Client!Sync, Client!Reload, Client!Retry,
         Client!server
<1>3. \E t \in Client!Tasks : ~Looking(t) /\ Client!Starts(t)
  <2>1. ASSUME NEW id \in Profiles, Client!Switch(id) \/ Client!Delete(id)
        PROVE  \E t \in Client!Tasks : ~Looking(t) /\ Client!Starts(t)
    <3> DEFINE t == Client!Task("switch", "activate", id)
               u == Client!Task("delete", "delete", id)
    <3>1. /\ t \in Client!Tasks /\ t.do = "switch"
          /\ u \in Client!Tasks /\ u.do = "delete"
      BY <1>1, NewTask
    <3>2. Client!Starts(t) \/ Client!Starts(u)
      BY <2>1 DEF Client!Switch, Client!Delete
    <3> HIDE DEF t, u
    <3>3. QED BY <3>1, <3>2 DEF Looking
  <2>2. CASE Client!Create
    <3> DEFINE t == Client!Task("create", "create", None)
               u == [t EXCEPT !.blocked = switching]
    <3>1. t \in Client!Tasks /\ t.do = "create"
      BY <1>1, NewTask
    <3>2. u \in Client!Tasks /\ u.do = "create"
      <4> HIDE DEF t
      <4>1. QED BY <1>1, <3>1, TaskFields
    <3>3. Client!Starts(u)
      BY <2>2 DEF Client!Create
    <3>4. QED BY <3>2, <3>3 DEF Looking
  <2>3. CASE Client!Sync \/ Client!Reload \/ Client!Retry
    BY <1>1, <2>3, NewTask DEF Client!Sync, Client!Reload, Client!Retry, Looking
  <2>4. QED BY <2>1, <2>2, <2>3
<1>4. PICK t \in Client!Tasks : ~Looking(t) /\ Client!Starts(t)
  BY <1>3
<1>5. /\ task' \in [Slots -> Client!Tasks \union {None}]
      /\ \A r \in Slots : ~Looking(task'[r])
  BY <1>2, <1>4, Begins
<1>6. Client!TypeOK' /\ Client!BootIsAlone'
  BY <1>1, <1>2, <1>5, NobodyLeft
<1>7. QED BY <1>2, <1>6 DEF Theirs

(* What a sync reports is shown to the profile it synced, for any number of *)
(* profiles and of requests in flight: it is dropped when another one is    *)
(* shown by the time it answers, and wiped when another one is shown later  *)
(* (App.tsx:361, 583).                                                      *)
THEOREM ReportsAreTheirs == Client!Spec => FailuresAreTheirs
<1> DEFINE Sound == Client!TypeOK /\ Client!BootIsAlone
<1>1. Client!Init => Sound
  <2> SUFFICES ASSUME Client!Init PROVE Sound
    OBVIOUS
  <2>1. None \in Client!Answers
    BY DEF Client!Answers
  <2>2. PICK s \in Slots :
          task = [t \in Slots |-> IF t = s THEN Client!Task("boot", "profiles", None) ELSE None]
    BY DEF Client!Init
  <2>3. Client!Task("boot", "profiles", None) \in Client!Tasks
    BY <2>1, NewTask
  <2>4. Client!TypeOK
    BY <2>1, <2>2, <2>3 DEF Client!Init, Client!TypeOK, Client!Answers
  <2>5. Client!BootIsAlone
    BY <2>2 DEF Client!Init, Client!BootIsAlone, Client!Free
  <2>6. QED BY <2>4, <2>5
<1>2. Sound /\ [Client!Next]_(Client!vars) => Sound' /\ [Theirs]_(Client!vars)
  <2> SUFFICES ASSUME Sound, [Client!Next]_(Client!vars)
               PROVE  Sound' /\ [Theirs]_(Client!vars)
    OBVIOUS
  <2>1. CASE UNCHANGED Client!vars
    BY <2>1 DEF Client!vars, Client!server, Client!TypeOK, Client!BootIsAlone, Client!Free
  <2>2. ASSUME NEW s \in Slots, Client!Serve(s) PROVE Sound' /\ Theirs
    BY <2>2, ServerKeeps DEF Client!Serve, Theirs
  <2>3. ASSUME NEW s \in Slots, Client!Continue(s) PROVE Sound' /\ Theirs
    BY <2>3, BootKeeps, TaskKeeps
  <2>4. ASSUME \/ \E id \in Profiles : Client!Switch(id) \/ Client!Delete(id)
               \/ Client!Create \/ Client!Sync \/ Client!Reload \/ Client!Retry
        PROVE  Sound' /\ Theirs
    BY <2>4, UserKeeps
  <2> HIDE DEF Sound
  <2>5. QED BY <2>1, <2>2, <2>3, <2>4 DEF Client!Next
<1>3. QED BY <1>1, <1>2, PTL DEF Client!Spec, FailuresAreTheirs, Client!FailuresAreTheirs, Theirs
--------------------------------------------------------------------------------
(* The bank.                                                                *)

LEMMA BankSum ==
  ASSUME NEW f, NEW S PROVE Bank!SumFunctionOnSet(f, S) = SumFunctionOnSet(f, S)
BY DEF SumFunctionOnSet, FoldFunctionOnSet, MapThenFoldSet,
       Bank!SumFunctionOnSet, Bank!FoldFunctionOnSet, Bank!MapThenFoldSet

LEMMA BankFinite == ASSUME NEW S PROVE Bank!IsFiniteSet(S) <=> IsFiniteSet(S)
BY DEF IsFiniteSet, Bank!IsFiniteSet

(* Days follow the clock.                                                   *)
LEMMA DaysGrow ==
  ASSUME NEW a \in Int, NEW b \in Int, a <= b
  PROVE  Bank!Day(a) \in Int /\ Bank!Day(b) \in Int /\ Bank!Day(a) <= Bank!Day(b)
<1>1. \A n \in Nat \ {0} : a \div n \in Int /\ b \div n \in Int /\ a \div n <= b \div n
  OBVIOUS
<1>2. QED BY <1>1, BankAssumption DEF Bank!BankAssumption, Bank!Day

(* A movement is dated by the day it is booked at the latest.               *)
LEMMA DatedByThen ==
  ASSUME NEW i \in DOMAIN Movements
  PROVE  /\ Bank!Dated(i) \in Int /\ Movements[i].amount \in Int
         /\ Movements[i].booked \in Int
         /\ \A t \in Int : Movements[i].booked <= t => Bank!Dated(i) <= Bank!Day(t)
<1>1. /\ Bank!Dated(i) \in Int /\ Movements[i].amount \in Int /\ Movements[i].booked \in 1 .. LastTick
      /\ Bank!Dated(i) <= Bank!Day(Movements[i].booked) /\ LastTick \in Nat
  BY BankAssumption DEF Bank!BankAssumption, Bank!Dated, Bank!Day
<1>2. ASSUME NEW t \in Int, Movements[i].booked <= t PROVE Bank!Dated(i) <= Bank!Day(t)
  <2>1. Movements[i].booked \in Int
    BY <1>1
  <2>2. /\ Bank!Day(Movements[i].booked) \in Int /\ Bank!Day(t) \in Int
        /\ Bank!Day(Movements[i].booked) <= Bank!Day(t)
    BY <1>2, <2>1, DaysGrow
  <2>3. QED BY <1>1, <2>2
<1>3. QED BY <1>1, <1>2

(* Sums over movements are those of the library, over finite sets.          *)
LEMMA TotalsAdd ==
  ASSUME NEW A \in SUBSET DOMAIN Movements, NEW B \in SUBSET DOMAIN Movements, A \intersect B = {}
  PROVE  /\ IsFiniteSet(A) /\ Bank!Total(A) \in Int
         /\ Bank!Total(B) \in Int
         /\ Bank!Total(A \union B) = Bank!Total(A) + Bank!Total(B)
<1> DEFINE f == [i \in DOMAIN Movements |-> Movements[i].amount]
<1>1. IsFiniteSet(DOMAIN Movements)
  BY BankAssumption, BankFinite DEF Bank!BankAssumption
<1>2. IsFiniteSet(A) /\ IsFiniteSet(B)
  BY <1>1, FS_Subset
<1>3. \A x \in A \union B : f[x] \in Int
  BY DatedByThen
<1>4. \A S : Bank!Total(S) = SumFunctionOnSet(f, S)
  BY BankSum DEF Bank!Total
<1> HIDE DEF f
<1>5. SumFunctionOnSet(f, A) \in Int /\ SumFunctionOnSet(f, B) \in Int
  BY <1>2, <1>3, SumType
<1>6. SumFunctionOnSet(f, A \union B) = SumFunctionOnSet(f, A) + SumFunctionOnSet(f, B)
  BY <1>2, <1>3, SumSplits
<1>7. QED BY <1>2, <1>4, <1>5, <1>6

LEMMA BankStep ==
  ASSUME Bank!Inv, [Bank!Next]_(Bank!vars) PROVE Bank!Inv'
<1>1. /\ clock \in Int /\ LastTick \in Nat
      /\ \A c \in DOMAIN snapshots : snapshots[c].taken \in 0 .. clock
  BY BankAssumption DEF Bank!BankAssumption, Bank!Inv
<1>2. CASE UNCHANGED Bank!vars
  BY <1>2 DEF Bank!vars, Bank!Inv
<1>3. CASE Bank!Tick
  <2>1. /\ clock' = clock + 1 /\ clock' \in 0 .. LastTick
        /\ UNCHANGED <<connections, added, rows, snapshots>>
    BY <1>1, <1>3 DEF Bank!Tick, Bank!Inv
  <2>2. \A i \in DOMAIN rows : Movements[i].booked \in Int
    BY DatedByThen DEF Bank!Inv
  <2>3. \A i \in DOMAIN rows : Movements[i].booked <= clock'
    BY <1>1, <2>1, <2>2 DEF Bank!Inv
  <2>4. \A c \in DOMAIN snapshots : snapshots[c].taken \in 0 .. clock'
    BY <1>1, <2>1
  <2>5. QED BY <2>1, <2>3, <2>4 DEF Bank!Inv
<1>4. CASE Bank!Wipe
  <2>1. DOMAIN rows' = {} /\ DOMAIN snapshots' = {} /\ UNCHANGED <<clock, connections>>
    BY <1>4 DEF Bank!Wipe
  <2>2. Bank!IsFiniteSet({})
    BY BankFinite, FS_EmptySet
  <2>3. QED BY <2>1, <2>2 DEF Bank!Inv
<1>5. ASSUME NEW c \in connections, Bank!DeleteConnection(c) PROVE Bank!Inv'
  <2>1. /\ connections' = connections \ {c} /\ clock' = clock
        /\ DOMAIN rows' = {j \in DOMAIN rows : rows[j] # c}
        /\ \A i \in DOMAIN rows' : rows'[i] = rows[i]
        /\ DOMAIN snapshots' = DOMAIN snapshots \ {c}
        /\ \A k \in DOMAIN snapshots' : snapshots'[k] = snapshots[k]
    BY <1>5 DEF Bank!DeleteConnection
  <2>2. Bank!IsFiniteSet(DOMAIN snapshots')
    BY <2>1, BankFinite, FS_RemoveElement DEF Bank!Inv
  <2>3. QED BY <2>1, <2>2 DEF Bank!Inv
<1>6. ASSUME NEW c \in connections, NEW reported \in BOOLEAN, Bank!Sync(c, reported) PROVE Bank!Inv'
  <2> DEFINE new == Bank!Booked(Account[c], clock) \ DOMAIN rows
  <2>1. /\ UNCHANGED <<clock, connections>>
        /\ DOMAIN rows' = DOMAIN rows \union new
        /\ \A i \in DOMAIN rows' : rows'[i] = IF i \in new THEN c ELSE rows[i]
    BY <1>6 DEF Bank!Sync
  <2>2. /\ DOMAIN rows' \subseteq DOMAIN Movements
        /\ \A i \in DOMAIN rows' : /\ rows'[i] \in connections /\ Movements[i].account = Account[rows'[i]]
                                   /\ Movements[i].booked <= clock
    <3>1. \A i \in new : i \in DOMAIN Movements /\ Movements[i].account = Account[c] /\ Movements[i].booked <= clock
      BY DEF Bank!Booked, Bank!Of
    <3> HIDE DEF new
    <3>2. QED BY <2>1, <3>1 DEF Bank!Inv
  <2>3. CASE ~reported
    <3>1. snapshots' = snapshots
      BY <1>6, <2>3 DEF Bank!Sync
    <3>2. QED BY <2>1, <2>2, <3>1 DEF Bank!Inv
  <2>4. CASE reported
    <3>1. snapshots' = [k \in DOMAIN snapshots \union {c} |->
                          IF k = c THEN [balance |-> Bank!AtBank(Account[c], clock), taken |-> clock] ELSE snapshots[k]]
      BY <1>6, <2>4 DEF Bank!Sync
    <3>2. Bank!IsFiniteSet(DOMAIN snapshots')
      BY <3>1, BankFinite, FS_AddElement DEF Bank!Inv
    <3>3. ASSUME NEW k \in DOMAIN snapshots'
          PROVE  /\ snapshots'[k].taken \in 0 .. clock
                 /\ snapshots'[k].balance = Bank!AtBank(Account[k], snapshots'[k].taken)
      BY <1>1, <3>1 DEF Bank!Inv
    <3>4. DOMAIN snapshots' \subseteq connections
      BY <3>1 DEF Bank!Inv
    <3>5. QED BY <2>1, <2>2, <3>2, <3>3, <3>4 DEF Bank!Inv
  <2>5. QED BY <2>3, <2>4
<1>7. ASSUME NEW c \in BankConnections, Bank!AddConnection(c) PROVE Bank!Inv'
  <2>1. connections' = connections \union {c} /\ UNCHANGED <<clock, rows, snapshots>>
    BY <1>7 DEF Bank!AddConnection
  <2>2. QED BY <2>1 DEF Bank!Inv
<1>8. QED BY <1>2, <1>3, <1>4, <1>5, <1>6, <1>7 DEF Bank!Next

(* What the balance of c includes.                                          *)
InBalance(c) == Bank!Booked(Account[c], snapshots[c].taken)

(* The bank connections with a balance, and the last of their days.         *)
LEMMA LastDay ==
  ASSUME Bank!Inv, Bank!Banks # {}
  PROVE  /\ Bank!BankSnaps = Bank!Banks /\ IsFiniteSet(Bank!Banks)
         /\ Bank!LatestDate \in Int
         /\ \A c \in Bank!Banks : Bank!Day(snapshots[c].taken) <= Bank!LatestDate
<1>1. Bank!BankSnaps = Bank!Banks
  BY DEF Bank!BankSnaps, Bank!Banks, Bank!Inv
<1>2. IsFiniteSet(Bank!Banks)
  BY BankFinite, FS_Subset DEF Bank!Inv, Bank!Banks
<1> DEFINE f == [c \in Bank!Banks |-> Bank!Day(snapshots[c].taken)]
           days == {Bank!Day(snapshots[c].taken) : c \in Bank!Banks}
<1>3. \A c \in Bank!Banks : Bank!Day(snapshots[c].taken) \in Int
  <2>1. \A c \in Bank!Banks : snapshots[c].taken \in Int
    BY DEF Bank!Inv, Bank!Banks
  <2>2. QED BY <2>1, DaysGrow
<1>4. PICK c \in Bank!Banks : \A k \in Bank!Banks : f[k] <= f[c]
  <2>1. \A k \in Bank!Banks : f[k] \in Int
    BY <1>3
  <2> HIDE DEF f
  <2>2. QED BY <1>2, <2>1, Greatest
<1>5. \E m \in days : \A n \in days : n <= m
  BY <1>4
<1>6. Bank!LatestDate \in days /\ \A n \in days : n <= Bank!LatestDate
  <2>1. Bank!LatestDate = CHOOSE m \in days : \A n \in days : m >= n
    BY <1>1 DEF Bank!LatestDate, Bank!Max
  <2>2. \A m, n \in days : m >= n <=> n <= m
    BY <1>3
  <2>3. \E m \in days : \A n \in days : m >= n
    BY <1>5, <2>2
  <2> HIDE DEF days
  <2>4. QED BY <2>1, <2>2, <2>3
<1>7. QED BY <1>1, <1>2, <1>3, <1>6

(* The balances are the openings and what was booked, every account once.   *)
LEMMA BalancesAreBooked ==
  ASSUME Bank!Inv, Bank!Banks # {}, Bank!OneEach,
         NEW U, U = UNION {InBalance(c) : c \in Bank!Banks}
  PROVE  /\ U \subseteq DOMAIN Movements
         /\ Bank!Openings \in Int
         /\ Bank!LatestBalance = Bank!Openings + Bank!Total(U)
<1> DEFINE amount == [i \in DOMAIN Movements |-> Movements[i].amount]
           S == Bank!Banks
           B == [c \in S |-> InBalance(c)]
           balance == [c \in DOMAIN snapshots |-> snapshots[c].balance]
           first == [c \in S |-> Opening[Account[c]]]
           since == [c \in S |-> Bank!Total(B[c])]
<1>1. IsFiniteSet(S) /\ Bank!BankSnaps = S
  BY LastDay
<1>2. \A c \in S : c \in BankConnections /\ c \in DOMAIN snapshots
  BY DEF Bank!Inv, Bank!Banks
<1>3. \A c \in S : Opening[Account[c]] \in Int
  BY <1>2, BankAssumption DEF Bank!BankAssumption
<1>4. \A c \in S : /\ B[c] \in SUBSET DOMAIN Movements /\ IsFiniteSet(B[c]) /\ since[c] \in Int
  <2>1. \A c \in S : InBalance(c) \in SUBSET DOMAIN Movements
    BY DEF InBalance, Bank!Booked, Bank!Of
  <2>2. {} \in SUBSET DOMAIN Movements
    OBVIOUS
  <2>3. \A c \in S : IsFiniteSet(InBalance(c)) /\ Bank!Total(InBalance(c)) \in Int
    BY <2>1, <2>2, TotalsAdd
  <2>4. QED BY <2>1, <2>3
<1>5. \A c \in S : balance[c] = first[c] + since[c]
  BY <1>2 DEF Bank!Inv, Bank!AtBank, InBalance
<1>6. \A c, k \in S : c # k => B[c] \intersect B[k] = {}
  <2>1. \A c, k \in S : c # k => Account[c] # Account[k]
    BY DEF Bank!OneEach
  <2>2. \A c \in S : \A i \in InBalance(c) : Movements[i].account = Account[c]
    BY DEF InBalance, Bank!Booked, Bank!Of
  <2>3. QED BY <2>1, <2>2
<1>7. U = Gathered(B, S)
  BY DEF Gathered
<1>8. U \subseteq DOMAIN Movements
  BY <1>4, <1>7 DEF Gathered
<1>9. \A A : Bank!Total(A) = SumFunctionOnSet(amount, A)
  BY BankSum DEF Bank!Total
<1>10. SumFunctionOnSet(since, S) = SumFunctionOnSet(amount, Gathered(B, S))
  <2>1. \A c \in S : IsFiniteSet(B[c]) /\ \A x \in B[c] : amount[x] \in Int
    BY <1>4, DatedByThen
  <2>2. \A c \in S : since[c] = SumFunctionOnSet(amount, B[c])
    BY <1>9
  <2> HIDE DEF amount, B, since, S
  <2>3. QED BY <1>1, <1>6, <2>1, <2>2, SumOfUnion
<1>11. SumFunctionOnSet(first, S) = SumFunctionOnSet(Opening, Bank!Reported)
  <2>1. \A c, k \in S : Account[c] = Account[k] => c = k
    BY DEF Bank!OneEach
  <2>2. \A c \in S : first[c] = Opening[Account[c]] /\ Opening[Account[c]] \in Int
    BY <1>3
  <2> HIDE DEF first
  <2>3. SumFunctionOnSet(first, S) = SumFunctionOnSet(Opening, {Account[c] : c \in S})
    BY <1>1, <2>1, <2>2, SumByName
  <2>4. QED BY <2>3 DEF Bank!Reported
<1>12. SumFunctionOnSet(balance, S) = SumFunctionOnSet(first, S) + SumFunctionOnSet(since, S)
  <2>1. \A c \in S : first[c] \in Int /\ since[c] \in Int
    BY <1>3, <1>4
  <2> HIDE DEF first, since, balance, S
  <2>2. QED BY <1>1, <1>5, <2>1, SumAdds
<1>13. SumFunctionOnSet(first, S) \in Int
  <2>1. \A c \in S : first[c] \in Int
    BY <1>3
  <2> HIDE DEF first
  <2>2. QED BY <1>1, <2>1, SumType
<1>14. /\ Bank!LatestBalance = SumFunctionOnSet(balance, S)
       /\ Bank!Openings = SumFunctionOnSet(Opening, Bank!Reported)
  BY <1>1, BankSum DEF Bank!LatestBalance, Bank!Openings
<1> HIDE DEF amount, S, B, balance, first, since
<1>15. QED BY <1>7, <1>8, <1>9, <1>10, <1>11, <1>12, <1>13, <1>14

(* A row of a bank is part of a balance, or dated after the last day of     *)
(* all: when no account was synced again after others on its day.           *)
LEMMA OldOrNew ==
  ASSUME Bank!Inv, Bank!Banks # {}, Bank!Current, Bank!Covered,
         NEW U, U = UNION {InBalance(c) : c \in Bank!Banks}
  PROVE  /\ Bank!BankRows \subseteq DOMAIN Movements
         /\ Bank!Since = Bank!BankRows \ U
         /\ \A i \in U : i \in DOMAIN Movements /\ Bank!Dated(i) \in Int /\ Bank!Dated(i) <= Bank!LatestDate
         /\ \A i \in Bank!BankRows : Bank!Dated(i) \in Int
         /\ \A i \in Bank!BankRows \ U : Bank!Dated(i) > Bank!LatestDate
<1>1. Bank!BankRows \subseteq DOMAIN rows /\ DOMAIN rows \subseteq DOMAIN Movements /\ clock \in Int
  BY BankAssumption DEF Bank!Inv, Bank!BankRows, Bank!BankAssumption
<1>2. Bank!LatestDate \in Int /\ \A c \in Bank!Banks : Bank!Day(snapshots[c].taken) <= Bank!LatestDate
  BY LastDay
<1>3. \A c \in Bank!Banks : snapshots[c].taken \in Int /\ Bank!Day(snapshots[c].taken) \in Int
  <2>1. \A c \in Bank!Banks : snapshots[c].taken \in Int
    BY DEF Bank!Inv, Bank!Banks
  <2>2. QED BY <2>1, DaysGrow
<1>4. ASSUME NEW i \in U
      PROVE  i \in DOMAIN Movements /\ Bank!Dated(i) \in Int /\ Bank!Dated(i) <= Bank!LatestDate
  <2>1. PICK c \in Bank!Banks : i \in InBalance(c)
    OBVIOUS
  <2>2. i \in DOMAIN Movements /\ Movements[i].booked <= snapshots[c].taken
    BY <2>1 DEF InBalance, Bank!Booked, Bank!Of
  <2>3. Bank!Dated(i) \in Int /\ Bank!Dated(i) <= Bank!Day(snapshots[c].taken)
    BY <1>3, <2>2, DatedByThen
  <2>4. QED BY <1>2, <1>3, <2>2, <2>3
<1>5. \A i \in Bank!BankRows : Bank!Dated(i) \in Int
  BY <1>1, DatedByThen
<1>6. ASSUME NEW i \in Bank!BankRows, i \notin U PROVE Bank!Dated(i) > Bank!LatestDate
  <2>1. PICK c \in Bank!Banks : Account[c] = Movements[i].account
    BY DEF Bank!Covered
  <2>2. i \in DOMAIN Movements /\ i \notin InBalance(c) /\ Movements[i].booked \in Int
    BY <1>1, <1>6, DatedByThen
  <2>3. ~(Movements[i].booked <= snapshots[c].taken)
    BY <2>1, <2>2 DEF InBalance, Bank!Booked, Bank!Of
  <2>4. Movements[i].booked > snapshots[c].taken
    BY <1>3, <2>2, <2>3
  <2>5. QED BY <1>1, <2>1, <2>4 DEF Bank!Current
<1>7. \A i \in Bank!BankRows : Bank!Dated(i) <= Bank!Today
  <2>1. \A i \in Bank!BankRows : Movements[i].booked <= clock
    BY <1>1 DEF Bank!Inv
  <2>2. QED BY <1>1, <2>1, DatedByThen DEF Bank!Today
<1>8. Bank!Since = Bank!BankRows \ U
  <2>1. ASSUME NEW i \in Bank!BankRows
        PROVE  i \in Bank!Since <=> i \notin U
    <3>1. Bank!Dated(i) > Bank!LatestDate <=> Bank!LatestDate < Bank!Dated(i)
      BY <1>2, <1>5
    <3>2. CASE i \in U
      <4>1. ~(Bank!LatestDate < Bank!Dated(i))
        BY <1>2, <1>4, <3>2
      <4>2. QED BY <3>2, <4>1 DEF Bank!Since
    <3>3. CASE i \notin U
      BY <1>6, <1>7, <3>1, <3>3 DEF Bank!Since
    <3>4. QED BY <3>2, <3>3
  <2>2. QED BY <2>1 DEF Bank!Since
<1>9. QED BY <1>1, <1>4, <1>5, <1>6, <1>8

(* The balance of now, and those of the past, count every movement once.    *)
LEMMA BalanceCounts == ASSUME Bank!Inv PROVE Bank!BalanceIsTrue
<1> SUFFICES ASSUME Bank!Banks # {}, Bank!OneEach, Bank!Current, Bank!Covered
             PROVE  /\ Bank!BalanceNow = Bank!Openings + Bank!Total(Bank!Included)
                    /\ Bank!Complete /\ Bank!BankRows # {} =>
                         \A d \in Bank!FirstDay .. Bank!LatestDate :
                           Bank!Curve(d) = Bank!Openings + Bank!Total({i \in Bank!Included : Bank!Dated(i) <= d})
  BY DEF Bank!BalanceIsTrue
<1> DEFINE U == UNION {InBalance(c) : c \in Bank!Banks}
           R == Bank!BankRows
<1>1. /\ U \subseteq DOMAIN Movements /\ Bank!Openings \in Int
      /\ Bank!LatestBalance = Bank!Openings + Bank!Total(U)
  BY BalancesAreBooked
<1>2. /\ R \subseteq DOMAIN Movements /\ Bank!Since = R \ U
      /\ \A i \in U : Bank!Dated(i) \in Int /\ Bank!Dated(i) <= Bank!LatestDate
      /\ \A i \in R : Bank!Dated(i) \in Int
      /\ \A i \in R \ U : Bank!Dated(i) > Bank!LatestDate
  <2> HIDE DEF U
  <2>1. U = UNION {InBalance(c) : c \in Bank!Banks}
    BY DEF U
  <2>2. QED BY <2>1, OldOrNew
<1>3. Bank!LatestDate \in Int
  BY LastDay
<1>4. Bank!Included = U \union R
  <2>1. ASSUME NEW i PROVE i \in Bank!Included <=> i \in U \/ i \in R
    <3>1. i \in U <=> \E c \in Bank!Banks : i \in Bank!Booked(Account[c], snapshots[c].taken)
      BY DEF InBalance
    <3>2. i \in Bank!Included <=>
            \/ \E c \in Bank!Banks : i \in Bank!Booked(Account[c], snapshots[c].taken)
            \/ i \in Bank!BankRows
      BY DEF Bank!Included
    <3>3. QED BY <3>1, <3>2
  <2> HIDE DEF U, R
  <2>2. QED BY <2>1
<1>5. \A i \in R : i \in DOMAIN rows /\ rows[i] \notin CardConnections
  BY DEF Bank!BankRows
(* What a balance includes and is stored, a bank has brought.               *)
<1>6. ASSUME Bank!Complete PROVE U \subseteq R
  <2> SUFFICES ASSUME NEW i \in U PROVE i \in R
    OBVIOUS
  <2>1. PICK c \in Bank!Banks : i \in InBalance(c)
    OBVIOUS
  <2>2. i \in DOMAIN rows /\ Movements[i].account = Account[c] /\ c \in BankConnections \ CardConnections
    BY <1>6, <2>1 DEF Bank!Complete, InBalance, Bank!Booked, Bank!Of, Bank!Banks, Bank!Inv
  <2>3. rows[i] \in BankConnections /\ Movements[i].account = Account[rows[i]]
    BY <2>2 DEF Bank!Inv
  <2>4. rows[i] \notin CardConnections
    BY <2>2, <2>3, BankAssumption DEF Bank!BankAssumption
  <2>5. QED BY <2>2, <2>4 DEF Bank!BankRows
<1> HIDE DEF U, R
<1>7. Bank!BalanceNow = Bank!Openings + Bank!Total(Bank!Included)
  <2>1. /\ Bank!Total(U) \in Int /\ Bank!Total(R \ U) \in Int
        /\ Bank!Total(U \union (R \ U)) = Bank!Total(U) + Bank!Total(R \ U)
    <3>1. R \ U \in SUBSET DOMAIN Movements /\ U \in SUBSET DOMAIN Movements /\ U \intersect (R \ U) = {}
      BY <1>1, <1>2
    <3>2. QED BY <3>1, TotalsAdd
  <2>2. U \union (R \ U) = Bank!Included
    BY <1>4
  <2>3. Bank!BalanceNow = Bank!LatestBalance + Bank!Total(R \ U)
    BY <1>2 DEF Bank!BalanceNow
  <2>4. Bank!Total(Bank!Included) = Bank!Total(U) + Bank!Total(R \ U)
    BY <2>1, <2>2
  <2>5. QED BY <1>1, <2>1, <2>3, <2>4
<1>8. ASSUME Bank!Complete, R # {}, NEW d \in Bank!FirstDay .. Bank!LatestDate
      PROVE  Bank!Curve(d) = Bank!Openings + Bank!Total({i \in Bank!Included : Bank!Dated(i) <= d})
  <2>1. d \in Int /\ d <= Bank!LatestDate
    <3> DEFINE f == [i \in R |-> -Bank!Dated(i)]
               days == {Bank!Dated(i) : i \in R}
    <3>1. PICK i \in R : \A j \in R : f[j] <= f[i]
      <4>1. IsFiniteSet(R)
        <5>1. R \intersect {} = {} /\ {} \in SUBSET DOMAIN Movements
          OBVIOUS
        <5>2. QED BY <1>2, <5>1, TotalsAdd
      <4>2. \A j \in R : f[j] \in Int
        BY <1>2
      <4> HIDE DEF f
      <4>3. QED BY <1>8, <4>1, <4>2, Greatest
    <3>2. \A j \in R : Bank!Dated(i) <= Bank!Dated(j)
      BY <1>2, <3>1
    <3>3. \E m \in days : \A n \in days : m <= n
      BY <3>2
    <3>4. Bank!FirstDay = CHOOSE m \in days : \A n \in days : m <= n
      BY DEF Bank!FirstDay, Bank!Min, R
    <3>5. Bank!FirstDay \in days
      <4> HIDE DEF days
      <4>1. QED BY <3>3, <3>4
    <3>6. Bank!FirstDay \in Int
      BY <1>2, <3>5
    <3>7. QED BY <1>3, <3>6
  <2> DEFINE after == {i \in U : d < Bank!Dated(i)}
             upTo == {i \in U : Bank!Dated(i) <= d}
  <2>2. U = upTo \union after /\ upTo \intersect after = {}
    BY <1>2, <2>1
  <2>3. /\ Bank!Total(upTo) \in Int /\ Bank!Total(after) \in Int
        /\ Bank!Total(U) = Bank!Total(upTo) + Bank!Total(after)
    <3>1. upTo \in SUBSET DOMAIN Movements /\ after \in SUBSET DOMAIN Movements
      BY <1>1
    <3> HIDE DEF upTo, after
    <3>2. QED BY <2>2, <3>1, TotalsAdd
  <2>4. {i \in R : d < Bank!Dated(i) /\ Bank!Dated(i) <= Bank!LatestDate} = after
    <3>1. \A i \in R : Bank!Dated(i) <= Bank!LatestDate => i \in U
      BY <1>2, <1>3
    <3>2. \A i \in U : i \in R /\ Bank!Dated(i) <= Bank!LatestDate
      BY <1>2, <1>6, <1>8
    <3>3. QED BY <3>1, <3>2
  <2>5. {i \in Bank!Included : Bank!Dated(i) <= d} = upTo
    <3>1. \A i \in R : Bank!Dated(i) <= d => i \in U
      BY <1>2, <1>3, <2>1
    <3>2. QED BY <1>4, <3>1
  <2> HIDE DEF upTo, after
  <2>6. Bank!Curve(d) = Bank!LatestBalance - Bank!Total(after)
    BY <2>4 DEF Bank!Curve, R
  <2>7. Bank!Total({i \in Bank!Included : Bank!Dated(i) <= d}) = Bank!Total(upTo)
    BY <2>5
  <2>8. QED BY <1>1, <2>3, <2>6, <2>7
<1>9. QED BY <1>7, <1>8 DEF R

(* The balance the forecast starts from and the curve of the past are the   *)
(* household's money as far as it is known, for any accounts, movements and *)
(* connections, through failed and partial syncs (routes.ts:1206-1207,      *)
(* 2336-2339).                                                              *)
THEOREM BalanceIsAlwaysTrue == Bank!Spec => []BalanceIsTrue
<1>1. Bank!Init => Bank!Inv
  <2> SUFFICES ASSUME Bank!Init PROVE Bank!Inv
    OBVIOUS
  <2>1. /\ clock = 0 /\ connections \subseteq BankConnections
        /\ DOMAIN rows = {} /\ DOMAIN snapshots = {}
    BY DEF Bank!Init
  <2>2. Bank!IsFiniteSet({}) /\ LastTick \in Nat
    BY BankFinite, FS_EmptySet, BankAssumption DEF Bank!BankAssumption
  <2>3. QED BY <2>1, <2>2 DEF Bank!Inv
<1>2. Bank!Inv /\ [Bank!Next]_(Bank!vars) => Bank!Inv'
  BY BankStep
<1>3. Bank!Inv => BalanceIsTrue
  BY BalanceCounts DEF BalanceIsTrue
<1>4. QED BY <1>1, <1>2, <1>3, PTL DEF Bank!Spec
--------------------------------------------------------------------------------
(* What the household has committed itself to.                              *)

LEMMA CommitSizes ==
  ASSUME NEW S PROVE /\ Commit!Cardinality(S) = Cardinality(S)
                     /\ Commit!IsFiniteSet(S) <=> IsFiniteSet(S)
BY DEF Commit!Cardinality, Cardinality, Commit!IsFiniteSet, IsFiniteSet

LEMMA CommitStep ==
  ASSUME Commit!TypeOK, [Commit!Next]_(Commit!vars) PROVE Commit!TypeOK'
<1>1. /\ ToMonth \in Nat /\ today \in Int /\ today \in 1 .. ToMonth /\ MaxWords \in Nat
      /\ \A x \in Commit!Merchants : charged[x] \subseteq 1 .. today
  BY ChargesAssumption DEF Commit!CommitmentsAssumption, Commit!TypeOK, Commit!Months
<1>2. CASE UNCHANGED Commit!vars
  BY <1>2 DEF Commit!vars, Commit!TypeOK
<1>3. CASE Commit!NextMonth
  <2>1. /\ today' \in Commit!Months /\ today' = today + 1
        /\ UNCHANGED <<charged, txnMarks, muted, typed, said>>
    BY <1>1, <1>3 DEF Commit!NextMonth, Commit!Months
  <2>2. charged \in [Commit!Merchants -> SUBSET (1 .. today')]
    <3>1. 1 .. today \subseteq 1 .. today'
      BY <1>1, <2>1
    <3>2. QED BY <3>1 DEF Commit!TypeOK
  <2>3. QED BY <2>1, <2>2 DEF Commit!TypeOK
<1>4. ASSUME NEW x \in Commit!Merchants, Commit!Charge(x) PROVE Commit!TypeOK'
  <2>1. /\ charged' = [charged EXCEPT ![x] = @ \union {today}]
        /\ UNCHANGED <<today, txnMarks, muted, typed, said>>
    BY <1>4 DEF Commit!Charge
  <2>2. charged[x] \union {today} \subseteq 1 .. today
    BY <1>1
  <2>3. charged' \in [Commit!Merchants -> SUBSET (1 .. today)]
    BY <2>1, <2>2 DEF Commit!TypeOK
  <2>4. QED BY <2>1, <2>3 DEF Commit!TypeOK
(* What is said is counted.                                                 *)
<1>5. ASSUME Commit!Says PROVE Commit!Word \in [words : 0 .. MaxWords, last : [Commit!Merchants -> Commit!Marks \union {None}]]
  BY <1>1, <1>5 DEF Commit!Says, Commit!Word, Commit!TypeOK
<1>6. ASSUME NEW x \in Commit!Merchants, NEW mark \in Commit!Marks \union {None}, Commit!Apply(x, mark)
      PROVE  Commit!TypeOK'
  <2>1. /\ Commit!Says /\ UNCHANGED <<today, charged, muted, typed>>
        /\ txnMarks' = [txnMarks EXCEPT ![x] = [m \in Commit!Months |->
                          IF m \in Commit!Charges(x, Commit!Analyzed) THEN mark ELSE @[m]]]
        /\ said' = [Commit!Word EXCEPT !.last[x] = mark]
    BY <1>6 DEF Commit!Apply
  <2>2. txnMarks' \in [Commit!Merchants -> [Commit!Months -> Commit!Marks \union {None}]]
    BY <2>1 DEF Commit!TypeOK
  <2>3. said' \in [words : 0 .. MaxWords, last : [Commit!Merchants -> Commit!Marks \union {None}]]
    BY <1>5, <2>1
  <2>4. QED BY <2>1, <2>2, <2>3 DEF Commit!TypeOK
<1>7. ASSUME NEW x \in Commit!Merchants, Commit!Mute(x) \/ Commit!Unmute(x) PROVE Commit!TypeOK'
  BY <1>5, <1>7 DEF Commit!Mute, Commit!Unmute, Commit!TypeOK
<1>8. ASSUME NEW i \in RowIds, NEW name \in Names, Commit!AddManual(i, name) PROVE Commit!TypeOK'
  BY <1>5, <1>8 DEF Commit!AddManual, Commit!TypeOK
<1>9. ASSUME NEW i \in DOMAIN typed, Commit!DeleteManual(i) PROVE Commit!TypeOK'
  BY <1>5, <1>9 DEF Commit!DeleteManual, Commit!TypeOK
<1>10. QED BY <1>2, <1>3, <1>4, <1>6, <1>7, <1>8, <1>9 DEF Commit!Next

(* The dominant mark of some charges is borne by one of them.               *)
LEMMA DominantIsBorne ==
  ASSUME Commit!TypeOK, NEW x \in Commit!Merchants, NEW S,
         Commit!MarkOf(x, S) \in Commit!Marks
  PROVE  \E m \in Commit!Charges(x, S) : txnMarks[x][m] = Commit!MarkOf(x, S)
<1> DEFINE bearing(k) == {m \in Commit!Charges(x, S) : txnMarks[x][m] = k}
           given == {k \in Commit!Marks : Commit!Count(x, k, S) > 0}
           f == [k \in Commit!Marks |-> 4 * Commit!Count(x, k, S) - Commit!Rank[k]]
           Leads(k, j) == \/ Commit!Count(x, k, S) > Commit!Count(x, j, S)
                          \/ Commit!Count(x, k, S) = Commit!Count(x, j, S) /\ Commit!Rank[k] <= Commit!Rank[j]
<1>1. \A k : Commit!Count(x, k, S) \in Nat /\ (Commit!Count(x, k, S) > 0 => bearing(k) # {})
  <2>1. IsFiniteSet(1 .. today)
    BY FS_Interval DEF Commit!TypeOK, Commit!Months
  <2>2. \A k : IsFiniteSet(bearing(k)) /\ Commit!Count(x, k, S) = Cardinality(bearing(k))
    <3>1. \A k : bearing(k) \subseteq 1 .. today
      BY DEF Commit!TypeOK, Commit!Charges
    <3>2. \A k : Commit!Count(x, k, S) = Cardinality(bearing(k))
      BY CommitSizes DEF Commit!Count
    <3> HIDE DEF bearing
    <3>3. QED BY <2>1, <3>1, <3>2, FS_Subset
  <2> HIDE DEF bearing
  <2>3. \A k : Cardinality(bearing(k)) \in Nat /\ (bearing(k) = {} => Cardinality(bearing(k)) = 0)
    BY <2>2, FS_CardinalityType, FS_EmptySet
  <2>4. QED BY <2>2, <2>3
<1>2. Commit!MarkOf(x, S) = IF given = {} THEN None ELSE CHOOSE k \in given : \A j \in given : Leads(k, j)
  BY DEF Commit!MarkOf
<1>3. given # {}
  <2>1. None \notin Commit!Marks
    BY ChargesAssumption DEF Commit!CommitmentsAssumption
  <2> HIDE DEF given
  <2>2. QED BY <1>2, <2>1
<1>4. \E k \in given : \A j \in given : Leads(k, j)
  <2>1. \A k \in Commit!Marks : Commit!Rank[k] \in 1 .. 3
    BY DEF Commit!Marks, Commit!Rank
  <2>2. \A k \in given : f[k] \in Int
    <3>1. \A n \in Nat, r \in 1 .. 3 : 4 * n - r \in Int
      OBVIOUS
    <3>2. QED BY <1>1, <2>1, <3>1
  <2>3. IsFiniteSet(given)
    <3>1. IsFiniteSet(Commit!Marks)
      <4>1. IsFiniteSet({})
        BY FS_EmptySet
      <4>2. Commit!Marks = {} \union {"subscription"} \union {"habit"} \union {"dismissed"}
        BY DEF Commit!Marks
      <4>3. QED BY <4>1, <4>2, FS_AddElement
    <3>2. QED BY <3>1, FS_Subset
  <2>4. PICK k \in given : \A j \in given : f[j] <= f[k]
    <3> HIDE DEF f, given
    <3>1. QED BY <1>3, <2>2, <2>3, Greatest
  <2>5. ASSUME NEW j \in given PROVE Leads(k, j)
    <3>1. \A a, b \in Nat : \A r, s \in 1 .. 3 : 4 * b - s <= 4 * a - r => a > b \/ (a = b /\ r <= s)
      OBVIOUS
    <3>2. 4 * Commit!Count(x, j, S) - Commit!Rank[j] <= 4 * Commit!Count(x, k, S) - Commit!Rank[k]
      BY <2>4
    <3>3. QED BY <1>1, <2>1, <3>1, <3>2
  <2>6. QED BY <2>5
<1>5. Commit!MarkOf(x, S) \in given
  <2> HIDE DEF given, Leads
  <2>1. QED BY <1>2, <1>3, <1>4
<1>6. QED BY <1>1, <1>5

(* A merchant that counts as committed is marked a subscription, and has    *)
(* charged this month or the last.                                          *)
LEMMA CountsMeans ==
  ASSUME Commit!TypeOK, NEW x \in Commit!Merchants, Commit!CountsAsCommitted(x)
  PROVE  /\ Commit!Override(x) = "subscription"
         /\ charged[x] # {} /\ Commit!Age(x) \in Nat
         /\ Commit!Age(x) <= 1 /\ (x \in Bursty => Commit!Age(x) = 0)
<1>1. Commit!Override(x) = "subscription"
  <2>1. Commit!Override(x) \in {"subscription", "habit"}
    BY DEF Commit!CountsAsCommitted, Commit!UserMarked, Commit!Marks
  <2>2. Commit!Nature(x) = Commit!Override(x)
    <3>1. None \notin Commit!Marks
      BY ChargesAssumption DEF Commit!CommitmentsAssumption
    <3>2. QED BY <2>1, <3>1 DEF Commit!Nature, Commit!Marks
  <2>3. QED BY <2>1, <2>2 DEF Commit!CountsAsCommitted, Commit!Commitment
<1>2. charged[x] # {}
  <2>1. Commit!MarkOf(x, Commit!Months) \in Commit!Marks
    BY <1>1 DEF Commit!Override, Commit!Marks
  <2>2. QED BY <2>1, DominantIsBorne DEF Commit!Charges
<1>3. Commit!Max(charged[x]) \in charged[x]
  <2> DEFINE S == charged[x]
             f == [m \in S |-> m]
  <2>1. S \subseteq 1 .. today /\ today \in Int
    BY DEF Commit!TypeOK, Commit!Months
  <2>2. IsFiniteSet(S) /\ \A m \in S : f[m] \in Int
    <3>1. IsFiniteSet(1 .. today)
      BY <2>1, FS_Interval
    <3>2. IsFiniteSet(S)
      BY <2>1, <3>1, FS_Subset
    <3>3. QED BY <2>1, <3>2
  <2>3. PICK m \in S : \A n \in S : f[n] <= f[m]
    <3> HIDE DEF S, f
    <3>1. QED BY <1>2, <2>2, Greatest DEF S
  <2>4. m \in S /\ \A n \in S : m >= n
    BY <2>1, <2>3
  <2>5. Commit!Max(S) = CHOOSE k \in S : \A n \in S : k >= n
    BY DEF Commit!Max
  <2> HIDE DEF S
  <2>6. Commit!Max(S) \in S
    BY <2>4, <2>5
  <2>7. QED BY <2>6 DEF S
<1>4. Commit!Age(x) \in Nat
  <2>1. today \in Int /\ Commit!Max(charged[x]) \in 1 .. today
    BY <1>3 DEF Commit!TypeOK, Commit!Months
  <2>2. QED BY <2>1 DEF Commit!Age
<1>5. Commit!Age(x) <= IF x \in Steady THEN 1 ELSE 0
  <2>1. Commit!Nature(x) \in Commit!Commitment
    BY DEF Commit!CountsAsCommitted
  <2>2. Commit!Age(x) <= (IF x \in Steady THEN 1 ELSE 0) + 0
    BY <2>1 DEF Commit!CountsAsCommitted, Commit!Alive
  <2>3. QED BY <2>2
<1>6. x \in Bursty => x \notin Steady
  BY ChargesAssumption DEF Commit!CommitmentsAssumption
<1>7. QED BY <1>1, <1>2, <1>4, <1>5, <1>6

(* What has a rhythm in the window has one.                                 *)
LEMMA WindowIsPart ==
  ASSUME Commit!TypeOK
  PROVE  Commit!Rhythmic(Commit!Analyzed) \subseteq Commit!Detected
<1> SUFFICES ASSUME NEW x \in Commit!Rhythmic(Commit!Analyzed) PROVE x \in Commit!Rhythmic(Commit!Months)
  BY DEF Commit!Detected
<1> DEFINE A == Commit!Charges(x, Commit!Analyzed)
           M == Commit!Charges(x, Commit!Months)
<1>1. x \in Steady /\ Commit!Cardinality(A) >= 2
  BY DEF Commit!Rhythmic
<1>2. A \subseteq M /\ M \subseteq 1 .. today /\ today \in Int
  BY <1>1 DEF Commit!Analyzed, Commit!Charges, Commit!TypeOK, Commit!Months, Commit!Merchants
<1>3. IsFiniteSet(M)
  <2>1. IsFiniteSet(1 .. today)
    BY <1>2, FS_Interval
  <2>2. QED BY <1>2, <2>1, FS_Subset
<1> HIDE DEF A, M
<1>4. Cardinality(A) <= Cardinality(M) /\ Cardinality(A) \in Nat /\ Cardinality(M) \in Nat
  BY <1>2, <1>3, FS_Subset, FS_CardinalityType
<1>5. Commit!Cardinality(M) >= 2
  BY <1>1, <1>4, CommitSizes
<1>6. QED BY <1>1, <1>5 DEF Commit!Rhythmic, M

(* A commitment was typed by hand, and its name was not detected; or it was *)
(* detected, one way or the other, and counts.                              *)
LEMMA CommittedIs ==
  ASSUME Commit!TypeOK, NEW p \in Commit!Committed
  PROVE  \/ /\ p.by \in DOMAIN typed /\ p.by \in RowIds
            /\ p.name = typed[p.by] /\ p.name \notin Commit!Detected
         \/ /\ p.by \in {"rhythm", "frequency"} /\ p.by \notin RowIds
            /\ p.name \in Commit!Merchants /\ p.name \in Commit!Detected
            /\ p.by = "rhythm" <=> p.name \in Commit!Rhythmic(Commit!Months)
            /\ Commit!CountsAsCommitted(p.name)
<1>1. {"rhythm", "frequency"} \intersect RowIds = {}
  BY ChargesAssumption DEF Commit!CommitmentsAssumption
<1>2. p \in Commit!Patterns /\ (p.by \in RowIds \/ Commit!CountsAsCommitted(p.name))
  BY DEF Commit!Committed
<1>3. CASE p \in Commit!TypedBeside(Commit!Detected)
  <2>1. PICK i \in DOMAIN typed : typed[i] \notin Commit!Detected /\ p = Commit!Pattern(typed[i], i)
    BY <1>3 DEF Commit!TypedBeside
  <2>2. p.by = i /\ p.name = typed[i]
    BY <2>1 DEF Commit!Pattern
  <2>3. QED BY <2>1, <2>2 DEF Commit!TypeOK
<1>4. CASE \E x \in Commit!Rhythmic(Commit!Months) : p = Commit!Pattern(x, "rhythm")
  <2>1. PICK x \in Commit!Rhythmic(Commit!Months) : p = Commit!Pattern(x, "rhythm")
    BY <1>4
  <2>2. p.by = "rhythm" /\ p.name = x
    BY <2>1 DEF Commit!Pattern
  <2>3. x \in Commit!Merchants /\ x \in Commit!Detected
    BY DEF Commit!Rhythmic, Commit!Merchants, Commit!Detected
  <2>4. QED BY <1>1, <1>2, <2>2, <2>3
<1>5. CASE \E x \in Commit!Frequent : p = Commit!Pattern(x, "frequency")
  <2>1. PICK x \in Commit!Frequent : p = Commit!Pattern(x, "frequency")
    BY <1>5
  <2>2. p.by = "frequency" /\ p.name = x
    BY <2>1 DEF Commit!Pattern
  <2>3. x \in Commit!Merchants /\ x \in Commit!Detected /\ x \notin Commit!Rhythmic(Commit!Months)
    BY DEF Commit!Frequent, Commit!Detected
  <2>4. QED BY <1>1, <1>2, <2>2, <2>3
<1>6. QED BY <1>2, <1>3, <1>4, <1>5 DEF Commit!Patterns

(* What is spoken for counts once, and only when vouched for; the forecast  *)
(* expects it and the plan holds it back.                                   *)
LEMMA CommitmentsHold ==
  ASSUME Commit!TypeOK PROVE Commit!CommittedIsVouchedOnce /\ Commit!CommittedIsExpected
<1>1. ASSUME NEW p \in Commit!Committed, NEW q \in Commit!Committed, p.name = q.name, p.by # q.by
      PROVE  {p.by, q.by} \subseteq RowIds
  BY <1>1, CommittedIs
<1>2. ASSUME NEW p \in Commit!Committed, p.by \notin RowIds
      PROVE  \E m \in charged[p.name] : txnMarks[p.name][m] \in Commit!Commitment
  <2>1. p.name \in Commit!Merchants /\ Commit!CountsAsCommitted(p.name)
    BY <1>2, CommittedIs
  <2>2. Commit!MarkOf(p.name, Commit!Months) = "subscription"
    BY <2>1, CountsMeans DEF Commit!Override
  <2>3. QED BY <2>1, <2>2, DominantIsBorne DEF Commit!Marks, Commit!Charges, Commit!Commitment
<1>3. ASSUME NEW p \in Commit!Committed,
             p.by \in RowIds \/ Commit!MarkOf(p.name, Commit!Analyzed) = Commit!Override(p.name)
      PROVE  (\E q \in Commit!Expected : q.name = p.name) /\ p.name \in Commit!HeldBack
  <2>1. CASE p.by \in RowIds
    <3> DEFINE i == p.by
               q == Commit!Pattern(typed[i], i)
    <3>1. i \in DOMAIN typed /\ p.name = typed[i] /\ p.name \notin Commit!Detected
      BY <2>1, CommittedIs
    <3>2. typed[i] \notin Commit!Recurring
      BY <3>1, WindowIsPart DEF Commit!Recurring
    <3>3. q \in Commit!TypedBeside(Commit!Recurring) /\ q.by \in RowIds /\ q.name = p.name
      BY <2>1, <3>1, <3>2 DEF Commit!TypedBeside, Commit!Pattern
    <3>4. q \in Commit!Expected
      BY <3>3 DEF Commit!Expected, Commit!Forecast
    <3>5. p.name \in Commit!HeldBack
      BY <3>1 DEF Commit!HeldBack
    <3>6. QED BY <3>3, <3>4, <3>5
  <2>2. CASE p.by \notin RowIds
    <3> DEFINE x == p.name
    <3>1. /\ x \in Commit!Merchants /\ Commit!MarkOf(x, Commit!Analyzed) = "subscription"
          /\ charged[x] # {} /\ Commit!Age(x) \in Nat
          /\ Commit!Age(x) <= 1 /\ (x \in Bursty => Commit!Age(x) = 0)
      BY <1>3, <2>2, CommittedIs, CountsMeans
    <3>2. Commit!Charges(x, Commit!Analyzed) # {} /\ Commit!MarkOf(x, Commit!Analyzed) \in Commit!Commitment
      BY <3>1, DominantIsBorne DEF Commit!Marks, Commit!Commitment
    <3>3. Commit!Fresh(x)
      BY <3>1 DEF Commit!Fresh
    <3>4. \E q \in Commit!Forecast : q.name = x
      <4>1. CASE x \in Commit!Recurring
        <5>1. Commit!Pattern(x, "detected") \in Commit!Forecast
          BY <4>1 DEF Commit!Forecast
        <5>2. QED BY <5>1 DEF Commit!Pattern
      <4>2. CASE x \notin Commit!Recurring
        <5>1. Commit!Pattern(x, "promoted") \in Commit!Forecast
          BY <3>1, <3>2, <4>2 DEF Commit!Forecast, Commit!Promoted
        <5>2. QED BY <5>1 DEF Commit!Pattern
      <4>3. QED BY <4>1, <4>2
    <3>5. PICK q \in Commit!Forecast : q.name = x
      BY <3>4
    <3>6. q \in Commit!Expected
      BY <3>1, <3>3, <3>5 DEF Commit!Expected
    <3>7. Commit!Age(x) <= 2
      BY <3>1
    <3>8. x \in Commit!HeldBack
      BY <3>1, <3>2, <3>7 DEF Commit!HeldBack
    <3>9. QED BY <3>5, <3>6, <3>8
  <2>3. QED BY <2>1, <2>2
<1>4. Commit!CommittedIsVouchedOnce
  BY <1>1, <1>2 DEF Commit!CommittedIsVouchedOnce
<1>5. QED BY <1>3, <1>4 DEF Commit!CommittedIsExpected

(* The figure of what is spoken for counts nothing twice that was not typed *)
(* twice, and nothing that nobody vouched for; and the forecast and the     *)
(* plan know what it counts, for any merchants, charges and marks           *)
(* (patterns.ts:223-225, 367-369, routes.ts:1915-1916, 2294-2295).          *)
THEOREM CommitmentsAlwaysAgree == Commit!Spec => []CommitmentsAgree
<1>1. Commit!Init => Commit!TypeOK
  <2> SUFFICES ASSUME Commit!Init PROVE Commit!TypeOK
    OBVIOUS
  <2>1. /\ FromMonth \in Commit!Months /\ MaxWords \in Nat
        /\ Known \in [Commit!Merchants -> SUBSET (1 .. FromMonth)]
    BY ChargesAssumption DEF Commit!CommitmentsAssumption
  <2>2. 0 \in 0 .. MaxWords
    BY <2>1
  <2>3. QED BY <2>1, <2>2 DEF Commit!Init, Commit!TypeOK
<1>2. Commit!TypeOK /\ [Commit!Next]_(Commit!vars) => Commit!TypeOK'
  BY CommitStep
<1>3. Commit!TypeOK => CommitmentsAgree
  BY CommitmentsHold DEF CommitmentsAgree
<1>4. QED BY <1>1, <1>2, <1>3, PTL DEF Commit!Spec
--------------------------------------------------------------------------------
(* What the household is advised to do.                                     *)

LEMMA AdviceFacts ==
  /\ LastMonth \in Nat /\ FirstMonth \in Advice!Months /\ Vouched \subseteq Services
  /\ \A s \in Services : Prices[s] \subseteq Nat
  /\ \A c \in DOMAIN Basket : c \in Advice!Categories /\ Basket[c] \in Nat
  /\ "leisure" \in DOMAIN Basket
  /\ Miscategorised \subseteq Advice!Months
  /\ Advice!Categories = {"leisure", "groceries"} /\ Advice!Months = 1 .. LastMonth
BY QueueAssumption DEF Advice!AdviceAssumption, Advice!Categories, Advice!Months

LEMMA AdviceBegins == ASSUME Advice!Init PROVE Advice!TypeOK /\ Advice!DeclinedIsHeld
<1>1. /\ Charged \in [Services -> [1 .. FirstMonth - 1 -> Nat]]
      /\ Spending \in [Advice!Categories -> [1 .. FirstMonth - 1 -> Nat]]
      /\ FirstMonth \in Nat /\ FirstMonth >= 1 /\ FirstMonth \in Advice!Months /\ Advice!Months = 1 .. LastMonth
      /\ LastMonth \in Nat
  BY QueueAssumption DEF Advice!AdviceAssumption, Advice!Months
<1>2. \A s \in Services : Charged[s] \in Seq(Nat) /\ Len(Charged[s]) <= FirstMonth
  <2> SUFFICES ASSUME NEW s \in Services PROVE Charged[s] \in Seq(Nat) /\ Len(Charged[s]) <= FirstMonth
    OBVIOUS
  <2>1. Charged[s] \in [1 .. FirstMonth - 1 -> Nat] /\ FirstMonth - 1 \in Nat
    BY <1>1
  <2>2. QED BY <1>1, <2>1
<1>3. charges \in [Services -> Seq(Nat)] /\ \A s \in Services : Len(charges[s]) <= now
  BY <1>1, <1>2 DEF Advice!Init
<1>4. spent \in [Advice!Categories -> [Advice!Months -> Nat]]
  <2>1. \A m \in Advice!Months : m < FirstMonth => m \in 1 .. FirstMonth - 1
    BY <1>1
  <2>2. QED BY <1>1, <2>1 DEF Advice!Init
<1>5. QED BY <1>1, <1>3, <1>4 DEF Advice!Init, Advice!TypeOK, Advice!DeclinedIsHeld

(* An item that is found is of no verdict, and one of a price names it.     *)
LEMMA FoundIsOpen ==
  ASSUME NEW a \in Advice!Queue
  PROVE  /\ a.key \notin Advice!suppressed
         /\ a.key[1] = "hike" => a.key = <<"hike", a.on, Advice!LastPrice(a.on)>>
<1>1. a \in Advice!Found
  BY DEF Advice!Queue
<1>2. /\ a \in Advice!Hikes \union Advice!Creeps \union Advice!Cushions \union Advice!Dead
      /\ a.key \notin Advice!suppressed
  BY <1>1 DEF Advice!Found
<1>3. ASSUME a \in Advice!Hikes PROVE a.key = <<"hike", a.on, Advice!LastPrice(a.on)>>
  BY <1>3 DEF Advice!Hikes, Advice!Item, Advice!HikeKey
<1>4. ASSUME a \in Advice!Creeps PROVE a.key[1] # "hike"
  BY <1>4 DEF Advice!Creeps, Advice!Item
<1>5. ASSUME a \in Advice!Cushions PROVE a.key[1] # "hike"
  BY <1>5 DEF Advice!Cushions, Advice!Item
<1>6. ASSUME a \in Advice!Dead PROVE a.key[1] # "hike"
  BY <1>6 DEF Advice!Dead, Advice!Item
<1>7. QED BY <1>2, <1>3, <1>4, <1>5, <1>6

LEMMA AdviceStep ==
  ASSUME Advice!TypeOK, Advice!DeclinedIsHeld, [Advice!Next]_(Advice!vars)
  PROVE  Advice!TypeOK' /\ Advice!DeclinedIsHeld'
<1>1. /\ now \in Advice!Months /\ now \in Int
      /\ charges \in [Services -> Seq(Nat)] /\ \A s \in Services : Len(charges[s]) \in Nat /\ Len(charges[s]) <= now
      /\ spent \in [Advice!Categories -> [Advice!Months -> Nat]]
  BY AdviceFacts DEF Advice!TypeOK
<1>2. CASE UNCHANGED Advice!vars
  BY <1>2 DEF Advice!vars, Advice!TypeOK, Advice!DeclinedIsHeld, Advice!suppressed
<1>3. ASSUME UNCHANGED <<advice_state, declined>> PROVE Advice!DeclinedIsHeld'
  BY <1>3 DEF Advice!DeclinedIsHeld, Advice!suppressed
<1>4. ASSUME UNCHANGED <<now, charges, spent, plan_goals>> PROVE Advice!TypeOK'
  BY <1>4 DEF Advice!TypeOK
<1>5. CASE Advice!NextMonth
  <2>1. now' = now + 1 /\ now' \in Advice!Months /\ 1 .. now \subseteq 1 .. now' /\ UNCHANGED <<charges, spent, advice_state, plan_goals, declined>>
    BY <1>1, <1>5, AdviceFacts DEF Advice!NextMonth
  <2>2. \A s \in Services : Len(charges'[s]) <= now'
    BY <1>1, <2>1
  <2>3. QED BY <1>3, <2>1, <2>2 DEF Advice!TypeOK
<1>6. ASSUME NEW s \in Services, NEW p \in Prices[s], Advice!Charge(s, p) PROVE Advice!TypeOK' /\ Advice!DeclinedIsHeld'
  <2>1. /\ Len(charges[s]) = now - 1 /\ charges' = [charges EXCEPT ![s] = Append(@, p)]
        /\ UNCHANGED <<now, spent, advice_state, plan_goals, declined>>
    BY <1>6 DEF Advice!Charge
  <2>2. Append(charges[s], p) \in Seq(Nat) /\ Len(Append(charges[s], p)) = now
    <3>1. p \in Nat /\ charges[s] \in Seq(Nat)
      BY <1>1, AdviceFacts
    <3>2. Append(charges[s], p) \in Seq(Nat) /\ Len(Append(charges[s], p)) = Len(charges[s]) + 1
      BY <3>1
    <3>3. QED BY <1>1, <2>1, <3>2
  <2>3. charges' \in [Services -> Seq(Nat)] /\ \A x \in Services : Len(charges'[x]) <= now
    BY <1>1, <2>1, <2>2
  <2>4. QED BY <1>3, <2>1, <2>3 DEF Advice!TypeOK
<1>7. ASSUME NEW c \in DOMAIN Basket, Advice!Buy(c) PROVE Advice!TypeOK' /\ Advice!DeclinedIsHeld'
  <2>1. /\ spent' = [spent EXCEPT ![c][now] = @ + Basket[c]]
        /\ UNCHANGED <<now, charges, advice_state, plan_goals, declined>>
    BY <1>7 DEF Advice!Buy
  <2>2. c \in Advice!Categories /\ Basket[c] \in Nat
    BY AdviceFacts
  <2>3. spent[c][now] + Basket[c] \in Nat
    BY <1>1, <2>2
  <2>4. spent' \in [Advice!Categories -> [Advice!Months -> Nat]]
    BY <1>1, <2>1, <2>2, <2>3
  <2>5. QED BY <1>3, <2>1, <2>4 DEF Advice!TypeOK
<1>8. ASSUME NEW m \in Miscategorised, Advice!Recategorise(m) PROVE Advice!TypeOK' /\ Advice!DeclinedIsHeld'
  <2>1. /\ spent["leisure"][m] >= Basket["leisure"]
        /\ spent' = [spent EXCEPT !["leisure"][m] = @ - Basket["leisure"], !["groceries"][m] = @ + Basket["leisure"]]
        /\ UNCHANGED <<now, charges, advice_state, plan_goals, declined>>
    BY <1>8 DEF Advice!Recategorise
  <2>2. /\ "leisure" \in Advice!Categories /\ "groceries" \in Advice!Categories /\ m \in Advice!Months
        /\ Basket["leisure"] \in Nat
    BY AdviceFacts
  <2>3. spent["leisure"][m] - Basket["leisure"] \in Nat /\ spent["groceries"][m] + Basket["leisure"] \in Nat
    BY <1>1, <2>1, <2>2
  <2>4. spent' \in [Advice!Categories -> [Advice!Months -> Nat]]
    BY <1>1, <2>1, <2>2, <2>3
  <2>5. QED BY <1>3, <2>1, <2>4 DEF Advice!TypeOK
<1>9. ASSUME NEW b \in Balances, Advice!Balance(b) PROVE Advice!TypeOK' /\ Advice!DeclinedIsHeld'
  BY <1>3, <1>4, <1>9 DEF Advice!Balance
<1>10. ASSUME NEW a \in Advice!Queue, NEW verdict \in {"accepted", "dismissed", "done"}, Advice!Act(a, verdict)
       PROVE  Advice!TypeOK' /\ Advice!DeclinedIsHeld'
  <2>1. /\ DOMAIN advice_state' = DOMAIN advice_state \union {a.key}
        /\ advice_state'[a.key].status = verdict
        /\ \A k \in DOMAIN advice_state \ {a.key} : advice_state'[k] = advice_state[k]
        /\ declined' = IF verdict # "accepted" /\ a.key[1] = "hike"
                 THEN declined \union {[by |-> a.key, service |-> a.on, price |-> Advice!LastPrice(a.on)]} ELSE declined
        /\ UNCHANGED <<now, charges, spent, plan_goals>>
    BY <1>10 DEF Advice!Act
  <2>2. ASSUME NEW d \in declined PROVE d.by = <<"hike", d.service, d.price>> /\ d.by \in Advice!suppressed'
    <3>1. d.by = <<"hike", d.service, d.price>> /\ d.by \in Advice!suppressed /\ a.key \notin Advice!suppressed
      BY FoundIsOpen DEF Advice!DeclinedIsHeld
    <3>2. QED BY <2>1, <3>1 DEF Advice!suppressed
  <2>3. ASSUME verdict # "accepted", a.key[1] = "hike",
               NEW d, d = [by |-> a.key, service |-> a.on, price |-> Advice!LastPrice(a.on)]
        PROVE  d.by = <<"hike", d.service, d.price>> /\ d.by \in Advice!suppressed'
    <3>1. d.by = a.key /\ a.key = <<"hike", d.service, d.price>>
      BY <2>3, FoundIsOpen
    <3>2. QED BY <2>1, <2>3, <3>1 DEF Advice!suppressed
  <2>4. Advice!DeclinedIsHeld'
    BY <2>1, <2>2, <2>3 DEF Advice!DeclinedIsHeld
  <2>5. QED BY <1>4, <2>1, <2>4
<1>11. ASSUME NEW k \in DOMAIN advice_state, Advice!Reset(k) PROVE Advice!TypeOK' /\ Advice!DeclinedIsHeld'
  <2>1. Advice!DeclinedIsHeld'
    BY <1>11 DEF Advice!Reset, Advice!DeclinedIsHeld, Advice!suppressed
  <2>2. QED BY <1>4, <1>11, <2>1 DEF Advice!Reset
<1>12. ASSUME UNCHANGED <<now, charges, spent, advice_state, declined>>,
              \A i \in DOMAIN plan_goals' : \/ i \in DOMAIN plan_goals /\ plan_goals'[i] = plan_goals[i]
                                            \/ \E g, n : n \in 1 .. now /\ plan_goals'[i] = [type |-> g.type, of |-> g.of, start |-> n]
       PROVE  Advice!TypeOK' /\ Advice!DeclinedIsHeld'
  <2>1. ASSUME NEW i \in DOMAIN plan_goals'
        PROVE  LET g == plan_goals'[i] IN g.start \in 1 .. now /\ g = [type |-> g.type, of |-> g.of, start |-> g.start]
    <3>1. CASE i \in DOMAIN plan_goals /\ plan_goals'[i] = plan_goals[i]
      BY <3>1 DEF Advice!TypeOK
    <3>2. ASSUME NEW g, NEW n, n \in 1 .. now, plan_goals'[i] = [type |-> g.type, of |-> g.of, start |-> n]
          PROVE  LET h == plan_goals'[i] IN h.start \in 1 .. now /\ h = [type |-> h.type, of |-> h.of, start |-> h.start]
      BY <3>2
    <3>3. QED BY <1>12, <3>1, <3>2
  <2>2. QED BY <1>3, <1>12, <2>1 DEF Advice!TypeOK
<1>13. now \in 1 .. now
  BY <1>1, AdviceFacts
<1>14. ASSUME NEW i \in GoalIds, NEW g, Advice!CreateGoal(i, g) PROVE Advice!TypeOK' /\ Advice!DeclinedIsHeld'
  <2>1. /\ DOMAIN plan_goals' = DOMAIN plan_goals \union {i}
        /\ \A j \in DOMAIN plan_goals' : plan_goals'[j] = IF j = i THEN [type |-> g.type, of |-> g.of, start |-> now] ELSE plan_goals[j]
        /\ UNCHANGED <<now, charges, spent, advice_state, declined>>
    BY <1>14 DEF Advice!CreateGoal
  <2>2. QED BY <1>12, <1>13, <2>1
<1>15. ASSUME NEW i \in DOMAIN plan_goals, NEW of, Advice!UpdateGoal(i, of) PROVE Advice!TypeOK' /\ Advice!DeclinedIsHeld'
  <2>1. /\ plan_goals' = [plan_goals EXCEPT ![i] = [plan_goals[i] EXCEPT !.of = of]]
        /\ UNCHANGED <<now, charges, spent, advice_state, declined>>
    BY <1>15 DEF Advice!UpdateGoal
  <2>2. PICK type, old, start : start \in 1 .. now /\ plan_goals[i] = [type |-> type, of |-> old, start |-> start]
    BY DEF Advice!TypeOK
  <2>3. [plan_goals[i] EXCEPT !.of = of] = [type |-> type, of |-> of, start |-> start]
    BY <2>2
  <2>4. PICK g : g.type = type /\ g.of = of
    <3>1. [type |-> type, of |-> of].type = type /\ [type |-> type, of |-> of].of = of
      OBVIOUS
    <3>2. QED BY <3>1
  <2>5. \A j \in DOMAIN plan_goals' : \/ j \in DOMAIN plan_goals /\ plan_goals'[j] = plan_goals[j]
                                      \/ plan_goals'[j] = [type |-> g.type, of |-> g.of, start |-> start]
    BY <2>1, <2>3, <2>4
  <2>6. QED BY <1>12, <2>1, <2>2, <2>5
<1>16. ASSUME NEW i \in DOMAIN plan_goals, Advice!DeleteGoal(i) PROVE Advice!TypeOK' /\ Advice!DeclinedIsHeld'
  <2>1. /\ \A j \in DOMAIN plan_goals' : j \in DOMAIN plan_goals /\ plan_goals'[j] = plan_goals[j]
        /\ UNCHANGED <<now, charges, spent, advice_state, declined>>
    BY <1>16 DEF Advice!DeleteGoal
  <2>2. QED BY <1>12, <2>1
<1>17. QED BY <1>2, <1>5, <1>6, <1>7, <1>8, <1>9, <1>10, <1>11, <1>14, <1>15, <1>16 DEF Advice!Next
(* What was bought and charged in the running month is of no complete one.  *)
LEMMA UnbegunMonths ==
  ASSUME Advice!TypeOK
  PROVE  /\ Unbegun!CompleteMonths = Advice!CompleteMonths
         /\ Advice!CompleteMonths \subseteq 1 .. now - 1
<1>1. /\ now \in Advice!Months /\ now \in Int /\ Unbegun!Months = Advice!Months /\ Unbegun!Categories = Advice!Categories
      /\ spent \in [Advice!Categories -> [Advice!Months -> Nat]]
  BY AdviceFacts DEF Advice!TypeOK, Unbegun!Months, Advice!Months, Unbegun!Categories, Advice!Categories
<1> DEFINE until == [x \in Services |-> IF Len(charges[x]) < now THEN charges[x] ELSE Front(charges[x])]
           before == [c \in DOMAIN spent |-> [spent[c] EXCEPT ![now] = 0]]
<1>2. ASSUME NEW s \in Services, NEW m \in Advice!Months, m < now
      PROVE  Len(until[s]) >= m <=> Len(charges[s]) >= m
  <2>1. charges[s] \in Seq(Nat) /\ Len(charges[s]) \in Nat /\ Len(charges[s]) <= now /\ m \in Int /\ now \in Int
    BY AdviceFacts DEF Advice!TypeOK
  <2>2. CASE Len(charges[s]) < now
    BY <2>2
  <2>3. CASE ~(Len(charges[s]) < now)
    <3>1. Len(charges[s]) = now /\ now >= 1
      BY <1>1, <2>1, <2>3, AdviceFacts
    <3>2. Len(Front(charges[s])) = now - 1
      BY <2>1, <3>1 DEF Front
    <3>3. until[s] = Front(charges[s])
      BY <2>3
    <3> HIDE DEF until
    <3>4. QED BY <1>2, <2>1, <3>1, <3>2, <3>3
  <2>4. QED BY <2>2, <2>3
<1>3. ASSUME NEW c \in Advice!Categories, NEW m \in Advice!Months, m < now
      PROVE  before[c][m] = spent[c][m]
  BY <1>1, <1>3, AdviceFacts
<1>4. Unbegun!CompleteMonths =
        {m \in Unbegun!Months :
           /\ now - AdviceWindow < m /\ m < now
           /\ \/ \E s \in Services : Len(until[s]) >= m
              \/ \E c \in Unbegun!Categories : before[c][m] > 0}
  BY DEF Unbegun!CompleteMonths
<1> HIDE DEF until, before
<1>5. Unbegun!CompleteMonths = Advice!CompleteMonths
  BY <1>1, <1>2, <1>3, <1>4 DEF Advice!CompleteMonths
<1>6. Advice!CompleteMonths \subseteq 1 .. now - 1
  BY <1>1, AdviceFacts DEF Advice!CompleteMonths
<1>7. QED BY <1>5, <1>6

LEMMA AdviceSums ==
  ASSUME NEW f, NEW S
  PROVE  /\ Advice!SumFunctionOnSet(f, S) = SumFunctionOnSet(f, S)
         /\ Unbegun!SumFunctionOnSet(f, S) = SumFunctionOnSet(f, S)
         /\ Advice!Cardinality(S) = Cardinality(S) /\ Unbegun!Cardinality(S) = Cardinality(S)
         /\ Unbegun!Max(S) = Advice!Max(S)
<1>1. /\ Advice!SumFunctionOnSet(f, S) = SumFunctionOnSet(f, S)
      /\ Unbegun!SumFunctionOnSet(f, S) = SumFunctionOnSet(f, S)
  BY DEF SumFunctionOnSet, FoldFunctionOnSet, MapThenFoldSet,
         Advice!SumFunctionOnSet, Advice!FoldFunctionOnSet, Advice!MapThenFoldSet,
         Unbegun!SumFunctionOnSet, Unbegun!FoldFunctionOnSet, Unbegun!MapThenFoldSet
<1>2. Advice!Cardinality(S) = Cardinality(S) /\ Unbegun!Cardinality(S) = Cardinality(S)
  BY DEF Advice!Cardinality, Cardinality, Unbegun!Cardinality
<1>3. Unbegun!Max(S) = Advice!Max(S)
  BY DEF Unbegun!Max, Advice!Max
<1>4. QED BY <1>1, <1>2, <1>3

(* Goals are judged by complete months, which are not later than the last.  *)
LEMMA GoalsJudged ==
  ASSUME Advice!TypeOK, NEW g
  PROVE  /\ IsFiniteSet(Advice!Judged(g))
         /\ Advice!Judged(g) \subseteq 1 .. now - 1
         /\ Advice!Judged(g) # {} => Advice!Max(Advice!Judged(g)) \in Advice!Judged(g)
<1> DEFINE J == Advice!Judged(g)
<1>1. J \subseteq 1 .. now - 1 /\ now \in Int
  BY UnbegunMonths, AdviceFacts DEF Advice!Judged, Advice!TypeOK
<1>2. IsFiniteSet(J)
  <2>1. IsFiniteSet(1 .. now - 1)
    BY <1>1, FS_Interval
  <2>2. QED BY <1>1, <2>1, FS_Subset
<1> HIDE DEF J
<1>3. ASSUME J # {} PROVE Advice!Max(J) \in J
  <2> DEFINE same == [x \in J |-> x]
  <2>1. \A x \in J : same[x] \in Int
    BY <1>1
  <2>2. \E x \in J : \A y \in J : same[y] <= same[x]
    <3> HIDE DEF same
    <3>1. QED BY <1>2, <1>3, <2>1, Greatest
  <2>3. \E x \in J : \A y \in J : x >= y
    BY <1>1, <2>2
  <2>4. QED BY <2>3 DEF Advice!Max
<1>4. QED BY <1>1, <1>2, <1>3 DEF J

LEMMA UnbegunGoals ==
  ASSUME Advice!TypeOK PROVE Unbegun!goalProgress = Advice!goalProgress
<1> DEFINE before == [c \in DOMAIN spent |-> [spent[c] EXCEPT ![now] = 0]]
<1>1. ASSUME NEW m \in 1 .. now - 1 PROVE before["leisure"][m] = spent["leisure"][m]
  <2>1. now \in Int /\ now \in 1 .. LastMonth /\ LastMonth \in Nat
    BY AdviceFacts DEF Advice!TypeOK
  <2>2. m # now /\ m \in 1 .. LastMonth
    BY <2>1
  <2>3. "leisure" \in DOMAIN spent /\ m \in DOMAIN spent["leisure"]
    BY <2>2, AdviceFacts DEF Advice!TypeOK
  <2>4. QED BY <2>2, <2>3
<1>2. ASSUME NEW g PROVE Unbegun!Standing(g) = Advice!Standing(g)
  <2> DEFINE J == Advice!Judged(g)
             H == Advice!Held(g)
  <2>1. Unbegun!Judged(g) = J
    BY UnbegunMonths DEF Unbegun!Judged, Advice!Judged
  <2>2. Unbegun!Held(g) = H
    <3>1. Unbegun!Held(g) = {m \in Unbegun!Judged(g) : before["leisure"][m] <= g.of}
      BY DEF Unbegun!Held
    <3>2. \A m \in J : before["leisure"][m] = spent["leisure"][m]
      BY <1>1, GoalsJudged
    <3> HIDE DEF before, J
    <3>3. {m \in J : before["leisure"][m] <= g.of} = {m \in J : spent["leisure"][m] <= g.of}
      BY <3>2
    <3>4. QED BY <2>1, <3>1, <3>3 DEF Advice!Held, J
  <2>3. J # {} => before["leisure"][Unbegun!Max(J)] = spent["leisure"][Advice!Max(J)]
    <3>1. J # {} => Advice!Max(J) \in 1 .. now - 1
      BY GoalsJudged
    <3>2. Unbegun!Max(J) = Advice!Max(J)
      BY AdviceSums
    <3> HIDE DEF before, J
    <3>3. QED BY <1>1, <3>1, <3>2
  <2>4. \A S : Unbegun!Cardinality(S) = Advice!Cardinality(S)
    BY AdviceSums
  <2>5. Unbegun!Standing(g) =
          CASE g.type = "reduction" ->
                 [judged |-> Unbegun!Cardinality(Unbegun!Judged(g)), held |-> Unbegun!Cardinality(Unbegun!Held(g)),
                  onTrack |-> IF Unbegun!Judged(g) = {} THEN None
                              ELSE 2 * Unbegun!Cardinality(Unbegun!Held(g)) >= Unbegun!Cardinality(Unbegun!Judged(g)),
                  current |-> IF Unbegun!Judged(g) = {} THEN 0 ELSE before["leisure"][Unbegun!Max(Unbegun!Judged(g))]]
            [] g.type = "buffer" ->
                 [judged |-> Unbegun!Cardinality(Unbegun!Judged(g)), held |-> 0,
                  onTrack |-> IF liquidTotal # None /\ liquidTotal >= g.of THEN TRUE ELSE None,
                  current |-> IF liquidTotal = None THEN 0 ELSE liquidTotal]
            [] OTHER -> [judged |-> Unbegun!Cardinality(Unbegun!Judged(g)), held |-> 0, onTrack |-> None, current |-> 0]
    BY DEF Unbegun!Standing
  <2> HIDE DEF before, J, H
  <2>6. QED BY <2>1, <2>2, <2>3, <2>4, <2>5 DEF Advice!Standing, J, H
<1>3. QED BY <1>2 DEF Unbegun!goalProgress, Advice!goalProgress

LEMMA UnbegunCreeps ==
  ASSUME Advice!TypeOK PROVE Unbegun!Creeps = Advice!Creeps
<1> DEFINE before == [c \in DOMAIN spent |-> [spent[c] EXCEPT ![now] = 0]]
<1>1. \A S : S \subseteq 1 .. now - 1 => Unbegun!Spend("leisure", S) = Advice!Spend("leisure", S)
  <2> SUFFICES ASSUME NEW S, S \subseteq 1 .. now - 1 PROVE Unbegun!Spend("leisure", S) = Advice!Spend("leisure", S)
    OBVIOUS
  <2>1. now \in Int /\ now \in 1 .. LastMonth /\ LastMonth \in Nat
    BY AdviceFacts DEF Advice!TypeOK
  <2>2. \A m \in S : before["leisure"][m] = spent["leisure"][m]
    <3>1. \A m \in S : m # now /\ m \in 1 .. LastMonth
      BY <2>1
    <3>2. "leisure" \in DOMAIN spent /\ \A m \in S : m \in DOMAIN spent["leisure"]
      BY <3>1, AdviceFacts DEF Advice!TypeOK
    <3>3. QED BY <3>1, <3>2
  <2>3. IsFiniteSet(S)
    <3>1. IsFiniteSet(1 .. now - 1)
      BY <2>1, FS_Interval
    <3>2. QED BY <3>1, FS_Subset
  <2>4. Unbegun!Spend("leisure", S) = Unbegun!SumFunctionOnSet(before["leisure"], S)
    BY DEF Unbegun!Spend
  <2> HIDE DEF before
  <2>5. SumFunctionOnSet(before["leisure"], S) = SumFunctionOnSet(spent["leisure"], S)
    BY <2>2, <2>3, SumOfSame
  <2>6. QED BY <2>4, <2>5, AdviceSums DEF Advice!Spend
<1>2. /\ \A S : Unbegun!Cardinality(S) = Advice!Cardinality(S)
      /\ \A n, d, u : Unbegun!Nearest(n, d, u) = Advice!Nearest(n, d, u)
      /\ \A n, d : Unbegun!roundRate(n, d) = Advice!roundRate(n, d)
      /\ \A a, b, c, d, e, f, g : Unbegun!Item(a, b, c, d, e, f, g) = Advice!Item(a, b, c, d, e, f, g)
      /\ \A a, b : Unbegun!Seed(a, b) = Advice!Seed(a, b)
  <2>1. \A S : Unbegun!Cardinality(S) = Advice!Cardinality(S) /\ Unbegun!Max(S) = Advice!Max(S)
    BY AdviceSums
  <2>2. \A n, d, u : Unbegun!Nearest(n, d, u) = Advice!Nearest(n, d, u)
    BY DEF Unbegun!Nearest, Advice!Nearest
  <2>3. \A n, d : Unbegun!roundRate(n, d) = Advice!roundRate(n, d)
    BY <2>1, <2>2 DEF Unbegun!roundRate, Advice!roundRate
  <2>4. /\ \A a, b, c, d, e, f, g : Unbegun!Item(a, b, c, d, e, f, g) = Advice!Item(a, b, c, d, e, f, g)
        /\ \A a, b : Unbegun!Seed(a, b) = Advice!Seed(a, b)
    BY DEF Unbegun!Item, Advice!Item, Unbegun!Seed, Advice!Seed
  <2>5. QED BY <2>1, <2>2, <2>3, <2>4
<1> DEFINE complete == Advice!CompleteMonths
           recent == {m \in complete : Advice!Cardinality({l \in complete : l > m}) < 3}
           months == Unbegun!CompleteMonths
           latest == {m \in months : Unbegun!Cardinality({l \in months : l > m}) < 3}
<1>3. recent \subseteq 1 .. now - 1 /\ complete \ recent \subseteq 1 .. now - 1
  BY UnbegunMonths
<1>4. months = complete /\ latest = recent
  BY <1>2, UnbegunMonths
<1>5. /\ Unbegun!Spend("leisure", recent) = Advice!Spend("leisure", recent)
      /\ Unbegun!Spend("leisure", complete \ recent) = Advice!Spend("leisure", complete \ recent)
  BY <1>1, <1>3
<1> DEFINE Climbs(all, base, more, n) ==
             LET gap == n * more - 3 * base
             IN IF Advice!Cardinality(all) < 6 \/ base < 100 * n \/ 4 * gap < 3 * base \/ gap < 600 * n THEN {}
                ELSE {Advice!Item(<<"creep", "leisure", Advice!Nearest(base, n, 50)>>, 1, (2 * gap) \div (3 * n),
                                  "saving", FALSE, Advice!Seed("reduction", Advice!roundRate(base, n)), None)}
           Same(all, base, more, n) ==
             LET gap == n * more - 3 * base
             IN IF Unbegun!Cardinality(all) < 6 \/ base < 100 * n \/ 4 * gap < 3 * base \/ gap < 600 * n THEN {}
                ELSE {Unbegun!Item(<<"creep", "leisure", Unbegun!Nearest(base, n, 50)>>, 1, (2 * gap) \div (3 * n),
                                   "saving", FALSE, Unbegun!Seed("reduction", Unbegun!roundRate(base, n)), None)}
<1>6. \A all, base, more, n : Same(all, base, more, n) = Climbs(all, base, more, n)
  <2> SUFFICES ASSUME NEW all, NEW base, NEW more, NEW n PROVE Same(all, base, more, n) = Climbs(all, base, more, n)
    OBVIOUS
  <2>1. /\ Unbegun!Cardinality(all) = Advice!Cardinality(all)
        /\ Unbegun!Nearest(base, n, 50) = Advice!Nearest(base, n, 50)
        /\ Unbegun!roundRate(base, n) = Advice!roundRate(base, n)
    BY <1>2
  <2> DEFINE key == <<"creep", "leisure", Advice!Nearest(base, n, 50)>>
             value == (2 * (n * more - 3 * base)) \div (3 * n)
             seed == Advice!Seed("reduction", Advice!roundRate(base, n))
  <2>2. /\ Unbegun!Seed("reduction", Advice!roundRate(base, n)) = seed
        /\ Unbegun!Item(key, 1, value, "saving", FALSE, seed, None) = Advice!Item(key, 1, value, "saving", FALSE, seed, None)
    BY <1>2
  <2>3. QED BY <2>1, <2>2
<1>7. Advice!Creeps = Climbs(complete, Advice!Spend("leisure", complete \ recent), Advice!Spend("leisure", recent),
                             Advice!Cardinality(complete \ recent))
  BY DEF Advice!Creeps
<1>8. Unbegun!Creeps = Same(months, Unbegun!Spend("leisure", months \ latest), Unbegun!Spend("leisure", latest),
                            Unbegun!Cardinality(months \ latest))
  BY DEF Unbegun!Creeps
<1> HIDE DEF complete, recent, months, latest, Climbs, Same
<1>9. QED BY <1>2, <1>4, <1>5, <1>6, <1>7, <1>8

(* A price the household declined is not found again while it is the price. *)
LEMMA DeclinedIsQuiet == ASSUME Advice!DeclinedIsHeld PROVE Advice!DeclinedStaysAway
<1> SUFFICES ASSUME NEW d \in declined, Advice!LastPrice(d.service) = d.price, NEW a \in Advice!Hikes, a.on = d.service
             PROVE  a.key \in Advice!suppressed
  BY DEF Advice!DeclinedStaysAway
<1>1. a.key = <<"hike", a.on, Advice!LastPrice(a.on)>>
  BY DEF Advice!Hikes, Advice!Item, Advice!HikeKey
<1>2. QED BY <1>1 DEF Advice!DeclinedIsHeld

(* A goal is judged by the months since it was set, the running one not.    *)
LEMMA GoalsClaimNoPast == ASSUME Advice!TypeOK PROVE Advice!NoGoalClaimsThePast
<1> SUFFICES ASSUME NEW i \in DOMAIN plan_goals
             PROVE  Advice!goalProgress[i].judged <= now - plan_goals[i].start
  BY DEF Advice!NoGoalClaimsThePast
<1> DEFINE g == plan_goals[i]
           J == Advice!Judged(g)
<1>1. g.start \in 1 .. now /\ now \in Int
  BY AdviceFacts DEF Advice!TypeOK
<1>2. Advice!goalProgress[i].judged = Advice!Cardinality(J)
  BY DEF Advice!goalProgress, Advice!Standing
<1>3. J \subseteq g.start .. now - 1
  <2>1. J \subseteq 1 .. now - 1
    BY GoalsJudged
  <2>2. \A m \in J : m >= g.start
    BY DEF Advice!Judged
  <2> HIDE DEF J, g
  <2>3. QED BY <1>1, <2>1, <2>2
<1>4. Cardinality(J) <= now - g.start
  <2> DEFINE n == g.start
  <2>1. n \in Int /\ now - 1 \in Int /\ now \in Int /\ n <= now
    BY <1>1
  <2> HIDE DEF n
  <2>2. IsFiniteSet(n .. now - 1) /\ Cardinality(n .. now - 1) = IF n > now - 1 THEN 0 ELSE (now - 1) - n + 1
    BY <2>1, FS_Interval
  <2>3. J \subseteq n .. now - 1
    BY <1>3 DEF n
  <2> HIDE DEF J
  <2>4. Cardinality(J) <= Cardinality(n .. now - 1) /\ IsFiniteSet(J)
    BY <2>2, <2>3, FS_Subset
  <2>5. Cardinality(J) \in Nat
    BY <2>4, FS_CardinalityType
  <2>6. Cardinality(J) <= now - n
    BY <2>1, <2>2, <2>4, <2>5
  <2>7. QED BY <2>6 DEF n
<1>5. QED BY <1>2, <1>4, AdviceSums

(* What a household declined stays away, what its verdicts saved moves with *)
(* them only, and no goal claims a month before it or one that is running,  *)
(* for any services, prices, purchases and verdicts (advice.ts:17-19,       *)
(* 425-426, routes.ts:1961-1962, goals.ts:14-17).                           *)
THEOREM AdviceAlwaysStands == Advice!Spec => AdviceStands
<1> DEFINE Stands == part = "advice" =>
             /\ Advice!DeclinedStaysAway /\ Advice!NoGoalClaimsThePast
             /\ Unbegun!goalProgress = Advice!goalProgress /\ Unbegun!Creeps = Advice!Creeps
           Sound == Advice!TypeOK /\ Advice!DeclinedIsHeld
<1>1. Advice!Init => Sound
  BY AdviceBegins
<1>2. Sound /\ [Advice!Next]_(Advice!vars) => Sound'
  BY AdviceStep
<1>3. Sound => Stands
  BY DeclinedIsQuiet, GoalsClaimNoPast, UnbegunGoals, UnbegunCreeps
<1>4. [Advice!Next]_(Advice!vars) => [Advice!monthlySaved' # Advice!monthlySaved => advice_state' # advice_state]_(Advice!vars)
  <2> SUFFICES ASSUME advice_state' = advice_state PROVE Advice!monthlySaved' = Advice!monthlySaved
    OBVIOUS
  <2>1. QED BY DEF Advice!monthlySaved, Advice!SavedBy
<1> HIDE DEF Stands, Sound
<1>5. QED BY <1>1, <1>2, <1>3, <1>4, PTL DEF Advice!Spec, AdviceStands, Advice!SavedIsFrozen, Stands
--------------------------------------------------------------------------------
(* What is said of the months.                                              *)

LEMMA StatementFacts ==
  /\ EndMonth \in Nat /\ StartMonth \in Statements!Months /\ YearLength \in Nat \ {0} /\ StatementWindow \in Nat
  /\ IsFiniteSet(Entries) /\ IsFiniteSet(Essential) /\ IsFiniteSet(Unsteerable)
  /\ EntryMonth \in [Entries -> Statements!Months] /\ Amount \in [Entries -> Int]
  /\ IsFiniteSet(DOMAIN Monthly) /\ \A m \in DOMAIN Monthly : Monthly[m] \in Nat
  /\ \A p \in Pasts : \A r \in p : EntryMonth[r] < StartMonth
  /\ Coming \subseteq Entries
  /\ \A h \in Histories : DOMAIN h \subseteq 1 .. StartMonth - 1
  /\ Rates \subseteq Int /\ Liquid \in Int \union {None}
  /\ Statements!Months = 1 .. EndMonth /\ Before!Months = 1 .. EndMonth
<1>1. \A S : Statements!IsFiniteSet(S) <=> IsFiniteSet(S)
  BY DEF IsFiniteSet, Statements!IsFiniteSet
<1>2. IsFiniteSet(Entries) /\ DOMAIN Monthly \subseteq {Merchant[r] : r \in Entries}
  BY <1>1, MonthsAssumption DEF Statements!StatementsAssumption
<1>3. IsFiniteSet(DOMAIN Monthly)
  <2>1. IsFiniteSet({Merchant[r] : r \in Entries})
    BY <1>2, ImageIsFinite
  <2>2. QED BY <1>2, <2>1, FS_Subset
<1>4. QED BY <1>1, <1>2, <1>3, MonthsAssumption DEF Statements!StatementsAssumption, Statements!Months, Before!Months

LEMMA StatementSums ==
  ASSUME NEW f, NEW S
  PROVE  /\ Statements!SumFunctionOnSet(f, S) = SumFunctionOnSet(f, S)
         /\ Before!SumFunctionOnSet(f, S) = SumFunctionOnSet(f, S)
         /\ Statements!SumFunction(f) = SumFunctionOnSet(f, DOMAIN f)
         /\ Before!SumFunction(f) = SumFunctionOnSet(f, DOMAIN f)
<1>1. \A g, T : /\ Statements!SumFunctionOnSet(g, T) = SumFunctionOnSet(g, T)
                /\ Before!SumFunctionOnSet(g, T) = SumFunctionOnSet(g, T)
  BY DEF SumFunctionOnSet, FoldFunctionOnSet, MapThenFoldSet,
         Statements!SumFunctionOnSet, Statements!FoldFunctionOnSet, Statements!MapThenFoldSet,
         Before!SumFunctionOnSet, Before!FoldFunctionOnSet, Before!MapThenFoldSet
<1>2. QED BY <1>1 DEF Statements!SumFunction, Before!SumFunction

LEMMA StatementSets ==
  ASSUME NEW S
  PROVE  /\ Statements!Cardinality(S) = Cardinality(S) /\ Before!Cardinality(S) = Cardinality(S)
         /\ Before!Max(S) = Statements!Max(S) /\ Before!Min(S) = Statements!Min(S)
BY DEF Statements!Cardinality, Before!Cardinality, Cardinality,
       Before!Max, Statements!Max, Before!Min, Statements!Min

(* What is spent, counted by the rows it is spent with.                     *)
Paid == [r \in Entries |-> -Amount[r]]
Debits(S) == {r \in S : Amount[r] < 0}

LEMMA OutIs ==
  ASSUME NEW S, S \subseteq Entries
  PROVE  /\ Statements!Out(S) = SumFunctionOnSet(Paid, Debits(S))
         /\ IsFiniteSet(Debits(S)) /\ \A r \in Debits(S) : Paid[r] \in Nat /\ Paid[r] \in Int /\ Paid[r] > 0
         /\ Statements!Out(S) \in Nat
<1>1. Statements!Out(S) = SumFunctionOnSet(Paid, Debits(S))
  BY StatementSums DEF Statements!Out, Paid, Debits
<1>2. IsFiniteSet(Debits(S))
  BY StatementFacts, FS_Subset DEF Debits
<1>3. \A r \in Debits(S) : Paid[r] \in Nat /\ Paid[r] \in Int /\ Paid[r] > 0
  BY StatementFacts DEF Debits, Paid
<1>4. SumFunctionOnSet(Paid, Debits(S)) \in Nat
  BY <1>2, <1>3, SumType
<1>5. QED BY <1>1, <1>2, <1>3, <1>4

LEMMA OutSplits ==
  ASSUME NEW S, S \subseteq Entries, NEW P, P \subseteq S
  PROVE  /\ Statements!Out(S) = Statements!Out(P) + Statements!Out(S \ P)
         /\ Statements!Out(P) <= Statements!Out(S)
<1>1. /\ Debits(S) = Debits(P) \union Debits(S \ P)
      /\ Debits(P) \intersect Debits(S \ P) = {}
  BY DEF Debits
<1>2. /\ P \subseteq Entries /\ S \ P \subseteq Entries
      /\ IsFiniteSet(Debits(P)) /\ IsFiniteSet(Debits(S \ P))
      /\ \A r \in Debits(P) \union Debits(S \ P) : Paid[r] \in Int
      /\ Statements!Out(P) \in Nat /\ Statements!Out(S \ P) \in Nat
  BY OutIs
<1>3. SumFunctionOnSet(Paid, Debits(P) \union Debits(S \ P))
        = SumFunctionOnSet(Paid, Debits(P)) + SumFunctionOnSet(Paid, Debits(S \ P))
  BY <1>1, <1>2, SumSplits
<1>4. Statements!Out(S) = Statements!Out(P) + Statements!Out(S \ P)
  <2>1. /\ Statements!Out(S) = SumFunctionOnSet(Paid, Debits(S))
        /\ Statements!Out(P) = SumFunctionOnSet(Paid, Debits(P))
        /\ Statements!Out(S \ P) = SumFunctionOnSet(Paid, Debits(S \ P))
    BY <1>2, OutIs
  <2>2. QED BY <1>1, <1>3, <2>1
<1>5. QED BY <1>2, <1>4

(* Something is spent if there is a row of it.                              *)
LEMMA OutIsPositive ==
  ASSUME NEW S, S \subseteq Entries PROVE Statements!Out(S) > 0 <=> Debits(S) # {}
<1>1. CASE Debits(S) = {}
  BY <1>1, OutIs, SumOfNothing
<1>2. CASE Debits(S) # {}
  <2>1. PICK r : r \in Debits(S)
    BY <1>2
  <2>2. SumFunctionOnSet(Paid, Debits(S)) = Paid[r] + SumFunctionOnSet(Paid, Debits(S) \ {r})
    BY <2>1, OutIs, SumTakesAny
  <2>3. SumFunctionOnSet(Paid, Debits(S) \ {r}) \in Nat
    <3>1. IsFiniteSet(Debits(S) \ {r}) /\ \A x \in Debits(S) \ {r} : Paid[x] \in Nat
      BY OutIs, FS_Subset
    <3>2. QED BY <3>1, SumType
  <2>4. Paid[r] \in Nat /\ Paid[r] > 0
    BY <2>1, OutIs
  <2>5. QED BY <1>2, <2>2, <2>3, <2>4, OutIs
<1>3. QED BY <1>1, <1>2

(* What is spent is the sum of what is spent in each of its parts.          *)
LEMMA OutOfParts ==
  ASSUME NEW S, S \subseteq Entries, NEW C, IsFiniteSet(C), NEW B,
         \A c \in C : B[c] \subseteq Entries,
         \A c, d \in C : c # d => Debits(B[c]) \intersect Debits(B[d]) = {},
         \A c \in C : Debits(B[c]) \subseteq Debits(S),
         \A r \in Debits(S) : \E c \in C : r \in Debits(B[c])
  PROVE  Statements!SumFunction([c \in C |-> Statements!Out(B[c])]) = Statements!Out(S)
<1> DEFINE D == [c \in C |-> Debits(B[c])]
           g == [c \in C |-> Statements!Out(B[c])]
<1>1. \A c \in C : IsFiniteSet(D[c]) /\ (\A x \in D[c] : Paid[x] \in Int) /\ g[c] = SumFunctionOnSet(Paid, D[c])
  BY OutIs
<1>2. \A c, k \in C : c # k => D[c] \intersect D[k] = {}
  OBVIOUS
<1>3. Gathered(D, C) = Debits(S)
  BY DEF Gathered
<1>4. DOMAIN g = C
  OBVIOUS
<1> HIDE DEF D, g
<1>5. SumFunctionOnSet(g, C) = SumFunctionOnSet(Paid, Gathered(D, C))
  <2>1. \A c \in C : IsFiniteSet(D[c]) /\ \A x \in D[c] : Paid[x] \in Int
    BY <1>1
  <2>2. \A c \in C : g[c] = SumFunctionOnSet(Paid, D[c])
    BY <1>1
  <2>3. QED BY <1>2, <2>1, <2>2, SumOfUnion
<1>6. Statements!SumFunction(g) = Statements!Out(S)
  BY <1>3, <1>4, <1>5, OutIs, StatementSums
<1>7. QED BY <1>6 DEF g

LEMMA CategoriesAre ==
  /\ IsFiniteSet(Statements!Categories) /\ Uncategorized \in Statements!Categories
  /\ \A r \in Entries : /\ Statements!Named(r) \in Statements!Categories
                        /\ Category[r] # None => Category[r] \in Statements!Categories
<1> DEFINE name == [r \in Entries |-> Statements!Named(r)]
           names == {name[r] : r \in Entries}
<1>1. Statements!Categories = (({Uncategorized} \union Essential) \union Unsteerable) \union names
  BY DEF Statements!Categories
<1>2. IsFiniteSet(names)
  <2> HIDE DEF name
  <2>1. QED BY StatementFacts, ImageIsFinite
<1>3. \A r \in Entries : Statements!Named(r) \in names
  OBVIOUS
<1> HIDE DEF names
<1>4. IsFiniteSet(Statements!Categories)
  BY <1>1, <1>2, StatementFacts, FS_Union, FS_Singleton
<1>5. \A r \in Entries : Category[r] # None => Category[r] = Statements!Named(r)
  BY DEF Statements!Named
<1>6. QED BY <1>1, <1>3, <1>4, <1>5

(* The statements of one month.                                             *)
LEMMA MonthAgrees ==
  ASSUME Statements!TypeOK, NEW m \in Statements!Months
  PROVE  /\ Statements!SumFunction([c \in Statements!Categories |-> Statements!toCategoryBreakdown(m, c)])
              = Statements!expenses(m)
         /\ Statements!In(Statements!yearMonth(m)) = Statements!income(m)
         /\ Statements!Out(Statements!yearMonth(m)) = Statements!expenses(m)
         /\ \A c \in Statements!Categories : Statements!computeCategoryHistory(m, c) = Statements!yearCategory(m, c)
         /\ Statements!SumFunction([c \in Statements!Categories |-> Statements!yearCategory(m, c)])
              = Statements!expenses(m)
         /\ Statements!SumFunction([c \in Statements!Categories |-> Statements!variableCategory(m, c)])
              = Statements!variable(m)
         /\ Statements!overviewFixed(m) + Statements!overviewVariable(m) = Statements!expenses(m)
         /\ Statements!overviewVariable(m) <= Statements!variable(m)
         /\ streams = live => Statements!overviewVariable(m) = Statements!variable(m)
<1> DEFINE C == Statements!Categories
           R == Statements!SummaryRows(m)
<1>1. R \subseteq Entries /\ Statements!yearMonth(m) = R
      /\ Statements!expenses(m) = Statements!Out(R) /\ Statements!income(m) = Statements!In(R)
  BY DEF Statements!SummaryRows, Statements!yearMonth, Statements!countable, Statements!expenses, Statements!income
<1>2. \A S, T : S \subseteq Entries /\ T \subseteq Entries /\ Debits(S) = Debits(T) => Statements!Out(S) = Statements!Out(T)
  BY OutIs
<1>3. ASSUME NEW c PROVE Statements!computeCategoryHistory(m, c) = Statements!yearCategory(m, c)
  <2> DEFINE S == {r \in Statements!countable : Amount[r] < 0 /\ Statements!Named(r) = c /\ EntryMonth[r] = m}
             T == {r \in Statements!yearMonth(m) : Statements!Named(r) = c}
  <2>1. Debits(S) = Debits(T) /\ S \subseteq Entries /\ T \subseteq Entries
    BY DEF Debits, Statements!yearMonth, Statements!countable
  <2>2. Statements!Out(S) = Statements!Out(T)
    BY <1>2, <2>1
  <2>3. QED BY <2>2 DEF Statements!computeCategoryHistory, Statements!yearCategory
<1>4. Statements!SumFunction([c \in C |-> Statements!toCategoryBreakdown(m, c)]) = Statements!Out(R)
  <2> DEFINE B == [c \in C |-> {r \in Entries :
                    /\ status[r] = "completed" /\ r \notin Flagged /\ Amount[r] < 0 /\ EntryMonth[r] = m
                    /\ c = IF Category[r] = None THEN Uncategorized ELSE Category[r]}]
  <2>1. [c \in C |-> Statements!toCategoryBreakdown(m, c)] = [c \in C |-> Statements!Out(B[c])]
    BY DEF Statements!toCategoryBreakdown
  <2>2. /\ \A c \in C : B[c] \subseteq Entries
        /\ \A c, d \in C : c # d => Debits(B[c]) \intersect Debits(B[d]) = {}
        /\ \A c \in C : Debits(B[c]) \subseteq Debits(R)
    BY DEF Debits, Statements!SummaryRows
  <2>3. \A r \in Debits(R) : \E c \in C : r \in Debits(B[c])
    <3> SUFFICES ASSUME NEW r \in Debits(R) PROVE \E c \in C : r \in Debits(B[c])
      OBVIOUS
    <3> DEFINE c == IF Category[r] = None THEN Uncategorized ELSE Category[r]
    <3>1. r \in Entries /\ status[r] = "completed" /\ r \notin Flagged /\ Amount[r] < 0 /\ EntryMonth[r] = m
      BY DEF Debits, Statements!SummaryRows
    <3>2. c \in C
      BY <3>1, CategoriesAre
    <3>3. r \in Debits(B[c])
      BY <3>1, <3>2 DEF Debits
    <3>4. QED BY <3>2, <3>3
  <2> HIDE DEF B, R, C
  <2>4. Statements!SumFunction([c \in C |-> Statements!Out(B[c])]) = Statements!Out(R)
    BY <1>1, <2>2, <2>3, CategoriesAre, OutOfParts, SMTT(30) DEF C
  <2>5. QED BY <2>1, <2>4
<1>5. Statements!SumFunction([c \in C |-> Statements!yearCategory(m, c)]) = Statements!Out(R)
  <2> DEFINE B == [c \in C |-> {r \in Statements!yearMonth(m) : Statements!Named(r) = c}]
  <2>1. [c \in C |-> Statements!yearCategory(m, c)] = [c \in C |-> Statements!Out(B[c])]
    BY DEF Statements!yearCategory
  <2>2. /\ \A c \in C : B[c] \subseteq Entries
        /\ \A c, d \in C : c # d => Debits(B[c]) \intersect Debits(B[d]) = {}
        /\ \A c \in C : Debits(B[c]) \subseteq Debits(R)
    BY <1>1 DEF Debits
  <2>3. \A r \in Debits(R) : Statements!Named(r) \in C /\ r \in Debits(B[Statements!Named(r)])
    BY <1>1, CategoriesAre DEF Debits
  <2> HIDE DEF B, R, C
  <2>4. Statements!SumFunction([c \in C |-> Statements!Out(B[c])]) = Statements!Out(R)
    <3>1. \A r \in Debits(R) : \E c \in C : r \in Debits(B[c])
      BY <2>3
    <3>2. QED BY <1>1, <2>2, <3>1, CategoriesAre, OutOfParts, SMTT(30) DEF C
  <2>5. QED BY <2>1, <2>4
<1> DEFINE V == {r \in Statements!VariableRows : EntryMonth[r] = m}
<1>6. V \subseteq Entries /\ Statements!variable(m) = Statements!Out(V)
  BY DEF Statements!variable, Statements!VariableRows
<1>7. Statements!SumFunction([c \in C |-> Statements!variableCategory(m, c)]) = Statements!Out(V)
  <2> DEFINE B == [c \in C |-> {r \in Statements!VariableRows : EntryMonth[r] = m /\ Statements!Named(r) = c}]
  <2>1. [c \in C |-> Statements!variableCategory(m, c)] = [c \in C |-> Statements!Out(B[c])]
    BY DEF Statements!variableCategory, Statements!byCategory
  <2>2. /\ \A c \in C : B[c] \subseteq Entries
        /\ \A c, d \in C : c # d => Debits(B[c]) \intersect Debits(B[d]) = {}
        /\ \A c \in C : Debits(B[c]) \subseteq Debits(V)
    BY DEF Debits, Statements!VariableRows
  <2>3. \A r \in Debits(V) : Statements!Named(r) \in C /\ r \in Debits(B[Statements!Named(r)])
    BY <1>6, CategoriesAre DEF Debits
  <2> HIDE DEF B, V, C
  <2>4. Statements!SumFunction([c \in C |-> Statements!Out(B[c])]) = Statements!Out(V)
    <3>1. \A r \in Debits(V) : \E c \in C : r \in Debits(B[c])
      BY <2>3
    <3>2. QED BY <1>6, <2>2, <3>1, CategoriesAre, OutOfParts DEF C
  <2>5. QED BY <2>1, <2>4
<1> DEFINE F == {r \in Entries : /\ status[r] = "completed" /\ r \notin Flagged /\ Amount[r] < 0
                                 /\ Merchant[r] \in streams /\ EntryMonth[r] = m}
<1>8. /\ Statements!fixedByMonth(m) = Statements!Out(F) /\ F \subseteq R
      /\ Statements!Out(R \ F) \in Nat /\ Statements!Out(F) \in Nat
      /\ Statements!Out(R) = Statements!Out(F) + Statements!Out(R \ F)
  <2>1. Statements!fixedByMonth(m) = Statements!Out(F) /\ F \subseteq R
    BY DEF Statements!fixedByMonth, Statements!SummaryRows
  <2> HIDE DEF F, R
  <2>2. R \ F \subseteq Entries /\ F \subseteq Entries
    BY <1>1, <2>1
  <2>3. QED BY <1>1, <2>1, <2>2, OutSplits, OutIs
<1>9. /\ Statements!overviewFixed(m) = Statements!Out(F) /\ Statements!overviewVariable(m) = Statements!Out(R \ F)
  <2> HIDE DEF F, R
  <2>1. QED BY <1>1, <1>8 DEF Statements!overviewFixed, Statements!overviewVariable, Statements!Smaller, Statements!Larger
<1>10. Statements!Out(R \ F) <= Statements!Out(V) /\ (streams = live => Statements!Out(R \ F) = Statements!Out(V))
  <2>1. Debits(R \ F) \subseteq V /\ live \subseteq streams /\ (streams = live => Debits(R \ F) = Debits(V))
    BY DEF Statements!TypeOK, Debits, Statements!SummaryRows, Statements!VariableRows
  <2> HIDE DEF F, R, V
  <2>2. Debits(Debits(R \ F)) = Debits(R \ F)
    BY DEF Debits
  <2>3. Statements!Out(Debits(R \ F)) = Statements!Out(R \ F)
    <3>1. R \ F \subseteq Entries /\ Debits(R \ F) \subseteq Entries
      BY <1>1 DEF Debits
    <3>2. QED BY <1>2, <2>2, <3>1
  <2>4. Statements!Out(Debits(R \ F)) <= Statements!Out(V)
    BY <1>6, <2>1, OutSplits
  <2>5. QED BY <1>1, <1>2, <1>6, <2>1, <2>3, <2>4
<1> HIDE DEF C, R, V, F
<1>11. QED BY <1>1, <1>3, <1>4, <1>5, <1>6, <1>7, <1>8, <1>9, <1>10 DEF C

(* "Variable" is one number: of the plan, of the review, of the frame.      *)
LEMMA PlanAgrees ==
  ASSUME Statements!TypeOK
  PROVE  /\ Statements!variable(running) = Statements!variableSoFar
         /\ \A c : Statements!variableCategory(running, c) = Statements!spentByCategory(c)
<1> DEFINE P == Statements!PlanRows
           F == {r \in P : Merchant[r] \in live}
           V == {r \in Statements!VariableRows : EntryMonth[r] = running}
<1>1. /\ P \subseteq Entries /\ F \subseteq P /\ V \subseteq Entries /\ Debits(P \ F) = Debits(V)
      /\ Statements!fixedSoFar = Statements!Out(F) /\ Statements!variableSoFar = Statements!Out(P) - Statements!Out(F)
      /\ Statements!variable(running) = Statements!Out(V)
  BY DEF Statements!PlanRows, Statements!VariableRows, Debits, Statements!fixedSoFar, Statements!variableSoFar, Statements!variable
<1>2. ASSUME NEW c PROVE Statements!variableCategory(running, c) = Statements!spentByCategory(c)
  <2> DEFINE A == {r \in Statements!VariableRows : EntryMonth[r] = running /\ Statements!Named(r) = c}
             B == {r \in P : Merchant[r] \notin live /\ Statements!Named(r) = c}
  <2>1. A \subseteq Entries /\ B \subseteq Entries /\ Debits(A) = Debits(B)
    BY DEF Statements!PlanRows, Statements!VariableRows, Debits
  <2>2. Statements!Out(A) = Statements!Out(B)
    <3> HIDE DEF A, B
    <3>1. QED BY <2>1, OutIs
  <2>3. QED BY <2>2 DEF Statements!variableCategory, Statements!byCategory, Statements!spentByCategory
<1> HIDE DEF P, F, V
<1>3. /\ Statements!Out(P) = Statements!Out(F) + Statements!Out(P \ F)
      /\ Statements!Out(P \ F) \in Nat /\ Statements!Out(F) \in Nat
  <2>1. P \ F \subseteq Entries /\ F \subseteq Entries
    BY <1>1
  <2>2. QED BY <1>1, <2>1, OutSplits, OutIs
<1>4. Statements!Out(P \ F) = Statements!Out(V)
  <2>1. P \ F \subseteq Entries
    BY <1>1
  <2>2. QED BY <1>1, <2>1, OutIs
<1>5. QED BY <1>1, <1>2, <1>3, <1>4

(* The months that the frame's card and the review look back on.            *)
LEMMA PriorMonths ==
  ASSUME Statements!TypeOK
  PROVE  Statements!historyMonths = {k \in Statements!Months : k < running /\ \E r \in Statements!VariableRows : EntryMonth[r] = k}
<1> SUFFICES ASSUME NEW k \in Statements!Months
             PROVE  k \in Statements!Summaries /\ Statements!variable(k) > 0 <=> \E r \in Statements!VariableRows : EntryMonth[r] = k
  BY DEF Statements!historyMonths, Statements!Summaries
<1> DEFINE V == {r \in Statements!VariableRows : EntryMonth[r] = k}
<1>1. V \subseteq Entries /\ Debits(V) = V /\ Statements!variable(k) = Statements!Out(V)
  BY DEF Statements!VariableRows, Debits, Statements!variable
<1>2. V # {} => k \in Statements!Summaries
  BY DEF Statements!VariableRows, Statements!Summaries, Statements!SummaryRows
<1>3. V # {} <=> \E r \in Statements!VariableRows : EntryMonth[r] = k
  OBVIOUS
<1>4. Statements!variable(k) > 0 <=> V # {}
  <2> HIDE DEF V
  <2>1. QED BY <1>1, OutIsPositive
<1>5. QED BY <1>2, <1>3, <1>4

LEMMA ReviewAgrees == ASSUME Statements!TypeOK PROVE Statements!FrameCard = Statements!Review(running)
<1> DEFINE outlay == [c \in Statements!VariableCategories |-> Statements!spentByCategory(c)]
           reviewed == [c \in Statements!VariableCategories |-> Statements!variableCategory(running, c)]
           prior == {k \in Statements!Months : k < running /\ \E r \in Statements!VariableRows : EntryMonth[r] = k}
           Card(months, sofar, by) ==
             LET frame == Statements!frameForMonth(running)
                 split == Statements!proposeSplit(frame, months)
             IN IF frame = None THEN None
                ELSE [amount |-> frame, spent |-> sofar, split |-> split, progress |-> Statements!splitProgress(frame, split, by)]
<1>1. Statements!FrameCard = Card(Statements!historyMonths, Statements!variableSoFar, outlay)
  BY DEF Statements!FrameCard
<1>2. Statements!Review(running) = Card(prior, Statements!variable(running), reviewed)
  BY DEF Statements!Review
<1>3. outlay = reviewed /\ Statements!historyMonths = prior /\ Statements!variable(running) = Statements!variableSoFar
  BY PlanAgrees, PriorMonths
<1> HIDE DEF outlay, reviewed, prior, Card
<1>4. QED BY <1>1, <1>2, <1>3

(* The same months of two years.                                            *)
LEMMA YearAgrees ==
  ASSUME NEW y
  PROVE  Statements!sameMonths(Statements!shared(y)) =
           Statements!SumFunction([m \in Statements!shared(y) |-> Statements!expenses(m)])
<1> DEFINE C == Statements!shared(y)
           R == {r \in Statements!countable : EntryMonth[r] \in C}
           B == [m \in C |-> Statements!SummaryRows(m)]
<1>1. IsFiniteSet(C)
  <2>1. C \subseteq 1 .. EndMonth /\ EndMonth \in Nat
    BY StatementFacts DEF Statements!shared
  <2>2. IsFiniteSet(1 .. EndMonth)
    BY <2>1, FS_Interval
  <2>3. QED BY <2>1, <2>2, FS_Subset
<1>2. R \subseteq Entries /\ Statements!sameMonths(C) = Statements!Out(R)
  BY DEF Statements!countable, Statements!sameMonths
<1>3. [m \in C |-> Statements!expenses(m)] = [m \in C |-> Statements!Out(B[m])]
  BY DEF Statements!expenses
<1>4. /\ \A c \in C : B[c] \subseteq Entries
      /\ \A c, d \in C : c # d => Debits(B[c]) \intersect Debits(B[d]) = {}
      /\ \A c \in C : Debits(B[c]) \subseteq Debits(R)
      /\ \A r \in Debits(R) : EntryMonth[r] \in C /\ r \in Debits(B[EntryMonth[r]])
  BY DEF Debits, Statements!SummaryRows, Statements!countable
<1> HIDE DEF B, R, C
<1>5. Statements!SumFunction([m \in C |-> Statements!Out(B[m])]) = Statements!Out(R)
  <2>1. \A r \in Debits(R) : \E c \in C : r \in Debits(B[c])
    BY <1>4
  <2>2. QED BY <1>1, <1>2, <1>4, <2>1, OutOfParts, SMTT(30)
<1>6. QED BY <1>2, <1>3, <1>5 DEF C

LEMMA AllAgree == ASSUME Statements!TypeOK PROVE Statements!StatementsAgree
BY MonthAgrees, PlanAgrees, ReviewAgrees, YearAgrees DEF Statements!StatementsAgree

(* The k-th smallest value of a finite function exists.                     *)
LEMMA NthExists ==
  ASSUME NEW f, IsFiniteSet(DOMAIN f), \A m \in DOMAIN f : f[m] \in Int, NEW k \in 1 .. Cardinality(DOMAIN f)
  PROVE  Statements!Nth(f, k) \in Int
<1> DEFINE pair == [m \in DOMAIN f |-> <<m, f[m]>>]
           graph == {<<m, f[m]>> : m \in DOMAIN f}
           value == [p \in graph |-> p[2]]
           values == {value[p] : p \in graph}
           Below(x) == {p \in graph : p[2] < x}
           UpTo(x) == {p \in graph : p[2] <= x}
           Enough == {x \in values : k <= Cardinality(UpTo(x))}
           upside == [x \in Enough |-> -x]
<1>1. IsFiniteSet(graph) /\ Cardinality(graph) = Cardinality(DOMAIN f)
  <2>1. pair \in Bijection(DOMAIN f, graph)
    BY DEF Bijection, Injection, Surjection, IsInjective
  <2> HIDE DEF pair, graph
  <2>2. QED BY <2>1, FS_Bijection DEF ExistsBijection
<1>2. \A p \in graph : value[p] \in Int /\ value[p] = p[2] /\ value[p] \in values
  OBVIOUS
<1>3. Cardinality(DOMAIN f) \in Nat /\ k \in Nat /\ k >= 1 /\ k <= Cardinality(graph)
  BY <1>1, FS_CardinalityType
<1>4. values = {p[2] : p \in graph} /\ values \subseteq Int
  BY <1>2
<1> HIDE DEF graph, value, values
<1>5. \A x : IsFiniteSet(Below(x)) /\ IsFiniteSet(UpTo(x)) /\ Cardinality(Below(x)) \in Nat /\ Cardinality(UpTo(x)) \in Nat
  BY <1>1, FS_Subset, FS_CardinalityType
<1>6. IsFiniteSet(values)
  BY <1>1, ImageIsFinite DEF values
<1>7. Enough # {}
  <2>1. graph # {}
    BY <1>3, FS_EmptySet
  <2>2. PICK p \in graph : \A q \in graph : value[q] <= value[p]
    BY <1>1, <1>2, <2>1, Greatest
  <2>3. UpTo(value[p]) = graph
    BY <1>2, <2>2
  <2>4. value[p] \in Enough
    BY <1>2, <1>3, <2>3
  <2>5. QED BY <2>4
<1>8. PICK x \in Enough : \A y \in Enough : x <= y
  <2>1. IsFiniteSet(Enough)
    BY <1>6, FS_Subset
  <2>2. \A y \in Enough : upside[y] \in Int
    BY <1>4
  <2>3. PICK z \in Enough : \A y \in Enough : upside[y] <= upside[z]
    <3> HIDE DEF Enough, upside
    <3>1. QED BY <1>7, <2>1, <2>2, Greatest
  <2>4. ASSUME NEW y \in Enough PROVE z <= y
    <3>1. upside[y] <= upside[z] /\ y \in Int /\ z \in Int /\ upside[y] = -y /\ upside[z] = -z
      BY <1>4, <2>3
    <3> HIDE DEF upside, Enough
    <3>2. QED BY <3>1
  <2>5. QED BY <2>4
<1>9. x \in values /\ x \in Int /\ k <= Cardinality(UpTo(x))
  BY <1>4
<1>10. Cardinality(Below(x)) < k
  <2>1. CASE Below(x) = {}
    BY <1>3, <2>1, FS_EmptySet
  <2>2. CASE Below(x) # {}
    <3>1. PICK p \in Below(x) : \A q \in Below(x) : value[q] <= value[p]
      <4>1. IsFiniteSet(Below(x)) /\ \A q \in Below(x) : value[q] \in Int
        BY <1>2, <1>5
      <4> HIDE DEF Below
      <4>2. QED BY <2>2, <4>1, Greatest
    <3> DEFINE y == value[p]
    <3>2. y \in values /\ y \in Int /\ y < x
      BY <1>2
    <3>3. Below(x) = UpTo(y)
      BY <1>2, <1>9, <3>1, <3>2
    <3>4. y \notin Enough
      BY <1>8, <1>9, <3>2
    <3>5. ~(k <= Cardinality(UpTo(y)))
      BY <3>2, <3>4
    <3> HIDE DEF Below, UpTo, y
    <3>6. Cardinality(UpTo(y)) \in Nat
      BY <1>5
    <3>7. QED BY <1>3, <3>3, <3>5, <3>6
  <2>3. QED BY <2>1, <2>2
<1>11. Statements!Nth(f, k) = CHOOSE z \in values : Cardinality(Below(z)) < k /\ k <= Cardinality(UpTo(z))
  BY <1>4, StatementSets DEF Statements!Nth, graph
<1>12. Statements!Nth(f, k) \in values
  <2> HIDE DEF Below, UpTo
  <2>1. QED BY <1>9, <1>10, <1>11
<1>13. QED BY <1>4, <1>12

(* Rounding: to the nearest whole number.                                   *)
LEMMA RoundedIs ==
  ASSUME NEW n \in Int, NEW d \in Nat \ {0}
  PROVE  /\ Statements!Rounded(n, d) \in Int
         /\ 2 * d * Statements!Rounded(n, d) <= 2 * n + d
         /\ 2 * n + d < 2 * d * Statements!Rounded(n, d) + 2 * d
<1> DEFINE a == 2 * n + d
           b == 2 * d
<1>1. a \in Int /\ b \in Nat \ {0} /\ Statements!Rounded(n, d) = a \div b
  BY DEF Statements!Rounded
<1> HIDE DEF a, b
<1>2. a \div b \in Int /\ b * (a \div b) <= a /\ a < b * (a \div b) + b
  BY <1>1
<1>3. QED BY <1>1, <1>2 DEF a, b

(* A frame is rounded to a round number of its own, whatever it is of.      *)
LEMMA FrameRounds ==
  ASSUME NEW n \in Int, NEW d \in {1, 10}
  PROVE  /\ Statements!roundFrame(n, d) \in Nat
         /\ Statements!roundFrame(Statements!roundFrame(n, d), 1) = Statements!roundFrame(n, d)
<1>1. /\ n <= 0 => Statements!roundFrame(n, d) = 0
      /\ n > 0 /\ n < 5000 * d => Statements!roundFrame(n, d) = ((2 * n + 50 * d) \div (100 * d)) * 50
      /\ n >= 5000 * d => Statements!roundFrame(n, d) = ((2 * n + 100 * d) \div (200 * d)) * 100
  BY DEF Statements!roundFrame, Statements!Rounded
<1>2. CASE n <= 0
  BY <1>1, <1>2 DEF Statements!roundFrame
<1>3. CASE n > 0 /\ n < 5000 * d
  <2>1. PICK k \in Int : k = (2 * n + 50 * d) \div (100 * d) /\ k >= 0 /\ k <= 100
    <3>1. CASE d = 1
      BY <1>3, <3>1
    <3>2. CASE d = 10
      BY <1>3, <3>2
    <3>3. QED BY <3>1, <3>2
  <2>2. Statements!roundFrame(n, d) = k * 50
    BY <1>1, <1>3, <2>1
  <2>3. Statements!roundFrame(k * 50, 1) = k * 50
    <3>1. CASE k = 0
      BY <3>1 DEF Statements!roundFrame
    <3>2. CASE k = 100
      BY <3>2 DEF Statements!roundFrame, Statements!Rounded
    <3>3. CASE k > 0 /\ k < 100
      <4>1. Statements!roundFrame(k * 50, 1) = ((2 * (k * 50) + 1 * 50) \div (2 * (1 * 50))) * 50
        BY <2>1, <3>3 DEF Statements!roundFrame, Statements!Rounded
      <4>2. (2 * (k * 50) + 1 * 50) \div (2 * (1 * 50)) = k
        BY <2>1
      <4>3. QED BY <4>1, <4>2
    <3>4. QED BY <2>1, <3>1, <3>2, <3>3
  <2>4. QED BY <2>1, <2>2, <2>3
<1>4. CASE n >= 5000 * d
  <2>1. PICK k \in Int : k = (2 * n + 100 * d) \div (200 * d) /\ k >= 50
    <3>1. CASE d = 1
      BY <1>4, <3>1
    <3>2. CASE d = 10
      BY <1>4, <3>2
    <3>3. QED BY <3>1, <3>2
  <2>2. Statements!roundFrame(n, d) = k * 100
    BY <1>1, <1>4, <2>1
  <2>3. Statements!roundFrame(k * 100, 1) = k * 100
    BY <2>1 DEF Statements!roundFrame, Statements!Rounded
  <2>4. QED BY <2>1, <2>2, <2>3
<1>5. QED BY <1>2, <1>3, <1>4

LEMMA FrameGrows ==
  ASSUME NEW a \in Int, NEW b \in Int, a <= b
  PROVE  /\ Statements!roundFrame(a, 1) <= Statements!roundFrame(b, 1)
         /\ a > 0 => Statements!roundFrame(a, 1) <= a + 50
BY DEF Statements!roundFrame, Statements!Rounded

LEMMA InType == ASSUME NEW S, S \subseteq Entries PROVE Statements!In(S) \in Nat
<1> DEFINE T == {r \in S : Amount[r] > 0}
<1>1. IsFiniteSet(T) /\ \A r \in T : Amount[r] \in Nat
  BY StatementFacts, FS_Subset
<1>2. Statements!In(S) = SumFunctionOnSet(Amount, T)
  BY StatementSums DEF Statements!In
<1> HIDE DEF T
<1>3. QED BY <1>1, <1>2, SumType

(* Statistics of whole numbers are whole.                                   *)
LEMMA StatisticsAreWhole ==
  ASSUME NEW f, IsFiniteSet(DOMAIN f), \A m \in DOMAIN f : f[m] \in Int
  PROVE  Statements!TwiceMedian(f) \in Int /\ Statements!median(f) \in Int /\ Statements!reliableOf(f) \in Int
<1> DEFINE n == Cardinality(DOMAIN f)
<1>1. n \in Nat /\ Statements!Cardinality(DOMAIN f) = n
  BY FS_CardinalityType, StatementSets
<1>2. \A k \in 1 .. n : Statements!Nth(f, k) \in Int
  BY NthExists
<1> HIDE DEF n
<1>3. Statements!TwiceMedian(f) \in Int
  <2>1. CASE n = 0
    BY <1>1, <2>1 DEF Statements!TwiceMedian
  <2>2. CASE n # 0
    <3>1. (n + 1) \div 2 \in 1 .. n /\ n \div 2 + 1 \in 1 .. n
      BY <1>1, <2>2
    <3>2. QED BY <1>1, <1>2, <3>1 DEF Statements!TwiceMedian
  <2>3. QED BY <2>1, <2>2
<1>4. Statements!median(f) \in Int
  BY <1>3, RoundedIs DEF Statements!median
<1>5. Statements!reliableOf(f) \in Int
  <2> DEFINE i == n - 1
             low == Statements!Nth(f, i \div 4 + 1)
             next == Statements!Nth(f, i \div 4 + 2)
  <2>1. Statements!reliableOf(f) =
          IF i < 0 THEN 0 ELSE IF i % 4 = 0 THEN low ELSE Statements!Rounded(4 * low + (next - low) * (i % 4), 4)
    BY <1>1 DEF Statements!reliableOf
  <2>2. i >= 0 => low \in Int
    <3>1. i >= 0 => i \div 4 + 1 \in 1 .. n
      BY <1>1
    <3>2. QED BY <1>2, <3>1
  <2>3. i >= 0 /\ i % 4 # 0 => next \in Int /\ i % 4 \in Int
    <3>1. i >= 0 /\ i % 4 # 0 => i \div 4 + 2 \in 1 .. n
      BY <1>1
    <3>2. QED BY <1>1, <1>2, <3>1
  <2>4. i \in Int
    BY <1>1
  <2> HIDE DEF i, low, next
  <2>5. ASSUME i >= 0, i % 4 # 0 PROVE Statements!Rounded(4 * low + (next - low) * (i % 4), 4) \in Int
    <3>1. 4 * low + (next - low) * (i % 4) \in Int
      BY <2>2, <2>3, <2>5
    <3>2. QED BY <3>1, RoundedIs
  <2>6. QED BY <2>1, <2>2, <2>4, <2>5
<1>6. QED BY <1>3, <1>4, <1>5

LEMMA FiguresAreWhole ==
  ASSUME Statements!TypeOK
  PROVE  /\ \A m : Statements!income(m) \in Nat /\ Statements!net(m) \in Int
         /\ Statements!fixedMonthly \in Nat
         /\ Statements!reliableIncome \in Int /\ Statements!medianVariable \in Int /\ Statements!essentialFloor \in Int
         /\ Statements!setAside \in Int /\ Statements!freeSpace \in Int
         /\ Statements!targetIncome \in Int /\ Statements!observedRate \in Int
<1>1. \A m : Statements!income(m) \in Nat /\ Statements!net(m) \in Int
  <2> SUFFICES ASSUME NEW m PROVE Statements!income(m) \in Nat /\ Statements!net(m) \in Int
    OBVIOUS
  <2>1. Statements!SummaryRows(m) \subseteq Entries
    BY DEF Statements!SummaryRows
  <2>2. Statements!income(m) \in Nat /\ Statements!expenses(m) \in Nat
    BY <2>1, InType, OutIs DEF Statements!income, Statements!expenses
  <2>3. QED BY <2>2 DEF Statements!net
<1>2. \A m, c : Statements!variable(m) \in Nat /\ Statements!variableCategory(m, c) \in Nat
  <2> SUFFICES ASSUME NEW m, NEW c PROVE Statements!variable(m) \in Nat /\ Statements!variableCategory(m, c) \in Nat
    OBVIOUS
  <2> DEFINE V == {r \in Statements!VariableRows : EntryMonth[r] = m}
             W == {r \in Statements!VariableRows : EntryMonth[r] = m /\ Statements!Named(r) = c}
  <2>1. V \subseteq Entries /\ W \subseteq Entries
    BY DEF Statements!VariableRows
  <2>2. Statements!Out(V) \in Nat /\ Statements!Out(W) \in Nat
    BY <2>1, OutIs
  <2>3. QED BY <2>2 DEF Statements!variable, Statements!variableCategory, Statements!byCategory
<1>3. /\ IsFiniteSet(Statements!Complete) /\ IsFiniteSet(Statements!historyMonths) /\ IsFiniteSet(Statements!Earning)
  <2>1. IsFiniteSet(1 .. EndMonth)
    BY StatementFacts, FS_Interval
  <2>2. Statements!Summaries \subseteq 1 .. EndMonth
    BY StatementFacts DEF Statements!Summaries
  <2>3. /\ Statements!Complete \subseteq 1 .. EndMonth /\ Statements!historyMonths \subseteq 1 .. EndMonth
        /\ Statements!Earning \subseteq 1 .. EndMonth
    BY <2>2 DEF Statements!Complete, Statements!historyMonths, Statements!Earning
  <2>4. QED BY <2>1, <2>3, FS_Subset
<1>4. Statements!fixedMonthly \in Nat
  <2>1. live \subseteq DOMAIN Monthly
    BY DEF Statements!TypeOK
  <2>2. IsFiniteSet(live) /\ \A m \in live : Monthly[m] \in Nat
    BY <2>1, StatementFacts, FS_Subset
  <2>3. SumFunctionOnSet(Monthly, live) \in Nat
    BY <2>2, SumType
  <2>4. QED BY <2>3, StatementSums DEF Statements!fixedMonthly
<1>5. Statements!reliableIncome \in Int /\ Statements!targetIncome \in Int
  <2> DEFINE f == [m \in Statements!Complete |-> Statements!income(m)]
             g == [m \in Statements!Earning |-> Statements!income(m)]
  <2>1. /\ IsFiniteSet(DOMAIN f) /\ IsFiniteSet(DOMAIN g)
        /\ \A m \in DOMAIN f : f[m] \in Int
        /\ \A m \in DOMAIN g : g[m] \in Int
    BY <1>1, <1>3
  <2> HIDE DEF f, g
  <2>2. Statements!reliableOf(f) \in Int /\ Statements!reliableOf(g) \in Int
    BY <2>1, StatisticsAreWhole
  <2>3. QED BY <2>2 DEF f, g, Statements!reliableIncome, Statements!targetIncome
<1>6. Statements!medianVariable \in Int /\ Statements!essentialFloor \in Int
  <2> DEFINE f == [m \in Statements!historyMonths |-> Statements!variable(m)]
             e(m) == [c \in Essential |-> Statements!variableCategory(m, c)]
             g == [m \in Statements!historyMonths |-> Statements!SumFunction(e(m))]
  <2>1. \A m : Statements!SumFunction(e(m)) \in Int
    <3> SUFFICES ASSUME NEW m PROVE Statements!SumFunction(e(m)) \in Int
      OBVIOUS
    <3>1. DOMAIN e(m) = Essential /\ \A c \in Essential : e(m)[c] \in Int
      BY <1>2
    <3> HIDE DEF e
    <3>2. SumFunctionOnSet(e(m), Essential) \in Int
      BY <3>1, SumType, StatementFacts
    <3>3. QED BY <3>1, <3>2, StatementSums
  <2>2. /\ IsFiniteSet(DOMAIN f) /\ IsFiniteSet(DOMAIN g)
        /\ \A m \in DOMAIN f : f[m] \in Int
        /\ \A m \in DOMAIN g : g[m] \in Int
    <3> HIDE DEF e
    <3>1. QED BY <1>2, <1>3, <2>1
  <2>3. Statements!medianVariable = Statements!median(f) /\ Statements!essentialFloor = Statements!median(g)
    BY DEF Statements!medianVariable, Statements!essentialFloor
  <2> HIDE DEF f, g
  <2>4. QED BY <2>2, <2>3, StatisticsAreWhole
<1>7. Statements!observedRate \in Int
  <2> DEFINE f == [m \in Statements!Earning |-> Statements!Rounded(1000 * Statements!net(m), Statements!income(m))]
  <2>1. ASSUME NEW m \in Statements!Earning PROVE f[m] \in Int
    <3>1. 1000 * Statements!net(m) \in Int /\ Statements!income(m) \in Nat \ {0}
      BY <1>1 DEF Statements!Earning
    <3>2. QED BY <3>1, RoundedIs
  <2>2. IsFiniteSet(DOMAIN f) /\ DOMAIN f = Statements!Earning
    BY <1>3
  <2>3. Statements!observedRate = Statements!median(f)
    BY DEF Statements!observedRate
  <2> HIDE DEF f
  <2>4. QED BY <2>1, <2>2, <2>3, StatisticsAreWhole
<1>8. Statements!setAside \in Int
  <2>1. PICK rate \in Nat : Statements!setAside = Statements!Rounded(Statements!reliableIncome * rate, 1000)
    <3> DEFINE rate ==
          IF savingsTargetRate # None THEN savingsTargetRate
          ELSE IF Liquid # None /\ Statements!essentialFloor + Statements!fixedMonthly > 0
                  /\ Liquid < 3 * (Statements!essentialFloor + Statements!fixedMonthly) THEN 150 ELSE 100
    <3>1. rate \in Nat
      BY DEF Statements!TypeOK
    <3>2. Statements!setAside = Statements!Rounded(Statements!reliableIncome * rate, 1000)
      BY DEF Statements!setAside
    <3>3. QED BY <3>1, <3>2
  <2>2. Statements!reliableIncome * rate \in Int
    BY <1>5
  <2>3. QED BY <2>1, <2>2, RoundedIs
<1>9. Statements!freeSpace \in Int
  BY <1>4, <1>5, <1>8 DEF Statements!freeSpace
<1>10. QED BY <1>1, <1>4, <1>5, <1>6, <1>7, <1>8, <1>9

LEMMA PromiseHolds == ASSUME Statements!TypeOK PROVE Statements!PromiseIsSound
<1> DEFINE rf(n) == Statements!roundFrame(n, 1)
           raw == Statements!recommendedRaw
           tight == Statements!tight
           rec == Statements!recommended
           free == Statements!freeSpace
           most == Statements!medianVariable
<1>1. /\ Statements!fixedMonthly \in Nat /\ Statements!reliableIncome \in Int /\ most \in Int
      /\ Statements!essentialFloor \in Int /\ Statements!setAside \in Int /\ free \in Int
      /\ free = Statements!reliableIncome - Statements!fixedMonthly - Statements!setAside
  BY FiguresAreWhole DEF Statements!freeSpace
<1>2. raw \in Int /\ (free > 0 => raw <= most /\ raw <= free)
  BY <1>1 DEF Statements!recommendedRaw, Statements!Smaller
<1>3. tight \in Nat /\ rf(tight) = tight
  <2>1. Statements!essentialFloor * 11 \in Int
    BY <1>1
  <2>2. QED BY <2>1, FrameRounds DEF Statements!tight
<1>4. \A n \in Int : rf(n) \in Nat /\ rf(rf(n)) = rf(n)
  BY FrameRounds
<1>5. \A a, b \in Int : a <= b => rf(a) <= rf(b) /\ (a > 0 => rf(a) <= a + 50)
  BY FrameGrows
<1>6. rec = rf(Statements!Larger(raw, tight)) /\ Statements!Larger(raw, tight) \in Int
  BY <1>2, <1>3 DEF Statements!recommended, Statements!Larger
<1>7. Statements!comfortable = rf(Statements!Larger(Statements!reliableIncome - Statements!fixedMonthly, rec))
  BY DEF Statements!comfortable
<1>8. Statements!floorWon <=> free > 0 /\ rec > rf(raw)
  BY DEF Statements!floorWon
<1>9. Statements!leftOver = free - rec /\ (Statements!kept <=> Statements!leftOver >= 0)
  BY DEF Statements!leftOver, Statements!kept
<1> HIDE DEF rf, raw, tight, rec, free, most
<1>10. tight <= rec /\ rec \in Nat /\ rf(rec) = rec
  <2>1. tight <= Statements!Larger(raw, tight)
    BY <1>2, <1>3 DEF Statements!Larger
  <2>2. QED BY <1>3, <1>4, <1>5, <1>6, <2>1
<1>11. rec <= Statements!comfortable
  <2> DEFINE n == Statements!Larger(Statements!reliableIncome - Statements!fixedMonthly, rec)
  <2>1. n \in Int /\ rec <= n
    BY <1>1, <1>10 DEF Statements!Larger
  <2> HIDE DEF n
  <2>2. rf(rec) <= rf(n)
    BY <1>5, <1>10, <2>1
  <2>3. QED BY <1>7, <1>10, <2>2 DEF n
<1>12. rec = rf(raw) \/ rec = tight
  BY <1>3, <1>6 DEF Statements!Larger
<1>13. rec <= Statements!Larger(rf(most), tight) \/ free <= 0
  <2>1. free > 0 => rf(raw) <= rf(most)
    BY <1>1, <1>2, <1>5
  <2>2. rf(raw) \in Nat /\ rf(most) \in Nat
    BY <1>1, <1>2, <1>4
  <2>3. QED BY <1>1, <1>3, <1>10, <1>12, <2>1, <2>2 DEF Statements!Larger
<1>14. Statements!kept => Statements!fixedMonthly + Statements!setAside + rec <= Statements!reliableIncome
  BY <1>1, <1>9, <1>10
<1>15. ~Statements!kept => free <= 0 \/ Statements!floorWon \/ Statements!leftOver >= -50
  <2> SUFFICES ASSUME free > 0, ~Statements!floorWon PROVE Statements!leftOver >= -50
    BY <1>1
  <2>1. rf(raw) \in Nat /\ rec <= rf(raw)
    BY <1>2, <1>4, <1>8, <1>10
  <2>2. rf(raw) <= rf(free) /\ rf(free) <= free + 50 /\ rf(free) \in Nat
    BY <1>1, <1>2, <1>4, <1>5
  <2>3. QED BY <1>1, <1>9, <1>10, <2>1, <2>2
<1>16. QED BY <1>10, <1>11, <1>13, <1>14, <1>15 DEF Statements!PromiseIsSound, rf, tight, rec, free, most

LEMMA Scales ==
  ASSUME NEW a \in Int, NEW b \in Int, a <= b, NEW t \in Nat
  PROVE  t * a <= t * b
OBVIOUS

LEMMA SuggestionHolds == ASSUME Statements!TypeOK PROVE Statements!SuggestionIsCarried
<1> SUFFICES ASSUME savingsTargetRate = None, Statements!cap > 0
             PROVE  Statements!leftForVariable + (Statements!targetIncome \div 2000) + 1 >= Statements!targetFloor
  BY DEF Statements!SuggestionIsCarried
<1> DEFINE t == Statements!targetIncome
           f == Statements!fixedMonthly
           l == Statements!targetFloor
           structure == Statements!Rounded(1000 * (t - f - l), t)
           rate == Statements!suggestedRate
           taken == Statements!Rounded(t * rate, 1000)
<1>1. t \in Int /\ f \in Nat /\ l \in Int /\ Statements!observedRate \in Int
  BY FiguresAreWhole DEF Statements!targetFloor
<1>2. Statements!stepDown(Statements!maxRate) > 0 /\ Statements!cap = Statements!stepDown(Statements!maxRate)
  BY DEF Statements!cap
<1>3. t > 0 /\ Statements!maxRate = Statements!Larger(0, structure)
  <2>1. Statements!stepDown(0) = 0
    BY DEF Statements!stepDown, Statements!Larger
  <2>2. QED BY <1>2, <2>1 DEF Statements!maxRate
<1>4. /\ structure \in Int /\ 2 * t * structure <= 2 * (1000 * (t - f - l)) + t
  <2> DEFINE n == 1000 * (t - f - l)
  <2>1. n \in Int /\ t \in Nat \ {0} /\ structure = Statements!Rounded(n, t)
    BY <1>1, <1>3
  <2> HIDE DEF t, f, l, n, structure
  <2>2. structure \in Int /\ 2 * t * structure <= 2 * n + t
    BY <2>1, RoundedIs
  <2>3. QED BY <2>2 DEF n
<1>5. Statements!cap \in Int /\ Statements!cap <= structure
  <2> HIDE DEF structure
  <2>1. Statements!maxRate \in Int
    BY <1>3, <1>4 DEF Statements!Larger
  <2>2. Statements!cap = Statements!Larger(0, (Statements!maxRate \div 50) * 50)
    BY <1>2 DEF Statements!stepDown
  <2>3. Statements!cap \in Int /\ (Statements!maxRate > 0 => Statements!cap <= Statements!maxRate)
    BY <2>1, <2>2 DEF Statements!Larger
  <2>4. Statements!maxRate > 0
    BY <1>2, <2>1, <2>2 DEF Statements!Larger
  <2>5. QED BY <1>3, <1>4, <2>3, <2>4 DEF Statements!Larger
<1>6. rate \in Int /\ rate <= Statements!cap
  <2> DEFINE o == Statements!observedRate
             wished == IF o >= 200 THEN Statements!Smaller(400, Statements!Rounded(o, 10) * 10)
                       ELSE IF o <= 0 THEN 50 ELSE Statements!Larger(50, Statements!stepUp(o + 20))
  <2>1. rate = Statements!Smaller(wished, Statements!cap)
    <3>1. rate = IF Statements!cap <= 0 THEN 50 ELSE Statements!Smaller(wished, Statements!cap)
      BY DEF Statements!suggestedRate
    <3>2. ~(Statements!cap <= 0)
      BY <1>5
    <3> HIDE DEF rate, wished
    <3>3. QED BY <3>1, <3>2
  <2>2. Statements!Rounded(o, 10) \in Int
    BY <1>1, RoundedIs
  <2>3. Statements!stepUp(o + 20) \in Int
    BY <1>1 DEF Statements!stepUp
  <2>4. wished \in Int
    <3> HIDE DEF o
    <3>1. QED BY <1>1, <2>2, <2>3 DEF Statements!Smaller, Statements!Larger
  <2> HIDE DEF wished, rate
  <2>5. QED BY <1>5, <2>1, <2>4 DEF Statements!Smaller
<1>7. Statements!leftForVariable = t - f - taken
  BY DEF Statements!leftForVariable, Statements!effectiveRate
<1> HIDE DEF t, f, l, structure, rate
<1>8. t * rate \in Int /\ t * structure \in Int /\ t * rate <= t * structure
  <2>1. rate <= structure /\ t \in Nat
    BY <1>1, <1>3, <1>4, <1>5, <1>6
  <2>2. QED BY <1>1, <1>4, <1>6, <2>1, Scales
<1>9. taken \in Int /\ 2000 * taken <= 2 * (t * rate) + 1000
  BY <1>8, RoundedIs
<1>10. 2 * (t * structure) <= 2000 * (t - f - l) + t
  <2>1. 2 * t * structure = 2 * (t * structure)
    BY <1>1, <1>4
  <2>2. QED BY <1>1, <1>4, <2>1
<1> DEFINE x == t * rate
           y == t * structure
           q == t \div 2000
<1>11. q \in Int /\ t < 2000 * q + 2000
  BY <1>1
<1> HIDE DEF taken, x, y, q
<1>12. 2000 * (t - f - taken) >= 2000 * l - t - 1000
  BY <1>1, <1>8, <1>9, <1>10 DEF x, y
<1>13. (t - f - taken) + q + 1 >= l
  BY <1>1, <1>9, <1>11, <1>12
<1>14. QED BY <1>7, <1>13 DEF q, t, l
--------------------------------------------------------------------------------
(* What is said of the finished months, with and without the running one:   *)
(* how a sum, a statistic or a rounding is taken does not depend on it.     *)
LEMMA SameRounding ==
  /\ \A a, b : Before!Larger(a, b) = Statements!Larger(a, b) /\ Before!Smaller(a, b) = Statements!Smaller(a, b)
  /\ \A n, d : Before!Rounded(n, d) = Statements!Rounded(n, d) /\ Before!roundFrame(n, d) = Statements!roundFrame(n, d)
BY DEF Before!Larger, Statements!Larger, Before!Smaller, Statements!Smaller,
       Before!Rounded, Statements!Rounded, Before!roundFrame, Statements!roundFrame

LEMMA SameStatistics ==
  ASSUME NEW f
  PROVE  /\ Before!SumFunction(f) = Statements!SumFunction(f)
         /\ Before!TwiceMedian(f) = Statements!TwiceMedian(f) /\ Before!median(f) = Statements!median(f)
         /\ Before!reliableOf(f) = Statements!reliableOf(f) /\ Before!average(f) = Statements!average(f)
<1>1. Before!SumFunction(f) = Statements!SumFunction(f)
  BY StatementSums
<1>2. \A k : Before!Nth(f, k) = Statements!Nth(f, k)
  BY DEF Before!Nth, Statements!Nth, Before!Cardinality, Statements!Cardinality
<1>3. Before!TwiceMedian(f) = Statements!TwiceMedian(f)
  BY <1>2, StatementSets DEF Before!TwiceMedian, Statements!TwiceMedian
<1>4. Before!median(f) = Statements!median(f)
  BY <1>3, SameRounding DEF Before!median, Statements!median
<1>5. Before!reliableOf(f) = Statements!reliableOf(f)
  BY <1>2, StatementSets, SameRounding DEF Before!reliableOf, Statements!reliableOf
<1>6. Before!average(f) = Statements!average(f)
  BY <1>1, StatementSets, SameRounding DEF Before!average, Statements!average
<1>7. QED BY <1>1, <1>3, <1>4, <1>5, <1>6

LEMMA SameSums ==
  ASSUME NEW S
  PROVE  /\ Before!In(S) = Statements!In(S) /\ Before!Out(S) = Statements!Out(S)
         /\ \A m, c : Before!byCategory(S, m, c) = Statements!byCategory(S, m, c)
<1>1. \A T : Before!In(T) = Statements!In(T) /\ Before!Out(T) = Statements!Out(T)
  BY StatementSums DEF Before!In, Statements!In, Before!Out, Statements!Out
<1>2. \A r : Before!Named(r) = Statements!Named(r)
  BY DEF Before!Named, Statements!Named
<1>3. QED BY <1>1, <1>2 DEF Before!byCategory, Statements!byCategory

(* The rows of a finished month, and the sums of it.                        *)
Past(m) == m \in Int /\ m < running

LEMMA SameRows ==
  ASSUME Statements!TypeOK
  PROVE  /\ Before!VariableRows = {r \in Statements!VariableRows : EntryMonth[r] < running}
         /\ \A m : Past(m) => Before!SummaryRows(m) = Statements!SummaryRows(m)
         /\ \A r : Before!Named(r) = Statements!Named(r)
BY DEF Past, Before!VariableRows, Statements!VariableRows, Before!SummaryRows, Statements!SummaryRows,
       Before!Named, Statements!Named, Statements!TypeOK

LEMMA SameMonth ==
  ASSUME Statements!TypeOK, NEW m, Past(m)
  PROVE  /\ Before!income(m) = Statements!income(m) /\ Before!expenses(m) = Statements!expenses(m)
         /\ Before!net(m) = Statements!net(m) /\ Before!variable(m) = Statements!variable(m)
         /\ \A c : Before!variableCategory(m, c) = Statements!variableCategory(m, c)
         /\ (\E r \in Before!VariableRows : EntryMonth[r] = m) <=> (\E r \in Statements!VariableRows : EntryMonth[r] = m)
<1>1. Before!income(m) = Statements!income(m) /\ Before!expenses(m) = Statements!expenses(m)
  BY SameRows, SameSums DEF Before!income, Statements!income, Before!expenses, Statements!expenses
<1>2. Before!net(m) = Statements!net(m)
  BY <1>1 DEF Before!net, Statements!net
<1>3. {r \in Before!VariableRows : EntryMonth[r] = m} = {r \in Statements!VariableRows : EntryMonth[r] = m}
  BY SameRows DEF Past
<1>4. Before!variable(m) = Statements!variable(m)
  BY <1>3, SameSums DEF Before!variable, Statements!variable
<1>5. ASSUME NEW c PROVE Before!variableCategory(m, c) = Statements!variableCategory(m, c)
  <2>1. {r \in Before!VariableRows : EntryMonth[r] = m /\ Statements!Named(r) = c}
          = {r \in Statements!VariableRows : EntryMonth[r] = m /\ Statements!Named(r) = c}
    BY SameRows DEF Past
  <2>2. QED BY <2>1, SameSums DEF Before!variableCategory, Statements!variableCategory, Statements!byCategory
<1>6. QED BY <1>1, <1>2, <1>3, <1>4, <1>5

(* A finite set of whole numbers has a least and a greatest.                *)
LEMMA Bounds ==
  ASSUME NEW S, IsFiniteSet(S), S # {}, S \subseteq Int
  PROVE  /\ Statements!Max(S) \in S /\ \A x \in S : x <= Statements!Max(S)
         /\ Statements!Min(S) \in S /\ \A x \in S : Statements!Min(S) <= x
<1> DEFINE up == [x \in S |-> x]
           down == [x \in S |-> -x]
<1>1. \E x \in S : \A y \in S : x >= y
  <2>1. \A x \in S : up[x] \in Int /\ up[x] = x
    OBVIOUS
  <2> HIDE DEF up
  <2>2. PICK x \in S : \A y \in S : up[y] <= up[x]
    BY <2>1, Greatest
  <2>3. QED BY <2>1, <2>2
<1>2. \E x \in S : \A y \in S : x <= y
  <2>1. \A x \in S : down[x] \in Int /\ down[x] = -x
    OBVIOUS
  <2> HIDE DEF down
  <2>2. PICK x \in S : \A y \in S : down[y] <= down[x]
    BY <2>1, Greatest
  <2>3. QED BY <2>1, <2>2
<1>3. Statements!Max(S) \in S /\ \A x \in S : Statements!Max(S) >= x
  BY <1>1 DEF Statements!Max
<1>4. Statements!Min(S) \in S /\ \A x \in S : Statements!Min(S) <= x
  BY <1>2 DEF Statements!Min
<1>5. QED BY <1>3, <1>4

LEMMA SameMonths ==
  ASSUME Statements!TypeOK
  PROVE  /\ running \in Int
         /\ Before!Complete = Statements!Complete /\ \A m \in Statements!Complete : Past(m)
         /\ Before!historyMonths = Statements!historyMonths /\ \A m \in Statements!historyMonths : Past(m)
         /\ Before!Earning = Statements!Earning /\ \A m \in Statements!Earning : Past(m)
         /\ Before!windowMonths = Statements!windowMonths /\ \A m \in Statements!windowMonths : Past(m)
         /\ Before!prevMonths = Statements!prevMonths /\ \A m \in Statements!prevMonths : Past(m)
<1>1. running \in Int /\ \A m \in Statements!Months : m \in Int
  BY StatementFacts DEF Statements!TypeOK
<1>2. Before!Complete = Statements!Complete /\ \A m \in Statements!Complete : Past(m)
  <2>1. \A m \in Statements!Months : m < running => Past(m)
    BY <1>1 DEF Past
  <2>2. \A m \in Statements!Months : m < running => Before!SummaryRows(m) = Statements!SummaryRows(m)
    BY <2>1, SameRows
  <2>3. QED BY <2>1, <2>2, StatementFacts
            DEF Before!Complete, Statements!Complete, Before!Summaries, Statements!Summaries
<1>3. Before!historyMonths = Statements!historyMonths /\ \A m \in Statements!historyMonths : Past(m)
  <2>1. /\ Before!historyMonths = {m \in Before!Complete : Before!variable(m) > 0}
        /\ Statements!historyMonths = {m \in Statements!Complete : Statements!variable(m) > 0}
    BY DEF Before!historyMonths, Statements!historyMonths, Before!Complete, Statements!Complete
  <2>2. \A m \in Statements!Complete : Before!variable(m) = Statements!variable(m)
    BY <1>2, SameMonth
  <2>3. QED BY <1>2, <2>1, <2>2
<1>4. Before!Earning = Statements!Earning /\ \A m \in Statements!Earning : Past(m)
  <2>1. \A m \in Statements!Complete : Before!income(m) = Statements!income(m)
    BY <1>2, SameMonth
  <2>2. QED BY <1>2, <2>1 DEF Before!Earning, Statements!Earning
<1>5. /\ Before!windowMonths = Statements!windowMonths
      /\ Statements!windowMonths \subseteq running - StatementWindow .. running - 1
      /\ \A m \in Statements!windowMonths : Past(m)
  BY <1>1, <1>2, StatementFacts DEF Before!windowMonths, Statements!windowMonths, Past
<1>6. Before!prevMonths = Statements!prevMonths /\ \A m \in Statements!prevMonths : Past(m)
  <2> DEFINE W == Statements!windowMonths
             from == Statements!Min(W) - Cardinality(W)
  <2>1. CASE W = {}
    BY <1>5, <2>1 DEF Before!prevMonths, Statements!prevMonths
  <2>2. CASE W # {}
    <3>1. IsFiniteSet(W) /\ W \subseteq Int
      <4>1. running - StatementWindow \in Int /\ running - 1 \in Int
        BY <1>1, StatementFacts
      <4>2. IsFiniteSet(running - StatementWindow .. running - 1)
        BY <4>1, FS_Interval
      <4>3. W \subseteq Int
        BY <1>5 DEF Past
      <4>4. IsFiniteSet(W)
        <5> HIDE DEF W
        <5>1. W \subseteq running - StatementWindow .. running - 1
          BY <1>5 DEF W
        <5>2. QED BY <4>2, <5>1, FS_Subset
      <4>5. QED BY <4>3, <4>4
    <3>2. Statements!Min(W) \in W /\ Cardinality(W) \in Nat
      BY <2>2, <3>1, Bounds, FS_CardinalityType
    <3>3. Statements!Min(W) \in Int /\ Statements!Min(W) < running
      BY <1>5, <3>2 DEF Past
    <3>4. /\ Statements!prevMonths = {m \in from .. Statements!Min(W) - 1 : \E k \in Statements!Complete : k <= m}
          /\ Before!prevMonths = {m \in from .. Statements!Min(W) - 1 : \E k \in Before!Complete : k <= m}
      BY <1>5, <2>2, StatementSets DEF Before!prevMonths, Statements!prevMonths
    <3>5. \A m \in from .. Statements!Min(W) - 1 : Past(m)
      <4> HIDE DEF W
      <4>1. QED BY <1>1, <3>2, <3>3 DEF Past
    <3>6. QED BY <1>2, <3>4, <3>5
  <2>3. QED BY <2>1, <2>2
<1>7. QED BY <1>1, <1>2, <1>3, <1>4, <1>5, <1>6

LEMMA SameOverview ==
  ASSUME Statements!TypeOK PROVE Before!computeOverview = Statements!computeOverview
<1> DEFINE W == Statements!windowMonths
           V == Statements!prevMonths
<1>1. /\ Before!windowMonths = W /\ Before!prevMonths = V
      /\ \A m : Past(m) => /\ Before!income(m) = Statements!income(m) /\ Before!expenses(m) = Statements!expenses(m)
                           /\ Before!net(m) = Statements!net(m)
      /\ \A m \in W \union V : Past(m)
  BY SameMonths, SameMonth
<1> HIDE DEF W, V
<1>2. \A S \in {W, V} : /\ [m \in S |-> Before!net(m)] = [m \in S |-> Statements!net(m)]
                        /\ [m \in S |-> Before!income(m)] = [m \in S |-> Statements!income(m)]
                        /\ [m \in S |-> Before!expenses(m)] = [m \in S |-> Statements!expenses(m)]
  BY <1>1
<1>3. Before!savingsRate(W) = Statements!savingsRate(W)
  BY <1>2, SameStatistics, SameRounding DEF Before!savingsRate, Statements!savingsRate
<1>4. Before!currentPlusStreak = Statements!currentPlusStreak
  <2>1. \A k \in 0 .. Cardinality(W) :
          (\A m \in running - k .. running - 1 : Before!net(m) > 0) <=> (\A m \in running - k .. running - 1 : Statements!net(m) > 0)
    <3>1. \A k : \A m \in running - k .. running - 1 : k \in Int => Past(m)
      BY SameMonths DEF Past
    <3>2. QED BY <1>1, <3>1
  <2>2. {k \in 0 .. Cardinality(W) : \A m \in running - k .. running - 1 : Before!net(m) > 0}
          = {k \in 0 .. Cardinality(W) : \A m \in running - k .. running - 1 : Statements!net(m) > 0}
    BY <2>1
  <2>3. QED BY <1>1, <2>2, StatementSets DEF Before!currentPlusStreak, Statements!currentPlusStreak, W
<1> DEFINE held == {m \in W : Statements!income(m) >= 1 \/ Statements!expenses(m) >= 1}
           green == {m \in W : Statements!net(m) > 0}
           best == {m \in held : \A k \in held : Statements!net(m) >= Statements!net(k)}
           worst == {m \in held : \A k \in held : Statements!net(m) <= Statements!net(k)}
<1>5. /\ held = {m \in W : Before!income(m) >= 1 \/ Before!expenses(m) >= 1}
      /\ green = {m \in W : Before!net(m) > 0}
  BY <1>1
<1>6. /\ best = {m \in held : \A k \in held : Before!net(m) >= Before!net(k)}
      /\ worst = {m \in held : \A k \in held : Before!net(m) <= Before!net(k)}
  BY <1>1
<1> HIDE DEF best, worst, green, held
<1>7. Before!computeOverview =
        [avgNet |-> Statements!average([m \in W |-> Statements!net(m)]),
         avgIncome |-> Statements!average([m \in W |-> Statements!income(m)]),
         avgExpenses |-> Statements!average([m \in W |-> Statements!expenses(m)]),
         savingsRate |-> Statements!savingsRate(W),
         prevAvgNet |-> IF Cardinality(V) >= 2 THEN Statements!average([m \in V |-> Statements!net(m)]) ELSE None,
         greenMonths |-> Cardinality(green), streak |-> Statements!currentPlusStreak, best |-> best, worst |-> worst]
  BY <1>1, <1>2, <1>3, <1>4, <1>5, <1>6, SameStatistics, StatementSets DEF Before!computeOverview
<1>8. Statements!computeOverview =
        [avgNet |-> Statements!average([m \in W |-> Statements!net(m)]),
         avgIncome |-> Statements!average([m \in W |-> Statements!income(m)]),
         avgExpenses |-> Statements!average([m \in W |-> Statements!expenses(m)]),
         savingsRate |-> Statements!savingsRate(W),
         prevAvgNet |-> IF Cardinality(V) >= 2 THEN Statements!average([m \in V |-> Statements!net(m)]) ELSE None,
         greenMonths |-> Cardinality(green), streak |-> Statements!currentPlusStreak, best |-> best, worst |-> worst]
  BY StatementSets DEF Statements!computeOverview, best, worst, green, held, W, V
<1>9. QED BY <1>7, <1>8

LEMMA SameFrame ==
  ASSUME Statements!TypeOK, NEW m, Past(m)
  PROVE  Before!frameForMonth(m) = Statements!frameForMonth(m)
<1> DEFINE kept == [k \in DOMAIN frame_history \cap (1 .. running - 1) |-> frame_history[k]]
           B == {k \in DOMAIN kept : k <= m}
           S == {k \in DOMAIN frame_history : k <= m}
<1>1. running \in Int /\ DOMAIN frame_history \subseteq 1 .. running
  BY SameMonths DEF Statements!TypeOK
<1>2. B = S /\ S \subseteq 1 .. running /\ S \subseteq DOMAIN kept
  BY <1>1 DEF Past
<1>3. IsFiniteSet(S) /\ S \subseteq Int
  <2>1. IsFiniteSet(1 .. running)
    BY <1>1, FS_Interval
  <2>2. IsFiniteSet(S)
    <3> HIDE DEF S
    <3>1. QED BY <1>2, <2>1, FS_Subset
  <2>3. QED BY <1>1, <1>2, <2>2
<1>4. Before!frameForMonth(m) = IF B = {} THEN None ELSE kept[Statements!Max(B)]
  BY StatementSets DEF Before!frameForMonth
<1>5. Statements!frameForMonth(m) = IF S = {} THEN None ELSE frame_history[Statements!Max(S)]
  BY DEF Statements!frameForMonth
<1>6. S # {} => Statements!Max(S) \in DOMAIN kept
  <2> HIDE DEF S, kept
  <2>1. QED BY <1>2, <1>3, Bounds
<1>7. \A k \in DOMAIN kept : kept[k] = frame_history[k]
  OBVIOUS
<1> HIDE DEF kept, S, B
<1>8. QED BY <1>2, <1>4, <1>5, <1>6, <1>7

(* The drift of finished months.                                            *)
LEMMA SameDrift ==
  ASSUME Statements!TypeOK, NEW S, IsFiniteSet(S), \A m \in S : Past(m)
  PROVE  Before!computeDrift(S) = Statements!computeDrift(S)
<1> DEFINE judged == {m \in S : Statements!frameForMonth(m) # None /\ \E r \in Statements!VariableRows : EntryMonth[r] = m}
           last == {m \in judged : Cardinality({k \in judged : k > m}) < 3}
           outlay == [m \in last |-> Statements!variable(m)]
           gap == [m \in last |-> outlay[m] - Statements!frameForMonth(m)]
           Told(l, s, g, newest) ==
             LET size == Statements!Larger(Statements!TwiceMedian(g), -Statements!TwiceMedian(g))
             IN IF \/ Cardinality(l) < 3
                   \/ (\E m \in l : g[m] <= 0) /\ (\E m \in l : g[m] >= 0)
                   \/ size < 400 \/ 100 * size < 16 * newest
                THEN None
                ELSE [over |-> g[Statements!Max(l)] > 0, gap |-> Statements!Rounded(size, 2),
                      honestAmount |-> Statements!roundFrame(Statements!TwiceMedian(s), 2)]
           judgedB == {m \in S : Before!frameForMonth(m) # None /\ \E r \in Before!VariableRows : EntryMonth[r] = m}
           lastB == {m \in judgedB : Cardinality({k \in judgedB : k > m}) < 3}
           outlayB == [m \in lastB |-> Before!variable(m)]
           gapB == [m \in lastB |-> outlayB[m] - Before!frameForMonth(m)]
<1>1. \A m \in S : /\ Before!frameForMonth(m) = Statements!frameForMonth(m)
                   /\ Before!variable(m) = Statements!variable(m)
                   /\ (\E r \in Before!VariableRows : EntryMonth[r] = m) <=> (\E r \in Statements!VariableRows : EntryMonth[r] = m)
  BY SameFrame, SameMonth
<1>2. judgedB = judged
  BY <1>1
<1>3. lastB = last /\ last \subseteq S
  <2> HIDE DEF judged, judgedB
  <2>1. lastB = last /\ last \subseteq judged
    BY <1>2
  <2>2. QED BY <2>1 DEF judged
<1>4. outlayB = outlay
  <2> HIDE DEF last, lastB
  <2>1. QED BY <1>1, <1>3
<1>5. gapB = gap
  <2> HIDE DEF last, lastB, outlay, outlayB
  <2>1. QED BY <1>1, <1>3, <1>4
<1>6. Statements!computeDrift(S) = Told(last, outlay, gap, Statements!frameForMonth(Statements!Max(last)))
  BY DEF Statements!computeDrift, Statements!Cardinality, Cardinality
<1> DEFINE ToldB(l, s, g, newest) ==
             LET size == Before!Larger(Before!TwiceMedian(g), -Before!TwiceMedian(g))
             IN IF \/ Cardinality(l) < 3
                   \/ (\E m \in l : g[m] <= 0) /\ (\E m \in l : g[m] >= 0)
                   \/ size < 400 \/ 100 * size < 16 * newest
                THEN None
                ELSE [over |-> g[Before!Max(l)] > 0, gap |-> Before!Rounded(size, 2),
                      honestAmount |-> Before!roundFrame(Before!TwiceMedian(s), 2)]
<1>7. Before!computeDrift(S) = ToldB(lastB, outlayB, gapB, Before!frameForMonth(Before!Max(lastB)))
  BY DEF Before!computeDrift, Before!Cardinality, Cardinality
<1>8. ASSUME NEW l, NEW s, NEW g, NEW n PROVE ToldB(l, s, g, n) = Told(l, s, g, n)
  <2>1. /\ Before!TwiceMedian(g) = Statements!TwiceMedian(g) /\ Before!TwiceMedian(s) = Statements!TwiceMedian(s)
        /\ Before!Max(l) = Statements!Max(l)
    BY SameStatistics, StatementSets
  <2>2. QED BY <2>1, SameRounding
<1>9. CASE last = {}
  <2> HIDE DEF last, lastB, outlay, outlayB, gap, gapB
  <2>1. \A s, g, n : Told({}, s, g, n) = None
    BY FS_EmptySet
  <2> HIDE DEF Told, ToldB
  <2>2. QED BY <1>3, <1>6, <1>7, <1>8, <1>9, <2>1
<1>10. CASE last # {}
  <2>1. IsFiniteSet(last) /\ last \subseteq Int
    <3> HIDE DEF last
    <3>1. QED BY <1>3, FS_Subset DEF Past
  <2>2. Statements!Max(last) \in S
    <3> HIDE DEF last
    <3>1. QED BY <1>3, <1>10, <2>1, Bounds
  <2>3. Before!Max(lastB) = Statements!Max(last)
    <3> HIDE DEF last, lastB
    <3>1. QED BY <1>3, StatementSets
  <2> HIDE DEF last, lastB, outlay, outlayB, gap, gapB, Told, ToldB
  <2>4. QED BY <1>1, <1>3, <1>4, <1>5, <1>6, <1>7, <1>8, <2>2, <2>3
<1>11. QED BY <1>9, <1>10

(* There are k greatest of a finite set.                                    *)
LEMMA TopExists ==
  ASSUME NEW W, IsFiniteSet(W), NEW f, \A r \in W : f[r] \in Int, NEW k \in 0 .. Cardinality(W)
  PROVE  \E T \in SUBSET W : Cardinality(T) = k /\ \A r \in T, d \in W \ T : f[r] >= f[d]
<1> DEFINE Top(i) == \E T \in SUBSET W : Cardinality(T) = i /\ \A r \in T, d \in W \ T : f[r] >= f[d]
           K == {i \in 0 .. Cardinality(W) : ~Top(i)}
           id == [i \in K |-> i]
<1>0. Cardinality(W) \in Nat
  BY FS_CardinalityType
<1> SUFFICES ASSUME K # {} PROVE FALSE
  OBVIOUS
<1>1. K \subseteq Nat /\ id \in [K -> Nat]
  BY <1>0
<1>2. PICK i \in K : \A j \in K : i <= j
  <2>1. \A j \in K : id[j] = j
    OBVIOUS
  <2> HIDE DEF K, id
  <2>2. PICK i \in K : \A j \in K : id[i] <= id[j]
    BY <1>1, Least
  <2>3. QED BY <2>1, <2>2
<1>3. i # 0
  <2>1. Top(0)
    <3>1. {} \in SUBSET W /\ Cardinality({}) = 0
      BY FS_EmptySet
    <3>2. QED BY <3>1
  <2>2. QED BY <2>1
<1>4. i - 1 \in 0 .. Cardinality(W) /\ i \in Nat /\ i <= Cardinality(W) /\ Top(i - 1)
  BY <1>0, <1>2, <1>3
<1>5. PICK T \in SUBSET W : Cardinality(T) = i - 1 /\ \A r \in T, d \in W \ T : f[r] >= f[d]
  BY <1>4
<1>6. IsFiniteSet(T) /\ IsFiniteSet(W \ T)
  BY FS_Subset
<1>7. W \ T # {}
  <2>1. W \ T = {} => W = T
    OBVIOUS
  <2>2. Cardinality(T) # Cardinality(W)
    BY <1>0, <1>4, <1>5
  <2>3. QED BY <2>1, <2>2
<1>8. PICK x \in W \ T : \A y \in W \ T : f[y] <= f[x]
  BY <1>6, <1>7, Greatest
<1> DEFINE U == T \union {x}
<1>9. Cardinality(U) = i
  <2>1. Cardinality(T \union {x}) = Cardinality(T) + 1
    BY <1>6, <1>8, FS_AddElement
  <2>2. QED BY <1>4, <1>5, <2>1
<1>10. \A r \in U, d \in W \ U : f[r] >= f[d]
  BY <1>5, <1>8
<1>11. U \in SUBSET W
  OBVIOUS
<1>12. Top(i)
  <2> HIDE DEF U
  <2>1. QED BY <1>9, <1>10, <1>11
<1>13. QED BY <1>12

(* The split of a frame: the categories that are worth a row, and theirs.   *)
SplitRows(S) == {r \in Statements!VariableRows : EntryMonth[r] \in S}
Medians(counted, S) ==
  {<<c, Statements!TwiceMedian([m \in S |-> Statements!byCategory(counted, m, c)])>> : c \in {Statements!Named(r) : r \in counted}}
Ranked(medians) == {r \in medians : r[2] > 0}
Total(medians) == Statements!SumFunction([r \in Ranked(medians) |-> r[2]])
Worth(medians) == {r \in Ranked(medians) : r[1] \notin Unsteerable /\ 12 * r[2] >= Total(medians)}
NamedRows(worth) ==
  CHOOSE T \in SUBSET worth : /\ Cardinality(T) = Statements!Smaller(4, Cardinality(worth))
                              /\ \A r \in T, d \in worth \ T : r[2] >= d[2]
SplitOf(medians, frame) ==
  IF frame <= 0 \/ Ranked(medians) = {} THEN [c \in {} |-> 0]
  ELSE [c \in {r[1] : r \in NamedRows(Worth(medians))} |->
         Statements!roundFrame((CHOOSE r \in NamedRows(Worth(medians)) : r[1] = c)[2] * frame, Total(medians))]

LEMMA SplitIs ==
  ASSUME NEW S, NEW frame
  PROVE  Statements!proposeSplit(frame, S) = SplitOf(Medians(SplitRows(S), S), frame)
BY DEF Statements!proposeSplit, Statements!Cardinality, Cardinality, Statements!MaxSplit,
       SplitOf, NamedRows, Worth, Total, Ranked, Medians, SplitRows

LEMMA SameSplit ==
  ASSUME Statements!TypeOK, NEW S, \A m \in S : Past(m), NEW frame
  PROVE  Before!proposeSplit(frame, S) = Statements!proposeSplit(frame, S)
<1> DEFINE counted == {r \in Before!VariableRows : EntryMonth[r] \in S}
           median(R, c) == [m \in S |-> Before!byCategory(R, m, c)]
           MediansB(R) == {<<c, Before!TwiceMedian(median(R, c))>> : c \in {Before!Named(r) : r \in R}}
           TotalB(M) == Before!SumFunction([r \in Ranked(M) |-> r[2]])
           WorthB(M) == {r \in Ranked(M) : r[1] \notin Unsteerable /\ 12 * r[2] >= TotalB(M)}
           NamedB(W) == CHOOSE T \in SUBSET W : /\ Cardinality(T) = Before!Smaller(4, Cardinality(W))
                                               /\ \A r \in T, d \in W \ T : r[2] >= d[2]
           SplitB(M) ==
             IF frame <= 0 \/ Ranked(M) = {} THEN [c \in {} |-> 0]
             ELSE [c \in {r[1] : r \in NamedB(WorthB(M))} |->
                    Before!roundFrame((CHOOSE r \in NamedB(WorthB(M)) : r[1] = c)[2] * frame, TotalB(M))]
<1>1. counted = SplitRows(S)
  BY SameRows DEF Past, SplitRows
<1>2. Before!proposeSplit(frame, S) = SplitB(MediansB(counted))
  BY DEF Before!proposeSplit, Before!Cardinality, Cardinality, Before!MaxSplit, Ranked
<1>3. ASSUME NEW R PROVE MediansB(R) = Medians(R, S)
  <2>1. \A c : median(R, c) = [m \in S |-> Statements!byCategory(R, m, c)]
    BY SameSums
  <2> HIDE DEF median
  <2>2. \A c : Before!TwiceMedian(median(R, c)) = Statements!TwiceMedian([m \in S |-> Statements!byCategory(R, m, c)])
    BY <2>1, SameStatistics
  <2>3. \A r : Before!Named(r) = Statements!Named(r)
    BY DEF Before!Named, Statements!Named
  <2>4. {Before!Named(r) : r \in R} = {Statements!Named(r) : r \in R}
    BY <2>3
  <2>5. QED BY <2>2, <2>4 DEF Medians
<1>4. ASSUME NEW M PROVE SplitB(M) = SplitOf(M, frame)
  <2>1. TotalB(M) = Total(M)
    BY SameStatistics DEF Total
  <2>2. WorthB(M) = Worth(M)
    <3> HIDE DEF TotalB
    <3>1. QED BY <2>1 DEF Worth
  <2>3. \A W : NamedB(W) = NamedRows(W)
    BY DEF Before!Smaller, Statements!Smaller, NamedRows
  <2> HIDE DEF TotalB, WorthB, NamedB
  <2>4. NamedB(WorthB(M)) = NamedRows(Worth(M))
    BY <2>2, <2>3
  <2> DEFINE X == NamedRows(Worth(M))
             share(c) == (CHOOSE r \in X : r[1] = c)[2] * frame
  <2>5. SplitB(M) = IF frame <= 0 \/ Ranked(M) = {} THEN [c \in {} |-> 0]
                    ELSE [c \in {r[1] : r \in X} |-> Before!roundFrame(share(c), Total(M))]
    BY <2>1, <2>4
  <2>6. SplitOf(M, frame) = IF frame <= 0 \/ Ranked(M) = {} THEN [c \in {} |-> 0]
                    ELSE [c \in {r[1] : r \in X} |-> Statements!roundFrame(share(c), Total(M))]
    BY DEF SplitOf
  <2> HIDE DEF X, share, SplitB
  <2>7. QED BY <2>5, <2>6, SameRounding
<1> HIDE DEF counted, SplitB, MediansB
<1>5. QED BY <1>1, <1>2, <1>3, <1>4, SplitIs

(* A share is of a category that something of these months went to.         *)
LEMMA SplitNames ==
  ASSUME Statements!TypeOK, NEW S, IsFiniteSet(S), NEW frame
  PROVE  DOMAIN Statements!proposeSplit(frame, S) \subseteq {Statements!Named(r) : r \in SplitRows(S)}
<1> DEFINE M == Medians(SplitRows(S), S)
           W == Worth(M)
           names == {Statements!Named(r) : r \in SplitRows(S)}
           value == [r \in W |-> r[2]]
<1>1. SplitRows(S) \subseteq Entries /\ IsFiniteSet(SplitRows(S))
  <2>1. SplitRows(S) \subseteq Entries
    BY DEF SplitRows, Statements!VariableRows
  <2>2. QED BY <2>1, StatementFacts, FS_Subset
<1>2. IsFiniteSet(M)
  <2> DEFINE h == [r \in SplitRows(S) |-> <<Statements!Named(r),
                     Statements!TwiceMedian([m \in S |-> Statements!byCategory(SplitRows(S), m, Statements!Named(r))])>>]
  <2>1. M = {h[r] : r \in SplitRows(S)}
    BY DEF Medians
  <2> HIDE DEF h, M
  <2>2. QED BY <1>1, <2>1, ImageIsFinite
<1>3. \A r \in M : r[1] \in names /\ r[2] \in Int
  <2>1. ASSUME NEW c PROVE Statements!TwiceMedian([m \in S |-> Statements!byCategory(SplitRows(S), m, c)]) \in Int
    <3> DEFINE f == [m \in S |-> Statements!byCategory(SplitRows(S), m, c)]
    <3>1. ASSUME NEW m \in S PROVE f[m] \in Int
      <4> DEFINE T == {r \in SplitRows(S) : EntryMonth[r] = m /\ Statements!Named(r) = c}
      <4>1. T \subseteq Entries
        BY <1>1
      <4>2. Statements!Out(T) \in Nat
        <5> HIDE DEF T
        <5>1. QED BY <4>1, OutIs
      <4>3. QED BY <4>2 DEF Statements!byCategory
    <3>2. DOMAIN f = S
      OBVIOUS
    <3> HIDE DEF f
    <3>3. Statements!TwiceMedian(f) \in Int
      BY <3>1, <3>2, StatisticsAreWhole
    <3>4. QED BY <3>3 DEF f
  <2> DEFINE twice(c) == Statements!TwiceMedian([m \in S |-> Statements!byCategory(SplitRows(S), m, c)])
  <2>2. M = {<<c, twice(c)>> : c \in names}
    BY DEF Medians
  <2>3. \A c : twice(c) \in Int
    BY <2>1
  <2> HIDE DEF M, names, twice
  <2>4. QED BY <2>2, <2>3
<1>4. W \subseteq M /\ IsFiniteSet(W)
  <2>1. W \subseteq M
    BY DEF Worth, Ranked
  <2> HIDE DEF W, M
  <2>2. QED BY <1>2, <2>1, FS_Subset
<1>5. \E T \in SUBSET W : /\ Cardinality(T) = Statements!Smaller(4, Cardinality(W))
                          /\ \A r \in T, d \in W \ T : r[2] >= d[2]
  <2>1. \A r \in W : value[r] \in Int /\ value[r] = r[2]
    BY <1>3, <1>4
  <2>2. Statements!Smaller(4, Cardinality(W)) \in 0 .. Cardinality(W)
    <3>1. Cardinality(W) \in Nat
      BY <1>4, FS_CardinalityType
    <3> HIDE DEF W
    <3>2. QED BY <3>1 DEF Statements!Smaller
  <2> HIDE DEF W, value
  <2>3. PICK T \in SUBSET W : /\ Cardinality(T) = Statements!Smaller(4, Cardinality(W))
                             /\ \A r \in T, d \in W \ T : value[r] >= value[d]
    BY <1>4, <2>1, <2>2, TopExists
  <2>4. QED BY <2>1, <2>3
<1>6. NamedRows(W) \subseteq W
  <2> HIDE DEF W
  <2>1. NamedRows(W) \in SUBSET W
    BY <1>5 DEF NamedRows
  <2>2. QED BY <2>1
<1>7. \A r \in NamedRows(W) : r[1] \in names
  BY <1>3, <1>4, <1>6
<1>8. DOMAIN SplitOf(M, frame) \subseteq {r[1] : r \in NamedRows(W)}
  BY DEF SplitOf
<1> HIDE DEF W, M, names
<1>9. QED BY <1>7, <1>8, SplitIs DEF M, names

(* The review of a finished month.                                          *)
LEMMA SameReview ==
  ASSUME Statements!TypeOK, NEW m, Past(m)
  PROVE  Before!Review(m) = Statements!Review(m)
<1> DEFINE frame == Statements!frameForMonth(m)
           prior == {k \in Statements!Months : k < m /\ \E r \in Statements!VariableRows : EntryMonth[r] = k}
           split == Statements!proposeSplit(frame, prior)
           C == Statements!VariableCategories
           D == Before!VariableCategories
           outlay == [c \in C |-> Statements!variableCategory(m, c)]
           outlayB == [c \in D |-> Before!variableCategory(m, c)]
           rest == Statements!SumFunctionOnSet(outlay, C \ DOMAIN split)
           restB == Statements!SumFunctionOnSet(outlayB, D \ DOMAIN split)
           shares == Statements!SumFunction(split)
           Told(counted, left) ==
             IF frame = None THEN None
             ELSE [amount |-> frame, spent |-> Statements!variable(m), split |-> split,
                   progress |-> [rows |-> counted, rest |-> IF frame - shares > 0 THEN left ELSE None]]
<1>1. Before!frameForMonth(m) = frame /\ Before!variable(m) = Statements!variable(m)
  BY SameFrame, SameMonth
<1>2. /\ IsFiniteSet(prior) /\ \A k \in prior : Past(k)
      /\ prior = {k \in Before!Months : k < m /\ \E r \in Before!VariableRows : EntryMonth[r] = k}
  <2>1. \A k \in 1 .. EndMonth : k < m => Past(k)
    BY SameMonths DEF Past
  <2>2. \A k \in 1 .. EndMonth : k < m =>
          ((\E r \in Before!VariableRows : EntryMonth[r] = k) <=> (\E r \in Statements!VariableRows : EntryMonth[r] = k))
    BY <2>1, SameMonth
  <2>3. prior \subseteq 1 .. EndMonth /\ IsFiniteSet(1 .. EndMonth)
    BY StatementFacts, FS_Interval
  <2>4. IsFiniteSet(prior)
    <3> HIDE DEF prior
    <3>1. QED BY <2>3, FS_Subset
  <2>5. QED BY <2>1, <2>2, <2>4, StatementFacts
<1>3. Before!proposeSplit(frame, prior) = split
  <2> HIDE DEF prior, frame
  <2>1. QED BY <1>2, SameSplit
<1>4. DOMAIN split \subseteq D /\ D \subseteq C /\ IsFiniteSet(C)
  <2>1. DOMAIN split \subseteq {Statements!Named(r) : r \in SplitRows(prior)}
    <3> HIDE DEF prior, frame
    <3>1. QED BY <1>2, SplitNames
  <2>2. /\ \A r \in Before!VariableRows : r \in Statements!VariableRows
        /\ \A r \in Statements!VariableRows : Past(EntryMonth[r]) => r \in Before!VariableRows
    BY SameRows DEF Past
  <2>3. \A r \in SplitRows(prior) : r \in Before!VariableRows
    <3> HIDE DEF prior
    <3>1. QED BY <1>2, <2>2 DEF SplitRows
  <2>4. \A r : Before!Named(r) = Statements!Named(r)
    BY SameRows
  <2>5. \A r \in Before!VariableRows : Statements!Named(r) \in D /\ Statements!Named(r) \in C
    BY <2>2, <2>4 DEF Before!VariableCategories, Statements!VariableCategories
  <2>6. DOMAIN split \subseteq D
    <3> HIDE DEF split, prior, D
    <3>1. QED BY <2>1, <2>3, <2>5
  <2>7. D \subseteq C
    BY <2>4, <2>5 DEF Before!VariableCategories
  <2>8. IsFiniteSet(C)
    <3>1. C \subseteq Statements!Categories
      BY CategoriesAre DEF Statements!VariableCategories, Statements!VariableRows
    <3> HIDE DEF C
    <3>2. QED BY <3>1, CategoriesAre, FS_Subset
  <2>9. QED BY <2>6, <2>7, <2>8
<1>5. \A c \in D : outlayB[c] = Statements!variableCategory(m, c) /\ outlayB[c] = outlay[c]
  BY <1>4, SameMonth
<1>6. ASSUME NEW c \in C PROVE outlay[c] \in Int /\ (c \notin D => outlay[c] = 0)
  <2> DEFINE T == {r \in Statements!VariableRows : EntryMonth[r] = m /\ Statements!Named(r) = c}
  <2>1. T \subseteq Entries /\ outlay[c] = Statements!Out(T)
    BY DEF Statements!VariableRows, Statements!variableCategory, Statements!byCategory
  <2>2. Statements!Out(T) \in Nat /\ (T = {} => Statements!Out(T) = 0)
    <3>1. T = {} => Debits(T) = {}
      BY DEF Debits
    <3> HIDE DEF T
    <3>2. QED BY <2>1, <3>1, OutIs, OutIsPositive
  <2>3. c \notin D => T = {}
    BY SameRows DEF Past, Before!VariableCategories
  <2>4. QED BY <2>1, <2>2, <2>3
<1>7. rest = restB
  <2> DEFINE S == C \ DOMAIN split
             P == D \ DOMAIN split
  <2> HIDE DEF C, D, outlay, outlayB, split
  <2>1. IsFiniteSet(S) /\ P \subseteq S /\ IsFiniteSet(P)
    <3>1. S \subseteq C /\ P \subseteq S
      BY <1>4
    <3>2. QED BY <1>4, <3>1, FS_Subset
  <2>2. (\A x \in P : outlay[x] \in Int) /\ (\A x \in S \ P : outlay[x] = 0)
    BY <1>4, <1>6
  <2>3. \A x \in P : outlayB[x] = outlay[x]
    BY <1>5
  <2> HIDE DEF S, P
  <2>4. SumFunctionOnSet(outlay, S) = SumFunctionOnSet(outlay, P)
    BY <2>1, <2>2, SumOfPart
  <2>5. SumFunctionOnSet(outlayB, P) = SumFunctionOnSet(outlay, P)
    BY <2>1, <2>3, SumOfSame
  <2>6. QED BY <2>4, <2>5, StatementSums DEF S, P
<1>8. [c \in DOMAIN split |-> outlayB[c]] = [c \in DOMAIN split |-> outlay[c]]
  <2> HIDE DEF C, D, outlay, outlayB, split
  <2>1. QED BY <1>4, <1>5
<1>9. Statements!Review(m) = Told([c \in DOMAIN split |-> outlay[c]], rest)
  BY DEF Statements!Review, Statements!splitProgress, Statements!Rest, Statements!Shares
<1> DEFINE ToldB(f, v, s, total, counted, left) ==
             IF f = None THEN None
             ELSE [amount |-> f, spent |-> v, split |-> s,
                   progress |-> [rows |-> counted, rest |-> IF f - total > 0 THEN left ELSE None]]
           f == Before!frameForMonth(m)
           s == Before!proposeSplit(f, {k \in Before!Months : k < m /\ \E r \in Before!VariableRows : EntryMonth[r] = k})
           left == Before!SumFunctionOnSet(outlayB, D \ DOMAIN s)
           counted == [c \in DOMAIN s |-> outlayB[c]]
           total == Before!SumFunction(s)
<1>10. Before!Review(m) = ToldB(f, Before!variable(m), s, total, counted, left)
  BY DEF Before!Review, Before!splitProgress, Before!Rest, Before!Shares
<1>11. f = frame /\ s = split
  <2> HIDE DEF prior, frame, split
  <2>1. QED BY <1>1, <1>2, <1>3
<1>12. total = shares /\ left = restB /\ counted = [c \in DOMAIN split |-> outlayB[c]]
  <2> HIDE DEF s, split, outlayB, D
  <2>1. QED BY <1>11, SameStatistics, StatementSums
<1>13. Told([c \in DOMAIN split |-> outlay[c]], rest) =
         ToldB(frame, Statements!variable(m), split, shares, [c \in DOMAIN split |-> outlay[c]], rest)
  <2> HIDE DEF split, outlay, rest, shares, frame
  <2>1. QED OBVIOUS
<1> HIDE DEF Told, ToldB, f, s, left, counted, total, frame, prior, split, C, D, outlay, outlayB, rest, restB, shares
<1>14. QED BY <1>1, <1>7, <1>8, <1>9, <1>10, <1>11, <1>12, <1>13

LEMMA SameReviewDrift ==
  ASSUME Statements!TypeOK, NEW m, Past(m)
  PROVE  Before!ReviewDrift(m) = Statements!ReviewDrift(m)
<1> DEFINE S == {k \in Statements!Months : k <= m /\ \E r \in Statements!VariableRows : EntryMonth[r] = k}
           B == {k \in Before!Months : k <= m /\ \E r \in Before!VariableRows : EntryMonth[r] = k}
<1>1. \A k \in 1 .. EndMonth : k <= m => Past(k)
  BY SameMonths DEF Past
<1>2. \A k \in 1 .. EndMonth : k <= m =>
        ((\E r \in Before!VariableRows : EntryMonth[r] = k) <=> (\E r \in Statements!VariableRows : EntryMonth[r] = k))
  BY <1>1, SameMonth
<1>3. S \subseteq 1 .. EndMonth /\ IsFiniteSet(1 .. EndMonth)
  BY StatementFacts, FS_Interval
<1>4. B = S /\ \A k \in S : Past(k)
  BY <1>1, <1>2, StatementFacts
<1>5. Statements!ReviewDrift(m) = Statements!computeDrift(S) /\ Before!ReviewDrift(m) = Before!computeDrift(B)
  BY DEF Statements!ReviewDrift, Before!ReviewDrift
<1> HIDE DEF S, B
<1>6. IsFiniteSet(S)
  BY <1>3, FS_Subset
<1>7. QED BY <1>4, <1>5, <1>6, SameDrift

LEMMA SameBaselines ==
  ASSUME Statements!TypeOK
  PROVE  /\ Before!reliableIncome = Statements!reliableIncome /\ Before!medianVariable = Statements!medianVariable
         /\ Before!essentialFloor = Statements!essentialFloor
         /\ Before!observedRate = Statements!observedRate /\ Before!maxRate = Statements!maxRate
<1>1. /\ Before!Complete = Statements!Complete /\ Before!historyMonths = Statements!historyMonths
      /\ Before!Earning = Statements!Earning
      /\ \A m \in Statements!Complete : Before!income(m) = Statements!income(m)
      /\ \A m \in Statements!Earning : Before!income(m) = Statements!income(m) /\ Before!net(m) = Statements!net(m)
      /\ \A m \in Statements!historyMonths :
           /\ Before!variable(m) = Statements!variable(m)
           /\ \A c : Before!variableCategory(m, c) = Statements!variableCategory(m, c)
  BY SameMonths, SameMonth
<1>2. Before!reliableIncome = Statements!reliableIncome
  <2>1. [m \in Before!Complete |-> Before!income(m)] = [m \in Statements!Complete |-> Statements!income(m)]
    BY <1>1
  <2>2. QED BY <2>1, SameStatistics DEF Before!reliableIncome, Statements!reliableIncome
<1>3. Before!medianVariable = Statements!medianVariable
  <2>1. [m \in Before!historyMonths |-> Before!variable(m)] = [m \in Statements!historyMonths |-> Statements!variable(m)]
    BY <1>1
  <2>2. QED BY <2>1, SameStatistics DEF Before!medianVariable, Statements!medianVariable
<1>4. Before!essentialFloor = Statements!essentialFloor
  <2> DEFINE b(m) == [c \in Essential |-> Before!variableCategory(m, c)]
             s(m) == [c \in Essential |-> Statements!variableCategory(m, c)]
             f == [m \in Before!historyMonths |-> Before!SumFunction(b(m))]
             g == [m \in Statements!historyMonths |-> Statements!SumFunction(s(m))]
  <2>1. \A m \in Statements!historyMonths : b(m) = s(m)
    BY <1>1
  <2>2. Before!essentialFloor = Before!median(f) /\ Statements!essentialFloor = Statements!median(g)
    BY DEF Before!essentialFloor, Statements!essentialFloor
  <2>3. f = g
    <3> HIDE DEF b, s
    <3>1. \A m \in Statements!historyMonths : Before!SumFunction(b(m)) = Statements!SumFunction(s(m))
      BY <2>1, SameStatistics
    <3>2. QED BY <1>1, <3>1
  <2> HIDE DEF f, g
  <2>4. QED BY <2>2, <2>3, SameStatistics
<1>5. Before!targetIncome = Statements!targetIncome
  <2>1. [m \in Before!Earning |-> Before!income(m)] = [m \in Statements!Earning |-> Statements!income(m)]
    BY <1>1
  <2>2. QED BY <2>1, SameStatistics DEF Before!targetIncome, Statements!targetIncome
<1>6. Before!observedRate = Statements!observedRate
  <2> DEFINE f == [m \in Before!Earning |-> Before!Rounded(1000 * Before!net(m), Before!income(m))]
             g == [m \in Statements!Earning |-> Statements!Rounded(1000 * Statements!net(m), Statements!income(m))]
  <2>1. f = g
    BY <1>1, SameRounding
  <2>2. Before!observedRate = Before!median(f) /\ Statements!observedRate = Statements!median(g)
    BY DEF Before!observedRate, Statements!observedRate
  <2> HIDE DEF f, g
  <2>3. QED BY <2>1, <2>2, SameStatistics
<1>7. Before!maxRate = Statements!maxRate
  <2>1. Before!available <=> Statements!available
    BY <1>1, StatementSets DEF Before!available, Statements!available, Before!MinMonths, Statements!MinMonths
  <2>2. Before!targetFloor = Statements!targetFloor
    BY <1>4, <2>1 DEF Before!targetFloor, Statements!targetFloor
  <2>3. Before!fixedMonthly = Statements!fixedMonthly
    BY StatementSums DEF Before!fixedMonthly, Statements!fixedMonthly
  <2>4. QED BY <1>5, <2>2, <2>3, SameRounding DEF Before!maxRate, Statements!maxRate
<1>8. QED BY <1>2, <1>3, <1>4, <1>6, <1>7

(* A finished month stands: nothing of the running one is in what is said.  *)
LEMMA FinishedStands == ASSUME Statements!TypeOK PROVE Statements!OfFinishedMonths = Before!OfFinishedMonths
<1>1. [m \in 1 .. running - 1 |-> <<Before!Review(m), Before!ReviewDrift(m)>>]
        = [m \in 1 .. running - 1 |-> <<Statements!Review(m), Statements!ReviewDrift(m)>>]
  <2>1. \A m \in 1 .. running - 1 : Past(m)
    BY SameMonths DEF Past
  <2>2. \A m \in 1 .. running - 1 : Before!Review(m) = Statements!Review(m) /\ Before!ReviewDrift(m) = Statements!ReviewDrift(m)
    BY <2>1, SameReview, SameReviewDrift
  <2>3. QED BY <2>2
<1>2. Before!computeDrift(Before!Complete) = Statements!computeDrift(Statements!Complete)
  <2>1. IsFiniteSet(1 .. EndMonth) /\ Statements!Complete \subseteq 1 .. EndMonth
    BY StatementFacts, FS_Interval DEF Statements!Complete, Statements!Summaries
  <2>2. IsFiniteSet(Statements!Complete)
    BY <2>1, FS_Subset
  <2>3. QED BY <2>2, SameMonths, SameDrift
<1>3. QED BY <1>1, <1>2, SameOverview, SameBaselines DEF Statements!OfFinishedMonths, Before!OfFinishedMonths

LEMMA StatementsStart == Statements!Init => Statements!TypeOK
<1> SUFFICES ASSUME Statements!Init PROVE Statements!TypeOK
  OBVIOUS
<1>1. PICK p \in Pasts : status = [r \in Entries |-> IF r \in p THEN "completed" ELSE "absent"]
  BY DEF Statements!Init
<1>2. running = StartMonth /\ StartMonth \in Nat /\ DOMAIN frame_history \subseteq 1 .. StartMonth - 1
  BY StatementFacts DEF Statements!Init
<1>3. \A r \in p : EntryMonth[r] < StartMonth
  BY StatementFacts
<1>4. \A r \in Entries : EntryMonth[r] \in Nat
  BY StatementFacts
<1>5. status \in [Entries -> {"absent", "pending", "completed"}]
  BY <1>1
<1>6. \A r \in Entries : status[r] # "absent" => EntryMonth[r] <= running
  BY <1>1, <1>2, <1>3, <1>4
<1>7. DOMAIN frame_history \subseteq 1 .. running
  BY <1>2
<1>8. QED BY <1>2, <1>5, <1>6, <1>7, StatementFacts DEF Statements!Init, Statements!TypeOK

LEMMA StatementsStayTyped ==
  Statements!TypeOK /\ [Statements!Next]_(Statements!vars) => Statements!TypeOK'
<1> SUFFICES ASSUME Statements!TypeOK, [Statements!Next]_(Statements!vars) PROVE Statements!TypeOK'
  OBVIOUS
<1>0. /\ Statements!Months = 1 .. EndMonth /\ EndMonth \in Nat /\ running \in 1 .. EndMonth
      /\ \A r \in Entries : EntryMonth[r] \in Nat
  BY StatementFacts DEF Statements!TypeOK
<1>1. CASE Statements!NextMonth
  BY <1>0, <1>1 DEF Statements!NextMonth, Statements!TypeOK
<1>2. CASE \E r \in Coming : Statements!Deliver(r)
  BY <1>0, <1>2, StatementFacts DEF Statements!Deliver, Statements!TypeOK
<1>3. CASE \E r \in Coming : Statements!Settle(r)
  BY <1>3, StatementFacts DEF Statements!Settle, Statements!TypeOK
<1>4. CASE \E m \in DOMAIN Monthly : Statements!Detect(m) \/ Statements!Stops(m)
  BY <1>4 DEF Statements!Detect, Statements!Stops, Statements!TypeOK
<1>5. CASE \E a \in Frames \union {None} : Statements!PutFrame(a)
  BY <1>0, <1>5 DEF Statements!PutFrame, Statements!Declared, Statements!TypeOK
<1>6. CASE \E t \in Rates \union {None} : Statements!PutTarget(t)
  <2>1. PICK t \in Rates \union {None} : Statements!PutTarget(t)
    BY <1>6
  <2>2. savingsTargetRate' \in Nat \union {None}
    BY <2>1 DEF Statements!PutTarget
  <2>3. QED BY <2>1, <2>2 DEF Statements!PutTarget, Statements!TypeOK
<1>7. CASE UNCHANGED Statements!vars
  BY <1>7 DEF Statements!vars, Statements!TypeOK
<1>8. QED BY <1>1, <1>2, <1>3, <1>4, <1>5, <1>6, <1>7 DEF Statements!Next

(* No two statements of a month quote two numbers, what is proposed can be  *)
(* carried, and what is said of a finished month stands, whatever arrives,  *)
(* settles, is declared or detected later (frame.ts:46-50, 110-124,         *)
(* overview.ts:11-12).                                                      *)
THEOREM StatementsAreAlwaysSound == Statements!Spec => []StatementsAreSound
<1>1. Statements!TypeOK => StatementsAreSound
  BY AllAgree, PromiseHolds, SuggestionHolds, FinishedStands DEF StatementsAreSound
<1>2. QED BY <1>1, StatementsStart, StatementsStayTyped, PTL DEF Statements!Spec
================================================================================
