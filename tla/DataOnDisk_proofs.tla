---------------------------- MODULE DataOnDisk_proofs ----------------------------
(* Proofs about what keeps the user's data on the disk: the store of        *)
(* profiles, for every set of ids and of names; the restore of a database,  *)
(* for every set of contents and any litter; the copies made before an      *)
(* update, for any profiles and any number of copies kept; and the first    *)
(* start of an installation, for any set of ids.                            *)
EXTENDS MCProfileStore, FiniteSetTheorems, FunctionTheorems, TLAPS

----------------------------------------------------------------------------
(* ProfileStore: the registry, its repairs and the migration.               *)

(* Array.filter: the entries kept, all of them, each once.                  *)
LEMMA FilterKeeps ==
  ASSUME NEW S, NEW s \in Seq(S), NEW kept \in SUBSET DOMAIN s, NEW t \in Filtered(s, kept)
  PROVE  /\ t \in Seq(S)
         /\ \E at \in [DOMAIN t -> kept] :
              /\ \A n \in DOMAIN t : t[n] = s[at[n]]
              /\ \A m, n \in DOMAIN t : at[m] = at[n] => m = n
              /\ \A i \in kept : \E n \in DOMAIN t : at[n] = i
<1>1. PICK at \in InOrder(kept) : t = [n \in DOMAIN at |-> s[at[n]]]
  BY DEF Filtered
<1>2. Cardinality(kept) \in Nat
  <2>1. DOMAIN s = 1 .. Len(s) /\ Len(s) \in Nat
    OBVIOUS
  <2>2. IsFiniteSet(1 .. Len(s))
    BY <2>1, FS_Interval
  <2>3. IsFiniteSet(kept)
    BY <2>1, <2>2, FS_Subset
  <2>4. QED BY <2>3, FS_CardinalityType
<1>3. /\ at \in [1 .. Cardinality(kept) -> kept] /\ DOMAIN at = 1 .. Cardinality(kept)
      /\ \A m, n \in DOMAIN at : m < n => at[m] < at[n]
      /\ \A i \in kept : \E n \in DOMAIN at : at[n] = i
  BY <1>1 DEF InOrder
<1>4. \A n \in DOMAIN at : at[n] \in kept /\ s[at[n]] \in S /\ at[n] \in Nat
  BY <1>3
<1>5. t \in [1 .. Cardinality(kept) -> S] /\ DOMAIN t = DOMAIN at
  BY <1>1, <1>3, <1>4
<1>6. t \in Seq(S)
  BY <1>2, <1>5
<1>7. ASSUME NEW m \in DOMAIN at, NEW n \in DOMAIN at, at[m] = at[n] PROVE m = n
  <2>1. m \in Int /\ n \in Int
    BY <1>2, <1>3
  <2>2. ~(m < n) /\ ~(n < m)
    BY <1>3, <1>4, <1>7
  <2>3. QED BY <2>1, <2>2
<1>8. /\ at \in [DOMAIN t -> kept]
      /\ \A n \in DOMAIN t : t[n] = s[at[n]]
  BY <1>1, <1>3, <1>5
<1>9. /\ \A m, n \in DOMAIN t : at[m] = at[n] => m = n
      /\ \A i \in kept : \E n \in DOMAIN t : at[n] = i
  BY <1>3, <1>5, <1>7
<1>10. QED BY <1>6, <1>8, <1>9

(* An order that has every place once has every place.                      *)
LEMMA OrderIsOnto ==
  ASSUME NEW n \in Nat, NEW order \in [1 .. n -> 1 .. n],
         \A i, k \in 1 .. n : order[i] = order[k] => i = k
  PROVE  \A i \in 1 .. n : \E k \in 1 .. n : order[k] = i
<1>1. order \in Injection(1 .. n, 1 .. n)
  BY Fun_IsInj
<1>2. IsFiniteSet(1 .. n)
  BY FS_Interval
<1>3. order \in Surjection(1 .. n, 1 .. n)
  BY <1>1, <1>2, FS_Injection
<1>4. QED BY <1>3 DEF Surjection

--------------------------------------------------------------------------------
(* Every variable stays in its domain.                                      *)
LEMMA ListsOfProfiles ==
  ASSUME StoreAssumption
  PROVE  /\ <<>> \in Seq(Profile)
         /\ \A id \in Ids : <<[id |-> id, name |-> Main]>> \in Seq(Profile)
         /\ \A s \in Seq(Profile), id \in Ids, name \in Names :
              Append(s, [id |-> id, name |-> name]) \in Seq(Profile)
<1>1. \A id \in Ids, name \in Names : [id |-> id, name |-> name] \in Profile
  BY DEF Profile
<1>2. \A p \in Profile : <<p>> \in Seq(Profile)
  OBVIOUS
<1>3. \A id \in Ids : [id |-> id, name |-> Main] \in Profile
  BY <1>1 DEF StoreAssumption
<1>4. \A s \in Seq(Profile), p \in Profile : Append(s, p) \in Seq(Profile)
  OBVIOUS
<1>5. QED BY <1>1, <1>2, <1>3, <1>4

LEMMA FirstIsAnId ==
  ASSUME NEW s \in Seq(Profile)
  PROVE  FirstOrNone(s) \in Ids \union {None}
<1>1. s # <<>> => s[1] \in Profile
  OBVIOUS
<1>2. QED BY <1>1 DEF FirstOrNone, Profile

LEMMA BootKeepsTypes == ASSUME StoreAssumption PROVE TypeOK /\ StepIsTrue /\ Boot => TypeOK'
<1> SUFFICES ASSUME TypeOK, StepIsTrue, Boot PROVE TypeOK'
  OBVIOUS
<1> USE ListsOfProfiles DEF TypeOK, Steps, BootSteps, memory, disk
<1>1. CASE Start
  BY <1>1 DEF Start, Whole
<1>2. CASE ReadRegistry
  BY <1>2 DEF ReadRegistry, RegistryFile
<1>3. ASSUME NEW id \in Ids, Adopt(id) PROVE TypeOK'
  BY <1>3 DEF Adopt
<1>4. CASE EndScan
  <2>1. list' \in Seq(Profile)
    <3>1. {i \in DOMAIN list : Alive(list[i])} \in SUBSET DOMAIN list
      OBVIOUS
    <3>2. QED BY <1>4, <3>1, FilterKeeps DEF EndScan
  <2>2. active' \in Ids \union {None}
    BY <1>4, <2>1, FirstIsAnId DEF EndScan
  <2>3. QED BY <1>4, <2>1, <2>2 DEF EndScan
<1>5. CASE Settle
  BY <1>5 DEF Settle
<1>6. CASE Resume
  BY <1>6 DEF Resume, Resumable
<1>7. ASSUME NEW id \in Ids, StartMigration(id) PROVE TypeOK'
  BY <1>7 DEF StartMigration
<1>8. CASE Mark
  BY <1>8 DEF Mark
<1>9. CASE Move
  <2>1. \A i \in DOMAIN MoveOrder : MoveOrder[i] \in Whole
    BY DEF MoveOrder, Whole
  <2>2. step = "moving" /\ migrating \in Ids
    BY <1>9 DEF Move, StepIsTrue, Migrating
  <2>3. PICK file \in Whole :
          legacy' = legacy \ {file} /\ content' = [content EXCEPT ![migrating] = @ \union {file}]
    BY <1>9, <2>1 DEF Move
  <2>4. QED BY <1>9, <2>2, <2>3 DEF Move
<1>10. CASE Commit
  <2>1. migrating \in Ids
    BY <1>10 DEF Commit, StepIsTrue, Migrating
  <2>2. QED BY <1>10, <2>1 DEF Commit
<1>11. CASE Unmark
  BY <1>11 DEF Unmark
<1>12. ASSUME NEW id \in Ids, CreateFirst(id) PROVE TypeOK'
  BY <1>12 DEF CreateFirst
<1>13. QED
  BY <1>1, <1>2, <1>3, <1>4, <1>5, <1>6, <1>7, <1>8, <1>9, <1>10, <1>11, <1>12 DEF Boot

LEMMA RequestKeepsTypes == ASSUME StoreAssumption PROVE TypeOK /\ Request => TypeOK'
<1> SUFFICES ASSUME TypeOK, Request PROVE TypeOK'
  OBVIOUS
<1> USE ListsOfProfiles DEF TypeOK, Steps, BootSteps, memory, disk
<1>1. CASE Reorder
  <2>1. PICK order \in [DOMAIN list -> DOMAIN list] : list' = [i \in DOMAIN list |-> list[order[i]]]
    BY <1>1 DEF Reorder
  <2>2. Len(list) \in Nat /\ DOMAIN list = 1 .. Len(list)
    OBVIOUS
  <2>3. list' \in [1 .. Len(list) -> Profile]
    BY <2>1, <2>2
  <2>4. list' \in Seq(Profile)
    BY <2>2, <2>3
  <2>5. QED BY <1>1, <2>4 DEF Reorder
<1>2. ASSUME NEW id \in Ids, Create(id) PROVE TypeOK'
  BY <1>2 DEF Create
<1>3. ASSUME NEW id \in Ids, Update(id) PROVE TypeOK'
  <2>1. list' \in Seq(Profile)
    <3>1. ASSUME NEW i \in DOMAIN list, NEW name \in Names, list' = [list EXCEPT ![i].name = name]
          PROVE  list' \in Seq(Profile)
      <4>. list[i] \in Profile
        OBVIOUS
      <4>1. [list[i] EXCEPT !.name = name] \in Profile
        BY DEF Profile
      <4>2. list' = [list EXCEPT ![i] = [list[i] EXCEPT !.name = name]]
        BY <3>1
      <4>3. QED BY <4>1, <4>2
    <3>2. QED BY <1>3, <3>1 DEF Update
  <2>2. registry' \in {None} \union RegistryFile
    BY <1>3, <2>1 DEF Update, RegistryFile
  <2>3. QED BY <1>3, <2>1, <2>2 DEF Update
<1>4. ASSUME NEW id \in Ids, SetActive(id) PROVE TypeOK'
  BY <1>4 DEF SetActive
<1>5. ASSUME NEW id \in Ids, SoftDelete(id) PROVE TypeOK'
  <2>1. list' \in Seq(Profile)
    <3>1. Others(id) \in SUBSET DOMAIN list
      BY DEF Others
    <3>2. QED BY <1>5, <3>1, FilterKeeps DEF SoftDelete
  <2>2. active' \in Ids \union {None}
    BY <1>5, <2>1, FirstIsAnId DEF SoftDelete
  <2>3. QED BY <1>5, <2>1, <2>2 DEF SoftDelete
<1>6. ASSUME NEW id \in Ids, SoftDeleteFails(id) PROVE TypeOK'
  BY <1>6 DEF SoftDeleteFails
<1>7. ASSUME NEW id \in Ids, OpenDatabase(id) PROVE TypeOK'
  BY <1>7 DEF OpenDatabase, Whole
<1>8. QED BY <1>1, <1>2, <1>3, <1>4, <1>5, <1>6, <1>7 DEF Request

LEMMA InitHasTypes == ASSUME StoreAssumption PROVE Init => TypeOK
<1> SUFFICES ASSUME Init PROVE TypeOK
  OBVIOUS
<1>1. registry \in {None} \union RegistryFile
  <2>1. ASSUME NEW id \in Ids, registry = [profiles |-> <<[id |-> id, name |-> Main]>>, active |-> id]
        PROVE  registry \in RegistryFile
    BY <2>1, ListsOfProfiles DEF RegistryFile
  <2>2. QED BY <2>1 DEF Init
<1>2. place \in [Ids -> {"nowhere", "profiles", "deleted"}]
  BY DEF Init
<1>3. content \in [Ids -> SUBSET (Whole \union {"marker"})]
  BY DEF Init, Whole
<1>4. legacy \in SUBSET Whole
  BY DEF Init, Whole
<1>5. QED BY <1>1, <1>2, <1>3, <1>4, ListsOfProfiles DEF Init, TypeOK, Steps

--------------------------------------------------------------------------------
(* The invariant.                                                           *)

LEMMA InitEstablishes == ASSUME StoreAssumption PROVE Init => Inv
<1> SUFFICES ASSUME Init PROVE Inv
  OBVIOUS
<1>1. list = <<>> /\ Named(list) = {} /\ Distinct(list) /\ step = "down"
  BY DEF Init, Named, Distinct
<1>2. CASE /\ registry = None
           /\ place = [id \in Ids |-> "nowhere"]
           /\ content = [id \in Ids |-> {}]
           /\ legacy \in {{}, Whole, Whole \ {"database"}}
  <2>1. Marked = {} /\ InRegistry = {}
    BY <1>2 DEF Marked, InRegistry
  <2>2. QED
    BY <1>1, <1>2, <2>1 DEF Init, Inv, ListsAreDistinct, DirectoriesAreWhole, MarkedIsMigrating,
       UnmarkedIsSettled, StepIsTrue, Off, Empty, Whole
<1>3. ASSUME NEW id \in Ids,
             registry = [profiles |-> <<[id |-> id, name |-> Main]>>, active |-> id],
             place = [[i \in Ids |-> "nowhere"] EXCEPT ![id] = "profiles"],
             content = [[i \in Ids |-> {}] EXCEPT ![id] = {"database"}],
             legacy = {"database"}
      PROVE  Inv
  <2>1. Marked = {}
    BY <1>3 DEF Marked
  <2>2. Holds(id)
    BY <1>3 DEF Holds
  <2>3. Distinct(registry.profiles)
    BY <1>3 DEF Distinct
  <2>4. DirectoriesAreWhole
    BY <1>3, <2>1 DEF DirectoriesAreWhole, Whole
  <2>5. UnmarkedIsSettled
    BY <1>3, <2>2 DEF UnmarkedIsSettled, Whole
  <2>6. QED
    BY <1>1, <2>1, <2>3, <2>4, <2>5 DEF Init, Inv, ListsAreDistinct, MarkedIsMigrating, StepIsTrue, Off
<1>4. QED BY <1>2, <1>3 DEF Init

(* What becomes of the names of a list.                                     *)
LEMMA AppendedIsNamed ==
  ASSUME NEW s \in Seq(Profile), NEW id \in Ids, NEW name \in Names, Distinct(s),
         \A i \in DOMAIN s : s[i].id # id /\ s[i].name # name,
         NEW t, t = Append(s, [id |-> id, name |-> name])
  PROVE  Named(t) = Named(s) \union {id} /\ Distinct(t) /\ t # <<>>
<1>1. /\ DOMAIN s = 1 .. Len(s) /\ DOMAIN t = 1 .. Len(s) + 1 /\ Len(s) \in Nat
      /\ \A i \in DOMAIN s : t[i] = s[i]
      /\ t[Len(s) + 1] = [id |-> id, name |-> name]
  OBVIOUS
<1>2. Len(s) + 1 \in DOMAIN t /\ DOMAIN t = DOMAIN s \union {Len(s) + 1}
  BY <1>1
<1>3. Named(t) = Named(s) \union {id}
  BY <1>1, <1>2 DEF Named
<1>4. Distinct(t)
  BY <1>1, <1>2 DEF Distinct
<1>5. QED BY <1>1, <1>2, <1>3, <1>4

LEMMA FilteredIsNamed ==
  ASSUME NEW s \in Seq(Profile), Distinct(s), NEW kept \in SUBSET DOMAIN s,
         NEW t \in Filtered(s, kept)
  PROVE  Named(t) = {s[i].id : i \in kept} /\ Distinct(t)
<1>1. PICK at \in [DOMAIN t -> kept] :
        /\ \A n \in DOMAIN t : t[n] = s[at[n]]
        /\ \A m, n \in DOMAIN t : at[m] = at[n] => m = n
        /\ \A i \in kept : \E n \in DOMAIN t : at[n] = i
  BY FilterKeeps
<1>2. Named(t) = {s[i].id : i \in kept}
  BY <1>1 DEF Named
<1>3. QED BY <1>1, <1>2 DEF Distinct

(* The first profile of a list is named in it.                              *)
LEMMA FirstIsNamed ==
  ASSUME NEW s \in Seq(Profile), s # <<>>
  PROVE  FirstOrNone(s) \in Named(s)
<1>1. 1 \in DOMAIN s
  OBVIOUS
<1>2. QED BY <1>1 DEF FirstOrNone, Named

LEMMA EmptyIsUnnamed ==
  ASSUME NEW s \in Seq(Profile)
  PROVE  s = <<>> <=> Named(s) = {}
<1>1. s # <<>> => 1 \in DOMAIN s
  OBVIOUS
<1>2. s = <<>> => DOMAIN s = {}
  OBVIOUS
<1>3. QED BY <1>1, <1>2 DEF Named

(* Reading the registry, and what does not touch the disk.                  *)
LEMMA StartKeepsInv == ASSUME TypeOK, Inv, Start PROVE Inv'
<1>1. Marked' = Marked /\ Named(list)' = Named(list) /\ InRegistry' = InRegistry
  BY DEF Start, memory, Marked, Named, InRegistry
<1>2. legacy' = legacy \/ (legacy = Whole \ {"database"} /\ legacy' = Whole /\ Marked = {})
  BY DEF Start, Inv, MarkedIsMigrating, UnmarkedIsSettled, Whole, TypeOK
<1>3. QED
  BY <1>1, <1>2 DEF Start, memory, Inv, ListsAreDistinct, DirectoriesAreWhole, MarkedIsMigrating,
     UnmarkedIsSettled, StepIsTrue, Off, Empty, Holds, Whole

LEMMA ReadRegistryKeepsInv == ASSUME TypeOK, Inv, ReadRegistry PROVE Inv'
<1>1. Marked' = Marked /\ InRegistry' = InRegistry /\ Named(list)' = InRegistry
  BY DEF ReadRegistry, disk, Marked, Named, InRegistry
<1>2. Distinct(list)'
  BY DEF ReadRegistry, Inv, ListsAreDistinct, Distinct
<1>3. Empty(registry) => InRegistry = {}
  BY DEF Empty, InRegistry, Named
<1>4. QED
  BY <1>1, <1>2, <1>3 DEF ReadRegistry, disk, Inv, ListsAreDistinct, DirectoriesAreWhole,
     MarkedIsMigrating, UnmarkedIsSettled, StepIsTrue, Empty, Holds

LEMMA AdoptKeepsInv ==
  ASSUME StoreAssumption, TypeOK, TypeOK', Inv, NEW id \in Ids, Adopt(id) PROVE Inv'
<1>1. PICK name \in Names : ~Taken(name) /\ list' = Append(list, [id |-> id, name |-> name])
  BY DEF Adopt
<1>2. UNCHANGED <<step, active, disk, migrating, reply>> /\ step = "scanning" /\ Adoptable(id)
  BY DEF Adopt
<1>3. Named(list)' = Named(list) \union {id} /\ Distinct(list)'
  <2>1. list \in Seq(Profile) /\ Distinct(list)
    BY DEF TypeOK, Inv, ListsAreDistinct
  <2>2. \A i \in DOMAIN list : list[i].id # id /\ list[i].name # name
    BY <1>1, <1>2 DEF Adoptable, Registered, Taken
  <2>3. QED BY <1>1, <2>1, <2>2, AppendedIsNamed
<1>5. Marked' = Marked /\ InRegistry' = InRegistry
  BY <1>2 DEF disk, Marked, InRegistry, Named
<1>6. Marked = {}
  BY <1>2 DEF Inv, MarkedIsMigrating, Adoptable, Marked
<1>7. legacy \notin {Whole, Whole \ {"database"}}
  BY <1>2, <1>6 DEF Inv, UnmarkedIsSettled, Adoptable
<1>8. QED
  BY <1>2, <1>3, <1>5, <1>6, <1>7 DEF disk, Inv, ListsAreDistinct, DirectoriesAreWhole,
     MarkedIsMigrating, UnmarkedIsSettled, StepIsTrue, Holds

(* The end of load: what is listed is there, and what is there is listed.   *)
LEMMA EndScanKeepsInv == ASSUME TypeOK, TypeOK', Inv, EndScan PROVE Inv'
<1> DEFINE alive == {i \in DOMAIN list : Alive(list[i])}
<1>1. /\ step = "scanning" /\ list' \in Filtered(list, alive)
      /\ \A id \in Ids : ~Adoptable(id)
      /\ active' = IF \E i \in DOMAIN list' : list'[i].id = active THEN active ELSE FirstOrNone(list')
      /\ UNCHANGED <<registry, legacy, migrating, reply>>
  BY DEF EndScan
<1>2. \A id \in Ids :
        /\ place'[id] = IF place[id] = "profiles" /\ ~Registered(id) /\ content[id] = {}
                        THEN "nowhere" ELSE place[id]
        /\ content'[id] = IF Registered(id) THEN content[id] \ {"marker"} ELSE content[id]
  BY DEF EndScan
<1>3. list \in Seq(Profile) /\ list' \in Seq(Profile) /\ Distinct(list)
  BY DEF TypeOK, Inv, ListsAreDistinct
<1>4. Named(list)' = {list[i].id : i \in alive} /\ Distinct(list)'
  BY <1>1, <1>3, FilteredIsNamed
<1>5. \A id \in Ids : Registered(id)' <=> Registered(id) /\ place[id] = "profiles"
  <2>1. \A id \in Ids : Registered(id)' <=> id \in Named(list)'
    BY DEF Registered, Named
  <2>2. QED BY <1>4, <2>1 DEF Registered, Alive
<1>6. Marked' = {id \in Marked : ~Registered(id)}
  BY <1>2 DEF Marked
<1>7. InRegistry' = InRegistry
  BY <1>1 DEF InRegistry, Named
<1>8. Named(list)' \subseteq Named(list)
  BY <1>4 DEF Named
<1>9. \A a \in Marked : Registered(a) => legacy = {}
  BY DEF Inv, MarkedIsMigrating, Registered, Named
<1>10. DirectoriesAreWhole'
  <2>1. \A a \in Marked : Registered(a) => Whole \subseteq content'[a]
    BY <1>2, <1>9 DEF Inv, MarkedIsMigrating, Marked, Whole
  <2>2. QED BY <1>2, <1>6, <2>1 DEF Inv, DirectoriesAreWhole, Whole, Marked
<1>11. MarkedIsMigrating'
  BY <1>1, <1>2, <1>6, <1>7, <1>8 DEF Inv, MarkedIsMigrating, Marked
<1>12. UnmarkedIsSettled'
  <2>1. CASE Marked = {}
    <3>1. \A id \in Ids : content'[id] = content[id]
      BY <1>2, <2>1 DEF Marked
    <3>2. (\E id \in Ids : Holds(id)) => \E id \in Ids : Holds(id)'
      BY <1>2, <3>1 DEF Holds
    <3>3. QED BY <1>1, <1>8, <2>1, <3>1, <3>2 DEF Inv, UnmarkedIsSettled, Empty
  <2>2. CASE Marked # {} /\ Marked' = {}
    BY <1>1, <1>6, <1>9, <2>2, Z3 DEF UnmarkedIsSettled, Whole
  <2>3. QED BY <2>1, <2>2 DEF UnmarkedIsSettled
<1>13. Scanned'
  <2>1. \A id \in Ids : Registered(id)' => place'[id] = "profiles" /\ "marker" \notin content'[id]
    BY <1>2, <1>5
  <2>2. \A id \in Ids : Holds(id)' /\ "marker" \notin content'[id] => Registered(id)'
    BY <1>1, <1>2, <1>5 DEF Holds, Adoptable
  <2>3. \A id \in Ids : place'[id] = "profiles" => Registered(id)' \/ content'[id] # {}
    BY <1>2, <1>5
  <2>4. IF list' = <<>> THEN active' = None ELSE Registered(active)'
    BY <1>1, <1>3, FirstIsNamed DEF FirstOrNone, Registered, Named
  <2>5. QED BY <2>1, <2>2, <2>3, <2>4 DEF Scanned
<1>14. StepIsTrue'
  BY <1>1, <1>13 DEF EndScan, StepIsTrue, Saved
<1>15. QED
  BY <1>1, <1>4, <1>10, <1>11, <1>12, <1>14 DEF Inv, ListsAreDistinct

(* migrateLegacyIntoProfile.                                                *)
LEMMA SettleKeepsInv == ASSUME TypeOK, Inv, Settle PROVE Inv'
<1>1. Named(list) # {} /\ Scanned /\ Saved
  BY EmptyIsUnnamed DEF Settle, Inv, StepIsTrue, TypeOK
<1>2. Marked = {}
  <2> SUFFICES ASSUME NEW a \in Marked PROVE FALSE
    OBVIOUS
  <2>1. a \in Ids /\ a \in Named(list)
    BY <1>1 DEF Inv, MarkedIsMigrating, Marked
  <2>2. QED BY <1>1, <2>1 DEF Scanned, Marked, Named, Registered
<1>3. legacy \in {{}, {"database"}}
  BY <1>1, <1>2 DEF Inv, UnmarkedIsSettled, StepIsTrue, Settle
<1>4. legacy' = {}
  BY <1>3 DEF Settle, Siblings
<1>5. Running'
  BY <1>1, <1>2, <1>4 DEF Settle, memory, Scanned, Running, Registered, Holds, Marked
<1>6. Marked' = {}
  BY <1>2 DEF Settle, Marked
<1>7. QED
  BY <1>1, <1>4, <1>5, <1>6 DEF Settle, memory, Inv, ListsAreDistinct, DirectoriesAreWhole,
     MarkedIsMigrating, UnmarkedIsSettled, StepIsTrue, Saved, Marked, Whole

LEMMA ResumeKeepsInv == ASSUME TypeOK, Inv, Resume PROVE Inv'
<1>1. Migrating' /\ migrating' \in Marked
  BY DEF Resume, Resumable, memory, disk, Migrating, Marked, Inv, StepIsTrue, Scanned, Saved, Empty
<1>2. Marked' = Marked /\ InRegistry' = InRegistry /\ Named(list)' = Named(list)
  BY DEF Resume, memory, disk, Marked, InRegistry, Named
<1>3. QED
  BY <1>1, <1>2 DEF Resume, memory, disk, Inv, ListsAreDistinct, DirectoriesAreWhole,
     MarkedIsMigrating, UnmarkedIsSettled, StepIsTrue, Empty, Holds

(* There is no marked directory when nothing can be resumed.                *)
LEMMA NothingToResume == ASSUME Inv, Resumable = {} PROVE Marked = {}
BY DEF Inv, MarkedIsMigrating, Resumable, Marked

(* A migration starts only when no directory holds anything.                *)
LEMMA StartMigrationKeepsInv ==
  ASSUME TypeOK, Inv, NEW id \in Ids, StartMigration(id) PROVE Inv'
<1>1. Marked = {} /\ Scanned /\ list = <<>> /\ Named(list) = {}
  BY NothingToResume DEF StartMigration, Inv, StepIsTrue, Named
<1>2. legacy = Whole
  BY <1>1 DEF StartMigration, Inv, UnmarkedIsSettled, StepIsTrue, Scanned, Holds, Registered, Marked
<1>3. \A i \in Ids : content[i] = {} /\ place[i] # "profiles"
  BY <1>1, <1>2 DEF Inv, UnmarkedIsSettled, Scanned, Registered
<1>4. Marked' = Marked /\ InRegistry' = InRegistry /\ Named(list)' = Named(list)
  BY DEF StartMigration, memory, Marked, InRegistry, Named
<1>5. Migrating'
  BY <1>1 DEF StartMigration, memory, Migrating, Inv, StepIsTrue, Scanned, Saved, Empty
<1>6. \A i \in Ids : place'[i] = "profiles" <=> i = id
  BY <1>3 DEF StartMigration, TypeOK
<1>7. DirectoriesAreWhole'
  BY <1>3 DEF StartMigration, DirectoriesAreWhole
<1>8. UnmarkedIsSettled'
  <2>1. legacy' = Whole /\ Whole # {"database"} /\ Whole # Whole \ {"database"}
    BY <1>2 DEF StartMigration, Whole
  <2>2. (\A i \in Ids : content[i] = {})' /\ Named(list)' = {} /\ Empty(registry)'
    BY <1>1, <1>3, <1>4, <1>5 DEF StartMigration, Migrating
  <2>3. QED BY <2>1, <2>2 DEF UnmarkedIsSettled
<1>9. QED
  BY <1>1, <1>2, <1>4, <1>5, <1>6, <1>7, <1>8 DEF StartMigration, memory, Inv, ListsAreDistinct,
     MarkedIsMigrating, StepIsTrue

LEMMA MarkKeepsInv == ASSUME TypeOK, Inv, Mark PROVE Inv'
<1>1. /\ Migrating /\ Marked = {} /\ legacy = Whole
      /\ \A id \in Ids : place[id] = "profiles" <=> id = migrating
      /\ \A id \in Ids : content[id] = {}
  BY DEF Mark, Inv, StepIsTrue, UnmarkedIsSettled
<1>2. Marked' = {migrating}
  BY <1>1 DEF Mark, Migrating, Marked, TypeOK
<1>3. Named(list) = {} /\ InRegistry = {}
  BY <1>1 DEF Migrating, Named, InRegistry, Empty
<1>4. InRegistry' = InRegistry /\ Named(list)' = Named(list)
  BY DEF Mark, memory, InRegistry, Named
<1>5. content' = [id \in Ids |-> IF id = migrating THEN {"marker"} ELSE {}]
  BY <1>1 DEF Mark, Migrating, TypeOK
<1>6. MarkedIsMigrating'
  BY <1>1, <1>2, <1>3, <1>4, <1>5 DEF Mark, Migrating, MarkedIsMigrating, Whole
<1>7. DirectoriesAreWhole'
  BY <1>1, <1>2, <1>5 DEF Mark, Migrating, DirectoriesAreWhole
<1>8. QED
  BY <1>1, <1>2, <1>6, <1>7 DEF Mark, memory, Inv, ListsAreDistinct, UnmarkedIsSettled, StepIsTrue,
     Migrating, Empty

(* One file moves; the database moves when it is the last.                  *)
LEMMA MoveKeepsInv == ASSUME TypeOK, Inv, Move PROVE Inv'
<1>1. migrating \in Marked /\ Migrating /\ step = "moving"
  BY DEF Move, Inv, StepIsTrue
<1>2. /\ content[migrating] \ {"marker"} = Whole \ legacy /\ "marker" \in content[migrating]
      /\ \A b \in Ids \ {migrating} : b \notin Marked /\ (place[b] = "profiles" => content[b] = {})
  BY <1>1 DEF Inv, MarkedIsMigrating, Marked
<1>3. PICK file \in Whole :
        /\ file \in legacy
        /\ file = "database" => legacy = {"database"}
        /\ legacy' = legacy \ {file}
        /\ content' = [content EXCEPT ![migrating] = @ \union {file}]
  <2>1. PICK i \in DOMAIN MoveOrder :
          /\ MoveOrder[i] \in Movable /\ \A k \in 1 .. (i - 1) : MoveOrder[k] \notin Movable
          /\ legacy' = legacy \ {MoveOrder[i]}
          /\ content' = [content EXCEPT ![migrating] = @ \union {MoveOrder[i]}]
    BY DEF Move
  <2>2. Movable = legacy
    BY <1>2 DEF Movable, TypeOK, Whole
  <2>3. /\ DOMAIN MoveOrder = 1 .. 4
        /\ MoveOrder[1] = "backups" /\ MoveOrder[2] = "credentials"
        /\ MoveOrder[3] = "rollback" /\ MoveOrder[4] = "database"
    BY DEF MoveOrder
  <2>4. MoveOrder[i] = "database" => i = 4
    BY <2>3
  <2>5. i = 4 => legacy \subseteq {"database"}
    BY <2>1, <2>2, <2>3 DEF TypeOK, Whole
  <2>6. MoveOrder[i] \in Whole
    BY <2>3 DEF Whole
  <2>7. QED BY <2>1, <2>2, <2>4, <2>5, <2>6
<1>4. \A id \in Ids : content'[id] = IF id = migrating THEN content[id] \union {file} ELSE content[id]
  BY <1>1, <1>3 DEF TypeOK, Migrating
<1>5. Marked' = Marked /\ Marked = {migrating}
  BY <1>1, <1>2, <1>3, <1>4 DEF Marked, Whole
<1>6. InRegistry' = InRegistry /\ Named(list)' = Named(list)
  BY DEF Move, memory, InRegistry, Named
<1>7. Named(list) = {} /\ InRegistry = {}
  BY <1>1 DEF Migrating, Named, InRegistry, Empty
<1>8. MarkedIsMigrating'
  <2>1. content'[migrating] \ {"marker"} = Whole \ legacy'
    BY <1>1, <1>2, <1>3, <1>4, <1>5 DEF Marked, Whole
  <2>2. legacy' # {} => "database" \in legacy'
    BY <1>1, <1>3 DEF Inv, MarkedIsMigrating
  <2>3. place[migrating] = "profiles" /\ place' = place
    BY <1>1 DEF Move, Inv, MarkedIsMigrating
  <2>4. \A b \in Ids \ {migrating} : place'[b] = "profiles" => content'[b] = {}
    BY <1>2, <1>4, <2>3
  <2>5. QED BY <1>5, <1>6, <1>7, <2>1, <2>2, <2>3, <2>4 DEF MarkedIsMigrating
<1>9. DirectoriesAreWhole'
  BY <1>4, <1>5, <1>1 DEF Move, Inv, DirectoriesAreWhole, MarkedIsMigrating
<1>10. QED
  BY <1>1, <1>5, <1>8, <1>9 DEF Move, memory, Inv, ListsAreDistinct, UnmarkedIsSettled, StepIsTrue,
     Migrating, Empty

LEMMA CommitKeepsInv == ASSUME StoreAssumption, TypeOK, Inv, Commit PROVE Inv'
<1>1. migrating \in Marked /\ Migrating
  BY DEF Commit, Inv, StepIsTrue
<1>2. legacy = {}
  BY <1>1 DEF Commit, Movable, Inv, MarkedIsMigrating, TypeOK, Whole
<1>3. Named(list)' = {migrating} /\ Distinct(list)'
  BY DEF Commit, Named, Distinct
<1>4. Marked' = Marked /\ InRegistry' = InRegistry
  BY DEF Commit, disk, Marked, InRegistry, Named
<1>5. InRegistry = {}
  BY <1>1 DEF Migrating, Named, InRegistry, Empty
<1>6. QED
  BY <1>1, <1>2, <1>3, <1>4, <1>5 DEF Commit, disk, Inv, ListsAreDistinct, DirectoriesAreWhole,
     MarkedIsMigrating, UnmarkedIsSettled, StepIsTrue, Migrated, Migrating

LEMMA UnmarkKeepsInv == ASSUME TypeOK, Inv, Unmark PROVE Inv'
<1>1. Migrated /\ migrating \in Marked /\ migrating \in Ids /\ legacy = {} /\ Saved
  BY DEF Unmark, Inv, StepIsTrue, Marked
<1>2. \A id \in Ids :
        content'[id] = IF id = migrating THEN content[id] \ {"marker"} ELSE content[id]
  BY <1>1 DEF Unmark, TypeOK
<1>3. Marked' = {}
  BY <1>1, <1>2 DEF Inv, MarkedIsMigrating, Marked
<1>4. Whole \subseteq content'[migrating]
  BY <1>1, <1>2 DEF Inv, MarkedIsMigrating, Marked, Whole
<1>5. DirectoriesAreWhole'
  BY <1>1, <1>2, <1>4 DEF Unmark, Inv, DirectoriesAreWhole, MarkedIsMigrating, Whole
<1>6. Named(list) = {migrating} /\ \A id \in Ids : Registered(id) <=> id = migrating
  BY <1>1 DEF Migrated, Named, Registered
<1>7. Running'
  <2>1. list' # <<>> /\ Registered(active)'
    BY <1>1, <1>6 DEF Unmark, memory, Migrated, Registered
  <2>2. \A id \in Ids : Registered(id)' => place'[id] = "profiles"
    BY <1>1, <1>6 DEF Unmark, memory, Registered, Inv, MarkedIsMigrating
  <2>3. \A id \in Ids : Holds(id)' => Registered(id)'
    BY <1>1, <1>2, <1>6 DEF Unmark, memory, Registered, Holds, Inv, MarkedIsMigrating
  <2>4. QED BY <1>1, <2>1, <2>2, <2>3 DEF Unmark, Running
<1>8. QED
  BY <1>1, <1>3, <1>5, <1>7 DEF Unmark, memory, Inv, ListsAreDistinct, MarkedIsMigrating,
     UnmarkedIsSettled, StepIsTrue, Saved, Whole

LEMMA CreateFirstKeepsInv ==
  ASSUME TypeOK, Inv, NEW id \in Ids, CreateFirst(id) PROVE Inv'
<1>1. Marked = {} /\ Scanned /\ list = <<>>
  BY NothingToResume DEF CreateFirst, Inv, StepIsTrue
<1>2. legacy = {}
  BY <1>1 DEF CreateFirst, Inv, UnmarkedIsSettled, Whole
<1>3. content[id] = {} /\ \A i \in Ids : ~Holds(i)
  BY <1>1 DEF CreateFirst, Fresh, Scanned, Registered, Inv, DirectoriesAreWhole, Marked
<1>4. Named(list)' = {id} /\ Distinct(list)' /\ \A i \in Ids : Registered(i)' <=> i = id
  BY DEF CreateFirst, Named, Distinct, Registered
<1>5. Marked' = Marked
  BY DEF CreateFirst, Marked
<1>6. Running'
  BY <1>2, <1>3, <1>4 DEF CreateFirst, Running, Holds, Registered, TypeOK
<1>7. DirectoriesAreWhole'
  BY <1>5 DEF CreateFirst, Inv, DirectoriesAreWhole, TypeOK
<1>8. QED
  BY <1>1, <1>2, <1>4, <1>5, <1>6, <1>7 DEF CreateFirst, Inv, ListsAreDistinct, MarkedIsMigrating,
     UnmarkedIsSettled, StepIsTrue, Whole

--------------------------------------------------------------------------------
(* persist, and what ends a boot or takes the registry away.                *)
LEMMA SameDirectories ==
  ASSUME Inv, UNCHANGED <<place, content, legacy>>
  PROVE  DirectoriesAreWhole' /\ Marked' = Marked
BY DEF Inv, DirectoriesAreWhole, Marked

LEMMA PersistKeepsInv == ASSUME TypeOK, Inv, Persist PROVE Inv'
<1>1. /\ UNCHANGED <<list, active, place, content, legacy, migrating>>
      /\ registry' = [profiles |-> list, active |-> active]
  BY DEF Persist, memory
<1>2. Marked' = Marked /\ DirectoriesAreWhole'
  BY <1>1, SameDirectories
<1>3. Named(list)' = Named(list) /\ InRegistry' \subseteq Named(list)
  BY <1>1 DEF Named, InRegistry
<1>4. ListsAreDistinct'
  BY <1>1 DEF Inv, ListsAreDistinct, Distinct
<1>5. MarkedIsMigrating'
  BY <1>1, <1>2, <1>3 DEF Inv, MarkedIsMigrating
<1>6. UnmarkedIsSettled'
  <2>1. CASE step = "loadSaving"
    <3>1. Named(list) = {} => Empty(registry)'
      BY <1>1, <2>1, EmptyIsUnnamed DEF Inv, StepIsTrue, Scanned, Empty, TypeOK
    <3>2. QED BY <1>1, <1>2, <1>3, <2>1, <3>1 DEF Inv, UnmarkedIsSettled, Holds
  <2>2. CASE step # "loadSaving"
    <3>1. legacy = {}
      BY <2>2 DEF Persist, Inv, StepIsTrue, Running
    <3>2. QED BY <1>1, <3>1 DEF UnmarkedIsSettled, Whole
  <2>3. QED BY <2>1, <2>2
<1>7. StepIsTrue'
  BY <1>1, <1>2 DEF Persist, AfterSaving, Inv, StepIsTrue, Scanned, Running, Migrated, Saved,
     Registered, Holds
<1>8. QED BY <1>2, <1>4, <1>5, <1>6, <1>7 DEF Inv

LEMMA PersistFailsKeepsInv == ASSUME TypeOK, Inv, PersistFails PROVE Inv'
BY DEF PersistFails, memory, disk, Inv, ListsAreDistinct, DirectoriesAreWhole, MarkedIsMigrating,
   UnmarkedIsSettled, StepIsTrue, Running, Marked, InRegistry, Named, Distinct, Registered, Holds, Empty

LEMMA CrashKeepsInv == ASSUME TypeOK, Inv, Crash PROVE Inv'
<1>1. UNCHANGED <<registry, place, content, legacy>> /\ step' = "down" /\ Off'
  BY DEF Crash, disk, Off
<1>2. Marked' = Marked /\ DirectoriesAreWhole'
  BY <1>1, SameDirectories
<1>3. Named(list)' = {} /\ Distinct(list)' /\ InRegistry' = InRegistry
  BY <1>1 DEF Off, Named, Distinct, InRegistry
<1>4. QED
  BY <1>1, <1>2, <1>3 DEF Inv, ListsAreDistinct, MarkedIsMigrating, UnmarkedIsSettled, StepIsTrue,
     Holds, Empty

LEMMA LoseRegistryKeepsInv == ASSUME TypeOK, Inv, LoseRegistry PROVE Inv'
<1>1. /\ UNCHANGED <<step, list, active, place, content, legacy, migrating>>
      /\ registry' = None /\ step = "down"
  BY DEF LoseRegistry, memory
<1>2. Marked' = Marked /\ DirectoriesAreWhole'
  BY <1>1, SameDirectories
<1>3. Named(list)' = Named(list) /\ InRegistry' = {} /\ Empty(registry)' /\ Off'
  BY <1>1 DEF Named, InRegistry, Empty, Inv, StepIsTrue, Off
<1>4. QED
  BY <1>1, <1>2, <1>3 DEF Inv, ListsAreDistinct, MarkedIsMigrating, UnmarkedIsSettled, StepIsTrue,
     Holds

--------------------------------------------------------------------------------
(* The requests: nothing is marked, and nothing lies at the old place.      *)
LEMMA ServingKeepsInv ==
  ASSUME TypeOK, Inv, step = "ready", step' \in {"ready", "saving"},
         UNCHANGED <<legacy, migrating>>, ListsAreDistinct', DirectoriesAreWhole',
         Running', Marked' = {}, step' = "ready" /\ reply' = "ok" => Saved'
  PROVE  Inv'
BY DEF Inv, StepIsTrue, Running, MarkedIsMigrating, UnmarkedIsSettled, Whole

LEMMA RequestKeepsInv == ASSUME TypeOK, TypeOK', Inv, Request PROVE Inv'
<1>1. step = "ready" /\ Running /\ Marked = {} /\ (reply = "ok" => Saved)
  BY DEF Request, Reorder, Create, Update, SetActive, SoftDelete, SoftDeleteFails, OpenDatabase,
     Inv, StepIsTrue
<1>2. list \in Seq(Profile) /\ list' \in Seq(Profile) /\ Distinct(list)
  BY DEF TypeOK, Inv, ListsAreDistinct
<1>3. \A id \in Ids : Registered(id) <=> id \in Named(list)
  BY DEF Registered, Named
<1>4. CASE Reorder
  <2>1. PICK order \in [DOMAIN list -> DOMAIN list] :
          /\ \A i, k \in DOMAIN list : order[i] = order[k] => i = k
          /\ list' = [i \in DOMAIN list |-> list[order[i]]]
    BY <1>4 DEF Reorder
  <2>2. UNCHANGED <<active, registry, place, content, legacy, migrating, reply>> /\ step' = "saving"
    BY <1>4 DEF Reorder, disk
  <2>3. DOMAIN list = 1 .. Len(list) /\ Len(list) \in Nat /\ DOMAIN list' = DOMAIN list
    BY <1>2, <2>1
  <2>4. \A i \in DOMAIN list : \E k \in DOMAIN list : order[k] = i
    <3> DEFINE n == Len(list)
    <3>1. n \in Nat /\ order \in [1 .. n -> 1 .. n]
      BY <2>1, <2>3
    <3>2. \A i, k \in 1 .. n : order[i] = order[k] => i = k
      BY <2>1, <2>3
    <3>3. DOMAIN list = 1 .. n
      BY <2>3
    <3> HIDE DEF n
    <3>4. \A i \in 1 .. n : \E k \in 1 .. n : order[k] = i
      BY <3>1, <3>2, OrderIsOnto
    <3>5. QED BY <3>3, <3>4
  <2>5. \A id : Registered(id)' <=> Registered(id)
    BY <2>1, <2>3, <2>4, SMTT(30) DEF Registered
  <2>6. Distinct(list)'
    BY <1>2, <2>1, <2>3 DEF Distinct
  <2>7. Running'
    <3>1. list' # <<>>
      BY <1>1, <1>2, <2>3 DEF Running
    <3>2. QED BY <1>1, <2>2, <2>5, <3>1 DEF Running, Holds
  <2>8. QED
    BY <1>1, <2>2, <2>6, <2>7, SameDirectories, ServingKeepsInv DEF Inv, ListsAreDistinct
<1>5. ASSUME NEW id \in Ids, Create(id) PROVE Inv'
  <2>1. PICK name \in Names : ~Taken(name) /\ list' = Append(list, [id |-> id, name |-> name])
    BY <1>5 DEF Create
  <2>2. Named(list)' = Named(list) \union {id} /\ Distinct(list)' /\ list' # <<>>
    <3>1. \A i \in DOMAIN list : list[i].id # id /\ list[i].name # name
      BY <1>5, <2>1 DEF Create, Fresh, Registered, Taken
    <3>2. QED BY <1>2, <2>1, <3>1, AppendedIsNamed
  <2>3. \A i : Registered(i)' <=> Registered(i) \/ i = id
    BY <2>2 DEF Registered, Named
  <2>4. DirectoriesAreWhole' /\ Marked' = {}
    BY <1>1, <1>5 DEF Create, Inv, DirectoriesAreWhole, TypeOK, Marked
  <2>5. Running'
    BY <1>1, <1>5, <2>2, <2>3 DEF Create, Running, Holds, TypeOK
  <2>6. QED
    BY <1>1, <1>5, <2>2, <2>4, <2>5, ServingKeepsInv DEF Create, Inv, ListsAreDistinct
<1>6. ASSUME NEW id \in Ids, Update(id) PROVE Inv'
  <2>1. CASE UNCHANGED <<list, registry>> /\ reply' = "failed"
    <3>1. UNCHANGED <<step, active, place, content, legacy, migrating>>
      BY <1>6 DEF Update
    <3>2. Running' /\ ListsAreDistinct'
      BY <1>1, <2>1, <3>1 DEF Running, Registered, Holds, Inv, ListsAreDistinct, Distinct
    <3>3. QED BY <1>1, <2>1, <3>1, <3>2, SameDirectories, ServingKeepsInv
  <2>2. ASSUME NEW i \in DOMAIN list, NEW name \in Names,
               Taken(name) => list[i].name = name,
               list' = [list EXCEPT ![i].name = name],
               registry' = [profiles |-> list', active |-> active],
               UNCHANGED <<step, active, place, content, legacy, migrating>>
        PROVE  Inv'
    <3>1. /\ DOMAIN list' = DOMAIN list
          /\ \A k \in DOMAIN list : list'[k].id = list[k].id
          /\ \A k \in DOMAIN list : list'[k].name = IF k = i THEN name ELSE list[k].name
      BY <1>2, <2>2 DEF Profile
    <3>2. Distinct(list)'
      BY <1>2, <2>2, <3>1 DEF Distinct, Taken
    <3>3. \A k : Registered(k)' <=> Registered(k)
      BY <3>1 DEF Registered
    <3>4. Running'
      <4>1. list' # <<>>
        BY <1>1, <1>2, <3>1 DEF Running
      <4>2. QED BY <1>1, <2>2, <3>3, <4>1 DEF Running, Holds
    <3>5. Saved' /\ ListsAreDistinct'
      BY <2>2, <3>2 DEF Saved, ListsAreDistinct
    <3>6. QED BY <1>1, <2>2, <3>4, <3>5, SameDirectories, ServingKeepsInv
  <2>3. QED BY <1>6, <2>1, <2>2 DEF Update
<1>7. ASSUME NEW id \in Ids, SetActive(id) PROVE Inv'
  <2>1. UNCHANGED <<list, registry, place, content, legacy, migrating>> /\ step' = "saving" /\ active' = id
    BY <1>7 DEF SetActive, disk
  <2>2. Running' /\ ListsAreDistinct'
    BY <1>1, <1>7, <2>1 DEF SetActive, Running, Registered, Holds, Inv, ListsAreDistinct, Distinct
  <2>3. QED BY <1>1, <2>1, <2>2, SameDirectories, ServingKeepsInv
<1>8. ASSUME NEW id \in Ids, SoftDelete(id) PROVE Inv'
  <2>1. /\ list' \in Filtered(list, Others(id)) /\ Len(list) > 1 /\ step' = "saving"
        /\ active' = IF active = id THEN FirstOrNone(list') ELSE active
        /\ place' = [place EXCEPT ![id] = "deleted"]
        /\ UNCHANGED <<registry, content, legacy, migrating, reply>>
    BY <1>8 DEF SoftDelete
  <2>2. Others(id) \in SUBSET DOMAIN list
    BY DEF Others
  <2>3. Named(list)' = {list[i].id : i \in Others(id)} /\ Distinct(list)'
    BY <1>2, <2>1, <2>2, FilteredIsNamed
  <2>4. Named(list)' = Named(list) \ {id}
    BY <2>3 DEF Others, Named
  <2>5. \A i : Registered(i)' <=> Registered(i) /\ i # id
    BY <2>4 DEF Registered, Named
  <2>6. Named(list)' # {}
    <3>1. 1 \in DOMAIN list /\ 2 \in DOMAIN list
      BY <1>2, <2>1
    <3>2. list[1].id # list[2].id
      BY <1>2, <3>1 DEF Distinct
    <3>3. list[1].id \in Named(list) /\ list[2].id \in Named(list)
      BY <3>1 DEF Named
    <3>4. PICK other \in Named(list) : other # id
      BY <3>2, <3>3
    <3>5. QED BY <2>4, <3>4
  <2>7. Running'
    <3>1. list' # <<>> /\ FirstOrNone(list') \in Named(list)'
      BY <1>2, <2>6, EmptyIsUnnamed, FirstIsNamed
    <3>2. Registered(active)'
      BY <1>1, <2>1, <2>5, <3>1 DEF Running, Registered, Named
    <3>3. QED BY <1>1, <2>1, <2>5, <3>1, <3>2 DEF Running, Holds, TypeOK
  <2>8. DirectoriesAreWhole' /\ Marked' = {}
    BY <1>1, <2>1 DEF Inv, DirectoriesAreWhole, TypeOK, Marked
  <2>9. QED
    BY <1>1, <2>1, <2>3, <2>7, <2>8, ServingKeepsInv DEF Inv, ListsAreDistinct
<1>9. ASSUME NEW id \in Ids, SoftDeleteFails(id) PROVE Inv'
  <2>1. UNCHANGED <<step, list, active, registry, place, content, legacy, migrating>> /\ reply' = "failed"
    BY <1>9 DEF SoftDeleteFails, memory, disk
  <2>2. Running' /\ ListsAreDistinct'
    BY <1>1, <2>1 DEF Running, Registered, Holds, Inv, ListsAreDistinct, Distinct
  <2>3. QED BY <1>1, <2>1, <2>2, SameDirectories, ServingKeepsInv
<1>10. ASSUME NEW id \in Ids, OpenDatabase(id) PROVE Inv'
  <2>1. /\ UNCHANGED <<step, list, active, registry, place, legacy, migrating, reply>> /\ Registered(id)
        /\ \A i \in Ids : content'[i] = IF i = id THEN content[i] \union {"database"} ELSE content[i]
    BY <1>10 DEF OpenDatabase, memory, TypeOK
  <2>2. Running' /\ ListsAreDistinct' /\ (reply' = "ok" => Saved')
    BY <1>1, <2>1 DEF Running, Registered, Holds, Inv, ListsAreDistinct, Distinct, Saved
  <2>3. Marked' = {}
    <3>1. ASSUME NEW i \in Ids PROVE "marker" \in content'[i] <=> "marker" \in content[i]
      <4>1. content'[i] = content[i] \/ content'[i] = content[i] \union {"database"}
        BY <2>1
      <4>2. QED BY <4>1
    <3>2. QED BY <1>1, <3>1 DEF Marked
  <2>4. DirectoriesAreWhole'
    <3>1. place[id] = "profiles"
      BY <1>1, <2>1 DEF Running
    <3>2. \A i \in Ids : content'[i] \intersect (Whole \ {"database"})
                          = content[i] \intersect (Whole \ {"database"})
      BY <2>1
    <3>3. \A i \in Ids : content[i] \subseteq content'[i]
      BY <2>1
    <3>4. ASSUME NEW i \in Ids PROVE place'[i] = "nowhere" => content'[i] = {}
      BY <2>1, <3>1 DEF Inv, DirectoriesAreWhole
    <3>5. ASSUME NEW i \in Ids, content'[i] \intersect (Whole \ {"database"}) # {}
          PROVE  Whole \subseteq content'[i]
      BY <1>1, <3>2, <3>3, <3>5 DEF Inv, DirectoriesAreWhole
    <3>6. QED BY <3>4, <3>5 DEF DirectoriesAreWhole
  <2>5. QED BY <1>1, <2>1, <2>2, <2>3, <2>4, ServingKeepsInv
<1>11. QED
  BY <1>4, <1>5, <1>6, <1>7, <1>8, <1>9, <1>10 DEF Request

LEMMA StepKeepsInv ==
  ASSUME StoreAssumption PROVE TypeOK /\ TypeOK' /\ Inv /\ [Next]_vars => Inv'
<1> SUFFICES ASSUME TypeOK, TypeOK', Inv, [Next]_vars PROVE Inv'
  OBVIOUS
<1>1. CASE Boot
  BY <1>1, StartKeepsInv, ReadRegistryKeepsInv, AdoptKeepsInv, EndScanKeepsInv, SettleKeepsInv,
     ResumeKeepsInv, StartMigrationKeepsInv, MarkKeepsInv, MoveKeepsInv, CommitKeepsInv,
     UnmarkKeepsInv, CreateFirstKeepsInv DEF Boot
<1>2. CASE Request
  BY <1>2, RequestKeepsInv
<1>3. CASE UNCHANGED vars
  <2>1. UNCHANGED <<step, list, active, registry, place, content, legacy, migrating, reply>>
    BY <1>3 DEF vars
  <2>2. Marked' = Marked /\ InRegistry' = InRegistry /\ Named(list)' = Named(list)
    BY <2>1 DEF Marked, InRegistry, Named
  <2>3. DirectoriesAreWhole'
    BY <2>1, SameDirectories
  <2>4. ListsAreDistinct'
    BY <2>1 DEF Inv, ListsAreDistinct, Distinct
  <2>5. MarkedIsMigrating'
    BY <2>1, <2>2 DEF Inv, MarkedIsMigrating
  <2>6. UnmarkedIsSettled'
    BY <2>1, <2>2 DEF Inv, UnmarkedIsSettled, Empty, Holds
  <2>7. Scanned' = Scanned /\ Running' = Running
    BY <2>1 DEF Scanned, Running, Registered, Holds
  <2>8. Off' = Off /\ Migrating' = Migrating /\ Migrated' = Migrated /\ Saved' = Saved
    BY <2>1 DEF Off, Migrating, Migrated, Saved, Empty
  <2>9. StepIsTrue'
    BY <2>1, <2>2, <2>7, <2>8 DEF Inv, StepIsTrue
  <2>10. QED BY <2>3, <2>4, <2>5, <2>6, <2>9 DEF Inv
<1>4. QED
  BY <1>1, <1>2, <1>3, PersistKeepsInv, PersistFailsKeepsInv, CrashKeepsInv, LoseRegistryKeepsInv
  DEF Next

(* Types and invariant hold together: an open file of the migration belongs *)
(* to an id only because of the step the boot is at.                        *)
LEMMA InvIsInductive == ASSUME StoreAssumption PROVE Spec => [](TypeOK /\ Inv)
<1>1. TypeOK /\ Inv /\ [Next]_vars => TypeOK'
  <2> SUFFICES ASSUME TypeOK, Inv, [Next]_vars PROVE TypeOK'
    OBVIOUS
  <2>1. CASE Boot \/ Request
    BY <2>1, BootKeepsTypes, RequestKeepsTypes DEF Inv
  <2> USE ListsOfProfiles DEF TypeOK, Steps, BootSteps, memory, disk
  <2>2. CASE Persist
    BY <2>2 DEF Persist, AfterSaving, RegistryFile
  <2>3. CASE PersistFails
    BY <2>3 DEF PersistFails
  <2>4. CASE LoseRegistry
    BY <2>4 DEF LoseRegistry
  <2>5. CASE Crash
    BY <2>5 DEF Crash
  <2>6. CASE UNCHANGED vars
    BY <2>6 DEF vars
  <2>7. QED BY <2>1, <2>2, <2>3, <2>4, <2>5, <2>6 DEF Next
<1>2. QED BY <1>1, InitHasTypes, InitEstablishes, StepKeepsInv, PTL DEF Spec

(* The list of a running server is the one of the directories, sound, and   *)
(* the layout before profiles has moved into one of them, whole, wherever   *)
(* the boots before were cut short.                                         *)
THEOREM ListIsAlwaysTrue == ASSUME StoreAssumption PROVE Spec => []ListIsTrue
<1>1. TypeOK /\ Inv => ListIsTrue
  <2> SUFFICES ASSUME TypeOK, Inv PROVE ListIsTrue
    OBVIOUS
  <2>1. ListMatchesDisk
    BY DEF ListMatchesDisk, Inv, StepIsTrue, Running, Holds
  <2>2. ListIsSound
    BY DEF ListIsSound, Inv, StepIsTrue, Running, Registered, ListsAreDistinct, Distinct
  <2>3. LegacyArrivesWhole
    BY DEF LegacyArrivesWhole, Inv, StepIsTrue, Running, DirectoriesAreWhole
  <2>4. OneMigration
    <3>1. Marked = {} \/ \E a \in Marked : Marked = {a}
      BY DEF Inv, MarkedIsMigrating
    <3>2. Cardinality(Marked) \in {0, 1}
      BY <3>1, FS_EmptySet, FS_Singleton
    <3>3. QED BY <3>2 DEF OneMigration, Marked
  <2>5. QED BY <2>1, <2>2, <2>3, <2>4 DEF ListIsTrue
<1>2. QED BY <1>1, InvIsInductive, PTL

(* What a request was answered with is what the disk holds.                 *)
THEOREM AnswersAreDurable == ASSUME StoreAssumption PROVE Spec => []AnsweredIsDurable
<1>1. Inv => AnsweredIsDurable
  BY DEF Inv, StepIsTrue, Saved, AnsweredIsDurable
<1>2. QED BY <1>1, InvIsInductive, PTL

----------------------------------------------------------------------------
(* DatabaseRestore: a replacement of the database, and the boot after it.   *)

(* A rollback file that is made is the newest one.                          *)
LEMMA AppendedIsNewest ==
  ASSUME NEW s \in Seq(Contents), NEW c \in Contents
  PROVE  /\ Append(s, c) \in Seq(Contents)
         /\ Append(s, c) # <<>>
         /\ Append(s, c)[Len(Append(s, c))] = c
OBVIOUS

(* The newest rollback is a content, and so are the ones before it.         *)
LEMMA NewestAndOlder ==
  ASSUME NEW s \in Seq(Contents), s # <<>>
  PROVE  s[Len(s)] \in Contents /\ SubSeq(s, 1, Len(s) - 1) \in Seq(Contents)
<1>1. Len(s) \in Nat \ {0}
  OBVIOUS
<1>2. \A i \in 1 .. (Len(s) - 1) : s[i] \in Contents
  BY <1>1
<1>3. QED BY <1>1, <1>2

(* The initial state satisfies the types and the invariant.                 *)
LEMMA RestoreInitEstablishes == Restore!Init => Restore!TypeOK /\ Restore!Inv
BY FilesDiffer DEF Restore!RestoreAssumption, Restore!Init, Restore!TypeOK, Restore!Inv,
   Restore!AtRest, Restore!Restoring, Restore!OriginalLive, Restore!ReplacementStaged,
   Restore!ReplacementLive, Restore!RollbackKept, Restore!LiveMissing, Restore!Booting,
   Restore!Recovered, Restore!Healthy, Restore!RestoreSteps, Restore!BootSteps

(* restoreFrom's steps keep the types and the invariant.                    *)
LEMMA RestoreKeeps ==
  Restore!TypeOK /\ Restore!Inv /\ Restore!Restore => Restore!TypeOK' /\ Restore!Inv'
<1> SUFFICES ASSUME Restore!TypeOK, Restore!Inv, Restore!Restore
             PROVE  Restore!TypeOK' /\ Restore!Inv'
  OBVIOUS
<1> USE FilesDiffer DEF Restore!RestoreAssumption, Restore!TypeOK, Restore!Inv, Restore!AtRest,
     Restore!Restoring, Restore!OriginalLive, Restore!ReplacementStaged,
     Restore!ReplacementLive, Restore!RollbackKept, Restore!LiveMissing, Restore!Booting,
     Restore!Recovered, Restore!Healthy, Restore!Newest, Restore!Older, Restore!RestoreSteps,
     Restore!BootSteps, Restore!files, Restore!Finish
<1>1. CASE \E backup \in Contents : Restore!Begin(backup)
  BY <1>1 DEF Restore!Begin
<1>2. CASE Restore!StagingFails
  BY <1>2 DEF Restore!StagingFails
<1>3. CASE Restore!Stage
  BY <1>3 DEF Restore!Stage
<1>4. CASE Restore!MoveLive
  BY <1>4, AppendedIsNewest DEF Restore!MoveLive
<1>5. CASE Restore!MoveLiveFails
  BY <1>5 DEF Restore!MoveLiveFails
<1>6. CASE Restore!Install
  BY <1>6 DEF Restore!Install
<1>7. CASE Restore!InstallFails
  BY <1>7 DEF Restore!InstallFails
<1>8. CASE Restore!Check
  BY <1>8 DEF Restore!Check
<1>9. CASE Restore!CheckFails
  BY <1>9 DEF Restore!CheckFails
<1>10. CASE Restore!Accept
  BY <1>10, NewestAndOlder DEF Restore!Accept
<1>11. CASE Restore!Quarantine
  BY <1>11 DEF Restore!Quarantine
<1>12. CASE Restore!QuarantineFails
  BY <1>12 DEF Restore!QuarantineFails
<1>13. CASE Restore!PutBack
  BY <1>13, NewestAndOlder DEF Restore!PutBack
<1>14. CASE Restore!PutBackByCopy
  BY <1>14 DEF Restore!PutBackByCopy
<1>15. CASE Restore!CopiedBack
  BY <1>15, NewestAndOlder DEF Restore!CopiedBack
<1>16. CASE Restore!CopyBackFails
  BY <1>16 DEF Restore!CopyBackFails
<1>17. CASE Restore!Reopen
  BY <1>17 DEF Restore!Reopen
<1>18. QED
  BY <1>1, <1>2, <1>3, <1>4, <1>5, <1>6, <1>7, <1>8, <1>9, <1>10, <1>11, <1>12,
     <1>13, <1>14, <1>15, <1>16, <1>17 DEF Restore!Restore

(* The end of the process and every step of a boot keep them too.           *)
LEMMA BootKeeps ==
  /\ Restore!TypeOK /\ Restore!Inv
  /\ Restore!Crash \/ Restore!Boot \/ Restore!QuarantineTorn \/ Restore!CopyRollback
       \/ Restore!CopyRollbackEnds \/ Restore!Open \/ Restore!OpenFails
  => Restore!TypeOK' /\ Restore!Inv'
<1> SUFFICES ASSUME Restore!TypeOK, Restore!Inv,
                    Restore!Crash \/ Restore!Boot \/ Restore!QuarantineTorn
                      \/ Restore!CopyRollback \/ Restore!CopyRollbackEnds
                      \/ Restore!Open \/ Restore!OpenFails
             PROVE  Restore!TypeOK' /\ Restore!Inv'
  OBVIOUS
<1> USE FilesDiffer DEF Restore!RestoreAssumption, Restore!TypeOK, Restore!Inv, Restore!AtRest,
     Restore!Restoring, Restore!OriginalLive, Restore!ReplacementStaged,
     Restore!ReplacementLive, Restore!RollbackKept, Restore!LiveMissing, Restore!Booting,
     Restore!Recovered, Restore!Healthy, Restore!Newest, Restore!RestoreSteps,
     Restore!BootSteps, Restore!files
<1>1. CASE Restore!Crash
  BY <1>1, NewestAndOlder DEF Restore!Crash
<1>2. CASE Restore!Boot
  BY <1>2 DEF Restore!Boot
<1>3. CASE Restore!QuarantineTorn
  BY <1>3 DEF Restore!QuarantineTorn
<1>4. CASE Restore!CopyRollback
  BY <1>4 DEF Restore!CopyRollback
<1>5. CASE Restore!CopyRollbackEnds
  BY <1>5, NewestAndOlder DEF Restore!CopyRollbackEnds
<1>6. CASE Restore!Open \/ Restore!OpenFails
  BY <1>6 DEF Restore!Open, Restore!OpenFails
<1>7. QED BY <1>1, <1>2, <1>3, <1>4, <1>5, <1>6

(* The types and the invariant hold in every reachable state.               *)
THEOREM RestoreInvariant == Restore!Spec => [](Restore!TypeOK /\ Restore!Inv)
<1>1. Restore!TypeOK /\ Restore!Inv /\ UNCHANGED Restore!vars => Restore!TypeOK' /\ Restore!Inv'
  BY DEF Restore!vars, Restore!TypeOK, Restore!Inv, Restore!AtRest, Restore!Restoring,
     Restore!OriginalLive, Restore!ReplacementStaged, Restore!ReplacementLive,
     Restore!RollbackKept, Restore!LiveMissing, Restore!Booting, Restore!Recovered,
     Restore!Newest
<1>2. Restore!TypeOK /\ Restore!Inv /\ [Restore!Next]_(Restore!vars)
        => Restore!TypeOK' /\ Restore!Inv'
  BY <1>1, RestoreKeeps, BootKeeps DEF Restore!Next
<1>3. QED BY <1>2, RestoreInitEstablishes, PTL DEF Restore!Spec

(* Every variable stays in its domain: no rollback file is ever a torn copy.*)
THEOREM TypeCorrect == Restore!Spec => []Restore!TypeOK
BY RestoreInvariant, PTL

(* An open database is one of the user's, never torn and never made anew.   *)
THEOREM OpenIsHealthy == Restore!Spec => []Restore!OpenMeansHealthy
<1>1. Restore!TypeOK /\ Restore!Inv => Restore!OpenMeansHealthy
  BY DEF Restore!TypeOK, Restore!Inv, Restore!AtRest, Restore!Restoring, Restore!OriginalLive,
     Restore!ReplacementLive, Restore!OpenMeansHealthy, Restore!Healthy, Restore!RestoreSteps
<1>2. QED BY <1>1, RestoreInvariant, PTL

(* Until a replacement is accepted the original is on disk.                 *)
THEOREM OriginalIsRetained == Restore!Spec => []Restore!OriginalRetained
<1>1. Restore!TypeOK /\ Restore!Inv => Restore!OriginalRetained
  BY DEF Restore!TypeOK, Restore!Inv, Restore!OriginalLive, Restore!RollbackKept,
     Restore!OriginalRetained, Restore!Newest, Restore!RestoreSteps
<1>2. QED BY <1>1, RestoreInvariant, PTL

(* No restore loses the user's data: what opens is his, and the original    *)
(* stays until its replacement is accepted.                                 *)
THEOREM DataSafety == Restore!Spec => []DataIsSafe
<1>1. QED BY OpenIsHealthy, OriginalIsRetained, PTL DEF DataIsSafe, Restore!DataIsSafe

(* A restore that fails and goes on serving serves the original.            *)
THEOREM FailureIsHarmless == Restore!Spec => FailedRestoreKeepsOriginal
<1> DEFINE Harmless ==
      /\ restoreStep \in Restore!RestoreSteps /\ restoreStep' = "none"
      /\ restoreReply' = "failed" /\ handle' = "open"
      => live' = base
<1>1. Restore!TypeOK /\ Restore!Inv /\ [Restore!Next]_(Restore!vars) => [Harmless]_(Restore!vars)
  <2> SUFFICES ASSUME Restore!TypeOK, Restore!Inv, Restore!Next PROVE Harmless
    OBVIOUS
  <2>1. CASE Restore!Restore
    BY <2>1 DEF Restore!Restore, Restore!Begin, Restore!StagingFails, Restore!Stage,
       Restore!MoveLive, Restore!MoveLiveFails, Restore!Install, Restore!InstallFails,
       Restore!Check, Restore!CheckFails, Restore!Accept, Restore!Quarantine,
       Restore!QuarantineFails, Restore!PutBack, Restore!PutBackByCopy, Restore!CopiedBack,
       Restore!CopyBackFails, Restore!Reopen, Restore!Finish, Restore!Inv, Restore!OriginalLive
  <2>2. CASE ~Restore!Restore
    BY <2>2 DEF Restore!Next, Restore!Crash, Restore!Boot, Restore!QuarantineTorn,
       Restore!CopyRollback, Restore!CopyRollbackEnds, Restore!Open, Restore!OpenFails,
       Restore!RestoreSteps
  <2>3. QED BY <2>1, <2>2
<1>2. QED BY <1>1, RestoreInvariant, PTL DEF Restore!Spec, FailedRestoreKeepsOriginal,
     Restore!FailedRestoreKeepsOriginal

(* Every step replaces the database atomically, or leaves it as it is.      *)
LEMMA StepIsAtomic ==
  Restore!TypeOK /\ Restore!TypeOK' /\ Restore!Inv /\ Restore!Inv' /\ [Restore!Next]_(Restore!vars)
    => [Restore!Abstract!Next]_<<Restore!Recovered, base, wanted>>
<1> SUFFICES ASSUME Restore!TypeOK, Restore!TypeOK', Restore!Inv, Restore!Inv',
                    [Restore!Next]_(Restore!vars)
             PROVE  [Restore!Abstract!Next]_<<Restore!Recovered, base, wanted>>
  OBVIOUS
<1> USE FilesDiffer DEF Restore!RestoreAssumption, Restore!TypeOK, Restore!Inv, Restore!AtRest,
     Restore!Restoring, Restore!OriginalLive, Restore!ReplacementStaged,
     Restore!ReplacementLive, Restore!RollbackKept, Restore!LiveMissing, Restore!Booting,
     Restore!Recovered, Restore!Healthy, Restore!Newest, Restore!RestoreSteps,
     Restore!BootSteps, Restore!files, Restore!Finish, Restore!Abstract!Next,
     Restore!Abstract!Begin, Restore!Abstract!Flip, Restore!Abstract!End
<1>1. CASE \E backup \in Contents : Restore!Begin(backup)
  BY <1>1 DEF Restore!Begin
<1>2. CASE Restore!StagingFails \/ Restore!Stage
  BY <1>2 DEF Restore!StagingFails, Restore!Stage
<1>3. CASE Restore!MoveLive
  BY <1>3 DEF Restore!MoveLive
<1>4. CASE Restore!MoveLiveFails
  BY <1>4 DEF Restore!MoveLiveFails
<1>5. CASE Restore!Install \/ Restore!InstallFails
  BY <1>5 DEF Restore!Install, Restore!InstallFails
<1>6. CASE Restore!Check \/ Restore!CheckFails
  BY <1>6 DEF Restore!Check, Restore!CheckFails
<1>7. CASE Restore!Accept
  BY <1>7 DEF Restore!Accept
<1>8. CASE Restore!Quarantine \/ Restore!QuarantineFails
  BY <1>8 DEF Restore!Quarantine, Restore!QuarantineFails
<1>9. CASE Restore!PutBack
  BY <1>9 DEF Restore!PutBack
<1>10. CASE Restore!PutBackByCopy \/ Restore!CopiedBack \/ Restore!CopyBackFails
  BY <1>10 DEF Restore!PutBackByCopy, Restore!CopiedBack, Restore!CopyBackFails
<1>11. CASE Restore!Reopen
  BY <1>11 DEF Restore!Reopen
<1>12. CASE Restore!Crash
  BY <1>12 DEF Restore!Crash
<1>13. CASE Restore!Boot \/ Restore!QuarantineTorn \/ Restore!CopyRollback
         \/ Restore!CopyRollbackEnds \/ Restore!Open \/ Restore!OpenFails
  BY <1>13 DEF Restore!Boot, Restore!QuarantineTorn, Restore!CopyRollback,
     Restore!CopyRollbackEnds, Restore!Open, Restore!OpenFails
<1>14. CASE UNCHANGED Restore!vars
  BY <1>14 DEF Restore!vars
<1>15. QED
  BY <1>1, <1>2, <1>3, <1>4, <1>5, <1>6, <1>7, <1>8, <1>9, <1>10, <1>11, <1>12, <1>13, <1>14
  DEF Restore!Next, Restore!Restore

(* restoreFrom and the boot's recovery implement the atomic replacement.    *)
THEOREM RefinesAtomicReplace == Restore!Spec => ReplacesAtomically
<1>1. Restore!Init => Restore!Abstract!Init
  BY DEF Restore!Init, Restore!Abstract!Init, Restore!Recovered, Restore!Healthy
<1>2. QED
  BY <1>1, StepIsAtomic, RestoreInvariant, PTL
  DEF Restore!Spec, ReplacesAtomically, Restore!ReplacesAtomically, Restore!Abstract!Spec

----------------------------------------------------------------------------
(* UpdateBackup: the copies made before an update is installed.             *)

(* An instance has its own name for the size of a set.                      *)
LEMMA SameCardinality == \A S : Backup!Cardinality(S) = Cardinality(S)
BY DEF Backup!Cardinality, Cardinality

(* Lists, as sequences of whatever they hold.                               *)
LEMMA ListIsSeq ==
  ASSUME NEW s, Backup!IsList(s)
  PROVE  s \in Seq({s[i] : i \in 1 .. Len(s)}) /\ DOMAIN s = 1 .. Len(s)
<1>1. s \in [1 .. Len(s) -> {s[i] : i \in 1 .. Len(s)}]
  BY DEF Backup!IsList
<1>2. QED BY <1>1 DEF Backup!IsList

LEMMA FunctionIsList ==
  ASSUME NEW k \in Nat, NEW s, s = [i \in 1 .. k |-> s[i]]
  PROVE  Backup!IsList(s) /\ Len(s) = k
<1>1. s \in Seq({s[i] : i \in 1 .. k}) /\ DOMAIN s = 1 .. k
  OBVIOUS
<1>2. Len(s) = k
  BY <1>1
<1>3. QED BY <1>2 DEF Backup!IsList

LEMMA NewCopyIsFirst ==
  ASSUME NEW c, NEW s, Backup!IsList(s)
  PROVE  /\ Backup!IsList(<<c>> \o s)
         /\ DOMAIN (<<c>> \o s) = 1 .. Len(s) + 1 /\ (<<c>> \o s)[1] = c
<1> DEFINE S == {s[i] : i \in 1 .. Len(s)} \union {c}
<1>1. s \in Seq(S)
  <2>1. s \in [1 .. Len(s) -> S]
    BY DEF Backup!IsList
  <2>2. QED BY <2>1 DEF Backup!IsList
<1>2. <<c>> \in Seq(S) /\ Len(<<c>>) = 1 /\ <<c>>[1] = c
  OBVIOUS
<1> HIDE DEF S
<1>3. /\ <<c>> \o s \in Seq(S) /\ Len(<<c>> \o s) = Len(s) + 1 /\ (<<c>> \o s)[1] = c
  BY <1>1, <1>2
<1>4. Len(s) \in Nat
  BY DEF Backup!IsList
<1>5. <<c>> \o s = [i \in 1 .. Len(s) + 1 |-> (<<c>> \o s)[i]]
  BY <1>3, <1>4
<1>6. QED BY <1>3, <1>4, <1>5 DEF Backup!IsList

(* The newest copy is kept, whatever is pruned.                             *)
LEMMA PruneKeepsNewest ==
  ASSUME NEW s, Backup!IsList(s), Len(s) # 0
  PROVE  Backup!IsList(Backup!Prune(s)) /\ 1 \in DOMAIN Backup!Prune(s) /\ Backup!Prune(s)[1] = s[1]
<1> DEFINE Spared(i) == ~Backup!Automatic(s[i]) \/ Backup!KeptNewest(s, i)
           spared == {i \in DOMAIN s : Spared(i)}
           Before(i) == {j \in spared : j < i}
           k == Backup!Cardinality(spared)
           kept == [n \in 1 .. k |-> s[CHOOSE i \in spared : Backup!Cardinality(Before(i)) = n - 1]]
<1>1. Backup!Prune(s) = kept
  BY DEF Backup!Prune
<1>2. DOMAIN s = 1 .. Len(s) /\ Len(s) \in Nat
  BY ListIsSeq DEF Backup!IsList
<1>3. 1 \in spared
  <2>1. Backup!Younger(s, 1) = {}
    BY DEF Backup!Younger
  <2>2. Backup!Cardinality(Backup!Younger(s, 1)) = 0
    BY <2>1, SameCardinality, FS_EmptySet
  <2>3. Backup!KeptNewest(s, 1)
    BY BackupAssumption, <2>2
    DEF Backup!UpdateBackupAssumption, Backup!KeptNewest
  <2>4. QED BY <1>2, <2>3
<1>4. spared \subseteq 1 .. Len(s)
  BY <1>2
<1>5. IsFiniteSet(spared)
  <2> HIDE DEF spared
  <2>1. IsFiniteSet(1 .. Len(s))
    BY <1>2, FS_Interval
  <2>2. QED BY <1>4, <2>1, FS_Subset
<1> HIDE DEF spared
<1>6. \A i \in spared : IsFiniteSet(Before(i))
  <2> SUFFICES ASSUME NEW i \in spared PROVE IsFiniteSet(Before(i))
    OBVIOUS
  <2>1. Before(i) \subseteq spared
    OBVIOUS
  <2>2. QED BY <1>5, <2>1, FS_Subset
<1>7. k \in Nat /\ k # 0
  <2>1. k \in Nat
    BY <1>5, SameCardinality, FS_CardinalityType
  <2>2. spared # {}
    BY <1>3
  <2>3. QED BY <1>5, <2>1, <2>2, SameCardinality, FS_EmptySet
<1>8. Backup!Cardinality(Before(1)) = 0
  <2>1. Before(1) = {}
    <3>1. \A j \in spared : ~(j < 1)
      BY <1>2, <1>4
    <3>2. QED BY <3>1
  <2>2. QED BY <2>1, SameCardinality, FS_EmptySet
<1>9. ASSUME NEW i \in spared, Backup!Cardinality(Before(i)) = 0 PROVE i = 1
  <2>1. Before(i) = {}
    BY <1>6, <1>9, SameCardinality, FS_EmptySet
  <2>2. QED BY <1>3, <1>4, <2>1
<1>10. (CHOOSE i \in spared : Backup!Cardinality(Before(i)) = 0) = 1
  <2> DEFINE Leads(i) == i \in spared /\ Backup!Cardinality(Before(i)) = 0
  <2>1. Leads(1) /\ \A i : Leads(i) => i = 1
    BY <1>3, <1>8, <1>9
  <2> HIDE DEF Leads
  <2>2. (CHOOSE i : Leads(i)) = 1
    BY <2>1
  <2>3. QED BY <2>2 DEF Leads
<1>11. kept[1] = s[1] /\ 1 \in DOMAIN kept
  <2>1. 1 \in 1 .. k
    BY <1>7
  <2>2. kept[1] = s[CHOOSE i \in spared : Backup!Cardinality(Before(i)) = 1 - 1]
    BY <2>1
  <2>3. 1 - 1 = 0
    OBVIOUS
  <2>4. QED BY <1>10, <2>1, <2>2, <2>3
<1>12. kept = [i \in 1 .. k |-> kept[i]]
  OBVIOUS
<1> HIDE DEF kept, k
<1>13. Backup!IsList(kept)
  BY <1>7, <1>12, FunctionIsList
<1>14. QED BY <1>1, <1>11, <1>13

LEMMA BackupInit == Backup!Init => Backup!Inv
<1> SUFFICES ASSUME Backup!Init PROVE Backup!Inv
  OBVIOUS
<1>1. Backup!IsList(<<>>)
  BY DEF Backup!IsList
<1>2. Backup!Types
  BY <1>1 DEF Backup!Init, Backup!Types
<1>3. QED BY <1>2 DEF Backup!Init, Backup!Inv, Backup!BeganIsOld, Backup!LoopIsHeld,
    Backup!VisitedIsCovered

(* A copy that is added, and the older ones that go, cover what was covered.*)
LEMMA CopyCovers ==
  ASSUME Backup!Inv, NEW p \in Profiles, NEW kind, NEW kept,
         kept \in {Backup!WithCopy(p, kind), Backup!Prune(Backup!WithCopy(p, kind))},
         copies' = [copies EXCEPT ![p] = kept], UNCHANGED <<version, began>>
  PROVE  /\ DOMAIN copies' = Profiles /\ \A q \in Profiles : Backup!IsList(copies'[q])
         /\ began[p] # None => Backup!Covered(p, began[p])'
         /\ \A q \in Profiles \ {p} : Backup!Covered(q, began[q]) => Backup!Covered(q, began[q])'
<1> DEFINE c == [kind |-> kind, version |-> version[p]]
           s == <<c>> \o copies[p]
<1>1. Backup!IsList(copies[p]) /\ Len(copies[p]) \in Nat /\ DOMAIN copies = Profiles
  BY DEF Backup!Inv, Backup!Types, Backup!IsList
<1>2. Backup!IsList(s) /\ DOMAIN s = 1 .. Len(copies[p]) + 1 /\ s[1] = c
  BY <1>1, NewCopyIsFirst
<1>3. Len(s) # 0 /\ 1 \in DOMAIN s
  BY <1>1, <1>2, ListIsSeq
<1> HIDE DEF s
<1>4. Backup!IsList(Backup!Prune(s)) /\ 1 \in DOMAIN Backup!Prune(s) /\ Backup!Prune(s)[1] = s[1]
  BY <1>2, <1>3, PruneKeepsNewest
<1>5. Backup!WithCopy(p, kind) = s
  BY DEF s, Backup!WithCopy
<1>5a. s[1].version = version[p]
  BY <1>2
<1>5b. Backup!IsList(kept) /\ 1 \in DOMAIN kept /\ kept[1].version = version[p]
  BY <1>2, <1>3, <1>4, <1>5, <1>5a
<1>6. /\ DOMAIN copies' = Profiles /\ copies'[p] = kept
      /\ \A q \in Profiles \ {p} : copies'[q] = copies[q]
  BY <1>1
<1>7. \A q \in Profiles : Backup!IsList(copies'[q])
  BY <1>5b, <1>6 DEF Backup!Inv, Backup!Types
<1>8. began[p] # None => version[p] >= began[p]
  BY DEF Backup!Inv, Backup!Types, Backup!BeganIsOld
<1>9. began[p] # None => Backup!Covered(p, began[p])'
  BY <1>5b, <1>6, <1>8 DEF Backup!Covered
<1>10. \A q \in Profiles \ {p} : Backup!Covered(q, began[q]) => Backup!Covered(q, began[q])'
  BY <1>6 DEF Backup!Covered
<1>11. QED BY <1>6, <1>7, <1>9, <1>10

(* The loop over the profiles, from its acceptance to the installation.     *)
LEMMA LoopKeepsInv ==
  ASSUME Backup!Inv,
         \/ Backup!Begin \/ Backup!Copied \/ Backup!Answer \/ Backup!Install \/ Backup!GiveUp
         \/ \E p \in Profiles : Backup!Visit(p)
  PROVE  Backup!Inv'
<1>1. CASE Backup!Begin
  <2>1. Backup!Types'
    BY <1>1 DEF Backup!Begin, Backup!Inv, Backup!Types
  <2>2. Backup!BeganIsOld'
    BY <1>1 DEF Backup!Begin, Backup!Inv, Backup!Types, Backup!BeganIsOld
  <2>3. Backup!LoopIsHeld'
    BY <1>1 DEF Backup!Begin, Backup!Inv, Backup!LoopIsHeld
  <2>4. Backup!VisitedIsCovered'
    BY <1>1 DEF Backup!Begin, Backup!VisitedIsCovered
  <2>5. QED BY <2>1, <2>2, <2>3, <2>4 DEF Backup!Inv
<1>2. CASE Backup!Copied
  <2>0. PICK p \in Profiles : p = current
    BY <1>2 DEF Backup!Copied, Backup!Inv, Backup!Types, Backup!LoopIsHeld
  <2>1. /\ p \in existing /\ current' = None /\ request' = "looping"
        /\ busy' = [busy EXCEPT ![p] = FALSE]
        /\ UNCHANGED <<existing, gone, version, targets, began>>
    BY <1>2, <2>0 DEF Backup!Copied, Backup!Inv, Backup!LoopIsHeld
  <2>2. Backup!BeganIsOld' /\ Backup!LoopIsHeld'
    BY <2>1 DEF Backup!Inv, Backup!BeganIsOld, Backup!LoopIsHeld
  <2>3. CASE /\ copies' = [copies EXCEPT ![p] = Backup!Prune(Backup!WithCopy(p, "automatic"))]
             /\ UNCHANGED failed
    <3> DEFINE kept == Backup!Prune(Backup!WithCopy(p, "automatic"))
    <3>1. kept \in {Backup!WithCopy(p, "automatic"), Backup!Prune(Backup!WithCopy(p, "automatic"))}
          /\ copies' = [copies EXCEPT ![p] = kept]
      BY <2>3
    <3> HIDE DEF kept
    <3>2. /\ DOMAIN copies' = Profiles /\ \A q \in Profiles : Backup!IsList(copies'[q])
          /\ began[p] # None => Backup!Covered(p, began[p])'
          /\ \A q \in Profiles \ {p} : Backup!Covered(q, began[q]) => Backup!Covered(q, began[q])'
      BY <2>1, <3>1, CopyCovers
    <3>3. Backup!Types'
      BY <2>1, <2>3, <3>2 DEF Backup!Inv, Backup!Types
    <3>4. Backup!VisitedIsCovered'
      <4> SUFFICES ASSUME ~failed, NEW q \in existing, q \notin targets, began[q] # None
                   PROVE  Backup!Covered(q, began[q])'
        BY <2>1, <2>3 DEF Backup!VisitedIsCovered
      <4>1. CASE q = p
        BY <3>2, <4>1
      <4>2. CASE q # p
        <5>1. Backup!Covered(q, began[q])
          BY <1>2, <2>0, <4>2 DEF Backup!Copied, Backup!Inv, Backup!VisitedIsCovered
        <5>2. q \in Profiles
          BY DEF Backup!Inv, Backup!Types
        <5>3. QED BY <3>2, <4>2, <5>1, <5>2
      <4>3. QED BY <4>1, <4>2
    <3>5. QED BY <2>2, <3>3, <3>4 DEF Backup!Inv
  <2>4. CASE failed' = TRUE /\ UNCHANGED copies
    <3>1. Backup!Types' /\ Backup!VisitedIsCovered'
      BY <2>1, <2>4 DEF Backup!Inv, Backup!Types, Backup!VisitedIsCovered
    <3>2. QED BY <2>2, <3>1 DEF Backup!Inv
  <2>5. QED BY <1>2, <2>0, <2>3, <2>4 DEF Backup!Copied
<1>3. CASE Backup!Answer \/ Backup!Install \/ Backup!GiveUp
  BY <1>3 DEF Backup!Answer, Backup!Install, Backup!GiveUp, Backup!Verdict, Backup!Inv,
     Backup!Types, Backup!BeganIsOld, Backup!LoopIsHeld, Backup!VisitedIsCovered, Backup!Covered
<1>4. ASSUME NEW p \in Profiles, Backup!Visit(p) PROVE Backup!Inv'
  <2>1. /\ request = "looping" /\ p \in targets /\ targets' = targets \ {p} /\ current = None
        /\ UNCHANGED <<existing, gone, version, copies, began>>
    BY <1>4 DEF Backup!Visit, Backup!Inv, Backup!LoopIsHeld
  <2>2. CASE /\ p \in existing /\ ~busy[p] /\ UNCHANGED failed
             /\ request' = "copying" /\ current' = p /\ busy' = [busy EXCEPT ![p] = TRUE]
    <3>1. Backup!Types'
      BY <2>1, <2>2 DEF Backup!Inv, Backup!Types
    <3>2. Backup!BeganIsOld'
      BY <2>1 DEF Backup!Inv, Backup!BeganIsOld
    <3>3. Backup!LoopIsHeld'
      BY BackupAssumption, <2>1, <2>2 DEF Backup!UpdateBackupAssumption, Backup!Inv, Backup!Types,
         Backup!LoopIsHeld
    <3>4. Backup!VisitedIsCovered'
      BY BackupAssumption, <2>1, <2>2 DEF Backup!UpdateBackupAssumption, Backup!Inv, Backup!Types,
         Backup!VisitedIsCovered, Backup!Covered
    <3>5. QED BY <3>1, <3>2, <3>3, <3>4 DEF Backup!Inv
  <2>3. CASE /\ Backup!RefuseBusy(p) \/ (failed' = TRUE /\ UNCHANGED request)
             /\ UNCHANGED <<current, busy>>
    BY <2>1, <2>3 DEF Backup!RefuseBusy, Backup!Inv, Backup!Types, Backup!BeganIsOld,
       Backup!LoopIsHeld, Backup!VisitedIsCovered
  <2>4. QED BY <1>4, <2>2, <2>3 DEF Backup!Visit
<1>5. QED BY <1>1, <1>2, <1>3, <1>4

(* The requests beside it.                                                  *)
LEMMA RequestKeepsCovers ==
  ASSUME Backup!Inv, NEW p \in Profiles,
         \/ Backup!Create(p) \/ Backup!Delete(p) \/ Backup!Write(p)
         \/ Backup!StartBackup(p) \/ Backup!EndBackup(p)
  PROVE  Backup!Inv'
<1> USE DEF Backup!Inv, Backup!Types, Backup!BeganIsOld, Backup!LoopIsHeld,
    Backup!VisitedIsCovered, Backup!loop
<1>1. CASE Backup!Create(p)
  BY <1>1 DEF Backup!Create, Backup!Covered
<1>2. CASE Backup!Delete(p)
  <2>1. Backup!IsList(<<>>)
    BY DEF Backup!IsList
  <2>2. Backup!Types'
    BY <1>2, <2>1 DEF Backup!Delete
  <2>3. QED BY <1>2, <2>2 DEF Backup!Delete, Backup!Covered
<1>3. CASE Backup!Write(p)
  BY <1>3 DEF Backup!Write, Backup!Covered
<1>4. CASE Backup!StartBackup(p)
  BY <1>4 DEF Backup!StartBackup, Backup!Covered
<1>5. CASE Backup!EndBackup(p)
  <2>1. PICK kind \in {"manual", "automatic"} :
          \E kept \in {Backup!WithCopy(p, kind), Backup!Prune(Backup!WithCopy(p, kind))} :
            copies' = [copies EXCEPT ![p] = kept]
    BY <1>5 DEF Backup!EndBackup
  <2>2. PICK kept \in {Backup!WithCopy(p, kind), Backup!Prune(Backup!WithCopy(p, kind))} :
          copies' = [copies EXCEPT ![p] = kept]
    BY <2>1
  <2>3. UNCHANGED <<existing, gone, version, request, targets, current, failed, began>>
        /\ busy' = [busy EXCEPT ![p] = FALSE] /\ current # p
    BY <1>5 DEF Backup!EndBackup
  <2>4. /\ DOMAIN copies' = Profiles /\ \A q \in Profiles : Backup!IsList(copies'[q])
        /\ began[p] # None => Backup!Covered(p, began[p])'
        /\ \A q \in Profiles \ {p} : Backup!Covered(q, began[q]) => Backup!Covered(q, began[q])'
    BY <2>2, <2>3, CopyCovers
  <2>5. Backup!Types'
    BY <2>3, <2>4
  <2>6. QED BY <2>3, <2>4, <2>5
<1>6. QED BY <1>1, <1>2, <1>3, <1>4, <1>5

(* An update is installed only over data that has a copy on disk, whatever  *)
(* is created, deleted, written and copied meanwhile (profiles-api.ts:139). *)
THEOREM InstallsAreCovered == Backup!Spec => []InstallIsCovered
<1>1. Backup!Inv /\ [Backup!Next]_(Backup!vars) => Backup!Inv'
  <2>1. Backup!Inv /\ UNCHANGED Backup!vars => Backup!Inv'
    BY DEF Backup!vars, Backup!loop, Backup!Inv, Backup!Types, Backup!BeganIsOld,
       Backup!LoopIsHeld, Backup!VisitedIsCovered, Backup!Covered
  <2>2. QED BY <2>1, LoopKeepsInv, RequestKeepsCovers DEF Backup!Next
<1>2. Backup!Inv => Backup!InstallIsCovered
  <2> SUFFICES ASSUME Backup!Inv, request = "installing", NEW p \in existing, began[p] # None
               PROVE  Backup!Covered(p, began[p])
    BY DEF Backup!InstallIsCovered
  <2>1. targets = {} /\ ~failed /\ current = None /\ p # None
    BY BackupAssumption DEF Backup!UpdateBackupAssumption, Backup!Inv, Backup!Types,
       Backup!LoopIsHeld
  <2>2. QED BY <2>1 DEF Backup!Inv, Backup!VisitedIsCovered
<1>3. QED BY <1>1, <1>2, BackupInit, PTL DEF Backup!Spec, InstallIsCovered

----------------------------------------------------------------------------
(* FirstRun: the first start, its copy of an older installation, its wizard.*)

LEMMA FirstInit == First!Init => First!Inv
<1> SUFFICES ASSUME First!Init PROVE First!Inv
  OBVIOUS
<1>1. First!Live = {}
  BY DEF First!Init, First!Live
<1>2. First!Types
  <2>1. older \in {None} \union [version : Nat, wal : BOOLEAN, marker : BOOLEAN]
    BY DEF First!Init
  <2>2. /\ root \in [database : {None} \union [version : Nat, wal : BOOLEAN],
                    wal : {None} \union Nat]
        /\ marker \in {None, "torn", "plain"} \union FirstIds
    BY DEF First!Init
  <2>3. /\ firstPlace \in [FirstIds -> {"nowhere", "profiles", "deleted"}]
        /\ firstContent \in [FirstIds -> {"empty", "legacy", "imported", "own"}]
    BY DEF First!Init
  <2>4. copied = 0 /\ 0 \in 0 .. 3
    BY DEF First!Init
  <2>5. /\ phase = "off" /\ created = FALSE /\ answered = FALSE
    BY DEF First!Init
  <2>6. QED BY <2>1, <2>2, <2>3, <2>4, <2>5 DEF First!Types
<1>3. QED
  BY FirstAssumption, <1>1, <1>2 DEF First!FirstRunAssumption, First!Init, First!Inv,
     First!OneLives, First!CopyIsWhole, First!LegacyComesOnce, First!CopyIsCurrent,
     First!DataStays, First!MarkerIsProvisional, First!CreatedIsEmpty, First!WizardIsDue,
     First!ServedIsRegistered

(* A step that leaves the profiles alone.                                   *)
LEMMA ProfilesRest ==
  ASSUME First!Inv, UNCHANGED <<firstPlace, firstContent>>
  PROVE  First!Live' = First!Live /\ First!OneLives' /\ First!DataStays'
BY DEF First!Inv, First!Live, First!OneLives, First!DataStays

(* The copy of the older installation, whole or killed.                     *)
LEMMA CopyKeepsInv ==
  ASSUME First!Inv, First!Boot \/ First!CopyFile \/ First!KilledInCopy
  PROVE  First!Inv'
<1>1. CASE First!Boot
  <2>1. First!Live' = First!Live /\ First!OneLives' /\ First!DataStays'
    BY <1>1, ProfilesRest DEF First!Boot, First!disk
  <2>2. QED
    BY <1>1, <2>1 DEF First!Boot, First!disk, First!HasExistingData, First!Inv, First!Types,
       First!CopyIsWhole, First!LegacyComesOnce, First!CopyIsCurrent, First!MarkerIsProvisional,
       First!CreatedIsEmpty, First!WizardIsDue, First!ServedIsRegistered
<1>2. CASE First!CopyFile
  <2>1. First!Live' = First!Live /\ First!OneLives' /\ First!DataStays'
    BY <1>2, ProfilesRest DEF First!CopyFile
  <2>2. /\ phase = "copying" /\ copied \in 0 .. 2 /\ older # None /\ First!Live = {}
        /\ root.database = None /\ copied' = copied + 1
        /\ phase' = IF copied = 2 THEN "gate" ELSE "copying"
        /\ UNCHANGED <<older, firstPlace, firstContent, registered, created, answered>>
    BY <1>2 DEF First!CopyFile, First!CopyOrder, First!Inv, First!Types, First!CopyIsCurrent
  <2>3. older.version \in Nat /\ older.wal \in BOOLEAN /\ First!SyncSidecar \in {None} \union Nat
    BY <2>2 DEF First!Inv, First!Types, First!SyncSidecar
  <2>4. CASE copied = 0
    <3>1. marker' \in {"plain", marker} /\ UNCHANGED root
      BY <1>2, <2>4 DEF First!CopyFile, First!CopyOrder, First!Copied
    <3>2. QED
      BY FirstAssumption, <2>1, <2>2, <2>4, <3>1 DEF First!FirstRunAssumption, First!Inv,
         First!Types, First!CopyIsWhole, First!LegacyComesOnce, First!CopyIsCurrent,
         First!MarkerIsProvisional, First!CreatedIsEmpty, First!WizardIsDue,
         First!ServedIsRegistered
  <2>5. CASE copied = 1
    <3>1. root' = [root EXCEPT !.wal = First!SyncSidecar] /\ UNCHANGED marker
      BY <1>2, <2>5 DEF First!CopyFile, First!CopyOrder, First!Copied
    <3>2. /\ root'.wal = First!SyncSidecar /\ root'.database = None
          /\ First!SyncSidecar' = First!SyncSidecar
      BY <2>2, <3>1 DEF First!Inv, First!Types, First!SyncSidecar
    <3>3. First!Types'
      BY <2>2, <2>3, <2>5, <3>1 DEF First!Inv, First!Types
    <3>4. QED
      BY <2>1, <2>2, <2>5, <3>1, <3>2, <3>3 DEF First!Inv, First!CopyIsWhole,
         First!LegacyComesOnce, First!CopyIsCurrent, First!MarkerIsProvisional,
         First!CreatedIsEmpty, First!WizardIsDue, First!ServedIsRegistered
  <2>6. CASE copied = 2
    <3>1. /\ root' = [root EXCEPT !.database = [version |-> older.version, wal |-> older.wal]]
          /\ UNCHANGED marker
      BY <1>2, <2>6 DEF First!CopyFile, First!CopyOrder, First!Copied
    <3>2. root.wal = First!SyncSidecar
      BY <2>2, <2>6 DEF First!Inv, First!CopyIsCurrent
    <3>3. /\ root'.database = [version |-> older.version, wal |-> older.wal]
          /\ root'.wal = IF older.wal THEN older.version ELSE None
      BY <3>1, <3>2 DEF First!Inv, First!Types, First!SyncSidecar
    <3>4. First!Types'
      BY <2>2, <2>3, <2>6, <3>1 DEF First!Inv, First!Types
    <3>5. First!CopyIsWhole' /\ First!LegacyComesOnce'
      BY <2>1, <2>2, <3>3 DEF First!CopyIsWhole, First!LegacyComesOnce, First!Inv
    <3>6. QED
      BY <2>1, <2>2, <2>6, <3>1, <3>4, <3>5 DEF First!Inv, First!CopyIsCurrent,
         First!MarkerIsProvisional, First!CreatedIsEmpty, First!WizardIsDue,
         First!ServedIsRegistered
  <2>7. QED BY <2>2, <2>4, <2>5, <2>6
<1>3. CASE First!KilledInCopy
  <2>1. First!Live' = First!Live /\ First!OneLives' /\ First!DataStays'
    BY <1>3, ProfilesRest DEF First!KilledInCopy
  <2>2. /\ phase = "copying" /\ First!Live = {} /\ root.database = None /\ phase' = "off"
        /\ UNCHANGED <<older, firstPlace, firstContent, registered, copied, created, answered>>
    BY <1>3 DEF First!KilledInCopy, First!Inv, First!CopyIsCurrent
  <2>3. /\ marker' \in {None, marker} /\ root'.database = None
        /\ root' \in [database : {None}, wal : {None} \union Nat]
    BY <1>3, <2>2 DEF First!KilledInCopy, First!Inv, First!Types
  <2>4. QED
    BY FirstAssumption, <2>1, <2>2, <2>3 DEF First!FirstRunAssumption, First!Inv, First!Types,
       First!CopyIsWhole, First!LegacyComesOnce, First!CopyIsCurrent, First!MarkerIsProvisional,
       First!CreatedIsEmpty, First!WizardIsDue, First!ServedIsRegistered
<1>4. QED BY <1>1, <1>2, <1>3

(* The marker, and the runtime's first word.                                *)
LEMMA GateKeepsInv ==
  ASSUME First!Inv, First!Gate \/ First!KilledInMarker
  PROVE  First!Inv'
<1>1. /\ UNCHANGED <<older, root, firstPlace, firstContent, registered, copied, answered>>
      /\ phase = "gate"
  BY DEF First!Gate, First!KilledInMarker
<1>2. First!Live' = First!Live /\ First!OneLives' /\ First!DataStays'
  BY <1>1, ProfilesRest
<1>3. CASE First!Gate
  <2>1. /\ phase' = "starting" /\ created' \in BOOLEAN /\ marker' \in {marker, "plain"}
        /\ created' => root.database = None /\ First!Live = {}
        /\ root.database = None /\ First!Live = {} => marker' # None
        /\ marker # None => marker' = marker
    BY FirstAssumption, <1>3 DEF First!FirstRunAssumption, First!Gate, First!EnsureMarker,
       First!HasExistingData
  <2>2. First!Types'
    BY <1>1, <2>1 DEF First!Inv, First!Types
  <2>3. First!CopyIsWhole' /\ First!LegacyComesOnce' /\ First!CopyIsCurrent'
    BY <1>1, <1>2, <2>1 DEF First!Inv, First!CopyIsWhole, First!LegacyComesOnce,
       First!CopyIsCurrent
  <2>4. /\ First!MarkerIsProvisional' /\ First!CreatedIsEmpty'
        /\ First!WizardIsDue' /\ First!ServedIsRegistered'
    BY FirstAssumption, <1>1, <1>2, <2>1 DEF First!FirstRunAssumption, First!Inv,
       First!MarkerIsProvisional, First!CreatedIsEmpty, First!WizardIsDue,
       First!ServedIsRegistered
  <2>5. QED BY <1>2, <2>2, <2>3, <2>4 DEF First!Inv
<1>4. CASE First!KilledInMarker
  BY FirstAssumption, <1>1, <1>2, <1>4 DEF First!FirstRunAssumption, First!KilledInMarker,
     First!Inv, First!Types, First!CopyIsWhole, First!LegacyComesOnce, First!CopyIsCurrent,
     First!MarkerIsProvisional, First!CreatedIsEmpty, First!WizardIsDue, First!ServedIsRegistered
<1>5. QED BY <1>3, <1>4

LEMMA StartRuntimeKeepsInv ==
  ASSUME First!Inv, First!StartRuntime
  PROVE  First!Inv'
<1>1. /\ phase = "starting" /\ root' = [database |-> None, wal |-> None]
      /\ phase' = IF registered' = First!Live' THEN "started" ELSE "off"
      /\ UNCHANGED <<older, marker, copied, created, answered>>
  BY DEF First!StartRuntime
<1>2. CASE First!Live # {} /\ registered' = First!Live /\ UNCHANGED <<firstPlace, firstContent>>
  <2>1. First!Live' = First!Live /\ First!OneLives' /\ First!DataStays'
    BY <1>2, ProfilesRest
  <2>2. QED
    BY FirstAssumption, <1>1, <1>2, <2>1 DEF First!FirstRunAssumption, First!Inv, First!Types,
       First!CopyIsWhole, First!LegacyComesOnce, First!CopyIsCurrent, First!MarkerIsProvisional,
       First!CreatedIsEmpty, First!WizardIsDue, First!ServedIsRegistered
<1>3. CASE First!Live = {}
  <2>1. PICK id \in FirstIds :
          /\ firstPlace[id] = "nowhere"
          /\ firstPlace' = [firstPlace EXCEPT ![id] = "profiles"]
          /\ firstContent' = [firstContent EXCEPT
                                ![id] = IF root.database = None THEN "empty" ELSE "legacy"]
          /\ registered' \in
               IF root.database = None THEN {First!Live'} ELSE {First!Live', registered}
    BY <1>3 DEF First!StartRuntime
  <2>2. /\ firstPlace'[id] = "profiles"
        /\ \A j \in FirstIds \ {id} :
             firstPlace'[j] = firstPlace[j] /\ firstContent'[j] = firstContent[j]
        /\ firstContent'[id] = IF root.database = None THEN "empty" ELSE "legacy"
    BY <2>1 DEF First!Inv, First!Types
  <2>3. First!Live' = {id}
    BY <1>3, <2>2 DEF First!Live
  <2>4. \A j \in FirstIds : firstContent[j] # "legacy"
    BY <1>3 DEF First!Inv, First!DataStays, First!Live
  <2>5. marker # id
    BY <2>1 DEF First!Inv, First!MarkerIsProvisional
  <2>6. First!Types'
    BY <1>1, <2>1 DEF First!Inv, First!Types
  <2>7. First!OneLives' /\ First!DataStays' /\ First!CopyIsWhole' /\ First!LegacyComesOnce'
    BY <1>1, <2>2, <2>3, <2>4 DEF First!Inv, First!OneLives, First!DataStays, First!CopyIsWhole,
       First!LegacyComesOnce
  <2>8. First!CopyIsCurrent' /\ First!MarkerIsProvisional'
    BY <1>1, <2>2, <2>5 DEF First!Inv, First!CopyIsCurrent, First!MarkerIsProvisional
  <2>9. First!CreatedIsEmpty' /\ First!WizardIsDue' /\ First!ServedIsRegistered'
    BY <1>1, <1>3, <2>2, <2>3 DEF First!Inv, First!CreatedIsEmpty, First!WizardIsDue,
       First!ServedIsRegistered
  <2>10. QED BY <2>6, <2>7, <2>8, <2>9 DEF First!Inv
<1>4. QED BY <1>2, <1>3 DEF First!StartRuntime

(* The profile of the wizard and of the open application lives.             *)
LEMMA ActiveLives ==
  ASSUME First!Inv, phase \in {"started", "wizard", "imported", "open"}
  PROVE  First!Active \in First!Live /\ First!Active \in FirstIds /\ First!Live = {First!Active}
<1>1. PICK id \in First!Live : id \in registered
  BY DEF First!Inv, First!ServedIsRegistered
<1>2. First!Active \in First!Live
  BY <1>1 DEF First!Active
<1>3. QED BY <1>2 DEF First!Inv, First!OneLives, First!Live

(* The wizard, its answers, and the application that opens.                 *)
LEMMA WizardKeepsInv ==
  ASSUME First!Inv, First!Wizard \/ First!Open \/ First!StartNew \/ First!ImportHeard
  PROVE  First!Inv'
<1>1. UNCHANGED <<older, root, firstPlace, firstContent, registered, copied, created>>
      /\ phase \in {"started", "wizard", "imported", "open"}
  BY DEF First!Wizard, First!Open, First!StartNew, First!ImportHeard, First!disk
<1>2. /\ First!Live' = First!Live /\ First!OneLives' /\ First!DataStays'
      /\ First!Active \in First!Live /\ First!Active \in FirstIds
  BY <1>1, ProfilesRest, ActiveLives
<1>3. CASE First!Wizard
  <2>1. marker' \in {marker, First!Active} /\ (marker' # marker => created) /\ marker # None
        /\ phase = "started" /\ phase' = "wizard" /\ UNCHANGED answered
    BY <1>3 DEF First!Wizard, First!Recorded
  <2>2. First!MarkerIsProvisional'
    BY <1>1, <1>2, <2>1 DEF First!Inv, First!MarkerIsProvisional, First!CreatedIsEmpty,
       First!DataStays, First!Live
  <2>3. First!Types'
    BY <1>1, <1>2, <2>1 DEF First!Inv, First!Types
  <2>4. QED
    BY FirstAssumption, <1>1, <1>2, <2>1, <2>2, <2>3 DEF First!FirstRunAssumption, First!Inv,
       First!CopyIsWhole, First!LegacyComesOnce, First!CopyIsCurrent, First!CreatedIsEmpty,
       First!WizardIsDue, First!ServedIsRegistered
<1>4. CASE First!Open \/ First!StartNew \/ First!ImportHeard
  BY FirstAssumption, <1>1, <1>2, <1>4 DEF First!FirstRunAssumption, First!Open, First!StartNew,
     First!ImportHeard, First!disk, First!Inv, First!Types, First!CopyIsWhole,
     First!LegacyComesOnce, First!CopyIsCurrent, First!MarkerIsProvisional, First!CreatedIsEmpty,
     First!WizardIsDue, First!ServedIsRegistered
<1>5. QED BY <1>3, <1>4

(* What the user brings into the profile.                                   *)
LEMMA DataKeepsInv ==
  ASSUME First!Inv, First!Import \/ First!Use
  PROVE  First!Inv'
<1>1. PICK what \in {"imported", "own"} :
        /\ firstContent' = [firstContent EXCEPT ![First!Active] = what]
        /\ phase \in {"wizard", "open"} /\ phase' \in {"imported", "open"}
        /\ phase' = "open" <=> what = "own"
        /\ what = "own" <=> phase = "open"
        /\ UNCHANGED <<older, root, marker, firstPlace, registered, copied, created, answered>>
  BY DEF First!Import, First!Use
<1>2. /\ First!Live' = First!Live /\ First!Live = {First!Active}
      /\ First!Active \in First!Live /\ First!Active \in FirstIds
  BY <1>1, ActiveLives DEF First!Live
<1> DEFINE id == First!Active
<1>3. firstContent'[id] = what /\ \A j \in FirstIds : j # id => firstContent'[j] = firstContent[j]
  BY <1>1, <1>2 DEF First!Inv, First!Types
<1>4. First!Types'
  BY <1>1, <1>2 DEF First!Inv, First!Types
<1>5. firstPlace[id] = "profiles" /\ id \in FirstIds
  BY <1>2 DEF First!Live
<1>6. phase = "open" => marker = None
  BY DEF First!Inv, First!ServedIsRegistered
<1> HIDE DEF id
<1>7. First!OneLives' /\ First!DataStays' /\ First!CopyIsWhole' /\ First!LegacyComesOnce'
  BY <1>1, <1>2, <1>3, <1>5 DEF First!Inv, First!OneLives, First!DataStays, First!CopyIsWhole,
     First!LegacyComesOnce
<1>8. First!CopyIsCurrent' /\ First!MarkerIsProvisional'
  BY FirstAssumption, <1>1, <1>3, <1>5, <1>6 DEF First!FirstRunAssumption, First!Inv,
     First!CopyIsCurrent, First!MarkerIsProvisional
<1>9. First!CreatedIsEmpty' /\ First!WizardIsDue' /\ First!ServedIsRegistered'
  BY <1>1, <1>2, <1>3, <1>6 DEF First!Inv, First!CreatedIsEmpty, First!WizardIsDue,
     First!ServedIsRegistered, id
<1>10. QED BY <1>4, <1>7, <1>8, <1>9 DEF First!Inv

(* The exit of the wizard.                                                  *)
LEMMA ExitKeepsInv ==
  ASSUME First!Inv, First!Exit \/ First!KilledInExit
  PROVE  First!Inv'
<1>1. /\ phase' = "off" /\ answered' = TRUE /\ marker' \in {None, marker}
      /\ UNCHANGED <<older, root, firstContent, registered, copied, created>>
      /\ \/ firstPlace' = firstPlace
         \/ marker \in First!Live /\ firstPlace' = [firstPlace EXCEPT ![marker] = "deleted"]
  BY DEF First!Exit, First!KilledInExit, First!Discarded
<1>2. CASE UNCHANGED firstPlace
  <2>1. First!Live' = First!Live /\ First!OneLives' /\ First!DataStays'
    BY <1>1, <1>2, ProfilesRest
  <2>2. QED
    BY FirstAssumption, <1>1, <1>2, <2>1 DEF First!FirstRunAssumption, First!Inv, First!Types,
       First!CopyIsWhole, First!LegacyComesOnce, First!CopyIsCurrent, First!MarkerIsProvisional,
       First!CreatedIsEmpty, First!WizardIsDue, First!ServedIsRegistered
<1>3. CASE marker \in First!Live /\ firstPlace' = [firstPlace EXCEPT ![marker] = "deleted"]
  <2>1. /\ marker \in FirstIds /\ firstPlace[marker] = "profiles"
        /\ firstContent[marker] \notin {"legacy", "own"}
    BY <1>3 DEF First!Inv, First!MarkerIsProvisional, First!Live
  <2>2. /\ firstPlace'[marker] = "deleted"
        /\ \A j \in FirstIds : j # marker => firstPlace'[j] = firstPlace[j]
    BY <1>3, <2>1 DEF First!Inv, First!Types
  <2>3. First!Live' \subseteq First!Live
    BY <2>2 DEF First!Live
  <2>4. First!Types'
    BY <1>1, <1>3 DEF First!Inv, First!Types
  <2>5. First!OneLives' /\ First!DataStays' /\ First!CopyIsWhole' /\ First!LegacyComesOnce'
    BY <1>1, <2>1, <2>2, <2>3 DEF First!Inv, First!OneLives, First!DataStays, First!CopyIsWhole,
       First!LegacyComesOnce
  <2>6. /\ First!CopyIsCurrent' /\ First!CreatedIsEmpty'
        /\ First!WizardIsDue' /\ First!ServedIsRegistered'
    BY <1>1 DEF First!CopyIsCurrent, First!CreatedIsEmpty, First!WizardIsDue,
       First!ServedIsRegistered
  <2>7. First!MarkerIsProvisional'
    BY FirstAssumption, <1>1, <2>1, <2>2 DEF First!FirstRunAssumption, First!MarkerIsProvisional
  <2>8. QED BY <2>4, <2>5, <2>6, <2>7 DEF First!Inv
<1>4. QED BY <1>1, <1>2, <1>3

(* The end of the process, and the older installation that goes on.         *)
LEMMA RestKeepsInv ==
  ASSUME First!Inv, First!Killed \/ First!UseLegacy \/ UNCHANGED First!vars
  PROVE  First!Inv'
<1>1. UNCHANGED <<root, marker, firstPlace, firstContent, registered, copied, created, answered>>
  BY DEF First!Killed, First!UseLegacy, First!vars, First!disk
<1>2. First!Live' = First!Live /\ First!OneLives' /\ First!DataStays'
  BY <1>1, ProfilesRest
<1>3. CASE UNCHANGED First!vars
  <2>1. First!SyncSidecar' = First!SyncSidecar
    BY <1>3 DEF First!vars, First!disk, First!SyncSidecar
  <2>2. QED
    BY <1>2, <1>3, <2>1 DEF First!vars, First!disk, First!Inv, First!Types, First!CopyIsWhole,
       First!LegacyComesOnce, First!CopyIsCurrent, First!MarkerIsProvisional,
       First!CreatedIsEmpty, First!WizardIsDue, First!ServedIsRegistered
<1>4. CASE First!Killed \/ First!UseLegacy
  <2>1. phase' = "off"
    BY <1>4 DEF First!Killed, First!UseLegacy
  <2>2. older' \in {None} \union [version : Nat, wal : BOOLEAN, marker : BOOLEAN]
    <3>1. older # None => /\ older \in [version : Nat, wal : BOOLEAN, marker : BOOLEAN]
                           /\ older.version + 1 \in Nat
      BY DEF First!Inv, First!Types
    <3>2. CASE First!Killed
      BY <3>2 DEF First!Killed, First!disk, First!Inv, First!Types
    <3>3. CASE First!UseLegacy
      BY <3>1, <3>3 DEF First!UseLegacy
    <3>4. QED BY <1>4, <3>2, <3>3
  <2>2a. First!Types'
    BY <1>1, <2>1, <2>2 DEF First!Inv, First!Types
  <2>3. QED
    BY <1>1, <1>2, <2>1, <2>2a DEF First!Inv, First!CopyIsWhole, First!LegacyComesOnce,
       First!CopyIsCurrent, First!MarkerIsProvisional, First!CreatedIsEmpty, First!WizardIsDue,
       First!ServedIsRegistered
<1>5. QED BY <1>3, <1>4

(* A first start that is killed anywhere neither mixes nor repeats the copy,*)
(* nor skips the wizard, whose exit moves no data of the user aside.        *)
THEOREM FirstStartsAreSafe == First!Spec => FirstStartIsSafe
<1>1. First!Inv /\ [First!Next]_(First!vars) => First!Inv'
  BY CopyKeepsInv, GateKeepsInv, StartRuntimeKeepsInv, WizardKeepsInv, DataKeepsInv, ExitKeepsInv,
     RestKeepsInv DEF First!Next
<1>2. First!Spec => []First!Inv
  BY <1>1, FirstInit, PTL DEF First!Spec
<1>3. First!Inv => First!FirstRunIsSound
  BY ActiveLives DEF First!Inv, First!FirstRunIsSound, First!WizardIsAnswered, First!WizardIsDue,
     First!ServedIsRegistered
<1> DEFINE Spared == \A id \in FirstIds : firstPlace'[id] = "deleted" /\ firstPlace[id] # "deleted"
                       => firstContent[id] \notin {"legacy", "own"}
<1>4. First!Inv /\ [First!Next]_(First!vars) => [Spared]_(First!vars)
  <2> SUFFICES ASSUME First!Inv, First!Next, NEW id \in FirstIds,
                      firstPlace'[id] = "deleted", firstPlace[id] # "deleted"
               PROVE  firstContent[id] \notin {"legacy", "own"}
    OBVIOUS
  <2>1. CASE First!Exit \/ First!KilledInExit
    <3>1. marker \in First!Live /\ firstPlace' = [firstPlace EXCEPT ![marker] = "deleted"]
      BY <2>1 DEF First!Exit, First!KilledInExit, First!Discarded
    <3>2. id = marker
      BY <3>1 DEF First!Inv, First!Types
    <3>3. QED BY <3>2 DEF First!Inv, First!MarkerIsProvisional
  <2>2. CASE First!StartRuntime
    BY <2>2 DEF First!StartRuntime, First!Inv, First!Types
  <2>3. CASE ~(First!Exit \/ First!KilledInExit \/ First!StartRuntime)
    BY <2>3 DEF First!Next, First!Boot, First!CopyFile, First!KilledInCopy, First!Gate,
       First!KilledInMarker, First!Wizard, First!Open, First!StartNew, First!Import,
       First!ImportHeard, First!Use, First!Killed, First!UseLegacy, First!disk
  <2>4. QED BY <2>1, <2>2, <2>3
<1>5. QED BY <1>2, <1>3, <1>4, PTL DEF First!Spec, First!ExitSparesData, FirstStartIsSafe
================================================================================
