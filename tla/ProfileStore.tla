----------------------------- MODULE ProfileStore -----------------------------
(****************************************************************************)
(* ProfileStore and migrateLegacyIntoProfile of server/src/profiles.ts: the *)
(* registry file, the directories of the profiles, and the list in memory,  *)
(* while the process may end between any two changes to the file system.    *)
(*                                                                          *)
(* A request of profiles-api.ts runs alone (its handler is synchronous, and *)
(* a deletion holds the coordinator), so its steps are interleaved with the *)
(* end of the process only.  Of a profile the id, the name and the place in *)
(* the list are kept; of its directory, which kinds of files it holds.      *)
(****************************************************************************)
EXTENDS Naturals, Sequences, FiniteSets

CONSTANTS
  Ids,    \* the UUIDs that can be drawn; each is drawn for one profile
  Names,  \* what profiles are called
  Main,   \* the name of the first profile
  None

StoreAssumption == Main \in Names /\ None \notin Ids

VARIABLES
  step,       \* how far the boot, or the request, has come
  list,       \* profiles, in memory
  active,     \* activeId, in memory
  registry,   \* the registry file
  place,      \* place[id]: where the directory of the profile is
  content,    \* content[id]: what the directory holds
  legacy,     \* what is left of the layout before profiles
  migrating,  \* the id migrateLegacyIntoProfile works for
  reply       \* the answer to the last request

memory == <<list, active>>
disk == <<registry, place, content, legacy>>
vars == <<step, list, active, registry, place, content, legacy, migrating, reply>>

\* The siblings of the database move after its backups and the credentials,
\* and the database file itself moves last.
MoveOrder == <<"backups", "credentials", "rollback", "database">>
Whole == {"backups", "credentials", "rollback", "database"}
Siblings == {"rollback", "database"}

BootSteps == {"booting", "scanning", "loadSaving", "loaded", "marking", "moving",
              "firstSaving", "commitSaving", "unmarking"}
Steps == {"down", "ready", "saving"} \union BootSteps

Profile == [id : Ids, name : Names]
RegistryFile == [profiles : Seq(Profile), active : Ids \union {None}]
Registered(id) == \E i \in DOMAIN list : list[i].id = id
Taken(name) == \E i \in DOMAIN list : list[i].name = name
Fresh(id) == place[id] = "nowhere" /\ ~Registered(id)

(* A first start, an interrupted restore included, or a legacy database     *)
(* that lies beside a profile.                                              *)
Init ==
  /\ step = "down" /\ reply = "ok"
  /\ list = <<>> /\ active = None /\ migrating = None
  /\ \/ /\ registry = None
        /\ place = [id \in Ids |-> "nowhere"]
        /\ content = [id \in Ids |-> {}]
        /\ legacy \in {{}, Whole, Whole \ {"database"}}
     \/ \E id \in Ids :
          /\ registry = [profiles |-> <<[id |-> id, name |-> Main]>>, active |-> id]
          /\ place = [[i \in Ids |-> "nowhere"] EXCEPT ![id] = "profiles"]
          /\ content = [[i \in Ids |-> {}] EXCEPT ![id] = {"database"}]
          /\ legacy = {"database"}

--------------------------------------------------------------------------------
(* The boot: recoverInterruptedDatabase and load.                           *)

Start ==
  /\ step = "down"
  /\ legacy' = IF "rollback" \in legacy THEN legacy \union {"database"} ELSE legacy
  /\ step' = "booting"
  /\ UNCHANGED <<memory, registry, place, content, migrating, reply>>

ReadRegistry ==
  /\ step = "booting"
  /\ list' = IF registry = None THEN <<>> ELSE registry.profiles
  /\ active' = IF registry = None THEN None ELSE registry.active
  /\ step' = "scanning"
  /\ UNCHANGED <<disk, migrating, reply>>

Adoptable(id) ==
  /\ place[id] = "profiles" /\ ~Registered(id)
  /\ "database" \in content[id] /\ "marker" \notin content[id]

(* A directory with a database that is in no registry becomes a profile.    *)
Adopt(id) ==
  /\ step = "scanning" /\ Adoptable(id)
  /\ \E name \in Names :
       /\ ~Taken(name)
       /\ list' = Append(list, [id |-> id, name |-> name])
  /\ UNCHANGED <<step, active, disk, migrating, reply>>

Alive(profile) == place[profile.id] = "profiles"

(* The entries at the places kept, in their order: Array.filter.            *)
InOrder(kept) ==
  {at \in [1 .. Cardinality(kept) -> kept] :
     /\ \A m, n \in DOMAIN at : m < n => at[m] < at[n]
     /\ \A i \in kept : \E n \in DOMAIN at : at[n] = i}
Filtered(profiles, kept) ==
  {[n \in DOMAIN at |-> profiles[at[n]]] : at \in InOrder(kept)}

FirstOrNone(profiles) == IF profiles = <<>> THEN None ELSE profiles[1].id

(* The rest of load: litter is removed, entries without a directory are     *)
(* dropped, the active id is repaired, and what changed is to be saved.     *)
EndScan ==
  /\ step = "scanning" /\ \A id \in Ids : ~Adoptable(id)
  /\ list' \in Filtered(list, {i \in DOMAIN list : Alive(list[i])})
  /\ active' = IF \E i \in DOMAIN list' : list'[i].id = active THEN active ELSE FirstOrNone(list')
  /\ place' = [id \in Ids |-> IF place[id] = "profiles" /\ ~Registered(id) /\ content[id] = {}
                              THEN "nowhere" ELSE place[id]]
  /\ content' = [id \in Ids |-> IF Registered(id) THEN content[id] \ {"marker"} ELSE content[id]]
  /\ step' = IF registry # [profiles |-> list', active |-> active']
                /\ (list' # <<>> \/ registry # None)
             THEN "loadSaving" ELSE "loaded"
  /\ UNCHANGED <<registry, legacy, migrating, reply>>

--------------------------------------------------------------------------------
(* migrateLegacyIntoProfile, after load.                                    *)

(* There are profiles; a legacy database beside them is set aside.          *)
Settle ==
  /\ step = "loaded" /\ list # <<>>
  /\ legacy' = IF "database" \in legacy THEN legacy \ Siblings ELSE legacy
  /\ step' = "ready" /\ reply' = "ok"
  /\ UNCHANGED <<memory, registry, place, content, migrating>>

Resumable == {id \in Ids : place[id] = "profiles" /\ "marker" \in content[id]}

Resume ==
  /\ step = "loaded" /\ list = <<>>
  /\ migrating' \in Resumable
  /\ step' = "moving"
  /\ UNCHANGED <<memory, disk, reply>>

StartMigration(id) ==
  /\ step = "loaded" /\ list = <<>> /\ Resumable = {}
  /\ "database" \in legacy /\ Fresh(id)
  /\ migrating' = id
  /\ place' = [place EXCEPT ![id] = "profiles"]
  /\ step' = "marking"
  /\ UNCHANGED <<memory, registry, content, legacy, reply>>

Mark ==
  /\ step = "marking"
  /\ content' = [content EXCEPT ![migrating] = @ \union {"marker"}]
  /\ step' = "moving"
  /\ UNCHANGED <<memory, registry, place, legacy, migrating, reply>>

(* moveIfAbsent.                                                            *)
Movable == legacy \ content[migrating]

Move ==
  /\ step = "moving"
  /\ \E i \in DOMAIN MoveOrder :
       /\ MoveOrder[i] \in Movable /\ \A k \in 1 .. (i - 1) : MoveOrder[k] \notin Movable
       /\ legacy' = legacy \ {MoveOrder[i]}
       /\ content' = [content EXCEPT ![migrating] = @ \union {MoveOrder[i]}]
  /\ UNCHANGED <<step, memory, registry, place, migrating, reply>>

\* Faulty variant: the registry is written before the files have moved.
CommitFirst ==
  /\ step = "moving"
  /\ list' = <<[id |-> migrating, name |-> Main]>> /\ active' = migrating
  /\ step' = "commitSaving"
  /\ UNCHANGED <<disk, migrating, reply>>

(* commitMigrated, up to its persist.                                       *)
Commit ==
  /\ step = "moving" /\ Movable = {}
  /\ list' = <<[id |-> migrating, name |-> Main]>> /\ active' = migrating
  /\ step' = "commitSaving"
  /\ UNCHANGED <<disk, migrating, reply>>

Unmark ==
  /\ step = "unmarking"
  /\ content' = [content EXCEPT ![migrating] = @ \ {"marker"}]
  /\ migrating' = None
  /\ step' = "ready" /\ reply' = "ok"
  /\ UNCHANGED <<memory, registry, place, legacy>>

(* Nothing to migrate: the first profile is created.                        *)
CreateFirst(id) ==
  /\ step = "loaded" /\ list = <<>> /\ Resumable = {}
  /\ "database" \notin legacy /\ Fresh(id)
  /\ place' = [place EXCEPT ![id] = "profiles"]
  /\ list' = <<[id |-> id, name |-> Main]>> /\ active' = id
  /\ step' = "firstSaving"
  /\ UNCHANGED <<registry, content, legacy, migrating, reply>>

--------------------------------------------------------------------------------
(* persist: written aside and renamed.  A failure ends a boot; the server   *)
(* that runs answers with it and keeps the list as it is in memory.         *)

AfterSaving ==
  CASE step = "loadSaving" -> "loaded"
    [] step = "commitSaving" -> "unmarking"
    [] OTHER -> "ready"

Persist ==
  /\ step \in {"saving", "loadSaving", "firstSaving", "commitSaving"}
  /\ registry' = [profiles |-> list, active |-> active]
  /\ step' = AfterSaving
  /\ reply' = IF AfterSaving = "ready" THEN "ok" ELSE reply
  /\ UNCHANGED <<memory, place, content, legacy, migrating>>

PersistFails ==
  /\ step = "saving"
  /\ step' = "ready"
  /\ reply' = "failed"
  /\ UNCHANGED <<memory, disk, migrating>>

(* The process ends, by itself or because its boot failed.                  *)
Crash ==
  /\ step # "down"
  /\ step' = "down"
  /\ list' = <<>> /\ active' = None /\ migrating' = None
  /\ UNCHANGED <<disk, reply>>

(* The registry file is lost while nothing runs.                            *)
LoseRegistry ==
  /\ step = "down"
  /\ registry' = None
  /\ UNCHANGED <<step, memory, place, content, legacy, migrating, reply>>

--------------------------------------------------------------------------------
(* The requests, up to their persist.                                       *)

Create(id) ==
  /\ step = "ready" /\ Fresh(id)
  /\ \E name \in Names :
       /\ ~Taken(name)
       /\ list' = Append(list, [id |-> id, name |-> name])
  /\ place' = [place EXCEPT ![id] = "profiles"]
  /\ active' = IF active = None THEN id ELSE active
  /\ step' = "saving"
  /\ UNCHANGED <<registry, content, legacy, migrating, reply>>

(* update: what does not reach the disk is taken back in memory.            *)
Update(id) ==
  /\ step = "ready"
  /\ \/ \E i \in DOMAIN list, name \in Names :
          /\ list[i].id = id /\ (Taken(name) => list[i].name = name)
          /\ list' = [list EXCEPT ![i].name = name]
          /\ registry' = [profiles |-> list', active |-> active]
          /\ reply' = "ok"
     \/ reply' = "failed" /\ UNCHANGED <<list, registry>>
  /\ UNCHANGED <<step, active, place, content, legacy, migrating>>

Reorder ==
  /\ step = "ready"
  /\ \E order \in [DOMAIN list -> DOMAIN list] :
       /\ \A i, k \in DOMAIN list : order[i] = order[k] => i = k
       /\ list' = [i \in DOMAIN list |-> list[order[i]]]
  /\ step' = "saving"
  /\ UNCHANGED <<active, disk, migrating, reply>>

\* Faulty variant: the choice is answered but not saved.
SetActiveUnsaved(id) ==
  /\ step = "ready" /\ Registered(id)
  /\ active' = id
  /\ reply' = "ok"
  /\ UNCHANGED <<step, list, disk, migrating>>

SetActive(id) ==
  /\ step = "ready" /\ Registered(id)
  /\ active' = id
  /\ step' = "saving"
  /\ UNCHANGED <<list, disk, migrating, reply>>

Others(id) == {i \in DOMAIN list : list[i].id # id}

(* softDelete: the directory is moved first.                                *)
SoftDelete(id) ==
  /\ step = "ready" /\ Registered(id) /\ Len(list) > 1
  /\ place' = [place EXCEPT ![id] = "deleted"]
  /\ list' \in Filtered(list, Others(id))
  /\ active' = IF active = id THEN FirstOrNone(list') ELSE active
  /\ step' = "saving"
  /\ UNCHANGED <<registry, content, legacy, migrating, reply>>

(* The directory cannot be moved: PROFILE_DELETE_FAILED.                    *)
SoftDeleteFails(id) ==
  /\ step = "ready" /\ Registered(id) /\ Len(list) > 1
  /\ reply' = "failed"
  /\ UNCHANGED <<step, memory, disk, migrating>>

(* A request opens the profile: its database is there from now on.          *)
OpenDatabase(id) ==
  /\ step = "ready" /\ Registered(id)
  /\ content' = [content EXCEPT ![id] = @ \union {"database"}]
  /\ UNCHANGED <<step, memory, registry, place, legacy, migrating, reply>>

Boot ==
  \/ Start \/ ReadRegistry \/ EndScan \/ Settle \/ Resume \/ Mark \/ Move \/ Commit \/ Unmark
  \/ \E id \in Ids : Adopt(id) \/ StartMigration(id) \/ CreateFirst(id)

Request ==
  \/ Reorder
  \/ \E id \in Ids :
       \/ Create(id) \/ Update(id) \/ SetActive(id)
       \/ SoftDelete(id) \/ SoftDeleteFails(id) \/ OpenDatabase(id)

Next == Boot \/ Request \/ Persist \/ PersistFails \/ Crash \/ LoseRegistry

Spec == Init /\ [][Next]_vars

--------------------------------------------------------------------------------
(* Every variable stays in its domain.                                      *)
TypeOK ==
  /\ step \in Steps
  /\ list \in Seq(Profile)
  /\ active \in Ids \union {None}
  /\ registry \in {None} \union RegistryFile
  /\ place \in [Ids -> {"nowhere", "profiles", "deleted"}]
  /\ content \in [Ids -> SUBSET (Whole \union {"marker"})]
  /\ legacy \in SUBSET Whole
  /\ migrating \in Ids \union {None}
  /\ reply \in {"ok", "failed"}

(* The list a running server works with has no entry without a directory    *)
(* (a deletion cut short included), and no database that is there is left   *)
(* out of it, though requests fail, the process dies or the registry is     *)
(* lost.                                                                    *)
ListMatchesDisk ==
  step = "ready" =>
    \A id \in Ids :
      /\ Registered(id) => place[id] = "profiles"
      /\ place[id] = "profiles" /\ "database" \in content[id] => Registered(id)

(* The list has no two profiles of one id or one name, and the active id is *)
(* one of them: a request without a header always finds a profile.          *)
ListIsSound ==
  step \in {"ready", "saving"} =>
    /\ \E i \in DOMAIN list : list[i].id = active
    /\ \A i, k \in DOMAIN list :
         list[i].id = list[k].id \/ list[i].name = list[k].name => i = k

(* What a request was answered with is what the disk holds, so a crash      *)
(* after the answer brings back the list the user saw.                      *)
AnsweredIsDurable ==
  step = "ready" /\ reply = "ok" => registry = [profiles |-> list, active |-> active]

(* profiles.ts:519: no window of the migration strands the backups or the   *)
(* credentials: once a server runs nothing is left at the old place, and    *)
(* they are in the directory the database went to.                          *)
LegacyArrivesWhole ==
  step = "ready" =>
    /\ legacy = {}
    /\ \A id \in Ids : content[id] \intersect (Whole \ {"database"}) # {} => Whole \subseteq content[id]

(* profiles.ts:519: however often it is cut short, a migration keeps the    *)
(* one id it has drawn.                                                     *)
OneMigration == Cardinality({id \in Ids : "marker" \in content[id]}) <= 1

(* What ListIsTrue of the runs says: the list is the one on the disk, sound, *)
(* and the layout before profiles moves into one of them, whole.            *)
ListIsTrue ==
  TypeOK /\ ListMatchesDisk /\ ListIsSound /\ LegacyArrivesWhole /\ OneMigration

--------------------------------------------------------------------------------
(* The parts of the inductive invariant.  Two things are kept through every *)
(* crash: how far the migration has come is written in the directories, and *)
(* from where a boot or a request stands follows how memory and disk relate.*)

Marked == {id \in Ids : "marker" \in content[id]}
Empty(reg) == reg = None \/ reg = [profiles |-> <<>>, active |-> None]
Saved == registry = [profiles |-> list, active |-> active]
Holds(id) == place[id] = "profiles" /\ "database" \in content[id]
Named(profiles) == {profiles[i].id : i \in DOMAIN profiles}
InRegistry == IF registry = None THEN {} ELSE Named(registry.profiles)
Distinct(profiles) ==
  \A i, k \in DOMAIN profiles :
    profiles[i].id = profiles[k].id \/ profiles[i].name = profiles[k].name => i = k

ListsAreDistinct == Distinct(list) /\ (registry # None => Distinct(registry.profiles))

(* A directory that is not there is empty, and what a directory holds of    *)
(* the siblings of a database it holds entirely, but for the one that is    *)
(* being filled.                                                            *)
DirectoriesAreWhole ==
  \A id \in Ids :
    /\ place[id] = "nowhere" => content[id] = {}
    /\ content[id] \intersect (Whole \ {"database"}) # {} => Whole \subseteq content[id] \/ id \in Marked

(* While a directory is marked the layout before profiles is in it and at   *)
(* the old place, each file once, the database last; no other profile lives,*)
(* and it is registered only when everything has arrived.                   *)
MarkedIsMigrating ==
  \A a \in Marked :
    /\ \A b \in Marked : a = b
    /\ place[a] = "profiles"
    /\ content[a] \ {"marker"} = Whole \ legacy
    /\ legacy # {} => "database" \in legacy
    /\ \A b \in Ids \ {a} : place[b] = "profiles" => content[b] = {}
    /\ Named(list) \union InRegistry \subseteq {a}
    /\ Named(list) \union InRegistry # {} => legacy = {}

(* While none is, the layout is untouched and there is no profile, or there *)
(* is nothing left of it but a database beside one.                         *)
UnmarkedIsSettled ==
  Marked = {} =>
    /\ legacy \in {{}, {"database"}, Whole, Whole \ {"database"}}
    /\ legacy = Whole \ {"database"} => step = "down"
    /\ legacy \in {Whole, Whole \ {"database"}} =>
         (\A id \in Ids : content[id] = {}) /\ Named(list) = {} /\ Empty(registry)
    /\ legacy = {"database"} => \E id \in Ids : Holds(id)

(* Where the boot, or the request, stands.                                  *)
Off == list = <<>> /\ active = None /\ migrating = None
Scanned ==
  /\ \A id \in Ids : Registered(id) => place[id] = "profiles" /\ "marker" \notin content[id]
  /\ \A id \in Ids : Holds(id) /\ "marker" \notin content[id] => Registered(id)
  /\ \A id \in Ids : place[id] = "profiles" => Registered(id) \/ content[id] # {}
  /\ IF list = <<>> THEN active = None ELSE Registered(active)
Running ==
  /\ list # <<>> /\ Registered(active)
  /\ \A id \in Ids : Registered(id) => place[id] = "profiles"
  /\ \A id \in Ids : Holds(id) => Registered(id)
  /\ legacy = {}
Migrating == migrating \in Ids /\ list = <<>> /\ active = None /\ Empty(registry)
Migrated == list = <<[id |-> migrating, name |-> Main]>> /\ active = migrating

StepIsTrue ==
  /\ step \in {"down", "booting"} => Off
  /\ step = "scanning" => InRegistry \subseteq Named(list)
  /\ step = "loadSaving" => Scanned
  /\ step = "loaded" => Scanned /\ (Saved \/ (list = <<>> /\ registry = None))
  /\ step = "marking" =>
       /\ Migrating /\ Marked = {} /\ legacy = Whole
       /\ \A id \in Ids : place[id] = "profiles" <=> id = migrating
  /\ step = "moving" => Migrating /\ migrating \in Marked
  /\ step \in {"commitSaving", "unmarking"} => Migrated /\ migrating \in Marked /\ legacy = {}
  /\ step = "unmarking" => Saved
  /\ step \in {"firstSaving", "saving", "ready"} => Running /\ Marked = {}
  /\ step = "ready" /\ reply = "ok" => Saved

Inv ==
  /\ ListsAreDistinct /\ DirectoriesAreWhole
  /\ MarkedIsMigrating /\ UnmarkedIsSettled /\ StepIsTrue
================================================================================
