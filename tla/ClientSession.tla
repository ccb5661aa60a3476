---------------------------- MODULE ClientSession ----------------------------
(****************************************************************************)
(* Whose numbers are on the screen: the root component of the client        *)
(* (client/src/App.tsx over api.ts) as it boots, switches, creates and      *)
(* deletes profiles, syncs and refreshes, against the registry of the       *)
(* server.                                                                  *)
(*                                                                          *)
(* Each async function of the component is a task; what runs between two of *)
(* its awaits is one action. The server handles one request at a time; two  *)
(* requests in flight are handled, and their answers delivered, in any      *)
(* order. A request may fail, before it is handled. The navigation, the     *)
(* notices and the views' own requests are left out: a switch remounts the  *)
(* views.                                                                   *)
(****************************************************************************)
EXTENDS Naturals, FiniteSets

CONSTANTS
  Profiles,   \* every profile that may ever exist
  Slots,      \* tasks in flight at once
  None

SessionAssumption == None \notin Profiles /\ Cardinality(Profiles) > 1

VARIABLES
  existing, registry,  \* the server: the profiles, and the active one
  view,                \* "loading", "failed" or "ready"
  shown,               \* activeIdRef, activeId and the header of api.ts, set together
  switching,           \* switchingProfile
  syncing,             \* syncingRef
  lastSync,            \* whose lastSyncAt is displayed, or None
  failures,            \* whose sync failures are displayed, or None
  task                 \* task[s]: the function that awaits in s, or None

server == <<existing, registry>>
vars == <<server, view, shown, switching, syncing, lastSync, failures, task>>

\* What a task does, the request it awaits, the profile the request names, the answer
\* (None until there is one), and for a create what it remembers: the state of switching
\* in its closure, and the new profile.
Task(do, on, id) == [do |-> do, on |-> on, id |-> id, answer |-> None, blocked |-> FALSE, made |-> None]
Free(s) == task[s] = None

Init ==
  /\ existing \in SUBSET Profiles /\ registry \in existing
  /\ view = "loading" /\ shown = None
  /\ switching = FALSE /\ syncing = FALSE
  /\ lastSync = None /\ failures = None
  /\ \E s \in Slots : task = [t \in Slots |-> IF t = s THEN Task("boot", "profiles", None) ELSE None]

----------------------------------------------------------------------------
(* The server.                                                              *)

Answer(s, a) == task' = [task EXCEPT ![s].answer = a]

Handle(s) ==
  /\ CASE task[s].on = "profiles" -> Answer(s, registry) /\ UNCHANGED server
       [] task[s].on = "activate" ->
            /\ task[s].id \in existing /\ Answer(s, task[s].id)
            /\ registry' = task[s].id /\ UNCHANGED existing
       [] task[s].on \in {"status", "sync"} ->
            task[s].id \in existing /\ Answer(s, task[s].id) /\ UNCHANGED server
       [] task[s].on = "create" ->
            /\ \E id \in Profiles \ existing : Answer(s, id) /\ existing' = existing \union {id}
            /\ UNCHANGED registry
       [] task[s].on = "delete" ->
            /\ task[s].id \in existing /\ existing # {task[s].id} /\ Answer(s, task[s].id)
            /\ existing' = existing \ {task[s].id}
            /\ registry' \in IF registry = task[s].id THEN existing' ELSE {registry}

Refuse(s) == Answer(s, "failed") /\ UNCHANGED server

Serve(s) ==
  /\ ~Free(s) /\ task[s].answer = None
  /\ Handle(s) \/ Refuse(s)
  /\ UNCHANGED <<view, shown, switching, syncing, lastSync, failures>>

----------------------------------------------------------------------------
(* The continuations: a task finds its answer, and awaits again or ends.    *)

Answered(s, do, on) == ~Free(s) /\ task[s].do \in do /\ task[s].on = on /\ task[s].answer # None
Ok(s) == task[s].answer # "failed"
Awaits(s, t) == task' = [task EXCEPT ![s] = t]
Ends(s) == Awaits(s, None)
Refresh == Task("refresh", "profiles", None)

\* t goes on in s, and refreshProfiles starts beside it (unless Slots bounds it away).
AwaitsBeside(s, t) ==
  LET free == {r \in Slots \ {s} : Free(r)} IN
  IF free = {} THEN Awaits(s, t)
  ELSE \E r \in free : task' = [task EXCEPT ![s] = t, ![r] = Refresh]

\* adoptProfile, resetProfileState.
Adopt(id) == shown' = id
Reset == lastSync' = None /\ failures' = None

\* boot: a profile remembered from last time is activated, then adopted.
BootGotList(s) ==
  /\ Answered(s, {"boot"}, "profiles")
  /\ IF ~Ok(s) THEN view' = "failed" /\ Ends(s) /\ UNCHANGED shown
     ELSE \/ Adopt(task[s].answer) /\ Awaits(s, Task("boot", "status", shown')) /\ UNCHANGED view
          \/ /\ \E id \in Profiles \ {task[s].answer} : Awaits(s, Task("boot", "activate", id))
             /\ UNCHANGED <<shown, view>>
  /\ UNCHANGED <<server, switching, syncing, lastSync, failures>>

BootActivated(s) ==
  /\ Answered(s, {"boot"}, "activate")
  /\ IF Ok(s) THEN Adopt(task[s].id) /\ AwaitsBeside(s, Task("boot", "status", shown')) /\ UNCHANGED view
     ELSE view' = "failed" /\ Ends(s) /\ UNCHANGED shown
  /\ UNCHANGED <<server, switching, syncing, lastSync, failures>>

\* Faulty variant: a switch that fails does not unlock the switcher.
LockingActivated(s) ==
  /\ Answered(s, {"switch"}, "activate")
  /\ IF Ok(s) THEN Adopt(task[s].id) /\ Reset /\ AwaitsBeside(s, Task("switch", "status", shown')) ELSE Ends(s) /\ UNCHANGED <<shown, lastSync, failures>>
  /\ UNCHANGED <<server, view, switching, syncing>>

\* switchProfile: activate first, then adopt, reset and enter.
Activated(s) ==
  /\ Answered(s, {"switch"}, "activate")
  /\ IF Ok(s) THEN Adopt(task[s].id) /\ Reset /\ AwaitsBeside(s, Task("switch", "status", shown')) /\ UNCHANGED switching
     ELSE switching' = FALSE /\ Ends(s) /\ UNCHANGED <<shown, lastSync, failures>>
  /\ UNCHANGED <<server, view, syncing>>

\* refreshProfiles: follows the registry when it moved.
RefreshGotList(s) ==
  /\ Answered(s, {"refresh", "create"}, "profiles")
  /\ Ok(s) /\ task[s].answer # shown
  /\ Adopt(task[s].answer) /\ Reset
  /\ Awaits(s, [task[s] EXCEPT !.on = "status", !.id = shown', !.answer = None])
  /\ UNCHANGED <<server, view, switching, syncing>>

Unmoved(s) == ~Ok(s) \/ task[s].answer = shown

RefreshUnmoved(s) ==
  /\ Answered(s, {"refresh"}, "profiles") /\ Unmoved(s)
  /\ Ends(s)
  /\ UNCHANGED <<server, view, shown, switching, syncing, lastSync, failures>>

\* retryStartup: adopts without a reset.
RetryGotList(s) ==
  /\ Answered(s, {"retry"}, "profiles")
  /\ IF Ok(s) THEN Adopt(task[s].answer) /\ Awaits(s, Task("retry", "status", shown')) /\ UNCHANGED view
     ELSE view' = "failed" /\ Ends(s) /\ UNCHANGED shown
  /\ UNCHANGED <<server, switching, syncing, lastSync, failures>>

\* The end of enterApp and of refreshData: whatever is shown by now.
GotStatus(s) ==
  /\ Answered(s, {"boot", "switch", "refresh", "retry", "reload"}, "status")
  /\ IF Ok(s) THEN lastSync' = task[s].id ELSE UNCHANGED lastSync
  /\ view' \in IF task[s].do \in {"refresh", "reload"} THEN {view}
               ELSE IF Ok(s) THEN {"ready", view} ELSE {"failed"}
  /\ switching' = (switching /\ task[s].do # "switch")
  /\ Ends(s)
  /\ UNCHANGED <<server, shown, syncing, failures>>

\* createProfile: create, refreshProfiles, then switchProfile as its closure sees it.
Created(s) ==
  /\ Answered(s, {"create"}, "create")
  /\ IF Ok(s) THEN Awaits(s, [task[s] EXCEPT !.on = "profiles", !.made = task[s].answer, !.answer = None]) ELSE Ends(s)
  /\ UNCHANGED <<server, view, shown, switching, syncing, lastSync, failures>>

CreateSwitches(s) ==
  /\ \/ Answered(s, {"create"}, "profiles") /\ Unmoved(s)
     \/ Answered(s, {"create"}, "status")
  /\ lastSync' = IF task[s].on = "status" /\ Ok(s) THEN task[s].id ELSE lastSync
  /\ IF task[s].made = shown \/ syncing \/ task[s].blocked
     THEN Ends(s) /\ UNCHANGED switching
     ELSE Awaits(s, Task("switch", "activate", task[s].made)) /\ switching' = TRUE
  /\ UNCHANGED <<server, view, shown, syncing, failures>>

\* DELETE of a profile in the profiles view, then onChanged.
Deleted(s) ==
  /\ Answered(s, {"delete"}, "delete")
  /\ Awaits(s, IF Ok(s) THEN Refresh ELSE None)
  /\ UNCHANGED <<server, view, shown, switching, syncing, lastSync, failures>>

\* Faulty variant: the result of the sync is shown whoever is on the screen.
CarelessSynced(s) ==
  /\ Answered(s, {"sync"}, "sync")
  /\ failures' \in IF Ok(s) THEN {None, task[s].id} ELSE {task[s].id}
  /\ lastSync' = IF Ok(s) THEN task[s].id ELSE lastSync
  /\ syncing' = FALSE
  /\ Ends(s)
  /\ UNCHANGED <<server, view, shown, switching>>

\* sync: its result is dropped when another profile is shown by then.
Synced(s) ==
  /\ Answered(s, {"sync"}, "sync")
  /\ IF task[s].id # shown THEN UNCHANGED <<lastSync, failures>> /\ Ends(s)
     ELSE IF Ok(s) THEN lastSync' = shown /\ failures' \in {None, shown} /\ AwaitsBeside(s, None)
     ELSE failures' = shown /\ UNCHANGED lastSync /\ Ends(s)
  /\ syncing' = FALSE
  /\ UNCHANGED <<server, view, shown, switching>>

Continue(s) ==
  \/ BootGotList(s) \/ BootActivated(s) \/ Activated(s) \/ RefreshGotList(s) \/ RefreshUnmoved(s)
  \/ RetryGotList(s) \/ GotStatus(s) \/ Created(s) \/ CreateSwitches(s) \/ Deleted(s) \/ Synced(s)

----------------------------------------------------------------------------
(* The user, the desktop's menu and the automatic sync.                     *)

Starts(t) == \E s \in Slots : Free(s) /\ Awaits(s, t)

Switch(id) ==
  /\ view = "ready" /\ id # shown /\ ~syncing /\ ~switching
  /\ Starts(Task("switch", "activate", id)) /\ switching' = TRUE
  /\ UNCHANGED <<server, view, shown, syncing, lastSync, failures>>

Create ==
  /\ view = "ready"
  /\ Starts([Task("create", "create", None) EXCEPT !.blocked = switching])
  /\ UNCHANGED <<server, view, shown, switching, syncing, lastSync, failures>>

Delete(id) ==
  /\ view = "ready"
  /\ Starts(Task("delete", "delete", id))
  /\ UNCHANGED <<server, view, shown, switching, syncing, lastSync, failures>>

\* The button, the menu, or the boot that finds stale data.
Sync ==
  /\ shown # None /\ ~syncing
  /\ Starts(Task("sync", "sync", shown)) /\ syncing' = TRUE
  /\ failures' = None
  /\ UNCHANGED <<server, view, shown, switching, lastSync>>

\* refreshData.
Reload ==
  /\ shown # None
  /\ Starts(Task("reload", "status", shown))
  /\ UNCHANGED <<server, view, shown, switching, syncing, lastSync, failures>>

Retry ==
  /\ view = "failed"
  /\ Starts(Task("retry", "profiles", None)) /\ view' = "loading"
  /\ UNCHANGED <<server, shown, switching, syncing, lastSync, failures>>

Next ==
  \/ \E s \in Slots : Serve(s) \/ Continue(s)
  \/ \E id \in Profiles : Switch(id) \/ Delete(id)
  \/ Create \/ Sync \/ Reload \/ Retry

\* The server answers or the request fails, and the event loop runs what was answered.
Fairness == \A s \in Slots : WF_vars(Serve(s)) /\ WF_vars(Continue(s))

Spec == Init /\ [][Next]_vars /\ Fairness

----------------------------------------------------------------------------
(* Properties.                                                              *)

\* What an answer may be, and whoever may be shown.
Answers == Profiles \union {None, "failed"}
Tasks ==
  [do : {"boot", "switch", "refresh", "retry", "reload", "create", "delete", "sync"},
   on : {"profiles", "activate", "status", "create", "delete", "sync"},
   id : Answers, answer : Answers, blocked : BOOLEAN, made : Answers]

\* Every variable stays in its domain.
TypeOK ==
  /\ existing \subseteq Profiles /\ registry \in Profiles
  /\ view \in {"loading", "failed", "ready"}
  /\ {shown, lastSync, failures} \subseteq Answers
  /\ switching \in BOOLEAN /\ syncing \in BOOLEAN
  /\ task \in [Slots -> Tasks \union {None}]

\* Until the boot has found whom to show, nothing is on the screen and nothing else is in
\* flight, so that it needs no reset (App.tsx:436-454).
BootIsAlone ==
  \A s \in Slots :
    ~Free(s) /\ task[s].do = "boot" /\ task[s].on # "status" =>
      /\ view = "loading" /\ shown = None /\ failures = None
      /\ \A r \in Slots \ {s} : Free(r)

\* What a sync reports is shown to the profile it synced: it is dropped when another one
\* is shown by the time it answers, and wiped when another one is shown later
\* (App.tsx:583, 361). The retry of a start-up that failed is left out: it adopts
\* whatever profile the registry names and wipes nothing.
FailuresAreTheirs ==
  [][/\ failures' \notin {None, failures} => failures' = shown'
     /\ shown' # shown => failures' = None \/ \E s \in Slots : ~Free(s) /\ task[s].do = "retry"]_vars

\* Neither a request that fails, nor a second switch that a create started meanwhile,
\* leaves the switcher or the sync button locked (App.tsx:405, 417, 595).
LocksAreReleased == (switching ~> ~switching) /\ (syncing ~> ~syncing)

\* A switch wipes every number the renderer is holding (App.tsx:361): the time of the last
\* sync on the screen is that of the profile shown.
LastSyncIsTheirs == lastSync # None => lastSync = shown

\* The profile is activated before anything is rendered, so that a call without a header
\* can never answer for someone else (App.tsx:400): once nothing is in flight, the
\* registry's active profile is the one shown.
ScreenFollowsRegistry ==
  (view = "ready" /\ \A s \in Slots : Free(s)) => shown = registry
=============================================================================
