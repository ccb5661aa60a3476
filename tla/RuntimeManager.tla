----------------------------- MODULE RuntimeManager -----------------------------
(****************************************************************************)
(* The desktop's side of the finance runtime: RuntimeManager of             *)
(* desktop/src/runtime-manager.ts, the utility process it forks             *)
(* (utility.ts), and the parts of main.ts that start, restart, suspend and  *)
(* stop it.                                                                 *)
(*                                                                          *)
(* The utility process runs beside the main process and sends it messages,  *)
(* of which exit is the last.  The main process handles one event at a time *)
(* and runs every promise the event settles before the next: an event waits *)
(* until main is Quiet.  A task is one activation of retryRuntime, or the   *)
(* boot.  First-run setup is left out; so is what the runtime reports of    *)
(* its operations.                                                          *)
(****************************************************************************)
EXTENDS Naturals, Sequences, FiniteSets

CONSTANTS
  Children,   \* utility processes; names of the dead are used again
  Tasks,      \* bound on how many activations of retryRuntime overlap
  Boot,       \* the task that is initialize
  Allowance,  \* restartAllowance
  None

ASSUME BootIsATask == Boot \in Tasks
ASSUME NoneIsNoChild == None \notin Children
ASSUME AllowanceIsANumber == Allowance \in Nat

VARIABLES
  proc,          \* proc[c]: how far the process has come
  mail,          \* mail[c]: what it has sent and main has not handled
  asked,         \* asked[c]: whether main has told it to end, or killed it
  settled,       \* settled[c]: start's promise for c is settled
  child,         \* this.child
  expectedExit,  \* this.expectedExit
  allowance,     \* this.restartAllowance
  step,          \* step[t]: what task t does or awaits
  at,            \* at[t]: the child it awaits or loads from, None once that is gone
  recovery,      \* recoveryInProgress
  suspended,     \* runtimeSuspended
  suspendStop,   \* the child suspendStopPromise waits for, or None
  shutdown,      \* how far shutdown() has come
  page           \* what the window shows

processVars == <<proc, mail, asked>>
managerVars == <<settled, child, expectedExit, allowance>>
taskVars == <<step, at>>
mainVars == <<recovery, suspended, suspendStop, shutdown, page>>
vars == <<processVars, managerVars, taskVars, mainVars>>

Alive(c) == proc[c] \notin {"unused", "dead"}
Running == child # None /\ proc[child] # "forked"     \* this.child?.pid !== undefined
Runnable(t) == step[t] \in {"resumed", "stopped", "failed"}
Quiet == shutdown \notin {"stopped", "gone"} /\ \A t \in Tasks : ~Runnable(t)

(* Which name a new process or a new activation gets makes no difference.    *)
NewProcess(c) ==
  LET unused == {x \in Children : proc[x] = "unused"}
  IN  c \in unused /\ c = CHOOSE x \in unused : TRUE
NewTask(t) ==
  LET idle == {x \in Tasks \ {Boot} : step[x] = "idle"}
  IN  t \in idle /\ t = CHOOSE x \in idle : TRUE

Init ==
  /\ proc = [c \in Children |-> "unused"]
  /\ mail = [c \in Children |-> <<>>]
  /\ asked = [c \in Children |-> "no"]
  /\ settled = [c \in Children |-> TRUE]
  /\ child = None /\ expectedExit = FALSE /\ allowance = Allowance
  /\ step = [t \in Tasks |-> IF t = Boot THEN "stopped" ELSE "idle"]
  /\ at = [t \in Tasks |-> None]
  /\ recovery = FALSE /\ suspended = FALSE /\ suspendStop = None
  /\ shutdown = "no" /\ page = "none"

--------------------------------------------------------------------------------
(* The utility process.                                                     *)

Send(c, message) == mail' = [mail EXCEPT ![c] = Append(@, message)]
Become(c, state) == proc' = [proc EXCEPT ![c] = state]

(* Main answers the spawn event with the configuration.                     *)
Spawn(c) ==
  /\ Quiet /\ proc[c] = "forked" /\ Become(c, "starting")
  /\ UNCHANGED <<mail, asked, managerVars, taskVars, mainVars>>

(* startServer answers, or throws.                                          *)
Serve(c) ==
  /\ proc[c] = "starting"
  /\ \/ Become(c, "serving") /\ Send(c, "ready")
     \/ Become(c, "leaving") /\ Send(c, "error")
  /\ UNCHANGED <<asked, managerVars, taskVars, mainVars>>

(* shutdown(), on the message or an uncaught exception: handle.close() is   *)
(* awaited, if there is a handle.                                           *)
BeginClose(c) ==
  /\ \/ proc[c] = "starting" /\ Become(c, "leaving") /\ Send(c, "stopped")
     \/ proc[c] = "serving" /\ Become(c, "closing") /\ UNCHANGED mail
  /\ UNCHANGED <<asked, managerVars, taskVars, mainVars>>

Closed(c) ==
  /\ proc[c] = "closing" /\ Become(c, "leaving") /\ Send(c, "stopped")
  /\ UNCHANGED <<asked, managerVars, taskVars, mainVars>>

Die(c) == Become(c, "dead") /\ Send(c, "exit")

(* process.exit, or the process ends on its own.                            *)
Ends(c) ==
  /\ Alive(c) /\ Die(c)
  /\ UNCHANGED <<asked, managerVars, taskVars, mainVars>>

--------------------------------------------------------------------------------
(* RuntimeManager.stop.                                                     *)

(* stop is called on the child there is.                                    *)
AskToStop ==
  /\ asked' = [asked EXCEPT ![child] = IF @ = "no" THEN "asked" ELSE @]
  /\ expectedExit' = TRUE

\* Faulty variant: the stop at the end of the application has no budget.
StopOfTasks(c) ==
  \/ \E t \in Tasks : step[t] \in {"stopping", "resuming"} /\ at[t] = c
  \/ suspendStop = c

(* A stop of c has not resolved.                                            *)
StopPending(c) ==
  \/ \E t \in Tasks : step[t] \in {"stopping", "resuming"} /\ at[t] = c
  \/ suspendStop = c
  \/ shutdown = "stopping" /\ child = c

Woken(c) == [t \in Tasks |->
  IF at[t] = c /\ step[t] = "stopping" THEN "stopped"
  ELSE IF at[t] = c /\ step[t] = "resuming" THEN "resumed" ELSE step[t]]

(* finish: every stop that waits for c resolves.                            *)
FinishStops(c) ==
  /\ suspendStop' = IF suspendStop = c THEN None ELSE suspendStop
  /\ shutdown' = IF shutdown = "stopping" /\ child = c THEN "stopped" ELSE shutdown

(* The shutdown budget is used up: the process tree is killed ...           *)
ForceKill(c) ==
  /\ Quiet /\ StopPending(c) /\ Alive(c)
  /\ Die(c)
  /\ asked' = [asked EXCEPT ![c] = "forced"]
  /\ UNCHANGED <<managerVars, taskVars, mainVars>>

(* ... and its end may be known before the exit event.                      *)
Terminated(c) ==
  /\ Quiet /\ StopPending(c) /\ proc[c] = "dead" /\ asked[c] = "forced"
  /\ step' = Woken(c) /\ FinishStops(c)
  /\ UNCHANGED <<processVars, managerVars, at, recovery, suspended, page>>

--------------------------------------------------------------------------------
(* RuntimeManager.start: the messages of the child.                         *)

Receive(c, message) ==
  /\ Quiet /\ mail[c] # <<>> /\ Head(mail[c]) = message

Starter(c) == {t \in Tasks : step[t] = "starting" /\ at[t] = c}

HandleReady(c) ==
  /\ Receive(c, "ready")
  /\ mail' = [mail EXCEPT ![c] = Tail(@)]
  /\ settled' = [settled EXCEPT ![c] = TRUE]
  /\ step' = [t \in Tasks |-> IF t \in Starter(c) THEN "loading" ELSE step[t]]
  /\ UNCHANGED <<proc, asked, child, expectedExit, allowance, at, mainVars>>

(* settleError: the child is killed and start rejects.                      *)
SettleError(c) ==
  /\ settled' = [settled EXCEPT ![c] = TRUE]
  /\ expectedExit' = TRUE
  /\ asked' = [asked EXCEPT ![c] = IF @ = "no" THEN "asked" ELSE @]
  /\ step' = [t \in Tasks |-> IF t \in Starter(c) THEN "failed" ELSE step[t]]
  /\ proc' = [proc EXCEPT ![c] = "dead"]

HandleError(c) ==
  /\ Receive(c, "error")
  /\ mail' = [mail EXCEPT ![c] = IF Alive(c) /\ ~settled[c] THEN Append(Tail(@), "exit")
                                                         ELSE Tail(@)]
  /\ IF settled[c] THEN UNCHANGED <<proc, asked, settled, expectedExit, step>>
                   ELSE SettleError(c)
  /\ UNCHANGED <<child, allowance, at, mainVars>>

StartTimesOut(c) ==
  /\ Quiet /\ Starter(c) # {}
  /\ mail' = [mail EXCEPT ![c] = IF Alive(c) THEN Append(@, "exit") ELSE @]
  /\ SettleError(c)
  /\ UNCHANGED <<child, allowance, at, mainVars>>

HandleStopped(c) ==
  /\ Receive(c, "stopped")
  /\ mail' = [mail EXCEPT ![c] = Tail(@)]
  /\ step' = Woken(c) /\ FinishStops(c)
  /\ UNCHANGED <<proc, asked, managerVars, at, recovery, suspended, page>>

(* takeRestartAllowance.                                                    *)
MayRestart == allowance > 0

(* What main's handler of the exit event acts on.                           *)
Noticed(expected) == ~expected /\ shutdown = "no" /\ ~recovery

(* The exit event: start rejects if it still waits, every stop resolves,    *)
(* and main restarts the runtime, or shows the recovery page, after an exit *)
(* nobody asked for.                                                        *)
HandleExit(c) ==
  LET expected == expectedExit \/ ~settled[c]
      noticed == Noticed(expected)
      after == [t \in Tasks |-> IF t \in Starter(c) THEN "failed" ELSE Woken(c)[t]]
  IN  /\ Receive(c, "exit")
      /\ mail' = [mail EXCEPT ![c] = Tail(@)]
      /\ child' = IF child = c THEN None ELSE child
      /\ settled' = [settled EXCEPT ![c] = TRUE]
      /\ expectedExit' = expected
      /\ FinishStops(c)
      /\ \/ /\ noticed /\ MayRestart
            /\ \E t \in Tasks : NewTask(t) /\ step' = [after EXCEPT ![t] = "stopped"]
            /\ allowance' = allowance - 1 /\ recovery' = TRUE
            /\ UNCHANGED page
         \/ /\ ~(noticed /\ MayRestart)
            /\ step' = after
            /\ page' = IF noticed THEN "recovery" ELSE page
            /\ UNCHANGED <<allowance, recovery>>
      /\ Become(c, "unused") /\ asked' = [asked EXCEPT ![c] = "no"]
      /\ at' = [t \in Tasks |-> IF at[t] = c THEN None ELSE at[t]]
      /\ UNCHANGED suspended

--------------------------------------------------------------------------------
(* main.ts: startRuntime, retryRuntime and initialize.                      *)

Fork(t, c) ==
  /\ Become(c, "forked")
  /\ child' = c /\ expectedExit' = FALSE
  /\ settled' = [settled EXCEPT ![c] = FALSE]
  /\ step' = [step EXCEPT ![t] = "starting"] /\ at' = [at EXCEPT ![t] = c]
  /\ UNCHANGED <<mail, asked, allowance, mainVars>>

(* start: one child at a time.                                              *)
StartRuntime(t) ==
  /\ step[t] = "stopped" /\ shutdown # "gone"
  /\ \/ child = None /\ \E c \in Children : NewProcess(c) /\ Fork(t, c)
     \/ /\ child # None
        /\ step' = [step EXCEPT ![t] = "failed"]
        /\ UNCHANGED <<processVars, managerVars, at, mainVars>>

(* The finally block of retryRuntime, which initialize does not have.       *)
Done(t) == step' = [step EXCEPT ![t] = "idle"] /\ at' = [at EXCEPT ![t] = None]
AfterTask(t) == IF t = Boot THEN recovery ELSE FALSE

(* showRecovery ...                                                         *)
Fail(t) ==
  /\ step[t] = "failed" /\ shutdown # "gone"
  /\ step' = [step EXCEPT ![t] = "showing"] /\ at' = [at EXCEPT ![t] = None]
  /\ page' = "recovery"
  /\ UNCHANGED <<processVars, managerVars, recovery, suspended, suspendStop, shutdown>>

\* Faulty variant: retryRuntime returns without its finally block.
ShownUnfinished(t) ==
  /\ Quiet /\ step[t] = "showing" /\ Done(t)
  /\ UNCHANGED <<processVars, managerVars, mainVars>>

(* ... whose page is loaded, or cannot be.                                  *)
Shown(t) ==
  /\ Quiet /\ step[t] = "showing" /\ Done(t)
  /\ recovery' = AfterTask(t)
  /\ UNCHANGED <<processVars, managerVars, suspended, suspendStop, shutdown, page>>

(* The handshake, the asset manifest and the page are loaded from the       *)
(* runtime, or one of them is not.                                          *)
LoadEnds(t) ==
  /\ Quiet /\ step[t] = "loading"
  /\ \/ /\ at[t] # None /\ proc[at[t]] = "serving"
        /\ Done(t) /\ recovery' = AfterTask(t) /\ page' = "app"
     \/ /\ step' = [step EXCEPT ![t] = "failed"]
        /\ UNCHANGED <<at, recovery, page>>
  /\ UNCHANGED <<processVars, managerVars, suspended, suspendStop, shutdown>>

(* retryRuntime up to its first await; busy is what it finds in             *)
(* recoveryInProgress.                                                      *)
Retry(t, busy) ==
  /\ \/ /\ busy \/ shutdown # "no"
        /\ Done(t) /\ recovery' = busy
        /\ UNCHANGED <<asked, expectedExit>>
     \/ /\ ~busy /\ shutdown = "no"
        /\ recovery' = TRUE
        /\ \/ /\ Running
              /\ AskToStop
              /\ step' = [step EXCEPT ![t] = "stopping"] /\ at' = [at EXCEPT ![t] = child]
           \/ /\ ~Running
              /\ step' = [step EXCEPT ![t] = "stopped"] /\ at' = [at EXCEPT ![t] = None]
              /\ UNCHANGED <<asked, expectedExit>>
  /\ UNCHANGED <<proc, mail, settled, child, allowance, suspended, suspendStop, shutdown, page>>

(* The recovery page's button.                                              *)
UserRetries(t) ==
  /\ Quiet /\ page = "recovery" /\ NewTask(t)
  /\ Retry(t, recovery)

(* The page was loaded but does not report in time.                         *)
RendererTimesOut ==
  /\ Quiet /\ page = "app" /\ shutdown = "no"
  /\ page' = "recovery"
  /\ UNCHANGED <<processVars, managerVars, taskVars, recovery, suspended, suspendStop, shutdown>>

--------------------------------------------------------------------------------
(* main.ts: the power events and shutdown().                                *)

Suspend ==
  /\ Quiet /\ ~suspended /\ shutdown = "no"
  /\ suspended' = TRUE /\ recovery' = TRUE /\ suspendStop' = child
  /\ IF child = None THEN UNCHANGED <<asked, expectedExit>> ELSE AskToStop
  /\ UNCHANGED <<proc, mail, settled, child, allowance, taskVars, shutdown, page>>

Resume(t) ==
  /\ Quiet /\ suspended /\ shutdown = "no" /\ NewTask(t)
  /\ suspended' = FALSE /\ suspendStop' = None
  /\ step' = [step EXCEPT ![t] = IF suspendStop = None THEN "resumed" ELSE "resuming"]
  /\ at' = [at EXCEPT ![t] = suspendStop]
  /\ UNCHANGED <<processVars, managerVars, recovery, shutdown, page>>

(* The stop that suspend began is over.                                     *)
Resumed(t) == step[t] = "resumed" /\ shutdown # "gone" /\ Retry(t, FALSE)

\* Faulty variant: shutdown asks the runtime to stop and does not wait.
ShutDownAtOnce ==
  /\ Quiet /\ shutdown = "no"
  /\ shutdown' = "stopped"
  /\ IF child = None THEN UNCHANGED <<asked, expectedExit>> ELSE AskToStop
  /\ UNCHANGED <<proc, mail, settled, child, allowance, taskVars,
                 recovery, suspended, suspendStop, page>>

(* shutdown(), by the menu, the window, the update or the first-run page.   *)
ShutDown ==
  /\ Quiet /\ shutdown = "no"
  /\ IF child = None
     THEN shutdown' = "stopped" /\ UNCHANGED <<asked, expectedExit>>
     ELSE shutdown' = "stopping" /\ AskToStop
  /\ UNCHANGED <<proc, mail, settled, child, allowance, taskVars,
                 recovery, suspended, suspendStop, page>>

(* app.quit or quitAndInstall.                                              *)
QuitApp ==
  /\ shutdown = "stopped"
  /\ shutdown' = "gone"
  /\ UNCHANGED <<processVars, managerVars, taskVars, recovery, suspended, suspendStop, page>>

Utility(c) == Spawn(c) \/ Serve(c) \/ BeginClose(c) \/ Closed(c) \/ Ends(c)

Handle(c) ==
  \/ HandleReady(c) \/ HandleError(c) \/ HandleStopped(c) \/ HandleExit(c)
  \/ ForceKill(c) \/ Terminated(c) \/ StartTimesOut(c)

Run(t) == StartRuntime(t) \/ Fail(t) \/ Shown(t) \/ LoadEnds(t) \/ Resumed(t)

Next ==
  \/ \E c \in Children : Utility(c) \/ Handle(c)
  \/ \E t \in Tasks : Run(t) \/ UserRetries(t) \/ Resume(t)
  \/ RendererTimesOut \/ Suspend \/ ShutDown \/ QuitApp

Spec == Init /\ [][Next]_vars

(* Main's own code runs on, messages are handled, pages load or fail, and   *)
(* timers fire, however often other events come first.  Nothing is assumed  *)
(* of the utility process.                                                  *)
Fairness ==
  /\ \A t \in Tasks : SF_vars(Run(t))
  /\ \A c \in Children : SF_vars(Handle(c))
  /\ WF_vars(QuitApp)

FairSpec == Spec /\ Fairness

--------------------------------------------------------------------------------
(* Every variable stays in its domain.                                      *)
TypeOK ==
  /\ proc \in [Children -> {"unused", "forked", "starting", "serving", "closing",
                            "leaving", "dead"}]
  /\ mail \in [Children -> Seq({"ready", "error", "stopped", "exit"})]
  /\ asked \in [Children -> {"no", "asked", "forced"}]
  /\ settled \in [Children -> BOOLEAN]
  /\ child \in Children \union {None}
  /\ expectedExit \in BOOLEAN
  /\ allowance \in 0 .. Allowance
  /\ step \in [Tasks -> {"idle", "stopping", "resuming", "resumed", "stopped",
                         "starting", "loading", "failed", "showing"}]
  /\ at \in [Tasks -> Children \union {None}]
  /\ recovery \in BOOLEAN /\ suspended \in BOOLEAN
  /\ suspendStop \in Children \union {None}
  /\ shutdown \in {"no", "stopping", "stopped", "gone"}
  /\ page \in {"none", "app", "recovery"}

(* Two runtimes never run at once: both would serve the same databases.     *)
OneRuntime == Cardinality({c \in Children : Alive(c)}) <= 1

(* The application is not left on the screen over a runtime that is gone:   *)
(* unless main is at it, there is a child, and its end will be noticed.     *)
AppHasRuntime ==
  (/\ page = "app" /\ shutdown = "no" /\ ~suspended
   /\ \A t \in Tasks : step[t] = "idle")
  => child # None /\ ~expectedExit /\ ~recovery

(* The application quits only when the runtime it asked to stop has closed  *)
(* its databases or was killed at the end of its budget.                    *)
QuitIsOrderly ==
  shutdown \in {"stopped", "gone"} =>
    \A c \in Children : asked[c] # "no" => proc[c] \notin {"serving", "closing"}

(* The desktop has one runtime, knows when it has none, and does not leave  *)
(* before its databases are closed (runtime-manager.ts:60-240).             *)
RuntimeIsOrderly == TypeOK /\ OneRuntime /\ AppHasRuntime /\ QuitIsOrderly

(* Why it is so, one part a fact about the code: a process is this.child    *)
(* until its exit is handled, and who waits, waits for it.                  *)
ProcessIsChild ==
  /\ \A c \in Children : proc[c] # "unused" <=> child = c
  /\ \A t \in Tasks : at[t] # None => at[t] = child
  /\ suspendStop # None => suspended /\ suspendStop = child

Over == {"leaving", "dead"}

(* Nothing follows an exit, which follows the end; a process that has said  *)
(* stopped, or error, only leaves.                                          *)
Ordered(messages, state) ==
  \A i \in 1 .. Len(messages) :
    /\ messages[i] = "exit" => i = Len(messages) /\ state = "dead"
    /\ messages[i] \in {"stopped", "error"} => state \in Over

MailIsOrdered ==
  \A c \in Children :
    /\ proc[c] = "unused" => mail[c] = <<>> /\ asked[c] = "no" /\ settled[c]
    /\ Ordered(mail[c], proc[c])

(* A start that has not settled has its task.                               *)
StartIsAwaited == \A c \in Children : ~settled[c] => Starter(c) # {}

(* A child that was told to end, and has not, is waited for ...             *)
StopIsAwaited ==
  expectedExit /\ child # None => proc[child] \in Over \/ StopPending(child)

(* ... and shutdown went on only over a child that had closed.              *)
QuitIsClosed ==
  shutdown \in {"stopped", "gone"} => \A c \in Children : asked[c] # "no" => proc[c] \in Over

(* recoveryInProgress is somebody's, and the boot's is not.                 *)
RecoveryIsOwned ==
  /\ step[Boot] \in {"stopped", "starting", "loading", "failed", "showing", "idle"}
  /\ recovery => suspended \/ shutdown # "no" \/ \E t \in Tasks \ {Boot} : step[t] # "idle"

(* Until the boot's own runtime ends, nobody has another.                   *)
BootIsFirst ==
  /\ step[Boot] = "stopped" =>
       /\ \A t \in Tasks \ {Boot} : step[t] = "idle"
       /\ ~suspended /\ page = "none" /\ child = None /\ shutdown = "no"
  /\ at[Boot] # None /\ proc[at[Boot]] \notin Over =>
       /\ \A t \in Tasks \ {Boot} : step[t] \in {"idle", "stopping", "resuming"}
       /\ suspended => suspendStop = at[Boot]
       /\ page = "none"

Tending(t) ==
  step[t] \in {"stopping", "resuming", "resumed", "stopped", "starting", "loading", "failed"}

(* Over a page whose runtime is gone, or going, somebody is at work.        *)
AppIsTended ==
  page = "app" /\ shutdown = "no" /\ ~suspended /\ (child = None \/ expectedExit \/ recovery)
  => \E t \in Tasks : Tending(t)

Inv == /\ TypeOK /\ ProcessIsChild /\ MailIsOrdered /\ StartIsAwaited /\ StopIsAwaited
       /\ QuitIsClosed /\ RecoveryIsOwned /\ BootIsFirst /\ AppIsTended

(* A shutdown ends, whatever restarts, suspends or hangs meanwhile.         *)
ShutdownQuits == shutdown # "no" ~> shutdown = "gone"

(* recoveryInProgress is given back: left set it would refuse every retry   *)
(* and hide every later crash.                                              *)
RecoveryEnds == recovery ~> ~recovery \/ suspended \/ shutdown # "no"

(* Whatever main has begun comes to its end (main.ts:565, 762).             *)
DesktopSettles == ShutdownQuits /\ RecoveryEnds
================================================================================
