------------------------- MODULE RuntimeManager_proofs -------------------------
(****************************************************************************)
(* Proofs about RuntimeManager, for any number of processes and tasks.      *)
(****************************************************************************)
EXTENDS RuntimeManager, FiniteSetTheorems, TLAPS

Messages == {"ready", "error", "stopped", "exit"}

(* What a process sends keeps its messages in order.                        *)
LEMMA Sent ==
  ASSUME NEW m \in Seq(Messages), NEW s, NEW r, NEW e \in Messages,
         Ordered(m, s), s # "dead", s \in Over => r \in Over,
         e = "exit" => r = "dead", e \in {"stopped", "error"} => r \in Over
  PROVE  Ordered(Append(m, e), r)
BY DEF Ordered, Messages

(* So does the one that main takes off.                                     *)
LEMMA Taken ==
  ASSUME NEW m \in Seq(Messages), NEW s, Ordered(m, s), m # <<>>
  PROVE  /\ Tail(m) \in Seq(Messages)
         /\ Ordered(Tail(m), s)
         /\ Head(m) \in Messages
         /\ Head(m) = "exit" => Tail(m) = <<>> /\ s = "dead"
         /\ Head(m) \in {"stopped", "error"} => s \in Over
BY DEF Ordered, Messages

LEMMA Empty == \A s : Ordered(<<>>, s)
BY DEF Ordered

LEMMA InitIsSound == ASSUME Init PROVE Inv
<1> USE BootIsATask, NoneIsNoChild, AllowanceIsANumber DEF Init
<1>1. TypeOK
  <2>1. mail \in [Children -> Seq({"ready", "error", "stopped", "exit"})]
    OBVIOUS
  <2>2. step \in [Tasks -> {"idle", "stopping", "resuming", "resumed", "stopped",
                            "starting", "loading", "failed", "showing"}]
    OBVIOUS
  <2>3. at \in [Tasks -> Children \union {None}] /\ settled \in [Children -> BOOLEAN]
    OBVIOUS
  <2>4. /\ proc \in [Children -> {"unused", "forked", "starting", "serving", "closing", "leaving", "dead"}]
        /\ asked \in [Children -> {"no", "asked", "forced"}]
    OBVIOUS
  <2>5. allowance \in 0 .. Allowance
    OBVIOUS
  <2> HIDE DEF Init
  <2> QED
    BY <2>1, <2>2, <2>3, <2>4, <2>5 DEF TypeOK, Init
<1>2. ProcessIsChild
  BY DEF ProcessIsChild
<1>3. MailIsOrdered /\ StartIsAwaited /\ StopIsAwaited /\ QuitIsClosed
  BY Empty DEF MailIsOrdered, StartIsAwaited, StopIsAwaited, QuitIsClosed
<1>4. RecoveryIsOwned /\ BootIsFirst /\ AppIsTended
  BY DEF RecoveryIsOwned, BootIsFirst, AppIsTended
<1> QED
  BY <1>1, <1>2, <1>3, <1>4 DEF Inv

(* A process that goes on keeps every promise about who waits for it.       *)
LEMMA GoesOn ==
  ASSUME Inv, NEW c \in Children, NEW s, proc[c] # "unused", s # "unused",
         proc[c] \in Over => s \in Over, Become(c, s),
         asked' = asked \/ (s \in Over /\ \A x \in Children : x # c => asked'[x] = asked[x]),
         UNCHANGED <<managerVars, taskVars, mainVars>>
  PROVE  /\ ProcessIsChild' /\ StartIsAwaited' /\ StopIsAwaited' /\ QuitIsClosed'
         /\ RecoveryIsOwned' /\ BootIsFirst' /\ AppIsTended'
<1> USE BootIsATask, NoneIsNoChild DEF managerVars, taskVars, mainVars
<1>0. TypeOK
  BY DEF Inv
<1>1. \A x \in Children : proc'[x] = IF x = c THEN s ELSE proc[x]
  BY <1>0 DEF TypeOK, Become
<1>2. ProcessIsChild'
  BY <1>0, <1>1 DEF Inv, TypeOK, ProcessIsChild
<1>3. StartIsAwaited'
  BY <1>0 DEF Inv, StartIsAwaited, Starter
<1>4. StopIsAwaited'
  BY <1>0, <1>1 DEF Inv, TypeOK, StopIsAwaited, StopPending
<1>5. QuitIsClosed'
  BY <1>0, <1>1 DEF Inv, TypeOK, QuitIsClosed
<1>6. RecoveryIsOwned' /\ AppIsTended'
  BY DEF Inv, RecoveryIsOwned, AppIsTended, Tending
<1>7. BootIsFirst'
  BY <1>0, <1>1 DEF Inv, TypeOK, BootIsFirst, Over
<1> QED
  BY <1>2, <1>3, <1>4, <1>5, <1>6, <1>7

(* What main takes from the mail of its child.                              *)
LEMMA Received ==
  ASSUME Inv, NEW c \in Children, NEW e \in Messages, Receive(c, e)
  PROVE  /\ Tail(mail[c]) \in Seq(Messages) /\ Ordered(Tail(mail[c]), proc[c])
         /\ child = c /\ proc[c] # "unused"
         /\ e = "exit" => Tail(mail[c]) = <<>> /\ proc[c] = "dead"
         /\ e \in {"stopped", "error"} => proc[c] \in Over
<1>1. mail[c] \in Seq(Messages) /\ Ordered(mail[c], proc[c]) /\ mail[c] # <<>> /\ Head(mail[c]) = e
  BY DEF Inv, TypeOK, MailIsOrdered, Receive, Messages
<1>2. child = c /\ proc[c] # "unused"
  BY <1>1 DEF Inv, MailIsOrdered, ProcessIsChild
<1> QED
  BY <1>1, <1>2, Taken

(* A stop marks the child, and nothing else.                                *)
LEMMA Asks ==
  ASSUME TypeOK, child \in Children, AskToStop
  PROVE  /\ asked' \in [Children -> {"no", "asked", "forced"}] /\ expectedExit' = TRUE
         /\ asked'[child] # "no" /\ \A x \in Children \ {child} : asked'[x] = asked[x]
BY DEF TypeOK, AskToStop


(* A process that dies says so.                                             *)
LEMMA Exits ==
  ASSUME NEW m \in Seq(Messages), NEW s, Ordered(m, s), s # "dead"
  PROVE  Append(m, "exit") \in Seq(Messages) /\ Ordered(Append(m, "exit"), "dead")
<1>1. "exit" \in Messages /\ "dead" \in Over
  BY DEF Messages, Over
<1>2. Append(m, "exit") \in Seq(Messages)
  BY <1>1
<1>3. Ordered(Append(m, "exit"), "dead")
  BY <1>1, Sent
<1> QED
  BY <1>2, <1>3

(* What all of main but the mail is to keep.                                *)
Kept ==
  /\ ProcessIsChild /\ StartIsAwaited /\ StopIsAwaited /\ QuitIsClosed
  /\ RecoveryIsOwned /\ BootIsFirst /\ AppIsTended

(* A child whose start is given up is dead, and its task fails.             *)
LEMMA Settles ==
  ASSUME Inv, NEW c \in Children, child = c, ~settled[c] \/ Starter(c) # {},
         SettleError(c), UNCHANGED <<child, allowance, at, mainVars>>
  PROVE  Kept'
<1> USE BootIsATask, NoneIsNoChild DEF mainVars
<1>t. TypeOK
  BY DEF Inv
<1>1. /\ \A x \in Children : proc'[x] = IF x = c THEN "dead" ELSE proc[x]
      /\ \A x \in Children : x # c => settled'[x] = settled[x] /\ asked'[x] = asked[x]
      /\ settled'[c] = TRUE
  BY <1>t DEF TypeOK, SettleError
<1>2. \A t \in Tasks : step'[t] = IF step[t] = "starting" /\ at[t] = c THEN "failed" ELSE step[t]
  BY DEF SettleError, Starter
<1>3. ProcessIsChild'
  BY <1>t, <1>1 DEF Inv, TypeOK, ProcessIsChild
<1>4. StartIsAwaited'
  BY <1>t, <1>1, <1>2 DEF Inv, StartIsAwaited, Starter
<1>5. StopIsAwaited'
  BY <1>t, <1>1 DEF Inv, TypeOK, StopIsAwaited, Over
<1>6. QuitIsClosed'
  BY <1>t, <1>1 DEF Inv, TypeOK, QuitIsClosed, Over
<1>7. RecoveryIsOwned'
  BY <1>t, <1>2 DEF Inv, TypeOK, RecoveryIsOwned
<1>8. BootIsFirst'
  <2>1. at[Boot] # None => at[Boot] = c
    BY <1>t DEF Inv, ProcessIsChild
  <2> QED
    BY <1>t, <1>1, <1>2, <2>1 DEF Inv, TypeOK, BootIsFirst, Over
<1>9. AppIsTended'
  <2>1. SUFFICES ASSUME page = "app", shutdown = "no", ~suspended
                 PROVE  \E t \in Tasks : Tending(t)'
    BY DEF AppIsTended
  <2>2. PICK t \in Tasks : t \in Starter(c)
    BY DEF Inv, StartIsAwaited, Starter
  <2> QED
    BY <1>2, <2>2 DEF Tending, Starter
<1> QED
  BY <1>3, <1>4, <1>5, <1>6, <1>7, <1>8, <1>9 DEF Kept

(* The stops of a child that has closed resolve.                            *)
LEMMA Wakes ==
  ASSUME Inv, NEW c \in Children, child = c, proc[c] \in Over, step' = Woken(c), FinishStops(c),
         UNCHANGED <<proc, asked, managerVars, at, recovery, suspended, page>>
  PROVE  Kept' /\ step' \in [Tasks -> {"idle", "stopping", "resuming", "resumed", "stopped", "starting",
                                       "loading", "failed", "showing"}]
<1> USE BootIsATask, NoneIsNoChild DEF managerVars
<1>t. TypeOK
  BY DEF Inv
<1>1. \A t \in Tasks :
        /\ step[t] \notin {"stopping", "resuming"} => step'[t] = step[t]
        /\ step'[t] # step[t] => step[t] \in {"stopping", "resuming"} /\ step'[t] \in {"stopped", "resumed"}
  BY DEF Woken
<1>2. /\ suspendStop' # None => suspendStop' = suspendStop
      /\ shutdown' # shutdown => shutdown = "stopping" /\ shutdown' = "stopped"
  BY DEF FinishStops
<1>3. step' \in [Tasks -> {"idle", "stopping", "resuming", "resumed", "stopped", "starting",
                           "loading", "failed", "showing"}]
  BY <1>t DEF Woken, TypeOK
<1>4. ProcessIsChild'
  BY <1>t, <1>2 DEF Inv, ProcessIsChild
<1>5. StartIsAwaited'
  BY <1>1 DEF Inv, StartIsAwaited, Starter
<1>6. StopIsAwaited'
  BY DEF StopIsAwaited
<1>7. QuitIsClosed'
  <2>1. \A x \in Children : asked[x] # "no" => x = c
    BY DEF Inv, MailIsOrdered, ProcessIsChild
  <2> QED
    BY <2>1 DEF QuitIsClosed
<1>8. RecoveryIsOwned'
  BY <1>1, <1>2 DEF Inv, RecoveryIsOwned
<1>9. BootIsFirst'
  <2>1. step'[Boot] = step[Boot] /\ step[Boot] # "stopped"
    BY <1>1 DEF Inv, RecoveryIsOwned, BootIsFirst
  <2>2. at'[Boot] # None => proc'[at'[Boot]] \in Over
    BY DEF Inv, ProcessIsChild
  <2> QED
    BY <2>1, <2>2 DEF BootIsFirst
<1>10. AppIsTended'
  <2>1. \A t \in Tasks : Tending(t) => Tending(t)'
    BY <1>1 DEF Tending
  <2>2. shutdown' = "no" => shutdown = "no"
    BY <1>2
  <2> QED
    BY <2>1, <2>2 DEF Inv, AppIsTended
<1> QED
  BY <1>3, <1>4, <1>5, <1>6, <1>7, <1>8, <1>9, <1>10 DEF Kept

LEMMA ErrorKeepsInv == ASSUME Inv, NEW c \in Children, HandleError(c) PROVE Inv'
<1> USE NoneIsNoChild
<1>t. TypeOK
  BY DEF Inv
<1>r. /\ Tail(mail[c]) \in Seq(Messages) /\ Ordered(Tail(mail[c]), proc[c])
      /\ child = c /\ proc[c] # "unused"
  <2>1. "error" \in Messages /\ Receive(c, "error")
    BY DEF Messages, HandleError
  <2> QED
    BY <2>1, Received
<1>1. CASE settled[c]
  <2>1. mail' = [mail EXCEPT ![c] = Tail(@)] /\ UNCHANGED <<proc, asked, managerVars, taskVars, mainVars>>
    BY <1>1 DEF HandleError, managerVars, taskVars
  <2>2. TypeOK' /\ MailIsOrdered'
    BY <1>t, <1>r, <2>1 DEF TypeOK, Messages, Inv, MailIsOrdered, managerVars, taskVars, mainVars
  <2>3. Kept'
    BY <2>1 DEF Inv, Kept, ProcessIsChild, StartIsAwaited, Starter, StopIsAwaited, StopPending, QuitIsClosed,
                RecoveryIsOwned, BootIsFirst, AppIsTended, Tending, managerVars, taskVars, mainVars
  <2> QED
    BY <2>2, <2>3 DEF Kept, Inv
<1>2. CASE ~settled[c]
  <2>1. SettleError(c) /\ UNCHANGED <<child, allowance, at, mainVars>>
    BY <1>2 DEF HandleError
  <2>2. Kept'
    BY <1>r, <1>2, <2>1, Settles
  <2>3. mail' = [mail EXCEPT ![c] = IF Alive(c) THEN Append(Tail(@), "exit") ELSE Tail(@)]
    BY <1>2 DEF HandleError
  <2>4. Alive(c) => Append(Tail(mail[c]), "exit") \in Seq(Messages)
                    /\ Ordered(Append(Tail(mail[c]), "exit"), "dead")
    BY <1>r, Exits DEF Alive
  <2>5. ~Alive(c) => proc[c] = "dead"
    BY <1>r DEF Alive
  <2>6. mail'[c] \in Seq(Messages) /\ Ordered(mail'[c], "dead") /\ \A x \in Children \ {c} : mail'[x] = mail[x]
    BY <1>t, <1>r, <2>3, <2>4, <2>5 DEF TypeOK
  <2>7. mail' \in [Children -> Seq(Messages)]
    BY <1>t, <2>3, <2>6 DEF TypeOK, Messages
  <2>8. TypeOK'
    BY <1>t, <2>1, <2>7 DEF TypeOK, SettleError, Starter, mainVars, Messages
  <2>9. MailIsOrdered'
    BY <1>t, <2>1, <2>6 DEF Inv, MailIsOrdered, SettleError, TypeOK
  <2> QED
    BY <2>2, <2>8, <2>9 DEF Kept, Inv
<1> QED
  BY <1>1, <1>2

LEMMA TimeoutKeepsInv == ASSUME Inv, NEW c \in Children, StartTimesOut(c) PROVE Inv'
<1> USE NoneIsNoChild
<1>t. TypeOK
  BY DEF Inv
<1>c. child = c /\ proc[c] # "unused"
  BY <1>t DEF StartTimesOut, Starter, Inv, ProcessIsChild, TypeOK
<1>1. SettleError(c) /\ UNCHANGED <<child, allowance, at, mainVars>>
  BY DEF StartTimesOut
<1>2. Kept'
  BY <1>c, <1>1, Settles DEF StartTimesOut
<1>3. mail' = [mail EXCEPT ![c] = IF Alive(c) THEN Append(@, "exit") ELSE @]
  BY DEF StartTimesOut
<1>4. mail[c] \in Seq(Messages) /\ Ordered(mail[c], proc[c])
  BY <1>t DEF TypeOK, Messages, Inv, MailIsOrdered
<1>5. Alive(c) => Append(mail[c], "exit") \in Seq(Messages) /\ Ordered(Append(mail[c], "exit"), "dead")
  BY <1>4, Exits DEF Alive
<1>6. ~Alive(c) => proc[c] = "dead"
  BY <1>c DEF Alive
<1>7. mail'[c] \in Seq(Messages) /\ Ordered(mail'[c], "dead") /\ \A x \in Children \ {c} : mail'[x] = mail[x]
  BY <1>t, <1>3, <1>4, <1>5, <1>6 DEF TypeOK
<1>8. mail' \in [Children -> Seq(Messages)]
  BY <1>t, <1>3, <1>7 DEF TypeOK, Messages
<1>9. TypeOK'
  BY <1>t, <1>1, <1>8 DEF TypeOK, SettleError, Starter, mainVars, Messages
<1>10. MailIsOrdered'
  BY <1>t, <1>1, <1>7 DEF Inv, MailIsOrdered, SettleError, TypeOK
<1> QED
  BY <1>2, <1>9, <1>10 DEF Kept, Inv

LEMMA StoppedKeepsInv == ASSUME Inv, NEW c \in Children, HandleStopped(c) PROVE Inv'
<1>t. TypeOK
  BY DEF Inv
<1>r. /\ Tail(mail[c]) \in Seq(Messages) /\ Ordered(Tail(mail[c]), proc[c])
      /\ child = c /\ proc[c] \in Over
  <2>1. "stopped" \in Messages /\ Receive(c, "stopped")
    BY DEF Messages, HandleStopped
  <2> QED
    BY <2>1, Received
<1>1. /\ mail' = [mail EXCEPT ![c] = Tail(@)] /\ step' = Woken(c) /\ FinishStops(c)
      /\ UNCHANGED <<proc, asked, managerVars, at, recovery, suspended, page>>
  BY DEF HandleStopped
<1>2. Kept' /\ step' \in [Tasks -> {"idle", "stopping", "resuming", "resumed", "stopped", "starting",
                                    "loading", "failed", "showing"}]
  BY <1>r, <1>1, Wakes
<1>3. TypeOK'
  BY <1>t, <1>r, <1>1, <1>2 DEF TypeOK, Messages, FinishStops, managerVars
<1>4. MailIsOrdered'
  BY <1>t, <1>r, <1>1 DEF Inv, MailIsOrdered, TypeOK, managerVars, Over
<1> QED
  BY <1>2, <1>3, <1>4 DEF Kept, Inv

LEMMA TerminatedKeepsInv == ASSUME Inv, NEW c \in Children, Terminated(c) PROVE Inv'
<1> USE NoneIsNoChild
<1>t. TypeOK
  BY DEF Inv
<1>c. child = c /\ proc[c] \in Over
  BY DEF Terminated, StopPending, Inv, ProcessIsChild, Over
<1>1. /\ step' = Woken(c) /\ FinishStops(c)
      /\ UNCHANGED <<processVars, managerVars, at, recovery, suspended, page>>
  BY DEF Terminated
<1>2. Kept' /\ step' \in [Tasks -> {"idle", "stopping", "resuming", "resumed", "stopped", "starting",
                                    "loading", "failed", "showing"}]
  BY <1>c, <1>1, Wakes DEF processVars
<1>3. TypeOK' /\ MailIsOrdered'
  BY <1>t, <1>1, <1>2 DEF TypeOK, FinishStops, processVars, managerVars, Inv, MailIsOrdered
<1> QED
  BY <1>2, <1>3 DEF Kept, Inv


(* The exit of the child: its task fails, its stops resolve, and main may   *)
(* start a task that restarts it.                                           *)
LEMMA ExitKeepsInv == ASSUME Inv, NEW c \in Children, HandleExit(c) PROVE Inv'
<1> USE BootIsATask, NoneIsNoChild, AllowanceIsANumber
<1> DEFINE noticed == Noticed(expectedExit \/ ~settled[c])
           after == [t \in Tasks |-> IF t \in Starter(c) THEN "failed" ELSE Woken(c)[t]]
           Steps == {"idle", "stopping", "resuming", "resumed", "stopped", "starting",
                     "loading", "failed", "showing"}
<1>t. TypeOK
  BY DEF Inv
<1>r. Tail(mail[c]) = <<>> /\ child = c /\ proc[c] = "dead"
  <2>1. "exit" \in Messages /\ Receive(c, "exit")
    BY DEF Messages, HandleExit
  <2> QED
    BY <2>1, Received
<1>1. /\ proc' = [proc EXCEPT ![c] = "unused"] /\ mail' = [mail EXCEPT ![c] = <<>>]
      /\ asked' = [asked EXCEPT ![c] = "no"] /\ settled' = [settled EXCEPT ![c] = TRUE]
      /\ child' = None /\ at' = [t \in Tasks |-> IF at[t] = c THEN None ELSE at[t]]
      /\ expectedExit' = (expectedExit \/ ~settled[c]) /\ FinishStops(c) /\ UNCHANGED suspended
  BY <1>r DEF HandleExit, Become
<1>2. \/ /\ noticed /\ MayRestart /\ allowance' = allowance - 1 /\ recovery' = TRUE /\ UNCHANGED page
         /\ \E t \in Tasks : NewTask(t) /\ step' = [after EXCEPT ![t] = "stopped"]
      \/ /\ ~(noticed /\ MayRestart) /\ step' = after /\ UNCHANGED <<allowance, recovery>>
         /\ page' = IF noticed THEN "recovery" ELSE page
  BY DEF HandleExit
<1>3. after \in [Tasks -> Steps] /\ \A t \in Tasks :
        /\ after[t] \in {step[t], "failed", "stopped", "resumed"}
        /\ after[t] = "failed" => step[t] \in {"failed", "starting"}
        /\ after[t] = "stopped" => step[t] \in {"stopped", "stopping"}
        /\ after[t] = "resumed" => step[t] \in {"resumed", "resuming"}
        /\ step[t] = "idle" => after[t] = "idle"
  BY <1>t DEF Woken, Starter, TypeOK
<1> HIDE DEF after
<1>4. step' \in [Tasks -> Steps] /\ \A t \in Tasks :
        \/ step'[t] = after[t]
        \/ t # Boot /\ step[t] = "idle" /\ step'[t] = "stopped"
  BY <1>2, <1>3 DEF NewTask
<1>5. \A t \in Tasks : at'[t] = None
  BY <1>t, <1>r, <1>1 DEF Inv, ProcessIsChild
<1>6. TypeOK'
  <2>1. mail' \in [Children -> Seq({"ready", "error", "stopped", "exit"})]
    BY <1>t, <1>1 DEF TypeOK
  <2>2. allowance' \in 0 .. Allowance
    <3>1. (allowance > 0 /\ allowance' = allowance - 1) \/ allowance' = allowance
      BY <1>2 DEF MayRestart
    <3> QED
      BY <1>t, <3>1 DEF TypeOK
  <2>3. recovery' \in BOOLEAN /\ page' \in {"none", "app", "recovery"}
    BY <1>t, <1>2 DEF TypeOK
  <2> QED
    BY <1>t, <1>1, <1>4, <2>1, <2>2, <2>3 DEF TypeOK, FinishStops
<1>7. ProcessIsChild'
  <2>1. suspendStop' = None
    BY <1>t, <1>r, <1>1 DEF FinishStops, Inv, ProcessIsChild
  <2> QED
    BY <1>t, <1>r, <1>1, <1>5, <2>1 DEF Inv, TypeOK, ProcessIsChild
<1>8. MailIsOrdered'
  BY <1>t, <1>1 DEF Inv, TypeOK, MailIsOrdered, Ordered
<1>9. StartIsAwaited'
  BY <1>t, <1>r, <1>1 DEF Inv, TypeOK, MailIsOrdered, ProcessIsChild, StartIsAwaited
<1>10. StopIsAwaited'
  BY <1>1 DEF StopIsAwaited
<1>11. QuitIsClosed'
  BY <1>t, <1>r, <1>1 DEF Inv, TypeOK, MailIsOrdered, ProcessIsChild, QuitIsClosed
<1>12. RecoveryIsOwned'
  <2>1. step'[Boot] \in {"stopped", "starting", "loading", "failed", "showing", "idle"}
    BY <1>3, <1>4 DEF Inv, RecoveryIsOwned
  <2>2. shutdown # "no" => shutdown' # "no"
    BY <1>1 DEF FinishStops
  <2>3. \A t \in Tasks : step[t] # "idle" => step'[t] # "idle"
    BY <1>t, <1>3, <1>4 DEF TypeOK
  <2>4. recovery' => recovery \/ \E t \in Tasks \ {Boot} : step'[t] # "idle"
    BY <1>2, <1>3 DEF NewTask
  <2> QED
    BY <1>1, <2>1, <2>2, <2>3, <2>4 DEF Inv, RecoveryIsOwned
<1>13. BootIsFirst'
  <2>1. step'[Boot] # "stopped"
    BY <1>r, <1>3, <1>4 DEF Inv, RecoveryIsOwned, BootIsFirst
  <2> QED
    BY <1>5, <2>1 DEF BootIsFirst
<1>14. AppIsTended'
  <2>1. SUFFICES ASSUME page' = "app", shutdown' = "no", ~suspended PROVE \E t \in Tasks : Tending(t)'
    BY <1>1 DEF AppIsTended
  <2>2. shutdown = "no" /\ page = "app"
    BY <1>1, <1>2, <2>1 DEF FinishStops
  <2>3. \A t \in Tasks : Tending(t) => Tending(t)'
    BY <1>3, <1>4 DEF Tending
  <2>4. CASE noticed
    BY <1>2, <1>3, <2>1, <2>4 DEF NewTask, Tending
  <2>5. CASE ~noticed /\ settled[c]
    BY <2>1, <2>2, <2>3, <2>5 DEF Noticed, Inv, AppIsTended
  <2>6. CASE ~settled[c]
    BY <2>3, <2>6 DEF Inv, StartIsAwaited, Starter, Tending
  <2> QED
    BY <2>4, <2>5, <2>6
<1> QED
  BY <1>6, <1>7, <1>8, <1>9, <1>10, <1>11, <1>12, <1>13, <1>14 DEF Inv

(* start forks only where there is no child; the boot's comes first.        *)
LEMMA StartKeepsInv == ASSUME Inv, NEW t \in Tasks, StartRuntime(t) PROVE Inv'
<1> USE BootIsATask, NoneIsNoChild, AllowanceIsANumber
<1>t. TypeOK
  BY DEF Inv
<1>1. CASE child # None
  <2>1. step' = [step EXCEPT ![t] = "failed"] /\ UNCHANGED <<processVars, managerVars, at, mainVars>>
    BY <1>1 DEF StartRuntime
  <2>2. step[t] = "stopped" /\ t # Boot
    BY <1>1 DEF StartRuntime, Inv, BootIsFirst
  <2>3. TypeOK'
    BY <1>t, <2>1 DEF TypeOK, processVars, managerVars, mainVars
  <2>4. ProcessIsChild' /\ MailIsOrdered' /\ QuitIsClosed'
    BY <2>1 DEF Inv, ProcessIsChild, MailIsOrdered, QuitIsClosed, processVars, managerVars, mainVars
  <2>5. StartIsAwaited' /\ StopIsAwaited'
    BY <1>t, <2>1, <2>2 DEF TypeOK, Inv, StartIsAwaited, Starter, StopIsAwaited, StopPending,
            processVars, managerVars, mainVars
  <2>6. RecoveryIsOwned' /\ AppIsTended'
    BY <1>t, <2>1, <2>2 DEF TypeOK, Inv, RecoveryIsOwned, AppIsTended, Tending, managerVars, mainVars
  <2>7. BootIsFirst'
    BY <1>t, <2>1, <2>2 DEF TypeOK, Inv, BootIsFirst, processVars, managerVars, mainVars
  <2> QED
    BY <2>3, <2>4, <2>5, <2>6, <2>7 DEF Inv
<1>2. CASE child = None
  <2>1. PICK c \in Children : NewProcess(c) /\ Fork(t, c)
    BY <1>2 DEF StartRuntime
  <2>2. proc[c] = "unused" /\ step[t] = "stopped"
    BY <2>1 DEF NewProcess, StartRuntime
  <2>3. \A x \in Children : proc[x] = "unused"
    BY <1>2 DEF Inv, ProcessIsChild
  <2>4. \A x \in Tasks : at[x] = None
    BY <1>2 DEF Inv, ProcessIsChild
  <2>5. /\ child' = c /\ expectedExit' = FALSE /\ UNCHANGED <<mail, asked, allowance, mainVars>>
        /\ \A x \in Children : proc'[x] = (IF x = c THEN "forked" ELSE "unused")
                               /\ settled'[x] = IF x = c THEN FALSE ELSE settled[x]
        /\ \A x \in Tasks : step'[x] = (IF x = t THEN "starting" ELSE step[x])
                            /\ at'[x] = IF x = t THEN c ELSE None
    BY <1>t, <2>1, <2>3, <2>4 DEF Fork, Become, TypeOK
  <2>6. TypeOK'
    BY <1>t, <2>1 DEF TypeOK, Fork, Become, mainVars
  <2>7. ProcessIsChild'
    BY <1>2, <2>5 DEF Inv, ProcessIsChild, mainVars
  <2>8. MailIsOrdered'
    BY <2>3, <2>5, Empty DEF Inv, MailIsOrdered
  <2>9. StartIsAwaited'
    BY <2>3, <2>5 DEF Inv, MailIsOrdered, StartIsAwaited, Starter
  <2>10. StopIsAwaited'
    BY <2>5 DEF StopIsAwaited
  <2>11. QuitIsClosed'
    BY <2>3, <2>5 DEF Inv, MailIsOrdered, QuitIsClosed
  <2>12. RecoveryIsOwned' /\ AppIsTended'
    BY <2>2, <2>5 DEF Inv, RecoveryIsOwned, AppIsTended, Tending, mainVars
  <2>13. BootIsFirst'
    BY <2>2, <2>5 DEF Inv, BootIsFirst, mainVars
  <2> QED
    BY <2>6, <2>7, <2>8, <2>9, <2>10, <2>11, <2>12, <2>13 DEF Inv
<1> QED
  BY <1>1, <1>2

(* A runtime that is loaded from is this.child and was not told to end, or  *)
(* somebody waits for its end.                                              *)
LEMMA LoadKeepsInv == ASSUME Inv, NEW t \in Tasks, LoadEnds(t) PROVE Inv'
<1> USE BootIsATask, NoneIsNoChild
<1>t. TypeOK
  BY DEF Inv
<1>1. step[t] = "loading" /\ UNCHANGED <<processVars, managerVars, suspended, suspendStop, shutdown>>
  BY DEF LoadEnds
<1>b. step[Boot] # "stopped" /\ step'[Boot] # "stopped"
  BY <1>t DEF LoadEnds, Quiet, Runnable, Done, TypeOK
<1>2. CASE at[t] # None /\ proc[at[t]] = "serving" /\ Done(t) /\ recovery' = AfterTask(t) /\ page' = "app"
  <2>1. child = at[t] /\ child # None /\ proc[child] \notin Over
    BY <1>2 DEF Inv, ProcessIsChild, Over
  <2>2. \A x \in Tasks : /\ step'[x] = (IF x = t THEN "idle" ELSE step[x])
                         /\ at'[x] = IF x = t THEN None ELSE at[x]
    BY <1>t, <1>2 DEF Done, TypeOK
  <2>3. TypeOK'
    BY <1>t, <1>1, <1>2 DEF TypeOK, Done, AfterTask, processVars, managerVars
  <2>4. ProcessIsChild' /\ MailIsOrdered' /\ QuitIsClosed'
    BY <1>1, <2>2 DEF Inv, ProcessIsChild, MailIsOrdered, QuitIsClosed, processVars, managerVars
  <2>5. StartIsAwaited'
    <3>1. \A c \in Children : Starter(c)' = Starter(c)
      BY <1>1, <2>2 DEF Starter
    <3> QED
      BY <1>1, <3>1 DEF Inv, StartIsAwaited, managerVars
  <2>6. StopIsAwaited'
    BY <1>1, <2>2 DEF Inv, StopIsAwaited, StopPending, processVars, managerVars
  <2>7. RecoveryIsOwned'
    BY <1>1, <1>2, <2>2 DEF Inv, RecoveryIsOwned, AfterTask
  <2>8. BootIsFirst'
    <3>1. t # Boot => at[Boot] = None
      BY <1>1, <2>1 DEF Inv, BootIsFirst, ProcessIsChild
    <3> QED
      BY <1>b, <2>2, <3>1 DEF BootIsFirst
  <2>9. AppIsTended'
    <3>1. SUFFICES ASSUME shutdown = "no", ~suspended, expectedExit \/ recovery'
                   PROVE  \E x \in Tasks : Tending(x)'
      BY <1>1, <2>1 DEF AppIsTended, managerVars
    <3>2. CASE expectedExit
      BY <1>1, <2>1, <2>2, <3>1, <3>2 DEF Inv, StopIsAwaited, StopPending, ProcessIsChild, Tending
    <3>3. CASE recovery'
      <4>1. t = Boot /\ recovery
        BY <1>2, <3>3 DEF AfterTask
      <4>2. \A x \in Tasks \ {Boot} : step[x] \in {"idle", "stopping", "resuming"}
        BY <2>1, <4>1 DEF Inv, BootIsFirst
      <4>3. \E x \in Tasks \ {Boot} : step[x] # "idle"
        BY <3>1, <4>1 DEF Inv, RecoveryIsOwned
      <4> QED
        BY <2>2, <4>1, <4>2, <4>3 DEF Tending
    <3> QED
      BY <3>1, <3>2, <3>3
  <2> QED
    BY <2>3, <2>4, <2>5, <2>6, <2>7, <2>8, <2>9 DEF Inv
<1>3. CASE step' = [step EXCEPT ![t] = "failed"] /\ UNCHANGED <<at, recovery, page>>
  <2>2. \A x \in Tasks : step'[x] = IF x = t THEN "failed" ELSE step[x]
    BY <1>t, <1>3 DEF TypeOK
  <2>3. TypeOK'
    BY <1>t, <1>1, <1>3 DEF TypeOK, processVars, managerVars
  <2>4. ProcessIsChild' /\ MailIsOrdered' /\ QuitIsClosed'
    BY <1>1, <1>3 DEF Inv, ProcessIsChild, MailIsOrdered, QuitIsClosed, processVars, managerVars
  <2>5. StartIsAwaited'
    <3>1. \A c \in Children : Starter(c)' = Starter(c)
      BY <1>1, <1>3, <2>2 DEF Starter
    <3> QED
      BY <1>1, <3>1 DEF Inv, StartIsAwaited, managerVars
  <2>6. StopIsAwaited'
    BY <1>1, <1>3, <2>2 DEF Inv, StopIsAwaited, StopPending, processVars, managerVars
  <2>7. RecoveryIsOwned'
    BY <1>1, <1>3, <2>2 DEF Inv, RecoveryIsOwned
  <2>8. BootIsFirst'
    BY <1>1, <1>3, <1>b, <2>2 DEF Inv, BootIsFirst, processVars, managerVars
  <2>9. AppIsTended'
    BY <2>2 DEF AppIsTended, Tending
  <2> QED
    BY <2>3, <2>4, <2>5, <2>6, <2>7, <2>8, <2>9 DEF Inv
<1> QED
  BY <1>2, <1>3 DEF LoadEnds

(* retryRuntime begins when the boot is over, or its runtime is.            *)
LEMMA RetryKeepsInv ==
  ASSUME Inv, NEW t \in Tasks, NEW busy \in BOOLEAN, Retry(t, busy),
         \/ busy = recovery /\ t # Boot /\ step[t] = "idle" /\ page = "recovery"
         \/ busy = FALSE /\ step[t] = "resumed"
  PROVE  Inv'
<1> USE BootIsATask, NoneIsNoChild
<1>t. TypeOK
  BY DEF Inv
<1>b. t # Boot /\ step[Boot] # "stopped" /\ (at[Boot] # None => proc[at[Boot]] \in Over)
  BY DEF Inv, RecoveryIsOwned, BootIsFirst
<1>u. UNCHANGED <<proc, mail, settled, child, allowance, suspended, suspendStop, shutdown, page>>
  BY DEF Retry
<1>a. \/ asked' = asked /\ expectedExit' = expectedExit
      \/ /\ child \in Children /\ expectedExit' = TRUE /\ shutdown = "no"
         /\ asked' \in [Children -> {"no", "asked", "forced"}]
         /\ \A x \in Children \ {child} : asked'[x] = asked[x]
         /\ step'[t] = "stopping" /\ at'[t] = child
  BY <1>t, Asks DEF Retry, Running, Done, TypeOK
<1>s. /\ \A x \in Tasks \ {t} : step'[x] = step[x] /\ at'[x] = at[x]
      /\ step' \in [Tasks -> {"idle", "stopping", "resuming", "resumed", "stopped", "starting",
                              "loading", "failed", "showing"}]
      /\ at' \in [Tasks -> Children \union {None}] /\ recovery' \in BOOLEAN
      /\ at'[t] \in {None, child}
      /\ \/ step'[t] = "idle" /\ recovery' = busy /\ (busy \/ shutdown # "no")
         \/ step'[t] \in {"stopped", "stopping"}
  <2>1. PICK v \in {"idle", "stopping", "stopped"}, w \in {None, child} :
          /\ step' = [step EXCEPT ![t] = v] /\ at' = [at EXCEPT ![t] = w]
          /\ v = "idle" => recovery' = busy /\ (busy \/ shutdown # "no")
    BY DEF Retry, Done
  <2>2. recovery' \in BOOLEAN
    BY DEF Retry
  <2>3. /\ step \in [Tasks -> {"idle", "stopping", "resuming", "resumed", "stopped", "starting",
                             "loading", "failed", "showing"}]
        /\ at \in [Tasks -> Children \union {None}] /\ child \in Children \union {None}
    BY <1>t DEF TypeOK
  <2>4. step'[t] = v /\ at'[t] = w
    BY <2>1, <2>3
  <2>5. /\ step' \in [Tasks -> {"idle", "stopping", "resuming", "resumed", "stopped", "starting",
                              "loading", "failed", "showing"}]
        /\ at' \in [Tasks -> Children \union {None}]
    BY <2>1, <2>3
  <2>6. \A x \in Tasks \ {t} : step'[x] = step[x] /\ at'[x] = at[x]
    BY <2>1, <2>3
  <2>7. QED BY <2>1, <2>2, <2>4, <2>5, <2>6
<1>1. TypeOK'
  BY <1>t, <1>u, <1>a, <1>s DEF TypeOK
<1>2. ProcessIsChild'
  BY <1>u, <1>s DEF Inv, ProcessIsChild
<1>3. MailIsOrdered'
  BY <1>u, <1>a DEF Inv, MailIsOrdered, ProcessIsChild
<1>4. StartIsAwaited'
  <2>1. \A c \in Children : \A x \in Starter(c) : x \in Starter(c)'
    BY <1>s DEF Starter
  <2> QED
    BY <1>u, <2>1 DEF Inv, StartIsAwaited
<1>5. StopIsAwaited'
  <2>1. \A c \in Children : StopPending(c) => StopPending(c)'
    BY <1>u, <1>s DEF StopPending
  <2> QED
    BY <1>t, <1>u, <1>a, <2>1 DEF TypeOK, Inv, StopIsAwaited, StopPending
<1>6. QuitIsClosed'
  BY <1>u, <1>a DEF Inv, QuitIsClosed
<1>7. RecoveryIsOwned'
  BY <1>b, <1>u, <1>s DEF Inv, RecoveryIsOwned
<1>8. BootIsFirst'
  BY <1>b, <1>u, <1>s DEF BootIsFirst
<1>9. AppIsTended'
  <2>1. CASE step'[t] = "idle"
    BY <1>u, <1>a, <1>s, <2>1 DEF Inv, AppIsTended, Tending
  <2>2. CASE step'[t] # "idle"
    BY <1>s, <2>2 DEF AppIsTended, Tending
  <2> QED
    BY <2>1, <2>2
<1> QED
  BY <1>1, <1>2, <1>3, <1>4, <1>5, <1>6, <1>7, <1>8, <1>9 DEF Inv

(* A suspend and a shutdown ask the child to end and wait for it.           *)
LEMMA SuspendKeepsInv == ASSUME Inv, Suspend PROVE Inv'
<1> USE BootIsATask, NoneIsNoChild
<1>t. TypeOK
  BY DEF Inv
<1>1. /\ suspended' = TRUE /\ recovery' = TRUE /\ suspendStop' = child /\ shutdown = "no"
      /\ UNCHANGED <<proc, mail, settled, child, allowance, taskVars, shutdown, page>>
  BY DEF Suspend
<1>2. \/ child = None /\ UNCHANGED <<asked, expectedExit>>
      \/ /\ child \in Children /\ expectedExit' = TRUE
         /\ asked' \in [Children -> {"no", "asked", "forced"}]
         /\ \A x \in Children \ {child} : asked'[x] = asked[x]
  BY <1>t, Asks DEF Suspend, TypeOK
<1>3. step[Boot] # "stopped"
  BY DEF Suspend, Quiet, Runnable
<1>4. TypeOK'
  BY <1>t, <1>1, <1>2 DEF TypeOK, taskVars
<1>5. ProcessIsChild' /\ StartIsAwaited' /\ QuitIsClosed' /\ AppIsTended'
  BY <1>1 DEF Inv, ProcessIsChild, StartIsAwaited, Starter, QuitIsClosed, AppIsTended, taskVars
<1>6. MailIsOrdered'
  BY <1>1, <1>2 DEF Inv, MailIsOrdered, ProcessIsChild
<1>7. StopIsAwaited'
  BY <1>1 DEF StopIsAwaited, StopPending
<1>8. RecoveryIsOwned'
  BY <1>1 DEF Inv, RecoveryIsOwned, taskVars
<1>9. BootIsFirst'
  <2>1. at[Boot] # None => child = at[Boot]
    BY DEF Inv, ProcessIsChild
  <2> QED
    BY <1>1, <1>3, <2>1 DEF Inv, BootIsFirst, taskVars
<1> QED
  BY <1>4, <1>5, <1>6, <1>7, <1>8, <1>9 DEF Inv

LEMMA ShutDownKeepsInv == ASSUME Inv, ShutDown PROVE Inv'
<1> USE BootIsATask, NoneIsNoChild
<1>t. TypeOK
  BY DEF Inv
<1>1. UNCHANGED <<proc, mail, settled, child, allowance, taskVars, recovery, suspended, suspendStop, page>>
  BY DEF ShutDown
<1>2. \/ child = None /\ shutdown' = "stopped" /\ UNCHANGED <<asked, expectedExit>>
      \/ /\ child \in Children /\ shutdown' = "stopping"
         /\ asked' \in [Children -> {"no", "asked", "forced"}] /\ expectedExit' = TRUE
         /\ \A x \in Children \ {child} : asked'[x] = asked[x]
  BY <1>t, Asks DEF ShutDown, TypeOK
<1>3. step[Boot] # "stopped"
  BY DEF ShutDown, Quiet, Runnable
<1>4. TypeOK'
  BY <1>t, <1>1, <1>2 DEF TypeOK, taskVars
<1>5. ProcessIsChild' /\ StartIsAwaited'
  BY <1>1 DEF Inv, ProcessIsChild, StartIsAwaited, Starter, taskVars
<1>6. MailIsOrdered'
  BY <1>1, <1>2 DEF Inv, MailIsOrdered, ProcessIsChild
<1>7. StopIsAwaited'
  BY <1>1, <1>2 DEF StopIsAwaited, StopPending
<1>8. QuitIsClosed'
  BY <1>1, <1>2 DEF Inv, MailIsOrdered, ProcessIsChild, QuitIsClosed
<1>9. RecoveryIsOwned' /\ AppIsTended'
  BY <1>1, <1>2 DEF Inv, RecoveryIsOwned, AppIsTended, taskVars
<1>10. BootIsFirst'
  BY <1>1, <1>3 DEF Inv, BootIsFirst, taskVars
<1> QED
  BY <1>4, <1>5, <1>6, <1>7, <1>8, <1>9, <1>10 DEF Inv


(* The utility process only goes on.                                        *)
LEMMA UtilityKeepsInv == ASSUME Inv, NEW c \in Children, Utility(c) PROVE Inv'
<1>t. TypeOK
  BY DEF Inv
<1>1. UNCHANGED <<asked, managerVars, taskVars, mainVars>>
  BY DEF Utility, Spawn, Serve, BeginClose, Closed, Ends
<1>2. proc[c] \notin {"unused", "dead"} /\ mail[c] \in Seq(Messages) /\ Ordered(mail[c], proc[c])
  BY <1>t DEF Utility, Spawn, Serve, BeginClose, Closed, Ends, Alive, TypeOK, Messages, Inv, MailIsOrdered
<1>3. PICK s \in {"starting", "serving", "closing", "leaving", "dead"} :
        /\ Become(c, s) /\ (proc[c] \in Over => s \in Over)
        /\ \/ mail' = mail
           \/ \E e \in Messages : /\ Send(c, e) /\ (e = "exit" => s = "dead")
                                  /\ e \in {"stopped", "error"} => s \in Over
  <2>1. CASE Spawn(c)
    BY <2>1 DEF Spawn, Over
  <2>2. CASE Serve(c)
    BY <2>2 DEF Serve, Over, Messages
  <2>3. CASE BeginClose(c)
    BY <2>3 DEF BeginClose, Over, Messages
  <2>4. CASE Closed(c)
    BY <2>4 DEF Closed, Over, Messages
  <2>5. CASE Ends(c)
    BY <2>5 DEF Ends, Die, Over, Messages
  <2> QED
    BY <2>1, <2>2, <2>3, <2>4, <2>5 DEF Utility
<1>4. Kept'
  BY <1>1, <1>2, <1>3, GoesOn DEF Kept
<1>o. Ordered(mail[c], s)
  BY <1>2, <1>3 DEF Ordered
<1>5. /\ mail'[c] \in Seq(Messages) /\ Ordered(mail'[c], s) /\ \A x \in Children \ {c} : mail'[x] = mail[x]
      /\ mail' \in [Children -> Seq(Messages)]
  <2>1. mail \in [Children -> Seq(Messages)]
    BY <1>t DEF TypeOK, Messages
  <2>2. CASE mail' = mail
    BY <1>2, <1>o, <2>1, <2>2
  <2>3. CASE mail' # mail
    <3>1. PICK e \in Messages : /\ Send(c, e) /\ (e = "exit" => s = "dead")
                                /\ e \in {"stopped", "error"} => s \in Over
      BY <1>3, <2>3
    <3>2. Append(mail[c], e) \in Seq(Messages)
      BY <1>2
    <3>3. Ordered(Append(mail[c], e), s)
      BY <1>2, <1>3, <3>1, Sent
    <3>4. mail' = [mail EXCEPT ![c] = Append(mail[c], e)]
      BY <3>1 DEF Send
    <3> QED
      BY <2>1, <3>2, <3>3, <3>4
  <2> QED
    BY <2>2, <2>3
<1>6. TypeOK'
  BY <1>t, <1>1, <1>3, <1>5, ZenonT(30) DEF TypeOK, Become, Messages, managerVars, taskVars, mainVars
<1>7. MailIsOrdered'
  BY <1>t, <1>1, <1>3, <1>5 DEF TypeOK, Inv, MailIsOrdered, Become, managerVars
<1> QED
  BY <1>4, <1>6, <1>7 DEF Kept, Inv

LEMMA KillKeepsInv == ASSUME Inv, NEW c \in Children, ForceKill(c) PROVE Inv'
<1>t. TypeOK
  BY DEF Inv
<1>1. /\ Become(c, "dead") /\ Send(c, "exit") /\ asked' = [asked EXCEPT ![c] = "forced"]
      /\ UNCHANGED <<managerVars, taskVars, mainVars>>
  BY DEF ForceKill, Die
<1>2. proc[c] \notin {"unused", "dead"} /\ mail[c] \in Seq(Messages) /\ Ordered(mail[c], proc[c])
  BY <1>t DEF ForceKill, Alive, TypeOK, Messages, Inv, MailIsOrdered
<1>3. "dead" \in Over /\ \A x \in Children : x # c => asked'[x] = asked[x]
  BY <1>t, <1>1 DEF Over, TypeOK
<1>4. Kept'
  BY <1>1, <1>2, <1>3, GoesOn DEF Kept
<1>5. Append(mail[c], "exit") \in Seq(Messages) /\ Ordered(Append(mail[c], "exit"), "dead")
  BY <1>2, Exits
<1>6. TypeOK'
  BY <1>t, <1>1, <1>5 DEF TypeOK, Become, Send, Messages, managerVars, taskVars, mainVars
<1>7. MailIsOrdered'
  BY <1>t, <1>1, <1>5 DEF TypeOK, Inv, MailIsOrdered, Become, Send, managerVars
<1> QED
  BY <1>4, <1>6, <1>7 DEF Kept, Inv

(* The runtime is ready: its task loads the page.                           *)
LEMMA HandleReadyKeepsInv == ASSUME Inv, NEW c \in Children, HandleReady(c) PROVE Inv'
<1> USE BootIsATask, NoneIsNoChild DEF HandleReady, processVars, managerVars, taskVars, mainVars
<1>t. TypeOK
  BY DEF Inv
<1>r. /\ Tail(mail[c]) \in Seq(Messages) /\ Ordered(Tail(mail[c]), proc[c])
      /\ child = c /\ proc[c] # "unused"
  <2>1. "ready" \in Messages /\ Receive(c, "ready")
    BY DEF Messages
  <2> QED
    BY <2>1, Received
<1>m. mail' \in [Children -> Seq(Messages)] /\ \A x \in Children : x # c => mail'[x] = mail[x]
  BY <1>t, <1>r DEF TypeOK, Messages
<1>1. TypeOK'
  BY <1>t, <1>r, <1>m DEF TypeOK, Messages, Starter
<1>2. ProcessIsChild'
  BY <1>t, <1>r, <1>m DEF Inv, TypeOK, ProcessIsChild, Starter
<1>3. MailIsOrdered'
  BY <1>t, <1>r, <1>m DEF Inv, TypeOK, MailIsOrdered, Starter
<1>4. StartIsAwaited'
  BY <1>t, <1>r, <1>m DEF Inv, TypeOK, StartIsAwaited, Starter
<1>5. StopIsAwaited'
  BY <1>t, <1>r, <1>m DEF Inv, TypeOK, StopIsAwaited, StopPending, Starter
<1>6. QuitIsClosed'
  BY <1>t, <1>r, <1>m DEF Inv, TypeOK, QuitIsClosed, Starter
<1>7. RecoveryIsOwned'
  BY <1>t, <1>r, <1>m DEF Inv, TypeOK, RecoveryIsOwned, Starter
<1>8. BootIsFirst'
  BY <1>t, <1>r, <1>m DEF Inv, TypeOK, BootIsFirst, Starter
<1>9. AppIsTended'
  BY <1>t, <1>r, <1>m DEF Inv, TypeOK, AppIsTended, Tending, Starter
<1> QED
  BY <1>1, <1>2, <1>3, <1>4, <1>5, <1>6, <1>7, <1>8, <1>9 DEF Inv

(* The steps of main that only move a task or the page.                     *)
LEMMA FailKeepsInv == ASSUME Inv, NEW t \in Tasks, Fail(t) PROVE Inv'
<1> USE BootIsATask, NoneIsNoChild DEF Fail, processVars, managerVars, taskVars, mainVars
<1>t. TypeOK
  BY DEF Inv
<1>1. TypeOK'
  BY <1>t DEF TypeOK
<1>2. ProcessIsChild'
  BY <1>t DEF Inv, TypeOK, ProcessIsChild
<1>3. MailIsOrdered'
  BY <1>t DEF Inv, TypeOK, MailIsOrdered, ProcessIsChild
<1>4. StartIsAwaited'
  BY <1>t DEF Inv, TypeOK, StartIsAwaited, Starter, ProcessIsChild
<1>5. StopIsAwaited'
  BY <1>t DEF Inv, TypeOK, StopIsAwaited, StopPending, Over, ProcessIsChild
<1>6. QuitIsClosed'
  BY <1>t DEF Inv, TypeOK, QuitIsClosed, ProcessIsChild
<1>7. RecoveryIsOwned'
  BY <1>t DEF Inv, TypeOK, RecoveryIsOwned, ProcessIsChild
<1>8. BootIsFirst'
  BY <1>t DEF Inv, TypeOK, BootIsFirst, Over, ProcessIsChild
<1>9. AppIsTended'
  BY <1>t DEF Inv, TypeOK, AppIsTended, Tending, ProcessIsChild
<1> QED
  BY <1>1, <1>2, <1>3, <1>4, <1>5, <1>6, <1>7, <1>8, <1>9 DEF Inv

LEMMA ShownKeepsInv == ASSUME Inv, NEW t \in Tasks, Shown(t) PROVE Inv'
<1> USE BootIsATask, NoneIsNoChild DEF Shown, processVars, managerVars, taskVars, mainVars
<1>t. TypeOK
  BY DEF Inv
<1>1. TypeOK'
  BY <1>t DEF TypeOK, Done, AfterTask
<1>2. ProcessIsChild'
  BY <1>t DEF Inv, TypeOK, ProcessIsChild, Done, AfterTask
<1>3. MailIsOrdered'
  BY <1>t DEF Inv, TypeOK, MailIsOrdered, ProcessIsChild, Done, AfterTask
<1>4. StartIsAwaited'
  BY <1>t DEF Inv, TypeOK, StartIsAwaited, Starter, ProcessIsChild, Done, AfterTask
<1>5. StopIsAwaited'
  BY <1>t DEF Inv, TypeOK, StopIsAwaited, StopPending, Over, ProcessIsChild, Done, AfterTask
<1>6. QuitIsClosed'
  BY <1>t DEF Inv, TypeOK, QuitIsClosed, ProcessIsChild, Done, AfterTask
<1>7. RecoveryIsOwned'
  BY <1>t DEF Inv, TypeOK, RecoveryIsOwned, ProcessIsChild, Done, AfterTask
<1>8. BootIsFirst'
  BY <1>t DEF Inv, TypeOK, BootIsFirst, Over, ProcessIsChild, Done, AfterTask
<1>9. AppIsTended'
  BY <1>t DEF Inv, TypeOK, AppIsTended, Tending, ProcessIsChild, Done, AfterTask
<1> QED
  BY <1>1, <1>2, <1>3, <1>4, <1>5, <1>6, <1>7, <1>8, <1>9 DEF Inv

LEMMA ResumeKeepsInv == ASSUME Inv, NEW t \in Tasks, Resume(t) PROVE Inv'
<1> USE BootIsATask, NoneIsNoChild DEF Resume, processVars, managerVars, taskVars, mainVars
<1>t. TypeOK
  BY DEF Inv
<1>1. TypeOK'
  BY <1>t DEF TypeOK, NewTask
<1>2. ProcessIsChild'
  BY <1>t DEF Inv, TypeOK, ProcessIsChild, NewTask
<1>3. MailIsOrdered'
  BY <1>t DEF Inv, TypeOK, MailIsOrdered, ProcessIsChild, NewTask
<1>4. StartIsAwaited'
  BY <1>t DEF Inv, TypeOK, StartIsAwaited, Starter, ProcessIsChild, NewTask
<1>5. StopIsAwaited'
  BY <1>t DEF Inv, TypeOK, StopIsAwaited, StopPending, Over, ProcessIsChild, NewTask
<1>6. QuitIsClosed'
  BY <1>t DEF Inv, TypeOK, QuitIsClosed, ProcessIsChild, NewTask
<1>7. RecoveryIsOwned'
  BY <1>t DEF Inv, TypeOK, RecoveryIsOwned, ProcessIsChild, NewTask
<1>8. BootIsFirst'
  BY <1>t DEF Inv, TypeOK, BootIsFirst, Over, ProcessIsChild, NewTask
<1>9. AppIsTended'
  BY <1>t DEF Inv, TypeOK, AppIsTended, Tending, ProcessIsChild, NewTask
<1> QED
  BY <1>1, <1>2, <1>3, <1>4, <1>5, <1>6, <1>7, <1>8, <1>9 DEF Inv

LEMMA RendererTimesOutKeepsInv == ASSUME Inv, RendererTimesOut PROVE Inv'
<1> USE BootIsATask, NoneIsNoChild DEF RendererTimesOut, processVars, managerVars, taskVars, mainVars
<1>t. TypeOK
  BY DEF Inv
<1>1. TypeOK'
  BY <1>t DEF TypeOK
<1>2. ProcessIsChild'
  BY <1>t DEF Inv, TypeOK, ProcessIsChild
<1>3. MailIsOrdered'
  BY <1>t DEF Inv, TypeOK, MailIsOrdered, ProcessIsChild
<1>4. StartIsAwaited'
  BY <1>t DEF Inv, TypeOK, StartIsAwaited, Starter, ProcessIsChild
<1>5. StopIsAwaited'
  BY <1>t DEF Inv, TypeOK, StopIsAwaited, StopPending, Over, ProcessIsChild
<1>6. QuitIsClosed'
  BY <1>t DEF Inv, TypeOK, QuitIsClosed, ProcessIsChild
<1>7. RecoveryIsOwned'
  BY <1>t DEF Inv, TypeOK, RecoveryIsOwned, ProcessIsChild
<1>8. BootIsFirst'
  BY <1>t DEF Inv, TypeOK, BootIsFirst, Over, ProcessIsChild
<1>9. AppIsTended'
  BY <1>t DEF Inv, TypeOK, AppIsTended, Tending, ProcessIsChild
<1> QED
  BY <1>1, <1>2, <1>3, <1>4, <1>5, <1>6, <1>7, <1>8, <1>9 DEF Inv

LEMMA QuitAppKeepsInv == ASSUME Inv, QuitApp PROVE Inv'
<1> USE BootIsATask, NoneIsNoChild DEF QuitApp, processVars, managerVars, taskVars, mainVars
<1>t. TypeOK
  BY DEF Inv
<1>1. TypeOK'
  BY <1>t DEF TypeOK
<1>2. ProcessIsChild'
  BY <1>t DEF Inv, TypeOK, ProcessIsChild
<1>3. MailIsOrdered'
  BY <1>t DEF Inv, TypeOK, MailIsOrdered, ProcessIsChild
<1>4. StartIsAwaited'
  BY <1>t DEF Inv, TypeOK, StartIsAwaited, Starter, ProcessIsChild
<1>5. StopIsAwaited'
  BY <1>t DEF Inv, TypeOK, StopIsAwaited, StopPending, Over, ProcessIsChild
<1>6. QuitIsClosed'
  BY <1>t DEF Inv, TypeOK, QuitIsClosed, ProcessIsChild
<1>7. RecoveryIsOwned'
  BY <1>t DEF Inv, TypeOK, RecoveryIsOwned, ProcessIsChild
<1>8. BootIsFirst'
  BY <1>t DEF Inv, TypeOK, BootIsFirst, Over, ProcessIsChild
<1>9. AppIsTended'
  BY <1>t DEF Inv, TypeOK, AppIsTended, Tending, ProcessIsChild
<1> QED
  BY <1>1, <1>2, <1>3, <1>4, <1>5, <1>6, <1>7, <1>8, <1>9 DEF Inv

LEMMA NothingKeepsInv == ASSUME Inv, UNCHANGED vars PROVE Inv'
<1> USE DEF vars, processVars, managerVars, taskVars, mainVars
<1>1. TypeOK' /\ ProcessIsChild' /\ MailIsOrdered' /\ StartIsAwaited'
  BY DEF Inv, TypeOK, ProcessIsChild, MailIsOrdered, StartIsAwaited, Starter
<1>2. StopIsAwaited' /\ QuitIsClosed' /\ RecoveryIsOwned'
  BY DEF Inv, StopIsAwaited, StopPending, QuitIsClosed, RecoveryIsOwned
<1>3. BootIsFirst' /\ AppIsTended'
  BY DEF Inv, BootIsFirst, AppIsTended, Tending
<1> QED
  BY <1>1, <1>2, <1>3 DEF Inv

LEMMA InvIsInductive == ASSUME Inv, [Next]_vars PROVE Inv'
<1>1. ASSUME NEW c \in Children, Handle(c) PROVE Inv'
  BY <1>1, HandleReadyKeepsInv, ErrorKeepsInv, StoppedKeepsInv, ExitKeepsInv, KillKeepsInv,
     TerminatedKeepsInv, TimeoutKeepsInv DEF Handle
<1>2. ASSUME NEW t \in Tasks, Resumed(t) PROVE Inv'
  BY <1>2, RetryKeepsInv DEF Resumed
<1>3. ASSUME NEW t \in Tasks, UserRetries(t) PROVE Inv'
  <2>1. recovery \in BOOLEAN /\ Retry(t, recovery) /\ t # Boot /\ step[t] = "idle" /\ page = "recovery"
    BY <1>3 DEF UserRetries, NewTask, Inv, TypeOK
  <2> QED
    BY <2>1, RetryKeepsInv
<1>4. ASSUME NEW t \in Tasks, Run(t) PROVE Inv'
  BY <1>2, <1>4, StartKeepsInv, FailKeepsInv, ShownKeepsInv, LoadKeepsInv DEF Run
<1>5. CASE Next
  BY <1>1, <1>3, <1>4, <1>5, UtilityKeepsInv, ResumeKeepsInv, RendererTimesOutKeepsInv,
     SuspendKeepsInv, ShutDownKeepsInv, QuitAppKeepsInv DEF Next
<1>6. CASE UNCHANGED vars
  BY <1>6, NothingKeepsInv
<1> QED
  BY <1>5, <1>6

(* The invariant says what the desktop owes its databases.                  *)
LEMMA InvIsOrderly == ASSUME Inv PROVE RuntimeIsOrderly
<1> USE NoneIsNoChild
<1>1. TypeOK
  BY DEF Inv
<1>2. OneRuntime
  <2>1. {c \in Children : Alive(c)} \subseteq {child}
    BY DEF Inv, ProcessIsChild, Alive
  <2>2. IsFiniteSet({child}) /\ Cardinality({child}) = 1
    BY FS_Singleton
  <2>3. Cardinality({c \in Children : Alive(c)}) <= Cardinality({child})
    BY <2>1, <2>2, FS_Subset
  <2> QED
    BY <2>2, <2>3 DEF OneRuntime
<1>3. AppHasRuntime
  BY DEF Inv, AppHasRuntime, AppIsTended, Tending
<1>4. QuitIsOrderly
  BY DEF Inv, QuitIsOrderly, QuitIsClosed, Over
<1> QED
  BY <1>1, <1>2, <1>3, <1>4 DEF RuntimeIsOrderly

(* The desktop never has two runtimes over the same databases, does not     *)
(* leave its page over a runtime that is gone with nobody at work, and goes *)
(* only when the runtime it asked to end has closed (runtime-manager.ts     *)
(* start, stop and the exit event; main.ts retryRuntime, shutdown).         *)
THEOREM RuntimeIsAlwaysOrderly == Spec => []RuntimeIsOrderly
<1>1. Init => Inv
  BY InitIsSound
<1>2. Inv /\ [Next]_vars => Inv'
  BY InvIsInductive
<1>3. Inv => RuntimeIsOrderly
  BY InvIsOrderly
<1> QED
  BY <1>1, <1>2, <1>3, PTL DEF Spec

================================================================================
