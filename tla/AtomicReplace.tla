----------------------------- MODULE AtomicReplace -----------------------------
(****************************************************************************)
(* What FinanceDb.restoreFrom and recoverInterruptedDatabase of             *)
(* server/src/db.ts promise together: a replacement takes the place of the  *)
(* database entirely or not at all, whatever fails and whenever the process *)
(* ends.                                                                    *)
(****************************************************************************)
CONSTANTS
  Contents,  \* contents of a database
  None

VARIABLES
  content,  \* what the database holds, were the process to start now
  base,     \* what it held when the replacement began
  wanted    \* the replacement under way, or None

Init ==
  /\ content \in Contents
  /\ base = content
  /\ wanted = None

Begin ==
  /\ wanted = None
  /\ wanted' \in Contents
  /\ UNCHANGED <<content, base>>

(* The replacement takes effect, or is taken back.                          *)
Flip ==
  /\ wanted # None
  /\ content' \in {base, wanted}
  /\ UNCHANGED <<base, wanted>>

(* It has ended; from here on the database is what it is now.               *)
End ==
  /\ wanted # None
  /\ wanted' = None
  /\ base' = content
  /\ UNCHANGED content

Next == Begin \/ Flip \/ End

Spec == Init /\ [][Next]_<<content, base, wanted>>
================================================================================
