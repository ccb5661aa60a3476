------------------------------ MODULE Presence ------------------------------
(****************************************************************************)
(* The quiet presence of the desktop (desktop/src/presence.ts) and the two  *)
(* routes it talks to (GET /alerts/pending and POST /alerts/ack): while the *)
(* window is hidden, a tick syncs what is stale, reads what is pending,     *)
(* shows a few notifications and reports them.                              *)
(*                                                                          *)
(* The calls name no profile, so each is answered for the profile that is   *)
(* active when it arrives. Every call may fail. Time is left out: a tick    *)
(* comes any time.                                                          *)
(****************************************************************************)
EXTENDS Naturals, FiniteSets

CONSTANTS
  Profiles,
  Keys,     \* what can be alerted about, in the order of the list; in several profiles perhaps
  Ticks,    \* the ticks that may be under way at once
  PerTick,  \* MAX_NOTIFICATIONS_PER_TICK
  None

PresenceAssumption == PerTick \in Nat \ {0} /\ Keys \subseteq Nat /\ None \notin Profiles

VARIABLES
  active,   \* the registry's active profile
  facts,    \* facts[p]: what there is to alert about in p
  acked,    \* acked[p]: notified_alerts
  shown,    \* shown[p]: what a notification has been shown for (history)
  hidden,   \* the window is hidden
  tray,     \* the presence is enabled
  ticking,  \* the flag of the class
  tick      \* tick[t]: None, or [at, from, batch]

vars == <<active, facts, acked, shown, hidden, tray, ticking, tick>>

Init ==
  /\ active \in Profiles
  /\ facts \in [Profiles -> SUBSET Keys]
  /\ acked = [p \in Profiles |-> {}] /\ shown = [p \in Profiles |-> {}]
  /\ hidden = FALSE /\ tray = TRUE /\ ticking = FALSE
  /\ tick = [t \in Ticks |-> None]

At(t, at) == tick[t] # None /\ tick[t].at = at
Goes(t, at) == tick' = [tick EXCEPT ![t].at = at]

\* Faulty variant: a tick starts while another still runs.
MayTickAgain == tray /\ hidden

MayTick == ~ticking /\ tray /\ hidden

Tick(t) ==
  /\ tick[t] = None /\ MayTick
  /\ ticking' = TRUE
  /\ tick' = [tick EXCEPT ![t] = [at |-> "status", from |-> None, batch |-> {}]]
  /\ UNCHANGED <<active, facts, acked, shown, hidden, tray>>

\* /status, and the sync of data that is stale, if they succeed: it may find something new.
Synced(t) ==
  /\ At(t, "status")
  /\ Goes(t, "pending")
  /\ \E found \in SUBSET Keys : facts' = [facts EXCEPT ![active] = @ \union found]
  /\ UNCHANGED <<active, acked, shown, hidden, tray, ticking>>

\* Faulty variant: what was acked is not filtered out.
AllPending(p) == facts[p]

Pending(p) == facts[p] \ acked[p]

\* The first PerTick of the list.
Batch(p) == {k \in Pending(p) : Cardinality({j \in Pending(p) : j < k}) < PerTick}

\* GET /alerts/pending.
Read(t) ==
  /\ At(t, "pending") /\ Pending(active) # {}
  /\ tick' = [tick EXCEPT ![t] = [at |-> "show", from |-> active, batch |-> Batch(active)]]
  /\ UNCHANGED <<active, facts, acked, shown, hidden, tray, ticking>>

Ends(t) == tick' = [tick EXCEPT ![t] = None] /\ ticking' = FALSE

\* Nothing is pending, or the call failed.
ReadNothing(t) ==
  /\ At(t, "pending")
  /\ Ends(t)
  /\ UNCHANGED <<active, facts, acked, shown, hidden, tray>>

Show(t) ==
  /\ At(t, "show")
  /\ shown' = [shown EXCEPT ![tick[t].from] = @ \union tick[t].batch]
  /\ Goes(t, "ack")
  /\ UNCHANGED <<active, facts, acked, hidden, tray, ticking>>

\* POST /alerts/ack.
Ack(t) ==
  /\ At(t, "ack")
  /\ acked' = [acked EXCEPT ![active] = @ \union tick[t].batch]
  /\ Ends(t)
  /\ UNCHANGED <<active, facts, shown, hidden, tray>>

AckFails(t) ==
  /\ At(t, "ack")
  /\ Ends(t)
  /\ UNCHANGED <<active, facts, acked, shown, hidden, tray>>

----------------------------------------------------------------------------
(* The user.                                                                *)

Hide == hidden' = ~hidden /\ UNCHANGED <<active, facts, acked, shown, tray, ticking, tick>>

\* presenceSet: a tick under way goes on.
Toggle == tray' = ~tray /\ UNCHANGED <<active, facts, acked, shown, hidden, ticking, tick>>

Switch ==
  /\ ~hidden /\ active' \in Profiles \ {active}
  /\ UNCHANGED <<facts, acked, shown, hidden, tray, ticking, tick>>

Next ==
  \/ \E t \in Ticks :
       Tick(t) \/ Synced(t) \/ Read(t) \/ ReadNothing(t) \/ Show(t) \/ Ack(t) \/ AckFails(t)
  \/ Hide \/ Toggle \/ Switch

\* The interval ticks on, and a call that is tried again and again is answered some time.
GoesOn(t) == Synced(t) \/ Read(t) \/ ReadNothing(t) \/ Show(t) \/ Ack(t) \/ AckFails(t)
Fairness ==
  /\ \A t \in Ticks : WF_vars(GoesOn(t))
  /\ WF_vars(\E t \in Ticks : Tick(t))
  /\ SF_vars(\E t \in Ticks : Synced(t)) /\ SF_vars(\E t \in Ticks : Read(t)) /\ SF_vars(\E t \in Ticks : Ack(t))

Spec == Init /\ [][Next]_vars /\ Fairness

----------------------------------------------------------------------------
(* Properties.                                                              *)

\* What was recorded as shown in a profile is not shown again for it, although a tick
\* reads, shows and reports in three calls and the interval may come during any of them
\* (presence.ts:8). A report that fails, or arrives after a switch, is not recorded.
AckedStaysQuiet ==
  [][\A t \in Ticks : At(t, "show") /\ Goes(t, "ack") => tick[t].batch \cap acked[tick[t].from] = {}]_vars

\* What is pending in the active profile of a hidden window is shown some time, however
\* much else is pending.
PendingIsShown ==
  \A p \in Profiles, k \in Keys :
    (k \in Pending(p) ~> \/ k \in shown[p] \cup acked[p]
                         \/ ~hidden \/ ~tray \/ active # p)

\* Each alert is acked so it can never fire twice (presence.ts:8): nothing is shown twice.
NothingFiresTwice ==
  [][\A t \in Ticks : At(t, "show") /\ Goes(t, "ack") => tick[t].batch \cap shown[tick[t].from] = {}]_vars

\* The shell reports which alerts it actually showed (routes.ts:2247): no profile records
\* an alert that was not shown for it.
RecordedWasShown == \A p \in Profiles : acked[p] \subseteq shown[p]
=============================================================================
