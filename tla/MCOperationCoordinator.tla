------------------------- MODULE MCOperationCoordinator -------------------------
(* The parts with few states, each explored by itself: the coordinator of   *)
(* one database, the hub that folds many of them into the state the desktop *)
(* hears, the browsers the scraper has open, and the notifications of the   *)
(* hidden application. `part` chooses one at the start; the others rest in  *)
(* their initial states.                                                    *)
(*                                                                          *)
(* Three leases let a stale release() of an old lease meet a newer one that *)
(* is active and a third that is waiting; two promises let beginShutdown    *)
(* and waitForIdle overlap.                                                 *)
EXTENDS OperationCoordinator

CONSTANTS Ids, Global, HubKinds,           \* of the hub
          Scrapes, Permits,                \* of the scraper
          Profiles, Keys, Ticks, PerTick, None  \* of the notifications

VARIABLES part,
          members, state, current, heard, evicting, closed,
          scrape, library, browser, handed, browsers, disposed, disposing,
          profile, facts, acked, shown, hidden, tray, ticking, tick
hubVars == <<members, state, current, heard, evicting, closed>>
browserVars == <<scrape, library, browser, handed, browsers, disposed, disposing>>
trayVars == <<profile, facts, acked, shown, hidden, tray, ticking, tick>>

Hub == INSTANCE CoordinatorHub WITH Kinds <- HubKinds
RealScraper == INSTANCE Browsers
Tray == INSTANCE Presence WITH active <- profile
ASSUME HubAssumption == Hub!HubAssumption
ASSUME ScraperAssumption == RealScraper!BrowsersAssumption
ASSUME TrayAssumption == Tray!PresenceAssumption

MCInit == /\ part \in {"coordinator", "hub", "scraper", "tray"}
          /\ Init /\ Hub!Init /\ RealScraper!Init /\ Tray!Init
          /\ part # "tray" =>
               profile = (CHOOSE p \in Profiles : TRUE) /\ \A p \in Profiles : facts[p] = {}
MCNext ==
  \/ part = "coordinator" /\ Next /\ UNCHANGED <<part, hubVars, browserVars, trayVars>>
  \/ part = "hub" /\ Hub!Next /\ UNCHANGED <<part, vars, browserVars, trayVars>>
  \/ part = "scraper" /\ RealScraper!Next /\ UNCHANGED <<part, vars, hubVars, trayVars>>
  \/ part = "tray" /\ Tray!Next /\ UNCHANGED <<part, vars, hubVars, browserVars>>

\* The fairness of each specification, while its part is explored.
MCFairness ==
  /\ \A l \in Leases : WF_vars(part = "coordinator" /\ lease[l] = "held" /\ Release(l))
  /\ \A s \in Scrapes :
       /\ WF_browserVars(part = "scraper" /\ RealScraper!LaunchEnds(s))
       /\ WF_browserVars(part = "scraper" /\ RealScraper!Prepare(s))
       /\ WF_browserVars(part = "scraper" /\ RealScraper!Fails(s))
       /\ WF_browserVars(part = "scraper" /\ RealScraper!ScrapeEnds(s))
       /\ WF_browserVars(part = "scraper" /\ RealScraper!TimesOut(s))
       /\ WF_browserVars(part = "scraper" /\ RealScraper!Captured(s))
       /\ WF_browserVars(part = "scraper" /\ RealScraper!EndsClosed(s))
       /\ WF_browserVars(part = "scraper" /\ RealScraper!CloseOne(s))
  /\ \A t \in Ticks : WF_trayVars(part = "tray" /\ Tray!GoesOn(t))
  /\ WF_trayVars(part = "tray" /\ \E t \in Ticks : Tray!Tick(t))
  /\ SF_trayVars(part = "tray" /\ \E t \in Ticks : Tray!Synced(t))
  /\ SF_trayVars(part = "tray" /\ \E t \in Ticks : Tray!Read(t))
  /\ SF_trayVars(part = "tray" /\ \E t \in Ticks : Tray!Ack(t))
MCSpec == MCInit /\ [][MCNext]_<<part, vars, hubVars, browserVars, trayVars>> /\ MCFairness

\* What the desktop hears of the workspaces is true: AggregateIsTrue of CoordinatorHub
\* (workspaces.ts:83-90, 359-365).
AggregateIsTrue == Hub!AggregateIsTrue
\* Each open browser is known to the scraper or about to close, so that none outlives
\* dispose: OpenIsKnown and DisposeClosesAll of Browsers (scraper.ts:89, 156).
BrowsersAreClosed == []RealScraper!OpenIsKnown /\ RealScraper!DisposeClosesAll
\* AckedStaysQuiet and PendingIsShown of Presence: what is pending is shown some time, and
\* what was recorded as shown is not shown again (presence.ts:8, 81-119).
AlertsArriveOnce == Tray!AckedStaysQuiet /\ Tray!PendingIsShown
================================================================================
