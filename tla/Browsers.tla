------------------------------ MODULE Browsers ------------------------------
(****************************************************************************)
(* The browsers behind the scrapes (RealScraper of server/src/scraper.ts):  *)
(* the library launches one per scrape and hands it over, the scraper races *)
(* the scrape with a timeout, and dispose closes what is open when the      *)
(* runtime stops. A scrape is started with a permit of the pool.            *)
(*                                                                          *)
(* The library itself is external: it launches, drives, and closes its      *)
(* browser at the end; a browser that is closed under it makes it fail.     *)
(****************************************************************************)
EXTENDS Naturals, FiniteSets

CONSTANTS
  Scrapes,
  Permits  \* createScrapeSemaphore(limit)

BrowsersAssumption == Permits \in Nat \ {0}

VARIABLES
  scrape,     \* scrape[s]: "new", "started", "capturing", "closing", "cancelled" or "ended"
  library,    \* library[s]: "none", "launching", "handing", "driving" or "done"
  browser,    \* browser[s]: "none", "open" or "closed"
  handed,     \* the scrapes with a browserForRun
  browsers,   \* RealScraper.browsers
  disposed,
  disposing   \* what cancel, called by dispose, has still to close

vars == <<scrape, library, browser, handed, browsers, disposed, disposing>>

Init ==
  /\ scrape = [s \in Scrapes |-> "new"] /\ library = [s \in Scrapes |-> "none"]
  /\ browser = [s \in Scrapes |-> "none"]
  /\ handed = {} /\ browsers = {} /\ disposed = FALSE /\ disposing = {}

UnderWay == {s \in Scrapes : scrape[s] \in {"started", "capturing", "closing"}}

----------------------------------------------------------------------------
(* scrape, up to its first await; a scrape after dispose is refused.        *)

Start(s) ==
  /\ scrape[s] = "new" /\ Cardinality(UnderWay) < Permits
  /\ IF disposed THEN scrape' = [scrape EXCEPT ![s] = "cancelled"] /\ UNCHANGED library
     ELSE scrape' = [scrape EXCEPT ![s] = "started"] /\ library' = [library EXCEPT ![s] = "launching"]
  /\ UNCHANGED <<browser, handed, browsers, disposed, disposing>>

(* The library.                                                             *)

Launched(s) ==
  /\ library[s] = "launching"
  /\ library' = [library EXCEPT ![s] = "handing"] /\ browser' = [browser EXCEPT ![s] = "open"]
  /\ UNCHANGED <<scrape, handed, browsers, disposed, disposing>>

\* Faulty variant: a browser that is launched after dispose is kept.
NeverClosedAtOnce == FALSE

ClosedAtOnce == disposed

\* prepareBrowser.
Prepare(s) ==
  /\ library[s] = "handing"
  /\ library' = [library EXCEPT ![s] = "driving"]
  /\ handed' = handed \union {s}
  /\ browser' = [browser EXCEPT ![s] = IF ClosedAtOnce THEN "closed" ELSE @]
  /\ browsers' = IF ClosedAtOnce THEN browsers ELSE browsers \union {s}
  /\ UNCHANGED <<scrape, disposed, disposing>>

\* The library ends, and closes; without a browser it fails. The page of a bank may hang.
LibraryEnds(s) ==
  /\ library[s] \in {"launching", "driving"}
  /\ library' = [library EXCEPT ![s] = "done"]
  /\ browser' = [browser EXCEPT ![s] = IF @ = "open" THEN "closed" ELSE @]
  /\ browsers' = browsers \ {s}
  /\ UNCHANGED <<scrape, handed, disposed, disposing>>

(* The rest of scrape.                                                      *)

ScrapeEnds(s) ==
  /\ scrape[s] = "started" /\ library[s] = "done"
  /\ scrape' = [scrape EXCEPT ![s] = "ended"]
  /\ browsers' = browsers \ {s}
  /\ UNCHANGED <<library, browser, handed, disposed, disposing>>

\* Without a browser there is nothing to photograph or to close.
TimesOut(s) ==
  /\ scrape[s] = "started" /\ library[s] # "done"
  /\ scrape' = [scrape EXCEPT ![s] = IF s \in handed THEN "capturing" ELSE "ended"]
  /\ UNCHANGED <<library, browser, handed, browsers, disposed, disposing>>

\* The screenshot is taken; closeBrowser forgets the browser before it closes it.
Captured(s) ==
  /\ scrape[s] = "capturing"
  /\ scrape' = [scrape EXCEPT ![s] = "closing"]
  /\ browsers' = browsers \ {s}
  /\ UNCHANGED <<library, browser, handed, disposed, disposing>>

CloseTimedOut(s) == browser' = [browser EXCEPT ![s] = "closed"]

EndsClosed(s) ==
  /\ scrape[s] = "closing"
  /\ CloseTimedOut(s)
  /\ scrape' = [scrape EXCEPT ![s] = "ended"]
  /\ UNCHANGED <<library, handed, browsers, disposed, disposing>>

----------------------------------------------------------------------------
(* dispose: no scrape from here on; cancel closes every browser it knows.   *)

Dispose ==
  /\ ~disposed
  /\ disposed' = TRUE
  /\ disposing' = browsers /\ browsers' = {}
  /\ UNCHANGED <<scrape, library, browser, handed>>

CloseOne(s) ==
  /\ s \in disposing
  /\ disposing' = disposing \ {s}
  /\ browser' = [browser EXCEPT ![s] = "closed"]
  /\ UNCHANGED <<scrape, library, handed, browsers, disposed>>

Next ==
  \/ \E s \in Scrapes :
       \/ Start(s) \/ Launched(s) \/ Prepare(s) \/ LibraryEnds(s) \/ ScrapeEnds(s)
       \/ TimesOut(s) \/ Captured(s) \/ EndsClosed(s) \/ CloseOne(s)
  \/ Dispose

\* A launch is over some time and the library fails when its browser is closed; the page of
\* a bank may hang for ever.
LaunchEnds(s) == Launched(s) \/ (library[s] = "launching" /\ LibraryEnds(s))
Fails(s) == browser[s] = "closed" /\ LibraryEnds(s)
Fairness ==
  \A s \in Scrapes :
    /\ WF_vars(LaunchEnds(s)) /\ WF_vars(Prepare(s)) /\ WF_vars(Fails(s))
    /\ WF_vars(ScrapeEnds(s)) /\ WF_vars(TimesOut(s)) /\ WF_vars(Captured(s))
    /\ WF_vars(EndsClosed(s)) /\ WF_vars(CloseOne(s))

Spec == Init /\ [][Next]_vars /\ Fairness

----------------------------------------------------------------------------
(* Properties.                                                              *)

\* No browser outlives dispose: whatever was launching, timing out or being photographed
\* when the runtime stopped, each browser is closed in the end (scraper.ts:89, 156).
DisposeClosesAll == \A s \in Scrapes : disposed ~> browser[s] # "open"

\* A browser that nobody is about to close is known to the scraper, so that dispose finds it.
OpenIsKnown ==
  \A s \in Scrapes :
    browser[s] = "open" =>
      \/ s \in browsers \union disposing
      \/ library[s] = "handing" \/ scrape[s] = "closing"

\* Two headless browsers in all, however many profiles sync (workspaces.ts:150).
PermitsBoundBrowsers == Cardinality({s \in Scrapes : browser[s] = "open"}) <= Permits
=============================================================================
