---------------------------- MODULE BrowserShell ----------------------------
(***************************************************************************)
(* The browser window of fortrust-chrome (FortrustApp) and its engine      *)
(* worker.  The window sends commands with request ids to one worker       *)
(* thread, which answers them in order; on every frame the window applies  *)
(* the answers that have arrived to the tabs that asked.  A change of the  *)
(* privacy settings replaces the worker, and its numbering starts again.   *)
(*                                                                         *)
(* The strip is TabStrip, which TabManager implements.  A url is Internal  *)
(* (fortrust:// and about: pages, the blocked page), Search or a web page. *)
(* Back, forward and reload are navigations to an earlier url; the history *)
(* list, the renderer subprocesses and their messages, suggestions and     *)
(* local search are left out.                                              *)
(***************************************************************************)
EXTENDS Naturals, Sequences, SequencesExt, FiniteSets

CONSTANTS
    Urls,           \* web pages
    WindowTabs,     \* bound on the tabs opened
    MaxRequests,    \* bound on the requests numbered by one worker
    Scenarios       \* what may happen, a subset of Scenario

\* An execution has so many web pages, tabs and requests; the privacy settings
\* change in some executions, and some page is animated in others.
Scenario == [urls : SUBSET Urls, tabs : 1 .. WindowTabs, requests : 1 .. MaxRequests,
             rebuilds : Nat, animated : BOOLEAN]

VARIABLES
    scenario,                   \* one of Scenarios
    order, front, nextTab,      \* the strip
    pages,                      \* tab_pages: tab -> TabPageState
    owner,                      \* request_owner: request id -> tab
    nextRequest,                \* next_request_id of the worker
    commands, events,           \* the two channels of the worker
    animPage,                   \* the document whose animations the engine runs
    animActive, animPending,    \* animations_active, anim_tick_pending_id or 0
    rebuilds                    \* how often the worker was replaced

strip    == <<order, front, nextTab>>
worker   == <<nextRequest, commands, events, animPage>>
animator == <<animActive, animPending>>
shellVars == <<scenario, strip, pages, owner, worker, animator, rebuilds>>

WindowStrip ==
    INSTANCE TabStrip WITH active <- front, nextId <- nextTab, MaxTabId <- WindowTabs

Internal == "internal"
Search   == "search"
NoDoc    == [tab |-> 0, asked |-> Internal, url |-> Internal]

\* A document: the url it came from and, as history, who asked for what.
Documents == {NoDoc} \cup [tab : 1 .. WindowTabs, asked : Urls, url : Urls]
Requests  == 1 .. MaxRequests

\* asked, a history field, is what the tab was last sent to.
NewPage == [url |-> Internal, asked |-> Internal, request |-> 0, doc |-> NoDoc,
            failed |-> FALSE]

StripTabs == ToSet(order)

Command == [id : Requests, kind : {"load", "search", "index", "tick"},
            url : Urls \cup {Internal, Search}, tab : 0 .. WindowTabs]
Event   == [id : Requests, kind : {"loaded", "searched", "failed", "indexed", "frame"},
            doc : Documents]

\* FortrustApp::new opens the start page.
ShellInit ==
    /\ scenario \in Scenarios \cap Scenario
    /\ order = <<1>> /\ front = 1 /\ nextTab = 2
    /\ pages = [t \in {1} |-> NewPage]
    /\ owner = [r \in {} |-> 0]
    /\ nextRequest = 1 /\ commands = <<>> /\ events = <<>> /\ animPage = NoDoc
    /\ animActive = FALSE /\ animPending = 0
    /\ rebuilds = 0

-----------------------------------------------------------------------------
(* Tabs.                                                                   *)

Assign(f, x, y) == [z \in DOMAIN f \cup {x} |-> IF z = x THEN y ELSE f[z]]
Without(f, S) == [z \in DOMAIN f \ S |-> f[z]]

OpenNewTab ==
    /\ nextTab <= scenario.tabs
    /\ WindowStrip!Open
    /\ pages' = Assign(pages, nextTab, NewPage)
    /\ UNCHANGED <<owner, worker, animator, rebuilds>>

ActivateTab(k) ==
    /\ WindowStrip!Activate(k)
    /\ UNCHANGED <<pages, owner, worker, animator, rebuilds>>

\* The window never stays without a tab.
CloseTabAt(k) ==
    LET t == order[k]
    IN  /\ owner' = Without(owner, {r \in DOMAIN owner : owner[r] = t})
        /\ \/ /\ Len(order) > 1
              /\ WindowStrip!Close(k)
              /\ pages' = Without(pages, {t})
           \/ /\ Len(order) = 1 /\ nextTab <= scenario.tabs
              /\ order' = <<nextTab>> /\ front' = nextTab /\ nextTab' = nextTab + 1
              /\ pages' = [i \in {nextTab} |-> NewPage]
        /\ UNCHANGED <<worker, animator, rebuilds>>

-----------------------------------------------------------------------------
(* Navigation.                                                             *)

\* The bound on the numbering: n more ids, and one for indexing the page of
\* every load under way, so that no answer is ever held back.
Room(n) == nextRequest + Cardinality(DOMAIN owner) + n <= scenario.requests + 1

\* The worker is sent a command with a new id.
Send(kind, url, tab) ==
    /\ nextRequest' = nextRequest + 1
    /\ commands' = Append(commands, [id |-> nextRequest, kind |-> kind,
                                     url |-> url, tab |-> tab])

\* Mutant of Navigate: the window does not note who asked.
NavigateUnowned(url) ==
    /\ url # Internal /\ Room(2)
    /\ pages' = [pages EXCEPT ![front] =
                    [NewPage EXCEPT !.url = url, !.asked = url, !.request = nextRequest]]
    /\ Send("load", url, front)
    /\ UNCHANGED <<strip, owner, events, animPage, animator, rebuilds>>

\* commit_navigation and show_blocked_page: an internal page is shown at once,
\* any other url is asked for; the answer to an earlier request is not awaited.
Navigate(url) ==
    /\ pages' = [pages EXCEPT ![front] =
                    [NewPage EXCEPT !.url = url, !.asked = url,
                                    !.request = IF url = Internal THEN 0 ELSE nextRequest]]
    /\ IF url = Internal
       THEN UNCHANGED <<owner, nextRequest, commands>>
       ELSE /\ Room(2)
            /\ Send(IF url = Search THEN "search" ELSE "load", url, front)
            /\ owner' = Assign(owner, nextRequest, front)
    /\ UNCHANGED <<strip, events, animPage, animator, rebuilds>>

\* The cross next to the address bar is there while the tab is loading.
StopActive ==
    LET r == pages[front].request
    IN  /\ r # 0
        /\ pages' = [pages EXCEPT ![front].request = 0]
        /\ owner' = Without(owner, {r})
        /\ UNCHANGED <<strip, worker, animator, rebuilds>>

\* rebuild_privacy_pipeline: a new worker; whatever the old one was asked, and
\* whatever it has answered, is lost, and what the window waits for is kept.
RebuildPrivacyPipeline ==
    /\ rebuilds < scenario.rebuilds
    /\ rebuilds' = rebuilds + 1
    /\ nextRequest' = 1 /\ commands' = <<>> /\ events' = <<>> /\ animPage' = NoDoc
    /\ UNCHANGED <<strip, pages, owner, animator>>

-----------------------------------------------------------------------------
(* The engine worker: one command after the other.                         *)

Answer(c) ==
    LET found(u) == [tab |-> c.tab, asked |-> c.url, url |-> u]
    IN  CASE c.kind = "load" ->
                {[id |-> c.id, kind |-> "loaded", doc |-> found(u)] : u \in scenario.urls}
                  \cup {[id |-> c.id, kind |-> "failed", doc |-> NoDoc]}
          [] c.kind = "search" ->
                {[id |-> c.id, kind |-> k, doc |-> NoDoc] : k \in {"searched", "failed"}}
          [] c.kind = "index" ->
                {[id |-> c.id, kind |-> "indexed", doc |-> NoDoc]}
          [] c.kind = "tick" ->
                {[id |-> c.id, kind |-> "frame", doc |-> d] :
                    d \in {NoDoc} \cup IF scenario.animated THEN {animPage} ELSE {}}

\* A load may be redirected to any url; a search that fails is one of a worker
\* without an engine (drain_failed_worker).
WorkerStep ==
    /\ commands # <<>>
    /\ commands' = Tail(commands)
    /\ \E e \in Answer(Head(commands)) :
            /\ events' = Append(events, e)
            /\ animPage' = IF e.kind = "loaded" THEN e.doc ELSE animPage
    /\ UNCHANGED <<strip, pages, owner, nextRequest, animator, rebuilds>>

-----------------------------------------------------------------------------
(* poll_loading: the answers, in the order they arrived.                   *)

Arrives(e) == events # <<>> /\ e = Head(events) /\ events' = Tail(events)

\* Mutant of Finish: the answer goes to the tab on screen.
FinishInActive(e, page) ==
    /\ owner' = Without(owner, {e.id})
    /\ pages' = IF pages[front].request = e.id THEN [pages EXCEPT ![front] = page]
                ELSE pages

\* The tab that asked takes the answer when it still waits for it; owner names
\* at most one tab, and forgets it.
Finish(e, page) ==
    LET t == owner[e.id]
    IN  /\ owner' = Without(owner, {e.id})
        /\ pages' = IF pages[t].request = e.id THEN [pages EXCEPT ![t] = page] ELSE pages

Awaited(e) == e.id \in DOMAIN owner

\* The page of a tab that was given an answer.
Answered(t, page) == [page EXCEPT !.asked = pages[t].asked]

\* An accepted page is also indexed, and its animations start.
HandleLoaded(e) ==
    LET t        == owner[e.id]
        accepted == pages[t].request = e.id
    IN  /\ Arrives(e) /\ e.kind = "loaded" /\ Awaited(e)
        /\ Finish(e, Answered(t, [NewPage EXCEPT !.url = e.doc.url, !.doc = e.doc]))
        /\ animActive' = (accepted \/ animActive)
        /\ IF accepted THEN Send("index", e.doc.url, 0)
                       ELSE UNCHANGED <<nextRequest, commands>>
        /\ UNCHANGED <<strip, animPage, animPending, rebuilds>>

HandleSearchLoaded(e) ==
    /\ Arrives(e) /\ e.kind = "searched" /\ Awaited(e)
    /\ Finish(e, Answered(owner[e.id], [NewPage EXCEPT !.url = Search]))
    /\ UNCHANGED <<strip, nextRequest, commands, animPage, animator, rebuilds>>

\* Mutant of HandleFailed: the failure of the load is forgotten.
HandleFailedSilently(e) ==
    /\ Arrives(e) /\ e.kind = "failed" /\ Awaited(e)
    /\ owner' = Without(owner, {e.id})
    /\ UNCHANGED <<strip, pages, nextRequest, commands, animPage, animator, rebuilds>>

HandleFailed(e) ==
    /\ Arrives(e) /\ e.kind = "failed" /\ Awaited(e)
    /\ LET t == owner[e.id]
       IN  Finish(e, Answered(t, [NewPage EXCEPT !.url = pages[t].url, !.failed = TRUE]))
    /\ UNCHANGED <<strip, nextRequest, commands, animPage, animator, rebuilds>>

\* Indexed is ignored, and so is the answer to a stopped or closed load.
HandleOther(e) ==
    /\ Arrives(e) /\ e.kind # "frame"
    /\ e.kind = "indexed" \/ ~ Awaited(e)
    /\ UNCHANGED <<strip, pages, owner, nextRequest, commands, animPage, animator, rebuilds>>

\* The frame goes to the tab that is active when it arrives.
HandleAnimationFrame(e) ==
    /\ Arrives(e) /\ e.kind = "frame"
    /\ IF e.id = animPending
       THEN /\ animPending' = 0
            /\ animActive' = (animActive /\ e.doc # NoDoc)
            /\ pages' = IF e.doc = NoDoc THEN pages
                        ELSE [pages EXCEPT ![front].doc = e.doc]
       ELSE UNCHANGED <<animator, pages>>
    /\ UNCHANGED <<strip, owner, nextRequest, commands, animPage, rebuilds>>

HandleEvent ==
    \E e \in ToSet(events) :
        \/ HandleLoaded(e) \/ HandleSearchLoaded(e) \/ HandleFailed(e)
        \/ HandleOther(e) \/ HandleAnimationFrame(e)

\* At the end of poll_loading: one tick at a time.
AnimationTick ==
    /\ animActive /\ animPending = 0 /\ Room(1)
    /\ Send("tick", Internal, 0)
    /\ animPending' = nextRequest
    /\ UNCHANGED <<strip, pages, owner, events, animPage, animActive, rebuilds>>

-----------------------------------------------------------------------------
ShellNext ==
    /\ \/ OpenNewTab
       \/ \E k \in DOMAIN order : ActivateTab(k) \/ CloseTabAt(k)
       \/ \E url \in scenario.urls \cup {Internal, Search} : Navigate(url)
       \/ StopActive
       \/ RebuildPrivacyPipeline
       \/ WorkerStep
       \/ HandleEvent
       \/ AnimationTick
    /\ UNCHANGED scenario

ShellSpec == ShellInit /\ [][ShellNext]_shellVars

\* The worker thread runs, a load ends (the transport has timeouts), and update
\* asks egui to be called again, and with it poll_loading, at each frame.
ShellFairSpec ==
    /\ ShellSpec
    /\ WF_shellVars(WorkerStep /\ UNCHANGED scenario)
    /\ WF_shellVars(HandleEvent /\ UNCHANGED scenario)

-----------------------------------------------------------------------------
InFlight(r) ==
    \/ \E i \in DOMAIN commands : commands[i].id = r
    \/ \E i \in DOMAIN events : events[i].id = r

\* As long as the worker is not replaced, what a tab waits for is on its way
\* and will be given to that tab, whatever other tabs have started, stopped and
\* closed meanwhile; no answer is kept for a closed tab, whose page it would
\* bring back (tab_state_mut); and the animation loop never waits for a frame
\* that does not come.
PendingIsAnswerable ==
    scenario.rebuilds = 0 =>
        /\ \A t \in StripTabs : LET r == pages[t].request
                                IN  r # 0 => InFlight(r) /\ r \in DOMAIN owner /\ owner[r] = t
        /\ \A r \in DOMAIN owner : owner[r] \in StripTabs
        /\ animPending # 0 => InFlight(animPending)

\* A tab shows the document that it has asked for itself and last, at the url
\* it is on, however answers and ids of replaced workers overlap; animations,
\* which are another matter (InternalPagesDoNotAnimate), left aside.
DocumentIsOwn ==
    ~ scenario.animated =>
        \A t \in StripTabs : pages[t].doc # NoDoc =>
            pages[t].doc = [tab |-> t, asked |-> pages[t].asked, url |-> pages[t].url]

\* A tab does not stay loading: the request it waits for is answered, or the
\* user stops it or asks for something else, of which the bound on the requests
\* leaves a last one; unless the worker is replaced.
Waits(t) == scenario.rebuilds = 0 /\ t \in StripTabs /\ pages[t].request # 0

LoadsEnd == \A t \in 1 .. WindowTabs : Waits(t) ~> ~ Waits(t)

\* app.rs:1496 "Start animation tick loop for non-internal pages": a tab on an
\* internal page has no animated document.
InternalPagesDoNotAnimate ==
    \A t \in StripTabs : pages[t].url = Internal => pages[t].doc = NoDoc
=============================================================================
