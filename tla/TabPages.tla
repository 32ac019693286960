------------------------------ MODULE TabPages ------------------------------
(***************************************************************************)
(* The page of each tab of the window (TabPageState), which two parties    *)
(* write to: the engine worker, which answers a load, and a renderer       *)
(* process of the tab's own, which is sent the same url by a thread per    *)
(* load and reports what it does with it.  Both arrive in one channel.     *)
(* The process may fail to start, die, or be killed with its tab.          *)
(*                                                                         *)
(* A title or a frame is the url it was made from.  The worker's other     *)
(* answers are in BrowserShell; progress below 100 %, the messages no      *)
(* renderer sends, and the layout of pixels are left out.                  *)
(***************************************************************************)
EXTENDS Naturals, Sequences, SequencesExt, FiniteSets

CONSTANTS
    PageTabs,       \* the tabs of the window
    Pages,          \* web pages
    Typed,          \* the pages that the user asks for; loads may lead to others
    Start,          \* the start page, which every tab begins with
    MaxMoves,       \* bound on the navigations
    MaxEvents       \* bound on the events that wait for the window

VARIABLES
    page,           \* tab_pages: tab -> TabPageState; closed tabs keep Closed
    moves,          \* the navigations so far, which number the moves
    engine,         \* the loads that the worker has not answered
    sending,        \* the threads that send Navigate to a process
    renderer,       \* tab -> its process
    mailbox,        \* tab -> what its process was sent and has not read
    pipe,           \* tab -> what its process has sent and was not forwarded
    tabEvents       \* the channel that poll_loading reads

pageVars == <<page, moves, engine, sending, renderer, mailbox, pipe, tabEvents>>

None == "none"

\* asked, a history field, holds what the tab was sent to or redirected to.
TabPageState(url) ==
    [open |-> TRUE, history |-> <<url>>, index |-> 1, request |-> 0, doc |-> None,
     loading |-> None, error |-> None, title |-> url, frame |-> None, asked |-> {url}]

Closed == [TabPageState(Start) EXCEPT !.open = FALSE]

PagesInit ==
    /\ page = [t \in PageTabs |-> TabPageState(Start)]
    /\ moves = 0 /\ engine = <<>> /\ tabEvents = <<>>
    /\ sending = {}
    /\ renderer = [t \in PageTabs |-> "none"]
    /\ mailbox = [t \in PageTabs |-> <<>>]
    /\ pipe = [t \in PageTabs |-> <<>>]

-----------------------------------------------------------------------------
(* The history of a tab.                                                   *)

CurrentUrl(p) == p.history[p.index]

PushHistory(p, url) ==
    IF CurrentUrl(p) = url THEN p
    ELSE [p EXCEPT !.history = Append(SubSeq(p.history, 1, p.index), url),
                   !.index = p.index + 1]

ReplaceHistory(p, url) == [p EXCEPT !.history[p.index] = url]

\* clear_document and begin_load leave nothing of the page before.
Cleared(p) ==
    [p EXCEPT !.doc = None, !.error = None, !.loading = None, !.request = 0, !.frame = None]

-----------------------------------------------------------------------------
(* Loads.                                                                  *)

\* try_spawn_renderer_for_tab: in two attempts a process starts and connects,
\* or none does.
TrySpawn(t) == renderer' \in {renderer, [renderer EXCEPT ![t] = "running"]}

\* A process that was started once is used for ever, dead or not; without one
\* the load goes to the renderer in the window's own process, and the next load
\* tries again.
EnsureRenderer(t) == IF renderer[t] = "none" THEN TrySpawn(t) ELSE UNCHANGED renderer

\* EngineWorker::load: the url goes to the worker, and by a thread of its own to
\* the renderer of the tab.
Load(t, url) ==
    /\ EnsureRenderer(t)
    /\ engine' = Append(engine, [tab |-> t, request |-> moves', url |-> url])
    /\ sending' = sending \cup
           {[tab |-> t, request |-> moves', url |-> url,
             to |-> IF renderer'[t] = "none" THEN "window" ELSE "process"]}

\* commit_navigation of tab t, whose state is p once its history was changed.
Commit(t, p, url) ==
    LET q == [Cleared(p) EXCEPT !.title = url, !.asked = @ \cup {url}]
    IN  /\ moves < MaxMoves
        /\ moves' = moves + 1
        /\ IF url = Start
           THEN /\ page' = [page EXCEPT ![t] = q]
                /\ UNCHANGED <<engine, sending, renderer>>
           ELSE /\ Load(t, url)
                /\ page' = [page EXCEPT ![t] =
                               [q EXCEPT !.loading = url, !.request = moves']]

NavigateInput(t, url) ==
    /\ Commit(t, PushHistory(page[t], url), url)
    /\ UNCHANGED <<mailbox, pipe, tabEvents>>

\* go_back and go_forward: the entry is loaded anew.
GoTo(t, i) ==
    /\ i \in {page[t].index - 1, page[t].index + 1} \cap DOMAIN page[t].history
    /\ Commit(t, [page[t] EXCEPT !.index = i], page[t].history[i])
    /\ UNCHANGED <<mailbox, pipe, tabEvents>>

Reload(t) ==
    /\ Commit(t, page[t], CurrentUrl(page[t]))
    /\ UNCHANGED <<mailbox, pipe, tabEvents>>

StopLoading(t) ==
    /\ page[t].loading # None
    /\ page' = [page EXCEPT ![t].loading = None, ![t].request = 0]
    /\ UNCHANGED <<moves, engine, sending, renderer, mailbox, pipe, tabEvents>>

\* What a process wrote before it ended can still be read; the rest is lost.
Ended(t) ==
    /\ mailbox' = [mailbox EXCEPT ![t] = <<>>]
    /\ \E n \in 0 .. Len(pipe[t]) : pipe' = [pipe EXCEPT ![t] = SubSeq(@, 1, n)]

\* close_tab with close_tab_renderer, which kills the process.
ClosePage(t) ==
    /\ page' = [page EXCEPT ![t] = Closed]
    /\ renderer' = [renderer EXCEPT ![t] = "none"]
    /\ Ended(t)
    /\ UNCHANGED <<moves, engine, sending, tabEvents>>

-----------------------------------------------------------------------------
(* The renderer process of a tab.                                          *)

\* The thread of a load sends the url.  Nobody reads what the renderer in the
\* window's process answers, and a process that has ended reads nothing.
Deliver(s) ==
    /\ sending' = sending \ {s}
    /\ mailbox' = IF s.to = "process" /\ renderer[s.tab] = "running"
                  THEN [mailbox EXCEPT ![s.tab] = Append(@, s.url)] ELSE mailbox
    /\ UNCHANGED <<page, moves, engine, renderer, pipe, tabEvents>>

Message(kind, url) == [kind |-> kind, url |-> url]

\* Mutant of Reports: a page that fails is not reported.
ReportsSilently(url) ==
    {<<Message("NavigationStart", url)>>,
     <<Message("NavigationStart", url), Message("FrameReady", url),
       Message("LoadComplete", url)>>}

\* navigate: the messages of a page that can be rendered, and of one that
\* cannot.  The title is sent with the frame; LoadProgress with Loaded does what
\* LoadComplete does.
Reports(url) ==
    {<<Message("NavigationStart", url), Message("NavigationError", url)>>,
     <<Message("NavigationStart", url), Message("FrameReady", url),
       Message("LoadComplete", url)>>}

Render(t) ==
    /\ mailbox[t] # <<>>
    /\ mailbox' = [mailbox EXCEPT ![t] = Tail(@)]
    /\ \E reports \in Reports(Head(mailbox[t])) :
            pipe' = [pipe EXCEPT ![t] = @ \o reports]
    /\ UNCHANGED <<page, moves, engine, sending, renderer, tabEvents>>

RendererDies(t) ==
    /\ renderer[t] = "running"
    /\ renderer' = [renderer EXCEPT ![t] = "dead"]
    /\ Ended(t)
    /\ UNCHANGED <<page, moves, engine, sending, tabEvents>>

\* What arrives for a tab; request 0 is of no load of the worker.
EngineEvent(tab, request, kind, url) == [tab |-> tab, request |-> request, kind |-> kind, url |-> url]

\* Mutant of Forward: the message is tagged with a tab that is being loaded.
ForwardUntagged(t) ==
    /\ pipe[t] # <<>> /\ Len(tabEvents) < MaxEvents
    /\ pipe' = [pipe EXCEPT ![t] = Tail(@)]
    /\ \E u \in PageTabs : tabEvents' =
           Append(tabEvents, EngineEvent(u, 0, Head(pipe[t]).kind, Head(pipe[t]).url))
    /\ UNCHANGED <<page, moves, engine, sending, renderer, mailbox>>

\* The forwarder of a tab goes on as long as there is something to read.
Forward(t) ==
    /\ pipe[t] # <<>> /\ Len(tabEvents) < MaxEvents
    /\ pipe' = [pipe EXCEPT ![t] = Tail(@)]
    /\ tabEvents' = Append(tabEvents, EngineEvent(t, 0, Head(pipe[t]).kind, Head(pipe[t]).url))
    /\ UNCHANGED <<page, moves, engine, sending, renderer, mailbox>>

\* The worker answers with the page of the url, or of one it was redirected to.
EngineAnswers ==
    /\ engine # <<>> /\ Len(tabEvents) < MaxEvents
    /\ engine' = Tail(engine)
    /\ \E kind \in {"Loaded", "Failed"}, url \in Pages :
            /\ kind = "Failed" => url = Head(engine).url
            /\ tabEvents' = Append(tabEvents, EngineEvent(Head(engine).tab, Head(engine).request, kind, url))
    /\ UNCHANGED <<page, moves, sending, renderer, mailbox, pipe>>

-----------------------------------------------------------------------------
(* poll_loading: the page of a tab after event e.                          *)

\* finish_load and fail_load.
Finished(p, e) ==
    IF e.request # p.request THEN p
    ELSE CASE e.kind = "Loaded" ->
                [Cleared(ReplaceHistory(p, e.url)) EXCEPT
                    !.doc = e.url, !.title = e.url, !.asked = @ \cup {e.url}]
           [] e.kind = "Failed" -> [Cleared(p) EXCEPT !.error = e.url]

\* apply_renderer_message: no message names the load it belongs to.
Reported(p, e) ==
    CASE e.kind = "NavigationStart" -> [p EXCEPT !.loading = e.url]
      [] e.kind = "FrameReady"      -> [p EXCEPT !.title = e.url, !.frame = e.url]
      [] e.kind = "LoadComplete"    -> [p EXCEPT !.loading = None]
      [] e.kind = "NavigationError" -> [p EXCEPT !.loading = None, !.error = e.url]

\* Nothing is kept of what arrives for a closed tab.
PollLoading ==
    LET e == Head(tabEvents)
        p == page[e.tab]
    IN  /\ tabEvents # <<>>
        /\ tabEvents' = Tail(tabEvents)
        /\ page' = IF p.open
                   THEN [page EXCEPT ![e.tab] =
                            IF e.kind \in {"Loaded", "Failed"} THEN Finished(p, e)
                                                               ELSE Reported(p, e)]
                   ELSE page
        /\ UNCHANGED <<moves, engine, sending, renderer, mailbox, pipe>>

-----------------------------------------------------------------------------
UserStep ==
    \E t \in PageTabs :
        /\ page[t].open
        /\ \/ \E url \in Typed \cup {Start} : NavigateInput(t, url)
           \/ \E i \in DOMAIN page[t].history : GoTo(t, i)
           \/ Reload(t) \/ StopLoading(t) \/ ClosePage(t)

PagesNext ==
    \/ UserStep
    \/ \E s \in sending : Deliver(s)
    \/ \E t \in PageTabs : Render(t) \/ RendererDies(t) \/ Forward(t)
    \/ EngineAnswers
    \/ PollLoading

PagesSpec == PagesInit /\ [][PagesNext]_pageVars

-----------------------------------------------------------------------------
\* What a tab shows is its own, and current: its title, frame, error and address
\* come from the urls that this tab was sent to, whatever the processes of other
\* tabs and of closed ones still report; and the page on screen is the current
\* entry of the history, after redirections and steps back and forth with
\* answers under way.
PageIsOwn ==
    \A t \in PageTabs : page[t].open =>
        /\ {page[t].loading, page[t].title, page[t].frame, page[t].error}
                \subseteq page[t].asked \cup {None}
        /\ page[t].doc # None => page[t].doc = CurrentUrl(page[t])

Ends(m) == m.kind \in {"LoadComplete", "NavigationError"}

\* A tab that shows that it is loading is going to stop: the worker has still to
\* answer the request that the tab waits for, or its process has reported the
\* end of what it began, and that report is on its way; unless the process died.
LoadingIsAwaited ==
    \A t \in PageTabs : page[t].loading # None =>
        \/ renderer[t] = "dead"
        \/ \E r \in ToSet(engine) : r.tab = t /\ r.request = page[t].request
        \/ \E m \in ToSet(pipe[t]) : Ends(m)
        \/ \E e \in ToSet(tabEvents) :
                e.tab = t /\ (Ends(e) \/ e.request \in {page[t].request} \ {0})
=============================================================================
