# Fortrust in TLA+

Fortrust is a web browser written in Rust: one window process (egui) with an
engine worker thread, optional renderer and network processes, and its own DOM,
style, layout, paint and JavaScript binding crates. These modules model the
parts of it that keep state over time and react to several actors, check them
with TLC on small instances, and prove what matters most of them with TLAPS for
every value of the constants.

## Inventory

| Part (under `src/crates/` unless said otherwise) | State it keeps | Operations | Interacts with | Hard | Correct means | Here |
|---|---|---|---|---|---|---|
| Tab manager, `fortrust-core/src/tabs.rs` | strip of tabs, active id, tick, a memory state per tab | open, activate, close, reorder, the memory policy | window | long call sequences; three passes of a policy that interfere | one tab in front; limits kept; the coldest goes first; the policy is invisible on the strip | `TabStrip`, `TabManager`; proved |
| Window and engine worker, `fortrust-chrome/src/app.rs` | pages of tabs, owners of requests, two channels, animation loop | tabs, navigate, stop, change of privacy settings, poll of answers | tab manager, engine, renderers, storage | late answers, closed tabs, ids that start again, a process and a worker that write to one page | what a tab waits for comes, to that tab only; what it shows is its own | `BrowserShell`, `TabPages`; proved |
| Address bar and local search, `fortrust-chrome/src/omnibox.rs` | text, offers, the pending request | type, focus, blur, choose, poll | worker | answers that come after the text changed | offers belong to what was asked | `Omnibox`; proved |
| Download manager, `fortrust-chrome/src/download.rs` | entries, cancel flags, files, one stored setting | start, pause, resume, remove, save, load; one thread per attempt | window, network, disk, settings | threads of old attempts, broken connections, restarts | a completed file is the resource; pause holds; always settles | `DownloadManager`; proved but for `Settles` |
| Workspaces, `fortrust-core/src/workspaces.rs` | membership of tabs, active workspace, containers | create, delete, move, add, remove | window, tab manager | two copies of the membership; a tab that is moved to a workspace that is gone | a tab opened in a workspace is in exactly one, until it is moved to a missing one; no partition given twice | `Workspaces`; proved |
| IPC, `fortrust-ipc/src` | byte buffers, bounded channels | encode, decode, send, receive | renderer and network processes | partial frames, full channels | the frames sent are the frames received | in `NetProcess` |
| Network process, `fortrust-net/src/netproc.rs`, `src/bins/netproc`, its launch in `app.rs` | next request id, one event stream, one lock | launch, fetch, serve | IPC, network client, window | frames cut by reads; either process dying; connections behind one lock | a fetch returns its own whole answer, or an error; a worker gets an engine | `NetProcess`, `NetprocLaunch`; safety proved |
| HTTP cache and client, `fortrust-net/src/{cache,client}.rs`; privacy decision, `fortrust-core/src/privacy.rs` | entries by url | lookup, revalidate, store, redirect | transport | freshness against storing; redirects that were not inspected | only what the settings allow is asked; what is served is current | `Privacy`, `NetworkClient`; proved |
| TrustEngine, `trust-engine/src/lib.rs`; animations, `fortrust-style/src/animation.rs` | the animated page, the renderer's cache, the JavaScript runtime, budgets | load, build, tick | network, worker | three memories of one page; budgets over several resources | budgets kept and reported; frames are of the page built last | `TrustEngine`, `Animation`; safety proved |
| WebSockets, `fortrust-net/src/websocket.rs`, `fortrust-js/src/bindings/websocket.rs` | connection, channels, readyState | connect, send, close, poll | peer, scripts | tasks that run only between scripts, full channels, handlers in the middle of a batch | messages kept, once and in order | `WebSocket`; proved |
| XMLHttpRequest, fetch, `fortrust-js/src/bindings` | request states, responses of a thread | open, send, abort, read | scripts | handlers that call the object that calls them | what is read is of the url asked | `Xhr`, `Fetch` (with `FormData` in `ThreadObjects`); proved |
| Event loop and timers, `fortrust-js/src/event_loop.rs` | timers, frames, two copies of the ids | set, clear, fire | scripts | callbacks that change what is being gone through | the copies agree; nothing fires twice | `EventLoop`; proved |
| Storage, `fortrust-storage/src` | cookies, tables and their caches, quotas | set, get, remove, clear | window, scripts | keys that carry their site; writes that fail after the cache changed | isolation; cache and disk agree; quotas | `Cookies`, `Storage`, `WebStorage`; proved |
| DOM, forms and events, `fortrust-dom/src` | tree, dirty flags, form values, listeners | parse, insert, remove, dispatch, submit | scripts, renderer | dispatch while the tree changes; flags that stop at the first one set | a tree; clean means drawn; once fires once | `Dom`, `DomEvents`, `Forms`, `FormData`; proved |
| Style, layout, paint, canvas | rules, boxes, drawing states | cascade, lay out, paint | engine, scripts | orders and sums over recursive structures | references that are computed in another way agree | `Cascade` and `Canvas` (proved), `Layout` |
| Search, `fortrust-search/src` | cache of answers, local index | ask, rank, index | worker, services | backends that answer in any order; two orders of one cache | answers clean, ranked and freed of duplicates | `Search`; proved |
| Window widgets, programs | | draw, parse arguments | | | | not modelled; their guards are in the operations they offer |

The hazards of this code, each at its line and with the properties that guard
against it, are listed in `PROJECT.json`.

## Modules

Models are instantiated for TLC by the `MC` modules, which put several
components next to each other: a variable `part` chooses, in the initial state,
which of them a behaviour is about, and the others keep their initial values.
The properties of a component are stated in its own module, without `part`,
and its theorems are about its own specification.

| Module | What it is |
|---|---|
| `TabStrip` | abstract: an ordered strip of tabs of which one is active. What the window may rely on. |
| `TabManager` | `tabs.rs`: the strip and the memory policy. `StripSpec` is the refinement of `TabStrip`. |
| `BrowserShell` | the window and its engine worker; its strip is an instance of `TabStrip`. |
| `TabPages` | the history, title and frame of each tab, which the worker and a renderer process of the tab both write. |
| `DownloadManager` | `download.rs`, its threads and its environment. |
| `NetProcess` | clients of netproc with their TCP endpoints, the connections, and the tasks of netproc behind one lock. |
| `NetprocLaunch` | how a new engine worker gets its network: child process, announcement, fallback. |
| `Privacy`, `NetworkClient` | the decision on a request; the client with its cache and the web it asks. |
| `Animation`, `TrustEngine` | the controllers of animations; loading, building and moving a page. |
| `EventLoop`, `Xhr`, `Fetch`, `WebSocket` | what scripts wait for. |
| `Dom`, `DomEvents`, `Forms`, `FormData` | what scripts and the parser change. |
| `ThreadObjects` | `Fetch` and `FormData` together: what belongs to a thread of scripts and outlives its pages. |
| `Retain` | `retain` and `filter` of a vector, as a recursive function. |
| `Layout`, `Cascade`, `Canvas` | what a page looks like. |
| `Cookies`, `Storage`, `WebStorage`, `Workspaces` | what the browser keeps. |
| `Search`, `Omnibox` | private search, suggestions and local search. |
| `MCShell`, `MCNetProcess`, `MCEngine`, `MCScript`, `MCData` | instances for TLC. |
| `SequenceLemmas` | facts proved once: on sequences without repetition (appending, removing, inserting), on `Retained` and on joined sequences; induction and recursion over numbers, upwards and downwards, as facts about sets; that to count what comes before is to sort. |
| `TabManagerProofs`, `ShellProofs`, `DownloadProofs`, `NetProcessProofs`, `EngineProofs`, `ScriptProofs`, `DataProofs` | the theorems. |

### TabManager

`tabs`, `active`, `nextId`, `tick` are the fields of the struct; `status` and
`lastTick` are the two fields of a `Tab` that the policy reads, as functions on
the open ids. One action per method that changes state: `OpenTab`, `Activate`,
`CloseTab`, `ReorderTab`. The policy (`enforce_memory_policy`) is part of the
first three, as in the code, and is a composition of functions on statuses:
`SuspendStale`, `LimitWarm`, `SuspendForBudget`, `DiscardForBudget`. The two
`while` loops are each one set (`Trimmed`): the candidates before which the
loop did not stop, in the order in which the code picks them. The first loop
picks by `max_by_key`, which returns the last of equal maxima, so it works from
right to left and not by age: `ColdestDiscardedFirst` speaks of the second loop
only. `activate` on the active tab and every operation on an id that is not open
return early and change nothing; they are the stuttering of `Spec`. Nothing
sets `pinned`, so that it is left out.

### BrowserShell and TabPages

`pages` is `tab_pages`, with `request` for `request_id` (0 is `None`), and
`owner` is `request_owner`. `commands` and `events` are the two `mpsc`
channels, unbounded and in order. The worker answers one command at a time
(`WorkerStep`); the window handles one answer at a time, in `HandleLoaded` and
its siblings, and the user's operations come in between, as they do between two
frames. A document carries, as history, the tab that asked for it and what it
asked for. `scenario` says what an execution has: how many tabs, requests and
replaced workers, and whether pages are animated.

`TabPages` looks at the same tabs from the other side: each load is answered by
the worker and is also sent to a renderer process of the tab, by a thread per
load (`sending`), so that two loads of one tab may overtake each other; the
process reports what it does, fails to start, dies, or is killed with its tab.
`asked` is the history of what a tab was sent to; the name of a page stands for
its title and its frame.

### DownloadManager

An entry has a name (which stands for its url and its path), a status and the
recorded progress. `worker[w]` is a thread: its position in the closure of
`start_download`, its local progress `dl`, what the server will still send
(`rest`) and its cancel flag. `handle` maps a download to the thread whose flag
pause and remove set. A block of at most 65536 bytes is a *chunk*, a resource
the sequence `1 .. Size`, and a file a sequence of chunks, so that a chunk that
is missing, doubled or foreign shows. `TakeLimit` is `take(1 GB)` of one
attempt.

Every critical section of the state lock is one step. Merged are a chunk and
its progress record (the thread takes the lock after the write), and in
`Resume` the copy of the entry and the start (the code unlocks between them,
and only a thread could change the entry). What the environment may do beyond
dropping a connection is switched by `faults`:

| fault | what happens | effect found with TLC |
|---|---|---|
| `impatient` | the user resumes while the last thread still runs | two threads write one file |
| `ignoresRange` | the server answers 200 to a Range request | the whole body is appended to the part |
| `errorPage` | an error page is sent (the status is not looked at) | it is saved as the file |
| `writeError` | the disk refuses a block, part of which may be on it | the next attempt appends behind it |
| `sharedName` | two downloads have the same file name | they write one file |
| `restart` | the program ends and starts again | the file is ahead of the stored progress |

Each of the six alone breaks "a completed file is the resource"; they are the
conditions under which the download manager keeps that promise, and
`CompletedIsWhole` is stated without them. `ThreadIsHeld` and `Settles` are
claimed with all of them, `PausedUntilResumed` with all but the first.

### NetProcess and NetprocLaunch

`client[c]` is a `NetprocClient` with the two tasks of `create_tcp_endpoint`:
`out` and `inq` are its bounded channels, `writing` what is left of the frame
in `write_all`, `inbuf` the buffer of the reader task. `up` and `down` are the
two directions of the connection, `server[c]` is the task `handle_connection`,
and `mutex` the queue of the tokio mutex, whose head holds it. A frame is two
units, so that every read and write can end inside one. A body is the id of its
request, so that a missing, doubled or foreign body shows in `result`.

The engine is the only caller of its client and waits for each fetch, and its
runtime has one thread, so that the tasks of the endpoint run only during a
fetch. `fetch` takes `&self` and would allow two at a time; they would take
each other's events, and nothing of what is shown here would hold. A client may
end at any moment, also in the middle of a frame, after which its task in
netproc reads the end of the stream for ever: `HandlerEnds` says so by its
condition. netproc may die at any moment too. Frames above 64 MB
(`NetworkClient` limits a body to 16 MB) and the commands nobody sends are left
out.

One launch is one call of `EngineWorker::spawn`: the child's writes to stderr,
the thread that reads them, the window's loop of 8 s, and what the worker
builds. A line of `eprintln!` is several writes, which is external to the
repository: the standard library does not buffer stderr.

### NetworkClient and TrustEngine

`site` is the web: the answer each url gives now, which `Publish` changes.
`fetch` is the fetch under way, through inspection (`Privacy`), cache lookup,
transport, storing and redirects; three callers share the code and differ in
whether their cache is kept. The transport follows the common redirects by
itself, so that only the url it was asked for was inspected: the properties
speak of what it is *asked* for.

A document of `TrustEngine` is how many style sheets, images and scripts it
refers to, the boxes of its layout and the frames its scripts ask for. The
answers of the network are the steps of a load. What the engine remembers of a
page is in three places, `animPage`, `drawCache` and `runtime`, which builds,
failures and ticks write separately.

### What scripts reach

`Dom` has one action per call of the parser's sink and of `dom_api.rs`.
`appendChild` reaches the unchecked `append_child` of the tree, so that a script
can give a node to one below it, or to itself: both leave the document, as a
cycle. `insertBefore` and `replaceChild` refuse it, and `replaceChild(x, x)`
throws with `x` half removed. `odd` notes that one of these was called
(`"cycle"`, `"halfRemoved"`), or that one left no mark on the document
(`"unmarked"`: an attribute was set, or a node moved out of it).
`DomEvents` adds listeners and dispatches, which nest because a handler may
dispatch. In `EventLoop`, `Xhr` and `WebSocket` a handler is the actions that
follow the step that calls it. `Layout`, `Cascade`, `Forms` and `Canvas` grow
an input by one item per step, so that the state graph is the set of all small
inputs, and compare what the code computes with a reference definition that
computes it in another way.

A pixel of `Canvas` is one colour channel and its alpha. Coordinates are parts
of a pixel, a turn has a fraction as cosine and as sine, and the arithmetic is
exact: the rounding of `f32` is left out. Under a turn `fill_rect` fills the
bounding box and a path the turned rectangle, so that the two are compared only
where nothing turns; there `fill_rect` rounds outward while a path paints the
rows whose middle it covers. `fill_text`, shadows and `put_image_data` do not
ask for the clip, and `put_image_data` makes translucent pixels opaque: the
model does the same, and the properties say so. A curve and an arc are a line
to their end, and every text has the same glyphs. Resizing, patterns, radial
gradients, dashes and the joins other than the default one are left out.

### What is kept

`Workspaces` has both copies of the membership: the tabs of each workspace and
the `workspace_id` of each tab. `adrift` are the tabs that were opened without a
workspace or that `move_tab` was told to put in a missing one, which takes them
out of their own first; they are in none. No program calls `move_tab`.

A url of `Search` is its host, path, parameters and whether it asks for any
(`asks`): stripping the parameters that track leaves a `?` behind when no other
is there, which the comparison of results keeps, so that such a url is another
than the one that never asked. `Sent` holds both.

`WebStorage` counts bytes as the code does, without the length of a key that is
written for the first time.

## Runs

| run | about | states |
|---|---|---|
| `shell` | `PolicyLimits`, `OnlyActivationRestores`, `ColdestDiscardedFirst`, `StripSpec` of the tab manager; `PendingIsAnswerable`, `DocumentIsOwn`, `LoadsEnd` of the window; `PageIsOwn`, `LoadingIsAwaited` of the pages | 464 thousand |
| `downloads` | `CompletedIsWhole`, `ThreadIsHeld`, `PausedUntilResumed`, `Settles` | 525 thousand |
| `netproc` | `FetchIsWhole`, `FetchReturns`, `HandlerEnds`; `EngineReady` of the launch | 149 thousand |
| `engine` | `OnlyAllowedAsked`, `ServedIsCurrent`, `FetchEnds` of the client; `BudgetKept`, `FrameIsOfLastPage`, `TicksEnd` of the engine | 341 thousand |
| `script` | `TreeConsistent`, `CleanIsRendered`, `OnceRemoved`, `TimersAgree`, `MessagesKept`, `AnswerIsOfUrl`, `SubmittedIsRight`, `PageIsLaidOut`, `ObjectsAgree`, `PaintAgrees` | 520 thousand |
| `data` | `CookiesIsolated`, `CacheOnDisk`, `StoresBounded`, `TabsPlaced`, `AnswersClean`, `OffersInSync`, `ColorCascades` | 657 thousand |

The bounds are enough for the cases that matter:

- `shell`: five tabs with a warm limit of two and a stale age of four let every
  pass of the policy act, undo and repeat another; the three sizes are chosen
  so that three warm tabs, one more than the limit, fit the budget while four
  snapshots do not, or the budget passes would hide the others or never act.
  The window has two tabs, and either an animated page and four requests, or
  two pages, three requests and one replaced worker: two loads of different
  tabs, both answered and indexed, and a tick. The pages have two navigations
  over two tabs and one event waiting at a time, of which each may be
  overtaken by the other's.
- `downloads`: two downloads, two threads and two chunks, once without faults
  and once with all of them: a restart, a resume or a second download of the
  same name meets the thread before it, and two chunks tell a missing part from
  a doubled one.
- `netproc`: two connections of which one fetches twice, channels of one frame
  and sockets of half a frame make every task wait for every other; a second
  fetch meets what the first one left. Two launches let the second meet the
  child of the first.
- `engine`: two hosts of which one is on a list, two versions of an answer, a
  maximum age of two and a clock that reaches it; documents with one subresource
  more than its budget of each kind, and four kinds of animated pages.
- `script`: three nodes without listeners or two with them (`Focus`), two
  nested dispatches; two timers and two frames; five calls and two nested sends
  of a request; three messages and three commands over channels of two; four
  controls; five boxes. `Focus` also stops where `odd` has `"halfRemoved"`, or
  `"unmarked"` without a cycle, after which one of the properties of `Dom`
  claims nothing; what follows a cycle, in the document or outside of it, is
  explored, without listeners when it took a node out of the document. Three
  calls of a canvas of three by two pixels, in halves of a pixel, with an
  opaque and a translucent colour, two operations, a turn that is no quarter,
  a transform that turns and scales, a box on whole pixels and one that cuts
  through some. `Finest` bounds the denominator of a transform, so that there
  is one turn at a time.
- `data`: two cookies over three hosts and two sites; two bookmarks and two
  settings with a failing write at each point; a quota of three bytes and keys
  of one and two; three tabs and three workspaces; two rules or inline styles
  over three elements; a cache of two answers and four queries; two
  requests of the address bar and the sidebar.

`MaxTabId`, `MaxTick`, `MaxWorkers`, `MaxRequests`, `MaxMoves`, `MaxFetches`
and the other constants that begin with `Max` and are not in the code bound
counters that it lets grow; `Room` keeps ids of the shell in reserve, so that
the bound only stops the user and never an answer. `CHECK_DEADLOCK FALSE`
appears where a bounded model comes to its end, with every id used or both
processes ended; that nobody waits for ever is what `FetchReturns`, `Settles`,
`LoadsEnd`, `FetchEnds` and `TicksEnd` say.

Six runs end in a violation and are the findings:

- `download_restart` (`ResumesPending`): `app.rs:916` says "Restore persisted
  download state and auto-resume pending downloads", but the stored list is
  never emptied: when the last unfinished download completes or is removed,
  the next start resumes it.
- `shell_animation` (`InternalPagesDoNotAnimate`): `app.rs:1496` says "Start
  animation tick loop for non-internal pages"; the frame of the last page
  loaded is put into whatever tab is active, internal pages included.
- `netproc_address` (`AddressIsWhole`): `app.rs:495` says that the thread is to
  "collect the NETPROC_ADDR line"; it sends what follows the key as soon as it
  has read the key, which may be nothing or a part of the address. The worker
  then uses a client of its own, and netproc panics at its next write to stderr.
- `settings_lost` (`SettingsSurvive`): the More section of the sidebar
  (`sidebar.rs:700`) stores its switches as texts and the window reads them
  with `as_bool`, so that each has its default again after a restart;
  `.qoder/specs/Fortrust_Browser_Completion_53d9c40c.md:5` says
  "storage/history/bookmarks persist".
- `third_party_cookies` (`ThirdPartyBlocked`): `cookies.rs:230` says that a
  cookie is blocked "when the cookie is on a different registrable domain than
  the top-level site (or the request)"; the code compares it with the request
  only.
- `quota_exceeded` (`WithinQuota`): `local_storage.rs:10` says "Maximum total
  bytes for localStorage per database (5 MB)"; `set` takes the length of a key
  off that is not there yet, so that the items of an origin may exceed the quota
  by one key. How far they can is `StoresBounded`: never by more than the
  longest.

Met while modelling, without a line of the repository that says otherwise, and
therefore no findings: after a change of the privacy settings, tabs that were
loading stay so until they are reloaded, and the animation loop stops for good
when it was waiting for a frame; the memory policy turns discarded tabs back
into suspended ones before it discards them again; the six faults above; a
netproc whose worker was replaced, or that announced itself too late, runs on
without a client, and when netproc dies every later load fails, because the
engine chooses between netproc and its own client only once; a socket that
could not connect stays CONNECTING and registered; an interval of 0 ms never
ends its pass; `readyState` of an XMLHttpRequest is read-only for the binding
that should set it; `replaceChild(x, x)` takes `x` half out of the tree, and
`appendChild` makes a cycle of a node and one below it.

### Fairness

`DownloadManager!FairSpec` has weak fairness of every thread: the system
schedules it, and the HTTP client's timeout of 600 s (`download.rs:144`) ends
every request and read. Nothing is assumed of the user. `BrowserShell` has weak
fairness of the worker (the transport has timeouts, `transport.rs:59-60`, and
the commands of one worker are finitely many) and of the handling of answers:
`update` calls `poll_loading` and asks to be called again within 40 ms at each
frame (`app.rs:2825-2826`). `LoadsEnd` is about loads: that a frame of an
animation comes in the end is not claimed. `NetProcess!FairSpec` has weak
fairness of the tasks of both processes, which the runtimes schedule; that
`ServerFetch` ends is the 20 s timeout of the transport (`transport.rs:60`),
and that the lock is given in turn is tokio's fair mutex.
`NetprocLaunch!FairSpec` has it of the window, the reading thread and the
worker, and not of the child, which may hang. `NetworkClient!FairSpec` and
`TrustEngine!EngineFairSpec` have it of the steps of a fetch and of a load, for
the same timeouts, and of the ticks while something moves, which the animation
loop of the window sends. The fairness of the `MC` modules is that of the
components, each under its `part`.

## Proofs

Every theorem is about the component's own specification, for every value of
its constants under the assumption named in its module, which only says what is
a number and what is not empty. A theorem of the form `Spec => []P` rests on an
inductive invariant that implies `P`; what it adds to `P` is the argument.

### Tab manager (`TabManagerProofs`)

- `TypeCorrect`, `IdsNeverReused`, `ExactlyOneActive`, `ActivationsOrdered` are
  one induction (`StripInv`): that one tab is in front needs unique ids (or
  promoting one id would promote two tabs) and that ids are older than
  `nextId`; that ticks are distinct needs that none is later than now.
- `OnlyActivation` (`OnlyActivationRestores`): from the invariant and lemmas on
  the four passes, none of which makes a renderer.
- `ImplementsTabStrip` (`StripSpec`): `Spec` implies `TabStrip!Spec`, action by
  action; the only one that needs the invariant is `CloseTab`.
- `WarmTabsBounded`, `NoRendererGoesStale`, `BudgetIsRespected`, and the three
  together as `LimitsKept` (`PolicyLimits`): not inductive step by step but
  restored by every run of the policy, so that each pass has a lemma on what it
  establishes and one on what it leaves alone. Closing a tab runs the policy
  only when the tab was active; the other case needs that fewer tabs weigh no
  more.
- `DiscardsColdest` (`ColdestDiscardedFirst`): from the shape of `Trimmed`, a
  set that is closed under "older".

`ConfigAssumption` asks that a snapshot counts for at least one MB.

### Window (`ShellProofs`)

All four proofs use one idea: a channel is a sequence of members of a set that
depends on the state (what may be in it *now*), and a step that only widens
that set leaves the channel good, so that only the step that puts something
into a channel has to look at it.

- `PagesAreOwn` (`PageIsOwn`, invariant `OwnInv`): everything on its way to a
  tab, in the worker, in a thread that sends, in a mailbox, in a pipe or in the
  window's channel, is of a url that the tab was sent to. A closed tab's number
  is not given again.
- `LoadsAreAwaited` (`LoadingIsAwaited`, `AwaitInv`): adds what every loading
  tab was promised, and that a promise moves along the channels until it is
  kept or its process dies.
- `DocumentsAreOwn` (`DocumentIsOwn`, `WindowInv`): an answer is for the tab
  that owns its id; with a replaced worker old answers are gone, although old
  ids are not. Pages without animations, as the property says.
- `PendingAreAnswered` (`PendingIsAnswerable`, `PendingInv`): `NumberedInv`
  (every id on the way is below `nextRequest` and none is there twice) and
  `DueInv` (what a tab, an owner entry or the animation loop waits for is on the
  way). The second is not inductive without the first: a doubled id would be
  answered once and waited for twice.

### Downloads (`DownloadProofs`)

- `DownloadsAreHeld` (`ThreadIsHeld`) holds in every environment. `HeldInv`
  numbers the threads in the order in which they were spawned, and adds that the
  handle of a download is its newest thread and that an older one of the same
  id, after a restart, has an older number.
- `DownloadsAreWhole` (`CompletedIsWhole`) assumes `TakeLimit >= Size`:
  resources that one attempt may read to their end (1 GB in the code), above
  which a download ends early. The invariant relates, for each position of the
  thread, file, recorded progress, local progress and what is left of the body.
- `PausesHold` (`PausedUntilResumed`) needs of the invariant that at most one
  live thread works on a download, and where its flag was looked at.

### Network process (`NetProcessProofs`)

- `NetProcessTypes` (`TypeOK`), `OneTaskFetches`: one induction; the queue of
  the mutex has each waiting task once and its user in front. Types alone are
  not inductive, since the tail of an empty queue has no type.
- `FetchesAreWhole` (`FetchIsWhole`): the longest argument (`ConnInv`). What is
  on the way from a server task to the caller is, joined over the server's
  buffer, the socket, the reader's buffer and the channel, the rest of the
  answer to the current request, and the other way the request or what is left
  of it. Each move shifts a boundary of that join; the deaths cut
  it at one place and leave the caller with an error.

### Client and engine (`EngineProofs`)

- `OnlyAllowedIsAsked` (`OnlyAllowedAsked`): a fetch past its inspection holds
  an inspected url; inspection keeps the host, so that an upgraded or stripped
  url is on no list that the first was not on.
- `WhatIsServedIsCurrent` (`ServedIsCurrent`): each cache entry was what the web
  gave at its time or later; what a 304 confirms is what it gives now, because a
  version names one answer.
- `FramesAreOfLastPage` (`FrameIsOfLastPage`): the three memories agree with the
  page built last wherever something can move.
- `BudgetsAreKept` (`BudgetKept`): what is counted, blocked, still to come and
  taken add up to what the document refers to and to the budgets, in every
  phase.
- `ColorDoesCascade` (`ColorCascades`, `StyleInv`): only what parses is in a
  sheet or a style attribute, and all else follows from what `compute_style`
  computes. The rules that match are placed by how many come before them
  (`MatchedFacts`), so that the last declaration that sets a color is of a rule
  that loses to none; a pass over declarations is followed one by one
  (`PassedFacts`); the elements are computed parents first. `StyleAssumption`
  asks that a parent comes before its children and that the sheet of the
  browser parses.

### Scripts (`ScriptProofs`)

- `MessagesAreKept` (`MessagesKept`, `SocketInv`): the four places a message can
  be in, joined, are in order and hold every message sent. A poll sets the
  batch, so that the invariant needs that the batch is empty when the tasks run.
- `AnswersAreOfUrl` (`AnswerIsOfUrl`, `XhrInv`): every send under way, of
  whatever depth, works on the url of the object, and what is kept of an answer
  is of it in every state, also in those in which a script cannot read it yet.
- `TimersDoAgree` (`TimersAgree`, `LoopInv`): the list of the event loop and the
  two sets of the binding hold the same intervals, and of the timeouts the sets
  may hold more, because a timeout is taken from the list before it is called
  and from the set after. Every number is below the next one to be given.
- `TreeStaysConsistent` (`TreeConsistent`, `TreeInv`): lists of children and
  parents agree (`Agree`), no list has a node twice, and nothing of the document
  is below itself, although `appendChild` checks nothing: the one parent of each
  node of a cycle is on it, while the document is reached from a root without a
  parent. As long as no cycle was made there is none at all, which is said of
  sets (`NoCycle`: every set of nodes has a member whose parent is outside), so
  that no path has to be followed. Nodes that were not made yet have nothing
  (`Fresh`).
- `CleanStaysRendered` (`CleanIsRendered`, `CleanInv`): dirtiness is closed
  upwards, although `mark_dirty` stops at the first node that is dirty already,
  and the least set that is closed under its recursion is what it marks. With
  the tree, the document is then the only dirty root. Cycles outside the
  document are allowed for: a walk upwards from it never meets one.
- `OnceStaysRemoved` (`OnceRemoved`, `OnceInv`): a listener belongs to one node
  (`OwnListeners`), and one that fires once and has fired is noted in the frame
  of a dispatch that will remove it (`FramesNoted`, `FiredNoted`).
- `ObjectsDoAgree` (`ObjectsAgree`): `FetchInv` says by which client a promise
  was served and that its outcome is an answer of it; `EntriesInv` that each
  FormData object is the map that its calls describe. `set` retains what has
  another name, and what two `retain`s leave is what one leaves of both.
- `SubmitsRight` (`SubmittedIsRight`, `FormInv`): `collect` is a recursion from
  the children up and `is_form_control_of` a walk from a control to its form.
  Downward induction says that what is collected below a node is what belongs
  to the form there, and the sets of ancestors (`Ancestors`) that no control is
  collected twice, since two branches have none in common.
- `PathsFillRects` (`RectsAgree`, the first part of `PaintAgrees`): under a
  transform without a turn the rectangle of a path has two upright sides, which
  cross each row between its corners once (`CrossesAt`), and the pixels between
  the two crossings, from the floor of the one to the ceiling of the other, are
  those of the box that `fill_rect` rounds outward; the ratio of products is all
  of the arithmetic this takes. The other cells get nothing, and one layer gets
  one blend. Of the states it needs only that their transforms are whole numbers
  over a positive one (`CanvasInv`). `CanvasAssumption` asks for whole numbers
  and an even number of parts of a pixel, so that its middle is one.
### What is kept (`DataProofs`)

- `TabsStayPlaced` (`TabsPlaced`): with what the numbers are, and that the
  number of a deleted workspace is not given again, neither to a workspace nor
  to a partition; what a deleted one listed is in the default one (`Home`).
- `CachesAreOnDisk` (`CacheOnDisk`): with a clean cache whenever the database
  is closed, and `lost` only growing.
- `CookiesAreIsolated` (`CookiesIsolated`): the key of each cookie carries the
  site it was set under, exactly when isolation was on.
- `StoresStayBounded` (`StoresBounded`, `WebInv`): the bytes are counted as a
  set of pairs, so that what a write adds is a difference of cardinalities; the
  check of the quota forgets the key, so that the longest key is what a store
  may exceed it by. A key of the table is made of the names of its record
  (`RecordsNamed`), which is what makes the deletion by prefix complete.
- `OffersStayInSync` (`OffersInSync`, `BarInv`): each command and each answer on
  the way is for a request that was made, the newest of which carries the text
  or the query now shown; a poll is followed answer by answer.
- `AnswersStayClean` (`AnswersClean`, `SearchInv`): what is hidden, freed of
  duplicates, ranked and cut is so in this order, and no later step undoes an
  earlier one. The queries of the cache are the last ones that were answered, in
  the order in which they were used.

### What stays with TLC

- Liveness and ENABLED, which are out of the prover's reach: `LoadsEnd`,
  `Settles`, `FetchReturns`, `HandlerEnds`, `EngineReady`, `FetchEnds`,
  `TicksEnd`.
- `PageIsLaidOut`: `Layout` is written with RECURSIVE operators over boxes,
  which the provers do not read.
- `PutBackAgrees` and `ClipKept`, the other two parts of `PaintAgrees`.

Definitions that proofs are about avoid what has no definition for the
provers: `SelectSeq` and folds are recursive functions, a sort is by counting,
the records of changed functions are written out, and a choice among
overlapping conditions is an IF, since CASE leaves open which of two true ones
is taken. Induction over numbers is a lemma about sets (`UpwardInduction`,
`DownwardInduction`), since the library's takes an operator.

## Not modelled

Drawing and widgets, argument handling of the programs, the in-memory pair of
the IPC crate, DNS, TLS and the connection pool, the parsing of HTML, CSS and
selectors, colours and glyphs, the filter lists (pure matching, whose verdict
`BrowserShell` takes as the user's choice of a blocked page), cursors and key
ranges of IndexedDB, WebAudio, crypto and the other bindings that keep no state.
`PROJECT.json` says of each component what its modules leave out.

## Plan

All safety properties that the runs check are proved, but for `PageIsLaidOut`
and two parts of `PaintAgrees`. What is left:

1. `PageIsLaidOut`: `Layout` with recursive functions over boxes that are
   numbered parents first, as `Forms` and `Cascade` have their nodes, and the
   inductions of `SequenceLemmas`.
2. `PutBackAgrees` and `ClipKept`: what copies and shapes leave alone, cell by
   cell, with the lemmas of `PathsFillRects`.
3. The parts of the binding crates that `PROJECT.json` calls partly modelled.

## Running

`tlc -config <run>.cfg <module>` for a run (the module of each is in
`PROJECT.json`), `tlapm <module>` for the modules with proofs. Definitions
whose comment calls them a mutant are plausible wrong versions of the
definition that follows: replacing it by one of them makes TLC report the
property that `PROJECT.json` pairs with it.
