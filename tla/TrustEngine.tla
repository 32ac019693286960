----------------------------- MODULE TrustEngine -----------------------------
(***************************************************************************)
(* The page engine (trust-engine, lib.rs) with the static renderer         *)
(* (fortrust-renderer): how a document and what it refers to are loaded    *)
(* within their budgets, how the page is built, and how frames of it are   *)
(* made afterwards from what three places remember of it: the engine's     *)
(* anim_page, the renderer's cache and the JavaScript runtime of the       *)
(* thread.                                                                 *)
(*                                                                         *)
(* The calls come from one thread, one at a time; the steps of a load are  *)
(* the answers of the network.  A document says what the model needs of    *)
(* its text: how many sheets, images and scripts it refers to, the boxes   *)
(* of its layout, and how many frames its scripts ask for, one after the   *)
(* other.  Titles, colours, favicons (see NetworkClient), canvases and     *)
(* the DNS prefetch are left out, and so are the frames that a WebSocket   *)
(* handler asks for.                                                       *)
(***************************************************************************)
EXTENDS Animation

CONSTANTS
    Documents,      \* [url, secure, text, drawn : BOOLEAN,
                    \*  sheets, images, scripts : Nat, boxes, frames]
    Configs,        \* [netproc, network, javascript, subresources : BOOLEAN]
    Sizes,          \* the sizes of what is fetched
    MaxSheets, MaxSheetSize,        \* 12 and 1 MB in the code
    MaxImages, MaxImageSize,        \* 32 and 4 MB
    MaxScripts, MaxScriptSize,      \* 8 and 512 KB, the size of all of them
    Budget,                         \* 6 MB, for the sheets, and again for the images
    TickLengths,    \* the times between two frames, in ms
    MaxElapsed      \* bound on the time of an animation

\* No value of these is too large or too small.
ASSUME EngineAssumption ==
    /\ MaxSheets \in Nat /\ MaxSheetSize \in Nat /\ MaxImages \in Nat /\ MaxImageSize \in Nat
    /\ MaxScripts \in Nat /\ MaxScriptSize \in Nat /\ Budget \in Nat /\ Sizes \subseteq Nat
    /\ \A d \in Documents : d.sheets \in Nat /\ d.images \in Nat /\ d.scripts \in Nat

VARIABLES
    config,         \* what the engine was made with
    netprocUp,
    load,           \* the load under way
    animPage,       \* anim_page
    drawCache,      \* the renderer's anim_state
    runtime,        \* JS_PERSISTENT: its page and the frames it still asks for
    frame,          \* the last page returned by a tick
    built           \* history: the last document that was built

engineVars == <<config, netprocUp, load, animPage, drawCache, runtime, frame, built>>

NoDocument == [url |-> "none", secure |-> FALSE, text |-> TRUE, drawn |-> FALSE,
               sheets |-> 0, images |-> 0, scripts |-> 0, boxes |-> <<>>, frames |-> 0]
NoCounts == [sheetsLoaded |-> 0, sheetsBlocked |-> 0, imagesLoaded |-> 0, imagesBlocked |-> 0]
NoLoad == [pc |-> "idle", doc |-> NoDocument, left |-> 0, budget |-> 0,
           counts |-> NoCounts, scripts |-> 0, bytes |-> 0, taken |-> 0]
NoPage    == [doc |-> NoDocument, counts |-> NoCounts, score |-> 0]
NoCache   == [doc |-> NoDocument, controllers |-> <<>>, touched |-> <<>>]
NoRuntime == [doc |-> NoDocument, frames |-> 0]

EngineInit ==
    /\ config \in Configs
    /\ netprocUp = config.netproc
    /\ load = NoLoad
    /\ animPage = NoPage /\ frame = NoPage
    /\ drawCache = NoCache
    /\ runtime = NoRuntime
    /\ built = NoDocument

-----------------------------------------------------------------------------
(* Loading.                                                                *)

\* load_url: netproc is asked when the engine was made with it, also when it
\* has died; else the engine's own client.
LoadUrl(d) ==
    /\ load.pc = "idle"
    /\ load' = [NoLoad EXCEPT !.pc = "document", !.doc = d]
    /\ UNCHANGED <<config, netprocUp, animPage, drawCache, runtime, frame, built>>

NetprocDies ==
    /\ netprocUp
    /\ netprocUp' = FALSE
    /\ UNCHANGED <<config, load, animPage, drawCache, runtime, frame, built>>

\* No network, or no answer: what the engine remembers stays.
LoadFails ==
    /\ load.pc = "document"
    /\ load' = NoLoad
    /\ UNCHANGED <<config, netprocUp, animPage, drawCache, runtime, frame, built>>

Reachable == IF config.netproc THEN netprocUp ELSE config.network

\* The phases of the subresources, which the engine's own client fetches.
Phase(l, pc) ==
    [l EXCEPT !.pc = pc, !.budget = Budget, !.taken = 0,
              !.left = CASE pc = "sheets"  -> Min({l.doc.sheets, MaxSheets})
                         [] pc = "images"  -> Min({l.doc.images, MaxImages})
                         [] pc = "scripts" -> Min({l.doc.scripts, MaxScripts})
                         [] OTHER          -> 0]

DocumentArrives ==
    /\ load.pc = "document" /\ Reachable
    /\ load' = IF ~ load.doc.text THEN NoLoad
               ELSE Phase(load, IF config.subresources /\ config.network THEN "sheets" ELSE "build")
    /\ UNCHANGED <<config, netprocUp, animPage, drawCache, runtime, frame, built>>

NextPhase ==
    /\ load.pc \in {"sheets", "images", "scripts"} /\ load.left = 0
    /\ load' = Phase(load, CASE load.pc = "sheets" -> "images"
                             [] load.pc = "images" -> "scripts"
                             [] load.pc = "scripts" -> "build")
    /\ UNCHANGED <<config, netprocUp, animPage, drawCache, runtime, frame, built>>

\* Mutant of Affords: what is over the budget is taken as well.
AffordsAll(size) == size <= MaxImageSize

\* consume_document_budget.
Affords(size) == size <= load.budget

\* A sheet: not fetched, of another type or not utf-8; or of a size.
SheetRefused ==
    /\ load.pc = "sheets" /\ load.left > 0
    /\ load' = [load EXCEPT !.left = @ - 1, !.counts.sheetsBlocked = @ + 1]
    /\ UNCHANGED <<config, netprocUp, animPage, drawCache, runtime, frame, built>>

SheetArrives(size) ==
    /\ load.pc = "sheets" /\ load.left > 0
    /\ load' = IF size <= MaxSheetSize /\ Affords(size)
               THEN [load EXCEPT !.left = @ - 1, !.counts.sheetsLoaded = @ + 1,
                                 !.budget = @ - size, !.taken = @ + size]
               ELSE [load EXCEPT !.left = @ - 1, !.counts.sheetsBlocked = @ + 1]
    /\ UNCHANGED <<config, netprocUp, animPage, drawCache, runtime, frame, built>>

ImageRefused ==
    /\ load.pc = "images" /\ load.left > 0
    /\ load' = [load EXCEPT !.left = @ - 1, !.counts.imagesBlocked = @ + 1]
    /\ UNCHANGED <<config, netprocUp, animPage, drawCache, runtime, frame, built>>

\* The body of an image is read to the limit.  What is over it is dropped
\* without charge; what breaks off is counted as blocked and handled, with what
\* came of it, like the others: charged, and loaded if it can be decoded.
ImageArrives(size, broken, decodes) ==
    LET limit  == Min({load.budget, MaxImageSize})
        failed == (IF broken THEN 1 ELSE 0) + (IF size <= limit /\ decodes THEN 0 ELSE 1)
    IN  /\ load.pc = "images" /\ load.left > 0
        /\ load' = [load EXCEPT
                      !.left = @ - 1,
                      !.budget = IF size <= limit THEN @ - size ELSE @,
                      !.taken  = IF size <= limit /\ decodes THEN @ + size ELSE @,
                      !.counts.imagesLoaded = IF size <= limit /\ decodes THEN @ + 1 ELSE @,
                      !.counts.imagesBlocked = @ + failed]
        /\ UNCHANGED <<config, netprocUp, animPage, drawCache, runtime, frame, built>>

\* Scripts have a budget of their own and are not counted.
ScriptRefused ==
    /\ load.pc = "scripts" /\ load.left > 0
    /\ load' = [load EXCEPT !.left = @ - 1]
    /\ UNCHANGED <<config, netprocUp, animPage, drawCache, runtime, frame, built>>

ScriptArrives(size) ==
    /\ load.pc = "scripts" /\ load.left > 0
    /\ load' = IF load.bytes >= MaxScriptSize THEN [load EXCEPT !.left = 0]
               ELSE IF size > MaxScriptSize - load.bytes THEN [load EXCEPT !.left = @ - 1]
               ELSE [load EXCEPT !.left = @ - 1, !.bytes = @ + size, !.scripts = @ + 1]
    /\ UNCHANGED <<config, netprocUp, animPage, drawCache, runtime, frame, built>>

-----------------------------------------------------------------------------
(* Building.                                                               *)

\* compute_trust_score; of a frame, whose report says that no script runs.
TrustScore(doc, counts, scripted) ==
    LET blocked == Min({counts.sheetsBlocked + counts.imagesBlocked, 8})
    IN  100 - (IF doc.secure THEN 0 ELSE 25) - (IF scripted THEN 8 ELSE 0) - 3 * blocked

\* execute_pending_raf: the callbacks run, and the last of them asks again
\* unless it was the last of the frames.
AfterFrame(r) == [r EXCEPT !.frames = IF @ > 0 THEN @ - 1 ELSE @]

\* The runtime of a page: its scripts have run, and the first of the frames.
RuntimeOf(d) == AfterFrame([doc |-> d, frames |-> d.frames])

\* render_with_animation_cache of a document that has something to draw.
CacheOf(d) == [doc |-> d, controllers |-> Scanned(d.boxes),
               touched |-> [i \in DOMAIN d.boxes |-> {}]]

CacheActive(c) == \E k \in DOMAIN c.controllers : IsActive(c.controllers[k])

\* Mutant of Remembered: only a page with animations is remembered.
RememberedActive(d, p) == IF CacheActive(CacheOf(d)) THEN p ELSE animPage

\* What anim_page becomes: without JavaScript, a page that does not move leaves
\* the one before in it.
Remembered(d, p) == IF CacheActive(CacheOf(d)) \/ config.javascript THEN p ELSE animPage

\* build_page, of a load or of render_html.  The old runtime goes first, and the
\* new one is there before the page is drawn, which may fail.
BuildPage(d, counts) ==
    LET p == [doc |-> d, counts |-> counts, score |-> TrustScore(d, counts, config.javascript)]
    IN  /\ runtime' = IF config.javascript THEN RuntimeOf(d) ELSE NoRuntime
        /\ load' = NoLoad
        /\ frame' = NoPage
        /\ IF d.drawn
           THEN /\ drawCache' = CacheOf(d)
                /\ animPage' = Remembered(d, p)
                /\ built' = d
           ELSE UNCHANGED <<drawCache, animPage, built>>
        /\ UNCHANGED <<config, netprocUp>>

Build == load.pc = "build" /\ BuildPage(load.doc, load.counts)

RenderHtml(d) == load.pc = "idle" /\ BuildPage(d, NoCounts)

-----------------------------------------------------------------------------
(* Frames.                                                                 *)

\* apply_controllers_to_layout, on the controllers after the tick.
Applied(c) ==
    [c EXCEPT !.touched =
        [j \in DOMAIN @ |->
            @[j] \cup {i \in DOMAIN c.doc.boxes :
                         j \in DrawnWith(c.doc.boxes, i)
                           /\ c.controllers[ScanKey(c.doc.boxes, i)] # NoController}]]

FrameOf == [doc |-> animPage.doc, counts |-> animPage.counts,
            score |-> TrustScore(animPage.doc, animPage.counts, FALSE)]

\* has_active_animations, which the caller asks whether to tick again.
HasActive == animPage # NoPage /\ (CacheActive(drawCache) \/ runtime.frames # 0)

\* tick_animations: the callbacks run; the animations go on if one was active;
\* else there is a frame only if a callback has asked for another.
TickAnimations(dt) ==
    /\ load.pc = "idle"
    /\ \A k \in DOMAIN drawCache.controllers : \A i \in DOMAIN drawCache.controllers[k].animations :
            drawCache.controllers[k].animations[i].elapsed + dt <= MaxElapsed
    /\ animPage # NoPage
    /\ runtime' = AfterFrame(runtime)
    /\ IF CacheActive(drawCache)
       THEN /\ drawCache' = Applied([drawCache EXCEPT !.controllers =
                            [k \in DOMAIN @ |-> TickController(@[k], dt)]])
            /\ frame' = FrameOf
       ELSE /\ drawCache' = drawCache
            /\ frame' = IF runtime'.frames # 0 THEN animPage ELSE NoPage
    /\ UNCHANGED <<config, netprocUp, load, animPage, built>>

LoadStep ==
    \/ LoadFails \/ DocumentArrives \/ NextPhase
    \/ SheetRefused \/ ImageRefused \/ ScriptRefused
    \/ \E size \in Sizes : SheetArrives(size) \/ ScriptArrives(size)
    \/ \E size \in Sizes, broken \in BOOLEAN, decodes \in BOOLEAN :
            ImageArrives(size, broken, decodes)
    \/ Build

FrameTick == \E dt \in TickLengths : TickAnimations(dt)

EngineNext ==
    \/ \E d \in Documents : LoadUrl(d) \/ RenderHtml(d)
    \/ NetprocDies
    \/ LoadStep
    \/ FrameTick

EngineSpec == EngineInit /\ [][EngineNext]_engineVars

\* The caller ticks as long as it is told that something moves; the client ends
\* every fetch.
EngineFairSpec == EngineSpec /\ WF_engineVars(LoadStep) /\ WF_engineVars(HasActive /\ FrameTick)

-----------------------------------------------------------------------------
EngineTypeOK ==
    /\ load.pc \in {"idle", "document", "sheets", "images", "scripts", "build"}
    /\ load.budget \in 0 .. Budget
    /\ {animPage.doc, frame.doc, drawCache.doc, runtime.doc} \subseteq
            Documents \cup {NoDocument}
    /\ \A p \in {animPage, frame} : p.score \in 0 .. 100

\* What is kept of a document's subresources is within its budgets whatever
\* arrives in which order: the sheets and images within one budget each, the
\* scripts within theirs; and everything that the page refers to is in its
\* report, loaded or blocked, an image that breaks off perhaps as both.
Accounted(doc, counts) ==
    /\ counts.sheetsLoaded + counts.sheetsBlocked = Min({doc.sheets, MaxSheets})
    /\ counts.imagesLoaded <= Min({doc.images, MaxImages})
    /\ counts.imagesLoaded + counts.imagesBlocked >= Min({doc.images, MaxImages})

BudgetKept ==
    /\ load.taken <= Budget
    /\ load.bytes <= MaxScriptSize /\ load.scripts <= MaxScripts
    /\ load.pc = "build" /\ load.left = 0 /\ config.subresources /\ config.network
            => Accounted(load.doc, load.counts)

\* A frame is one of the page that was built last, and drawn from the layout of
\* that page, whatever loads have failed and whether scripts run: anim_page, the
\* renderer's cache and the runtime are kept in three places.
FrameIsOfLastPage == frame # NoPage => frame.doc = built /\ drawCache.doc = built

\* The animations and the frames of d come to an end.
Ends(d) ==
    /\ d.frames >= 0
    /\ \A i \in DOMAIN d.boxes : \A k \in DOMAIN d.boxes[i].animations :
            LET s == d.boxes[i].animations[k] IN s.count # Infinite /\ ~ s.paused

\* A page whose animations and frames are finite comes to rest, so that the
\* caller stops its ticks, unless pages are built again and again.
TicksEnd ==
    \/ []<><<~ FrameTick>>_engineVars
    \/ <>[](Ends(built) /\ runtime.doc \in {built, NoDocument} => ~ HasActive)

=============================================================================
