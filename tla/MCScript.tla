----------------------------- MODULE MCScript ------------------------------
(***************************************************************************)
(* What a script reaches, one part of it in each behaviour: the document    *)
(* and its events, the layout of its boxes, the timers, an XMLHttpRequest,  *)
(* a WebSocket, a form, what fetch and FormData give it, or a canvas.       *)
(* Documents have MaxNode nodes without listeners, and two nodes with them. *)
(***************************************************************************)
EXTENDS DomEvents, EventLoop, Xhr, WebSocket, Forms, Layout, ThreadObjects, Canvas

VARIABLE part

mcVars == <<part, vars, loopVars, xhrVars, socketVars, nodes, boxes, fetchVars, formDataVars, canvasVars>>

Long == [len |-> 2, blank |-> FALSE, fits |-> TRUE, email |-> TRUE, url |-> FALSE,
         numeric |-> TRUE, number |-> 7]

MCFormValues == {Empty, Long}

Field(tag, type) == [FormNode EXCEPT !.tag = tag, !.type = type, !.named = TRUE, !.value = Empty]

MCControls ==
    {[Field("input", "text") EXCEPT !.required = TRUE, !.maxlength = 1],
     [Field("input", "number") EXCEPT !.max = 5], Field("input", "checkbox"), Field("input", "submit"),
     Field("fieldset", ""), Field("form", ""),
     Field("select", ""), Field("optgroup", ""), [Field("option", "") EXCEPT !.value = Long]}

Sized(box, w) == [Body EXCEPT !.kind = box, !.size = [w |-> w, h |-> 1]]

MCBoxStyles ==
    {[Body EXCEPT !.margin = 1], [Body EXCEPT !.edge = 1], [Body EXCEPT !.height = 1, !.shift = 1],
     [Body EXCEPT !.kind = "row"], [Body EXCEPT !.kind = "column"], [Body EXCEPT !.kind = "inline"],
     Sized("text", 1), Sized("text", 4), Sized("replaced", 2),
     [Body EXCEPT !.kind = "positioned"], [Body EXCEPT !.kind = "positioned", !.z = 2]}

Entry(name, upper, value) == [name |-> name, upper |-> upper, value |-> value]

MCPageUrls == {Nowhere, [host |-> "a", path |-> "/"]}
MCInputs   == {[host |-> NoHost, path |-> "/x"], [host |-> "b", path |-> "/"]}
MCReplies  ==
    {[url |-> [host |-> "b", path |-> "/"], status |-> 200,
      headers |-> <<Entry("x", TRUE, "1"), Entry("y", FALSE, ""), Entry("x", FALSE, "2")>>],
     [url |-> [host |-> "b", path |-> "/y"], status |-> 404, headers |-> <<>>]}

\* In halves of a pixel: whole pixels, and a box that cuts through some.
MCBoxes == {<<0, 0, 2, 4>>, <<-1, 5, 6, -3>>}

MCCorners == {<<3, 1>>}

MCColors == {Pixel(200, 255), Pixel(100, 100)}

MCTurns == {<<3, 4, 5>>}

\* Half a right angle, with the size it gives a whole number.
MCMatrices == {<<1, 1, -1, 1, 2, 0, 1>>}

MCFalloff == [b \in {1} |-> [d \in 0 .. 2 |-> <<1000, 500, 292>>[d + 1]]]

MCGlyphs == <<<<0, 0>>, <<1, 1>>>>

MCInit ==
    /\ part \in {"document", "layout", "timers", "request", "socket", "form", "fetch", "data", "canvas"}
    /\ Init /\ EventsInit /\ LoopInit /\ XhrInit /\ SocketInit /\ FormInit /\ LayoutInit
    /\ FetchInit /\ FormDataInit /\ CanvasInit

MCNext ==
    /\ UNCHANGED part
    /\ IF part = "document" THEN Next         ELSE UNCHANGED vars
    /\ IF part = "timers"   THEN LoopNext     ELSE UNCHANGED loopVars
    /\ IF part = "request"  THEN XhrNext      ELSE UNCHANGED xhrVars
    /\ IF part = "socket"   THEN SocketNext   ELSE UNCHANGED socketVars
    /\ IF part = "form"     THEN FormNext     ELSE UNCHANGED nodes
    /\ IF part = "layout"   THEN LayoutNext   ELSE UNCHANGED boxes
    /\ IF part = "fetch"    THEN FetchNext    ELSE UNCHANGED fetchVars
    /\ IF part = "data"     THEN FormDataNext ELSE UNCHANGED formDataVars
    /\ IF part = "canvas"   THEN CanvasNext   ELSE UNCHANGED canvasVars

MCSpec == MCInit /\ [][MCNext]_mcVars

\* A behaviour in which a script half removed a node, or left the document
\* unmarked without making a cycle of it, is followed no further. With listeners
\* there are two nodes, and no unmarked document.
Focus ==
    /\ "halfRemoved" \notin odd
    /\ "unmarked" \in odd => "cycle" \in odd
    /\ registered > 0 \/ dispatches # <<>> => made <= 2 /\ "unmarked" \notin odd
=============================================================================
