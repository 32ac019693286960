------------------------------ MODULE Omnibox ------------------------------
(***************************************************************************)
(* The address bar (omnibox.rs) and the search field of the sidebar, with  *)
(* the part of poll_loading (app.rs) that asks the worker for suggestions  *)
(* once the user has stopped typing, and takes its answers.                *)
(*                                                                         *)
(* Suggestions are known by the text they were asked for. A frame of the   *)
(* window polls the worker first and draws the bar, where the user acts,   *)
(* after.                                                                  *)
(***************************************************************************)
EXTENDS Search

CONSTANTS
    TypedTexts,          \* what the user may type in the bar, trimmed
    TooShort,       \* those of them that are not worth a request
    HistoryOf,      \* text -> the entries of the history that match it
    Address,        \* stands for every url, which a url suggestion is added for
    LocalQueries,   \* what the user may type in the sidebar
    MaxRequest      \* bound on the numbers of requests

VARIABLES
    bar,        \* OmniboxState
    ask,        \* suggest_last_text, suggest_debounce_start, suggest_pending_id
    local,      \* local_search_query, _results (the query of them), _pending_id
    commands,   \* to the worker
    events,     \* from it
    nextRequest

barVars == <<bar, ask, local, commands, events, nextRequest>>

NoText == ""
NoRequest == 0

Offer(kind, text) == [kind |-> kind, text |-> text]

BarInit ==
    /\ bar = [text |-> NoText, focused |-> FALSE, offers |-> <<>>, selected |-> 0,
              show |-> FALSE, remote |-> <<>>]
    /\ ask = [last |-> NoText, timer |-> "off", pending |-> NoRequest]
    /\ local = [query |-> NoText, results |-> NoText, pending |-> NoRequest]
    /\ commands = <<>> /\ events = <<>>
    /\ nextRequest = 1

\* clear_suggestions.
Cleared(b) == [b EXCEPT !.offers = <<>>, !.remote = <<>>, !.selected = 0, !.show = FALSE]

\* update_suggestions: the search, what was suggested, the history, a url; the
\* first one is selected.
Updated(b) ==
    IF b.text = NoText \/ ~ b.focused THEN Cleared(b)
    ELSE [b EXCEPT
            !.offers = <<Offer("search", b.text)>>
                         \o [i \in DOMAIN b.remote |-> Offer("remote", b.remote[i])]
                         \o [i \in DOMAIN HistoryOf[b.text] |-> Offer("history", HistoryOf[b.text][i])]
                         \o IF b.text = Address THEN <<Offer("url", b.text)>> ELSE <<>>,
            !.show = TRUE, !.selected = 1]

-----------------------------------------------------------------------------
(* The worker.                                                             *)

\* FortrustSearch::suggest: nothing when the request fails.
Suggested(query) == {<<>>, <<query>>}

\* One command.
Work ==
    /\ commands # <<>>
    /\ LET c == Head(commands)
       IN  \/ /\ c.kind = "suggest"
              /\ \E phrases \in Suggested(c.query) :
                    events' = Append(events, [kind |-> "suggest", id |-> c.id, query |-> c.query,
                                              phrases |-> phrases])
           \/ /\ c.kind = "local"
              /\ events' = Append(events, [kind |-> "local", id |-> c.id, query |-> c.query,
                                           phrases |-> <<>>])
    /\ commands' = Tail(commands)
    /\ UNCHANGED <<bar, ask, local, nextRequest>>

-----------------------------------------------------------------------------
(* poll_loading.                                                           *)

\* Mutant of IsPending: the answer of any request is taken.
IsPendingAny(w, e) == TRUE

IsPending(w, e) == w.ask.pending = e.id

TakeSuggestions(w, e) ==
    IF e.kind = "suggest" /\ IsPending(w, e)
    THEN [w EXCEPT !.ask.pending = NoRequest, !.ask.timer = "off",
                   !.bar = Updated([@ EXCEPT !.remote = e.phrases])]
    ELSE w

\* The results come with their query, over what has been typed since.
Answered(l, query) == [query |-> query, results |-> query, pending |-> NoRequest]

TakeLocal(w, e) ==
    IF e.kind = "local" /\ w.local.pending = e.id
    THEN [w EXCEPT !.local = Answered(@, e.query)] ELSE w

Took(w, e) == TakeLocal(TakeSuggestions(w, e), e)

\* All the answers there are, one after the other.
TookAll(w, arrived) ==
    LET upTo[i \in 0 .. Len(arrived)] ==
            IF i = 0 THEN w ELSE Took(upTo[i - 1], arrived[i])
    IN  upTo[Len(arrived)]

\* A new text starts the 200 ms again; when they are over, the text is asked
\* for.  Nothing is looked at while a request is pending.
Debounced(w, over) ==
    LET fresh == w.bar.text # w.ask.last
        timed == [w EXCEPT !.ask.last = w.bar.text,
                           !.ask.timer = IF fresh THEN "on" ELSE @,
                           !.bar.remote = IF fresh THEN <<>> ELSE @]
    IN  CASE ~ w.bar.focused -> [w EXCEPT !.ask.timer = "off", !.ask.pending = NoRequest]
          [] w.bar.focused /\ w.ask.pending # NoRequest -> w
          [] w.bar.focused /\ w.ask.pending = NoRequest ->
                IF timed.ask.timer = "on" /\ ~ fresh /\ over /\ w.bar.text \notin TooShort
                THEN [timed EXCEPT !.ask.pending = nextRequest, !.ask.timer = "off"]
                ELSE timed

Poll ==
    /\ nextRequest <= MaxRequest
    /\ \E over \in BOOLEAN :
         LET before == [bar |-> bar, ask |-> ask, local |-> local]
             after  == Debounced(TookAll(before, events), over)
             sent   == after.ask.pending = nextRequest
         IN  /\ bar' = after.bar /\ ask' = after.ask /\ local' = after.local
             /\ commands' = IF sent
                            THEN Append(commands, [kind |-> "suggest", id |-> nextRequest,
                                                   query |-> after.bar.text])
                            ELSE commands
             /\ nextRequest' = IF sent THEN nextRequest + 1 ELSE nextRequest
    /\ events' = <<>>

-----------------------------------------------------------------------------
(* The user, and the browser, which puts urls into the bar.                *)

Draws(b) == bar' = b /\ UNCHANGED <<ask, local, commands, events, nextRequest>>

Focus == ~ bar.focused /\ Draws([bar EXCEPT !.focused = TRUE])

\* The offers go unless the pointer is over them.
Blur(hovered) ==
    /\ bar.focused
    /\ Draws(IF hovered THEN [bar EXCEPT !.focused = FALSE]
             ELSE Cleared([bar EXCEPT !.focused = FALSE]))

Type(text) == bar.focused /\ text # bar.text /\ Draws(Updated([bar EXCEPT !.text = text]))

ArrowDown == bar.show /\ Draws([bar EXCEPT !.selected = Min({@ + 1, Len(bar.offers)})])
ArrowUp   == bar.show /\ Draws([bar EXCEPT !.selected = Max({@ - 1, 1})])

\* Wherever the focus is.
Escape == Draws(Cleared([bar EXCEPT !.focused = FALSE]))

\* Ctrl+L.
FocusEmpty == Draws([bar EXCEPT !.focused = TRUE, !.text = NoText])

\* The address of what is chosen, or of the text, gets into the bar.
Enter ==
    /\ bar.focused
    /\ Draws(Cleared([bar EXCEPT !.focused = FALSE,
                        !.text = IF bar.show \/ @ # NoText THEN Address ELSE @]))

\* Six offers are drawn.
Click(i) ==
    /\ bar.show /\ bar.focused /\ i \in DOMAIN bar.offers /\ i <= 6
    /\ Draws(Cleared([bar EXCEPT !.text = Address]))

\* A load that ends, another tab: the text changes under the user's hands.
ShowUrl == Draws([bar EXCEPT !.text = Address])

\* render_overlay: a query is asked for if none is pending.
TypeLocal(query) ==
    /\ query # local.query
    /\ nextRequest <= MaxRequest
    /\ IF query # NoText /\ local.pending = NoRequest
       THEN /\ local' = [local EXCEPT !.query = query, !.pending = nextRequest]
            /\ commands' = Append(commands, [kind |-> "local", id |-> nextRequest, query |-> query])
            /\ nextRequest' = nextRequest + 1
       ELSE local' = [local EXCEPT !.query = query] /\ UNCHANGED <<commands, nextRequest>>
    /\ UNCHANGED <<bar, ask, events>>

BarNext ==
    \/ Work \/ Poll
    \/ Focus \/ \E hovered \in BOOLEAN : Blur(hovered)
    \/ \E text \in TypedTexts : Type(text)
    \/ ShowUrl \/ FocusEmpty
    \/ ArrowDown \/ ArrowUp \/ Escape \/ Enter
    \/ \E i \in 1 .. 6 : Click(i)
    \/ \E query \in LocalQueries : TypeLocal(query)

-----------------------------------------------------------------------------
\* What is offered belongs to what was asked, whichever answers come late: the
\* suggestions in the bar are those of the text last taken for a request, also
\* after the focus was lost and another text was typed (suggest_pending_id); and
\* when no request of the sidebar is pending, its field shows the query whose
\* results are listed, although the query may be typed on while they are awaited
\* (poll_loading, "Keep the query in sync").
OffersInSync ==
    /\ \A i \in DOMAIN bar.remote : bar.remote[i] = ask.last
    /\ local.pending = NoRequest /\ local.query # NoText => local.results = local.query
=============================================================================
