-------------------------------- MODULE Xhr --------------------------------
(***************************************************************************)
(* One XMLHttpRequest of fortrust-js (bindings/xhr.rs). send is blocking:   *)
(* it takes the request through all its states before it returns and calls  *)
(* the handlers of the script on the way. A handler may open, send or abort *)
(* the same object again, so calls of send nest.                            *)
(***************************************************************************)
EXTENDS Integers, Sequences, SequencesExt

CONSTANTS
    Urls,       \* what open may name, an answer's body is named by its url
    MaxCalls,   \* bound: calls of open, send and abort by scripts
    MaxNested   \* bound: sends under way at once

ASSUME XhrAssumption == {MaxCalls, MaxNested} \subseteq Nat

VARIABLES
    xhr,        \* XhrStateInner
    shown,      \* the property readyState of the JavaScript object
    sends,      \* the sends under way, the innermost last: what each has to do
    calls,      \* how often scripts called
    reopened    \* history: a handler opened the object during a send

xhrVars == <<xhr, shown, sends, calls, reopened>>

UNSENT == 0
OPENED == 1
HEADERS_RECEIVED == 2
LOADING == 3
DONE == 4

NoUrl == "none"

XhrInit ==
    /\ xhr = [readyState |-> UNSENT, url |-> NoUrl, sent |-> FALSE, headers |-> 0,
              status |-> 0, answered |-> NoUrl, body |-> NoUrl]
    /\ shown = UNSENT
    /\ sends = <<>>
    /\ calls = 0
    /\ reopened = FALSE

MayCall == calls < MaxCalls

\* The property is defined READONLY: the assignment is refused without an error.
Show(state) == shown' = shown

\* A mutant: the body of the request before stays.
ResetAllButBody(url) ==
    [xhr EXCEPT !.url = url, !.readyState = OPENED, !.status = 0, !.answered = NoUrl,
                !.sent = FALSE]

\* What open resets; the headers a script has set are not among it.
Reset(url) ==
    [xhr EXCEPT !.url = url, !.readyState = OPENED, !.status = 0, !.answered = NoUrl,
                !.body = NoUrl, !.sent = FALSE]

Open(url) ==
    /\ MayCall
    /\ calls' = calls + 1
    /\ xhr' = Reset(url)
    /\ Show(OPENED)
    /\ reopened' = (reopened \/ sends # <<>>)
    /\ UNCHANGED sends

\* setRequestHeader; it throws unless the request is open and not yet sent.
SetRequestHeader ==
    /\ MayCall
    /\ xhr.readyState = OPENED /\ ~xhr.sent
    /\ calls' = calls + 1
    /\ xhr' = [xhr EXCEPT !.headers = @ + 1]
    /\ UNCHANGED <<shown, sends, reopened>>

\* send, up to onloadstart: the url is the one of this moment.
SendRequest ==
    /\ MayCall
    /\ Len(sends) < MaxNested
    /\ xhr.readyState = OPENED /\ ~xhr.sent
    /\ calls' = calls + 1
    /\ xhr' = [xhr EXCEPT !.sent = TRUE]
    /\ sends' = Append(sends, [url |-> xhr.url, todo |-> <<"request">>])
    /\ UNCHANGED <<shown, reopened>>

\* abort does not stop a send that is under way.
Abort ==
    /\ MayCall
    /\ calls' = calls + 1
    /\ xhr' = [xhr EXCEPT !.readyState = DONE, !.sent = FALSE, !.status = 0,
                          !.body = NoUrl]
    /\ UNCHANGED <<shown, sends, reopened>>

Current == Last(sends)

\* perform_xhr_request: an answer, or an error (always an error without a
\* network client, which is how the engine registers the object).
Request ==
    /\ sends # <<>> /\ Current.todo = <<"request">>
    /\ \E todo \in {<<"headers", "loading", "progress", "done", "load", "loadend">>,
                    <<"failed", "error", "loadend">>} :
          sends' = Front(sends) \o <<[Current EXCEPT !.todo = todo]>>
    /\ UNCHANGED <<xhr, shown, calls, reopened>>

\* What a step of send does to the state before it calls the handlers.
After(step) ==
    CASE step = "headers" -> [xhr EXCEPT !.readyState = HEADERS_RECEIVED, !.status = 200,
                                         !.answered = Current.url]
      [] step = "loading" -> [xhr EXCEPT !.readyState = LOADING]
      [] step = "done"    -> [xhr EXCEPT !.readyState = DONE, !.body = Current.url]
      [] step = "failed"  -> [xhr EXCEPT !.readyState = DONE]
      [] OTHER            -> xhr

\* One step of send and the handler it calls; the calls of the handler are the
\* actions that follow.
SendStep ==
    /\ sends # <<>> /\ Current.todo # <<>> /\ Head(Current.todo) # "request"
    /\ xhr' = After(Head(Current.todo))
    /\ Show(xhr'.readyState)
    /\ sends' = Front(sends) \o <<[Current EXCEPT !.todo = Tail(@)]>>
    /\ UNCHANGED <<calls, reopened>>

SendReturns ==
    /\ sends # <<>> /\ Current.todo = <<>>
    /\ sends' = Front(sends)
    /\ UNCHANGED <<xhr, shown, calls, reopened>>

XhrNext ==
    \/ \E url \in Urls : Open(url)
    \/ SetRequestHeader \/ SendRequest \/ Abort
    \/ Request \/ SendStep \/ SendReturns

XhrSpec == XhrInit /\ [][XhrNext]_xhrVars

-----------------------------------------------------------------------------

\* getResponseText and getResponseHeader
ResponseText == IF xhr.readyState \in {LOADING, DONE} THEN xhr.body ELSE NoUrl
ResponseHeader == xhr.answered

\* What a script reads from the object (getResponseText, getResponseHeader)
\* beside getResponseURL is of that url and not of a request the object made
\* before, unless a handler opened the object while a send was under way.
AnswerIsOfUrl ==
    ~reopened => {ResponseText, ResponseHeader} \subseteq {xhr.url, NoUrl}

\* xhr.rs:430, "Update the readyState property on the JS object": what the
\* script reads as readyState is the state of the request.
ShowsReadyState == shown = UNSENT <=> xhr.readyState = UNSENT

=============================================================================
