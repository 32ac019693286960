-------------------------------- MODULE Fetch --------------------------------
(***************************************************************************)
(* fetch of fortrust-js (bindings/fetch.rs) and the Response and Headers    *)
(* objects it gives to a script, on a thread whose pages follow one         *)
(* another.  fetch blocks: its promise is settled when it returns.  The     *)
(* method, the headers and the body a script asks for are read, and used    *)
(* for nothing but the errors in them: every request is a GET.              *)
(***************************************************************************)
EXTENDS Naturals, Sequences, SequencesExt, Retain

CONSTANTS
    PageUrls,       \* [host, path]; a page may have no host
    Inputs,         \* what scripts ask for: [host, path], relative without a host
    InitOptions,    \* second arguments, of which "absent" and "object" are fit
    Replies,        \* [url, status, headers], headers being a sequence of
                    \* [name, upper : BOOLEAN, value]
    Clients,        \* network clients
    MaxFetches      \* bound: promises of a page

ASSUME FetchAssumption ==
    /\ MaxFetches \in Nat
    /\ \A reply \in Replies : reply.headers \in Seq(ToSet(reply.headers))

VARIABLES
    client,         \* FETCH_CLIENT of the thread
    pageUrl,        \* the origin the page was registered with
    promises,       \* what fetch returned to the page
    given           \* history: the client the page was registered with

fetchVars == <<client, pageUrl, promises, given>>

NoClient == "none"
NoHost   == "none"
Nowhere  == [host |-> NoHost, path |-> "none"]
Rejected == [ok |-> FALSE, net |-> [url |-> Nowhere, status |-> 0, headers |-> <<>>]]
Null     == "null"

FetchInit ==
    /\ client = NoClient /\ given = NoClient
    /\ pageUrl = Nowhere
    /\ promises = <<>>

\* Mutant of Registered: the first client of the thread stays.
RegisteredFirst(c) == IF client = NoClient THEN c ELSE client

\* A page without a client leaves that of the page before in its place.
Registered(c) == IF c = NoClient THEN client ELSE c

\* register, for the next page of the thread.
Register(url, c) ==
    /\ client' = Registered(c)
    /\ given' = c
    /\ pageUrl' = url
    /\ promises' = <<>>

\* resolve_url: an input with a host is taken as it is, another is joined to
\* the url of the page, if that has a host.
ResolveUrl(input) ==
    CASE input.host # NoHost                            -> input
      [] input.host = NoHost /\ pageUrl.host # NoHost   -> [input EXCEPT !.host = pageUrl.host]
      [] OTHER                                          -> Nowhere

\* parse_method and parse_options fail on what is no object.
Readable(options) == options \in {"absent", "object"}

\* build_response_object; its text and json may be read again and again.
ResponseOf(reply) ==
    [ok |-> reply.status \in 200 .. 299, net |-> reply]

\* What a fetch may come to: without a client it is refused.
Outcomes == {Rejected} \cup IF client = NoClient THEN {} ELSE {ResponseOf(r) : r \in Replies}

\* do_fetch.  Without a url or with options it cannot read it throws, and
\* returns no promise.
DoFetch(input, options) ==
    /\ Len(promises) < MaxFetches
    /\ ResolveUrl(input) # Nowhere /\ Readable(options)
    /\ \E outcome \in Outcomes :
          promises' = Append(promises, [asked |-> ResolveUrl(input), by |-> client,
                                        outcome |-> outcome])
    /\ UNCHANGED <<client, pageUrl, given>>

FetchNext ==
    \/ \E url \in PageUrls, c \in Clients \cup {NoClient} : Register(url, c)
    \/ \E input \in Inputs, options \in InitOptions : DoFetch(input, options)

FetchSpec == FetchInit /\ [][FetchNext]_fetchVars

-----------------------------------------------------------------------------
(* What a script reads of a response.                                      *)

\* The name is compared in lower case, which ours are but for upper.
Matches(entry, name) == entry.name = name

\* get: the first entry of the name.
HeaderGet(r, name) ==
    LET hits == Retained(r.net.headers, {e \in ToSet(r.net.headers) : Matches(e, name)}) IN
    IF hits = <<>> THEN Null ELSE Head(hits).value

HeaderHas(r, name) == \E i \in DOMAIN r.net.headers : Matches(r.net.headers[i], name)

\* forEach calls back with every entry as it came.
HeaderForEach(r) == [i \in DOMAIN r.net.headers |->
                        <<r.net.headers[i].value, r.net.headers[i].name>>]

\* The three ways into the headers of a response agree, and a page that was given
\* a network client is served by no other, whatever pages the thread had before
\* (register keeps the client of the thread when the page brings none).
ResponsesAgree ==
    \A i \in DOMAIN promises :
        /\ given # NoClient => promises[i].by = given
        /\ promises[i].outcome # Rejected =>
             LET r == promises[i].outcome  each == ToSet(HeaderForEach(r)) IN
             /\ promises[i].by # NoClient
             /\ \A e \in ToSet(r.net.headers) :
                   /\ HeaderHas(r, e.name)
                   /\ <<HeaderGet(r, e.name), e.name>> \in each
=============================================================================
