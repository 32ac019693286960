------------------------------- MODULE MCData -------------------------------
(***************************************************************************)
(* What the browser keeps, one part of it in each behaviour: the cookies,   *)
(* the database, local storage, IndexedDB, the workspaces, the answers of   *)
(* searches, the address bar, or the style of the elements of a page.      *)
(***************************************************************************)
EXTENDS Cookies, Storage, WebStorage, Workspaces, Omnibox, Cascade

VARIABLE part

\* A shop, its subdomain and a tracker.
MCHosts == {<<"com", "shop">>, <<"com", "shop", "a">>, <<"net", "ads">>}
MCSites == {<<"com", "shop">>, <<"net", "ads">>}
MCTrackers == {<<"net", "ads">>}
MCPaths == {<<"/">>}
MCCookieValues ==
    {[hostOnly |-> FALSE, secure |-> TRUE, expires |-> 1],
     [hostOnly |-> TRUE, secure |-> FALSE, expires |-> 0]}

\* The name of the second database, a:b, begins with that of the first.
MCDbNames == {<<"a">>, <<"a", "b">>}
MCStoreNames == {<<"b">>, <<"c">>}
MCRecordNames == {<<"1">>}

\* One page under two urls and two titles, found by two backends, one of which
\* sends it also without a query; pages that are alike, and one of the local network.
Found(title, host, path, score) ==
    [title |-> title, scheme |-> "https", host |-> host, path |-> path,
     asks |-> TRUE, tracking |-> {"utm"}, ip |-> FALSE, local |-> host = "router", odd |-> FALSE, ad |-> FALSE, complete |-> TRUE,
     aged |-> score > 70, score |-> score, privacy |-> 0, safety |-> "Neutral"]

MCSent ==
    {<<Found({"x", "y"}, "a", "1", 60),
       [Found({"x", "z"}, "a", "2", 80) EXCEPT !.asks = FALSE, !.tracking = {}]>>,
     <<Found({"x"}, "router", "1", 60), Found({"x", "z"}, "a", "1", 75),
       [Found({"y", "z"}, "a", "1", 70) EXCEPT !.asks = FALSE, !.tracking = {}],
       [Found({"x", "y"}, "a", "2", 55) EXCEPT !.scheme = "http", !.complete = FALSE]>>}

MCEnabledBackends == {{"ddg", "stract"}, {"wikipedia", "brave"}, {"mojeek", "searxng"}}

MCSearchConfig == [strict |-> TRUE, blockHttp |-> FALSE, blockIp |-> TRUE, blockLocal |-> TRUE,
                   strip |-> TRUE, dedup |-> TRUE]

MCHistoryOf == [text \in {"fo", "foo", "url"} |-> IF text = "url" THEN <<>> ELSE <<"past">>]

mcVars == <<part, cookieVars, storeVars, webVars, workspaceVars, searchVars, barVars, styleVars>>

Asked(words, page, upper) == [words |-> words, page |-> page, upper |-> upper]

MCQueries == {Asked("p", 0, FALSE), Asked("q", 0, FALSE), Asked("q", 0, TRUE), Asked("p", 1, FALSE)}

Element(tag, class, attr, up) == [tag |-> tag, class |-> class, attr |-> attr, parent |-> up]

MCElements == <<Element("div", "", "", 0), Element("p", "c", "a", 1), Element("p", "", "", 2)>>

Part(tag, class, attr, pseudo, combinator) ==
    [tag |-> tag, class |-> class, attr |-> attr, pseudo |-> pseudo, combinator |-> combinator]

MCSelectors ==
    {<<Part("p", "", "", "", " ")>>,
     <<Part("div", "", "", "", " "), Part("p", "", "", "", ">")>>,
     <<Part("div", "", "a", "", " ")>>, <<Part("p", "", "", "nth-child(odd)", " ")>>}

Declaration(property, value) == [property |-> property, value |-> value]

MCDeclarations ==
    {Declaration("color", Text("red")), Declaration("color", Text("1")),
     Declaration("color", Var("--a", "blue")), Declaration("color", Var("--b", NoFallback)),
     Declaration("margin", Text("1")),
     Declaration("--a", Text("red")), Declaration("--b", Var("--a", "1"))}

MCWrittenTexts == {"", "none", "1", "red", "blue"}

MCUaRules ==
    <<[selector |-> <<Part("div", "", "", "", " ")>>, declaration |-> Declaration("margin", Text("1"))],
      [selector |-> <<Part("p", "", "", "", " ")>>, declaration |-> Declaration("color", Text("blue"))]>>

MCMediaQueries == [min : {1}, negated : BOOLEAN]

MCInit ==
    /\ part \in {"cookies", "database", "items", "databases", "workspaces", "search", "index", "bar", "style"}
    /\ CookiesInit /\ StoreInit /\ WebInit /\ WorkspacesInit /\ SearchInit /\ BarInit /\ StyleInit
    /\ part # "search" => "ddg" \in backends
    /\ part # "style" => width = 0

MCNext ==
    /\ UNCHANGED part
    /\ \/ part = "cookies" /\ CookiesNext
          /\ UNCHANGED <<storeVars, webVars, workspaceVars, searchVars, barVars, styleVars>>
       \/ part = "database" /\ StoreNext
          /\ UNCHANGED <<cookieVars, webVars, workspaceVars, searchVars, barVars, styleVars>>
       \/ part = "items" /\ ItemsNext
          /\ UNCHANGED <<cookieVars, storeVars, workspaceVars, searchVars, barVars, styleVars>>
       \/ part = "databases" /\ DatabasesNext
          /\ UNCHANGED <<cookieVars, storeVars, workspaceVars, searchVars, barVars, styleVars>>
       \/ part = "workspaces" /\ WorkspacesNext
          /\ UNCHANGED <<cookieVars, storeVars, webVars, searchVars, barVars, styleVars>>
       \/ part = "search" /\ CacheNext
          /\ UNCHANGED <<cookieVars, storeVars, webVars, workspaceVars, barVars, styleVars>>
       \/ part = "index" /\ IndexNext
          /\ UNCHANGED <<cookieVars, storeVars, webVars, workspaceVars, barVars, styleVars>>
       \/ part = "bar" /\ BarNext
          /\ UNCHANGED <<cookieVars, storeVars, webVars, workspaceVars, searchVars, styleVars>>
       \/ part = "style" /\ StyleNext
          /\ UNCHANGED <<cookieVars, storeVars, webVars, workspaceVars, searchVars, barVars>>

MCSpec == MCInit /\ [][MCNext]_mcVars
=============================================================================
