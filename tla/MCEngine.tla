------------------------------- MODULE MCEngine -------------------------------
(***************************************************************************)
(* For TLC: the network client, or, in other behaviours, the page engine.  *)
(* The client has a site, a page of it under http and with a parameter     *)
(* that is stripped, and a tracker that pages may redirect to.  The engine *)
(* has a page with subresources, and pages that move.                      *)
(***************************************************************************)
EXTENDS NetworkClient, TrustEngine

VARIABLES part

mcVars == <<part, vars, engineVars>>

Home    == <<"home", "com">>
Tracker == <<"t", "ads", "com">>

MCTrackerHosts == {<<"ads", "com">>}
MCAdHosts      == {<<"adnxs", "com">>}
MCSettings == [blockAds |-> TRUE, blockTrackers |-> TRUE, stripParams |-> TRUE, httpsOnly |-> TRUE]

Url(scheme, host, params) == [scheme |-> scheme, host |-> host, params |-> params]

MCPages == {Url("https", Home, {}), Url("https", Tracker, {})}

MCContexts ==
    {[url |-> Url("http", Home, {"utm"}), top |-> NoUrl, kind |-> "document", policy |-> "NoReferrer"],
     [url |-> Url("http", Home, {}), top |-> Url("https", Home, {}), kind |-> "image",
      policy |-> "NoReferrer"],
     [url |-> Url("https", Home, {}), top |-> Url("https", <<"other", "com">>, {"q"}),
      kind |-> "script", policy |-> "StrictOriginWhenCrossOrigin"]}

MCCacheControls ==
    {[noStore |-> FALSE, validate |-> FALSE, maxAge |-> 2],
     [noStore |-> FALSE, validate |-> TRUE, maxAge |-> 2],
     [noStore |-> TRUE, validate |-> FALSE, maxAge |-> 0]}

Animated(name, count, fill, direction, paused) ==
    [name |-> name, duration |-> 2, delay |-> 1, count |-> count, fill |-> fill,
     direction |-> direction, paused |-> paused]

Box(name, animations) == [name |-> name, animations |-> animations]

Endlessly == -1

Empty == [url |-> "none", secure |-> FALSE, text |-> TRUE, drawn |-> FALSE, sheets |-> 0,
          images |-> 0, scripts |-> 0, boxes |-> <<>>, frames |-> 0]

Plain == [Empty EXCEPT !.url = "plain", !.secure = TRUE, !.drawn = TRUE,
                            !.sheets = 3, !.images = 2, !.scripts = 3]

Moving == [Empty EXCEPT !.url = "moving", !.drawn = TRUE, !.frames = 2,
             !.boxes = <<Box("p", <<Animated("a", 1, "none", "normal", FALSE),
                                    Animated("b", 2, "forwards", "alternate", FALSE)>>)>>]

Endless == [Empty EXCEPT !.url = "endless", !.drawn = TRUE, !.frames = Endlessly,
              !.boxes = <<Box("p", <<Animated("a", Endlessly, "none", "reverse", FALSE)>>)>>]

Waking == [Empty EXCEPT !.url = "waking", !.drawn = TRUE, !.frames = 3]
Blank  == [Empty EXCEPT !.url = "blank", !.frames = 1]
Binary == [Empty EXCEPT !.url = "binary", !.text = FALSE]

MCDocuments == {Plain, Moving, Endless, Waking, Blank, Binary}

MCConfigs ==
    {[netproc |-> FALSE, network |-> FALSE, javascript |-> TRUE, subresources |-> TRUE],
     [netproc |-> TRUE, network |-> TRUE, javascript |-> TRUE, subresources |-> TRUE],
     [netproc |-> FALSE, network |-> TRUE, javascript |-> FALSE, subresources |-> TRUE],
     [netproc |-> FALSE, network |-> TRUE, javascript |-> TRUE, subresources |-> FALSE]}

-------------------------------------------------------------------------------
\* The part that is not played begins in one state only.
MCInit ==
    /\ part \in {"client", "engine"}
    /\ Init /\ EngineInit
    /\ part = "client" => config = CHOOSE c \in Configs : TRUE
    /\ part = "engine" => \A u \in Pages : site[u].cc.noStore

MCNext ==
    /\ UNCHANGED part
    /\ \/ part = "client" /\ Next /\ UNCHANGED engineVars
       \/ part = "engine" /\ EngineNext /\ UNCHANGED vars

MCFairness ==
    /\ WF_mcVars(part = "client" /\ FetchStep /\ UNCHANGED <<part, engineVars>>)
    /\ WF_mcVars(part = "engine" /\ LoadStep /\ UNCHANGED <<part, vars>>)
    /\ WF_mcVars(part = "engine" /\ HasActive /\ FrameTick /\ UNCHANGED <<part, vars>>)

MCSpec == MCInit /\ [][MCNext]_mcVars /\ MCFairness
===============================================================================
