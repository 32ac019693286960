---------------------------- MODULE NetworkClient ----------------------------
(***************************************************************************)
(* The HTTP client of fortrust-net with its cache (client.rs, cache.rs)    *)
(* and the web it talks to.  A fetch inspects its request, looks in the    *)
(* cache, asks the transport, stores the answer and follows redirects.     *)
(* Three ways of fetching share a cache: fetch; fetch_stream, which does   *)
(* not store; and the fetch of a favicon on a clone of the client, whose   *)
(* cache is dropped.  A client makes one fetch at a time.                  *)
(*                                                                         *)
(* An answer is known by the url it comes from and the number of its       *)
(* version, which also is its etag: no two answers share one.  Transport   *)
(* stands for reqwest, which follows the common redirects (301, 302, ...)  *)
(* itself and leaves the others (300) to the client.  The request headers  *)
(* besides the validators, Vary and DNS are left out.                      *)
(***************************************************************************)
EXTENDS Privacy, FiniteSets

CONSTANTS
    Contexts,       \* the requests made: [url, top, kind, policy]
    Pages,          \* the urls that exist
    CacheControls,  \* [noStore, validate : BOOLEAN, maxAge : Nat], 0 for none
    MaxHops,        \* 10 in the code
    TransportHops,  \* 8 in the code
    MaxVersion,     \* bound on the answers of one url
    MaxTime         \* bound on the clock

\* "other" stands for the schemes the client does not support.
Urls == [scheme : Schemes \cup {"none", "other"}, host : Seq(STRING), params : SUBSET STRING]

Requests == [url : Urls, top : Urls, kind : ResourceTypes, policy : ReferrerPolicies]

CachingRules == [noStore : BOOLEAN, validate : BOOLEAN, maxAge : Nat]

ASSUME ClientAssumption ==
    /\ Contexts \subseteq Requests /\ Pages \subseteq Urls \ {NoUrl}
    /\ CacheControls \subseteq CachingRules
    /\ MaxHops \in Nat \ {0} /\ TransportHops \in Nat
    /\ MaxVersion \in Nat /\ MaxTime \in Nat

VARIABLES
    site,       \* url -> the answer the web gives now
    now,
    cache,      \* url -> entry
    fetch,      \* the fetch under way
    result,     \* what the last fetch returned
    past        \* history: url -> answers the web no longer gives, and since when

vars == <<site, now, cache, fetch, result, past>>

Kinds == {"page", "error", "moved", "choice"}   \* 200, 500, 301 and the like, 300
NoCaching == [noStore |-> FALSE, validate |-> FALSE, maxAge |-> 0]
NoAnswer == [kind |-> "none", url |-> NoUrl, version |-> 0, to |-> NoUrl,
             cc |-> NoCaching]
NoEntry  == [answer |-> NoAnswer, storedAt |-> 0]
NoHeaders == [site |-> "none", dest |-> "none", referer |-> NoUrl]
NoFetch  == [pc |-> "idle", mode |-> "fetch", c |-> [url |-> NoUrl, top |-> NoUrl, kind |-> "document",
                                                        policy |-> "NoReferrer"],
             hops |-> 0, url |-> NoUrl, headers |-> NoHeaders, entry |-> NoEntry, kept |-> <<>>]
NoResult == [outcome |-> "none", source |-> "none", url |-> NoUrl, answer |-> NoAnswer]

Put(f, x, y) == [z \in DOMAIN f \cup {x} |-> IF z = x THEN y ELSE f[z]]

-----------------------------------------------------------------------------
(* The web.                                                                *)

Answers(u, v) ==
    {[kind |-> "page", url |-> u, version |-> v, cc |-> cc, to |-> NoUrl] :
        cc \in CacheControls}
      \cup {[kind |-> "choice", url |-> u, version |-> v, cc |-> cc, to |-> w] :
                cc \in {c \in CacheControls : ~ c.validate}, w \in Pages}
      \cup {[kind |-> "moved", url |-> u, version |-> v, cc |-> NoCaching, to |-> w] : w \in Pages}
      \cup {[kind |-> "error", url |-> u, version |-> v, cc |-> NoCaching, to |-> NoUrl]}

\* Where the transport ends that starts at u and may follow n redirects; it
\* speaks https only.
Reached(web, u) ==
    LET within[n \in 0 .. TransportHops, w \in Pages] ==
            IF w.scheme # "https" THEN NoAnswer
            ELSE IF web[w].kind # "moved" THEN web[w]
            ELSE IF n = 0 THEN NoAnswer ELSE within[n - 1, web[w].to]
    IN  within[TransportHops, u]

Reply(web, u) == IF u \in Pages THEN Reached(web, u) ELSE NoAnswer

\* What the web gives.
Given == {site[w] : w \in Pages}

Init ==
    /\ \E cc \in CacheControls :
            site = [u \in Pages |-> [NoAnswer EXCEPT !.kind = "page", !.url = u, !.cc = cc]]
    /\ now = 0
    /\ cache = <<>>
    /\ fetch = NoFetch
    /\ result = NoResult
    /\ past = [u \in Pages |-> {}]

\* The owner of u changes what it answers.
Publish(u) ==
    /\ result = NoResult
    /\ site[u].version < MaxVersion
    /\ \E a \in Answers(u, site[u].version + 1) : site' = [site EXCEPT ![u] = a]
    /\ past' = [w \in Pages |->
                    {p \in past[w] : p.answer # Reply(site', w)}
                      \cup IF Reply(site, w) # Reply(site', w)
                           THEN {[answer |-> Reply(site, w), until |-> now]} ELSE {}]
    /\ UNCHANGED <<now, cache, fetch, result>>

Tick ==
    /\ result = NoResult
    /\ now < MaxTime
    /\ now' = now + 1
    /\ UNCHANGED <<site, cache, fetch, result, past>>

-----------------------------------------------------------------------------
(* The cache.                                                              *)

Cacheable(a) == a.kind \in {"page", "choice"} /\ ~ a.cc.noStore

\* Mutant of IsFresh: an entry whose time is just over is still fresh.
IsFreshTooLong(e) ==
    ~ e.answer.cc.validate /\ e.answer.cc.maxAge > 0 /\ now - e.storedAt <= e.answer.cc.maxAge

IsFresh(e) ==
    ~ e.answer.cc.validate /\ e.answer.cc.maxAge > 0 /\ now - e.storedAt < e.answer.cc.maxAge

Lookup(u) == IF u \in DOMAIN cache THEN cache[u] ELSE NoEntry

\* An answer that must not be stored leaves the entry of its url as it is.
Stored(u, a) == IF Cacheable(a) THEN Put(cache, u, [answer |-> a, storedAt |-> now]) ELSE cache

-----------------------------------------------------------------------------
(* A fetch.                                                                *)

\* fetch, fetch_stream, and the fetch of a favicon.
Begin(c, mode) ==
    /\ fetch.pc = "idle" /\ result = NoResult
    /\ fetch' = [NoFetch EXCEPT !.pc = "prepare", !.mode = mode, !.c = c,
                                !.kept = IF mode = "clone" THEN cache ELSE <<>>]
    /\ UNCHANGED <<site, now, cache, result, past>>

\* The clone goes with what it has stored.
Return(outcome, source, url, answer) ==
    /\ result' = [outcome |-> outcome, source |-> source, url |-> url, answer |-> answer]
    /\ fetch' = NoFetch

Kept == IF fetch.mode = "clone" THEN fetch.kept ELSE cache

\* The end of a fetch that gets nothing.
Fail(outcome) == Return(outcome, "none", NoUrl, NoAnswer) /\ cache' = Kept

TooManyHops ==
    /\ fetch.pc = "prepare" /\ fetch.hops = MaxHops
    /\ Fail("error")
    /\ UNCHANGED <<site, now, past>>

\* Mutant of Permitted: only the first request of a fetch is inspected.
PermittedOnce == fetch.hops > 0 \/ BlockReason(fetch.c) = "none"

\* Every hop is inspected, and stands for a context of its own.
Permitted == BlockReason(fetch.c) = "none"

Refused ==
    /\ fetch.pc = "prepare" /\ fetch.hops < MaxHops
    /\ ~ Permitted
    /\ Fail("blocked")
    /\ UNCHANGED <<site, now, past>>

\* A fresh entry is the answer, also when it is one of a redirect, whose target
\* is not stored with it.
FromCache ==
    LET url == EffectiveUrl(fetch.c)
        e   == Lookup(url)
    IN  /\ fetch.pc = "prepare" /\ fetch.hops < MaxHops
        /\ Permitted
        /\ e # NoEntry /\ IsFresh(e)
        /\ Return("ok", "cache", url, e.answer)
        /\ cache' = Kept
        /\ UNCHANGED <<site, now, past>>

\* What a request tells besides its url, and Sec-GPC and DNT, which all of them say.
Headers(c) == [site    |-> IF ThirdParty(c.url, c.top) THEN "cross-site" ELSE "same-origin",
               dest    |-> c.kind,
               referer |-> Referer(c.url, c.top, c.policy)]

Ask ==
    LET url == EffectiveUrl(fetch.c)
        e   == Lookup(url)
    IN  /\ fetch.pc = "prepare" /\ fetch.hops < MaxHops
        /\ Permitted
        /\ e = NoEntry \/ ~ IsFresh(e)
        /\ fetch' = [fetch EXCEPT !.pc = "sent", !.hops = @ + 1, !.url = url,
                                     !.headers = Headers(fetch.c), !.entry = e]
        /\ UNCHANGED <<site, now, cache, result, past>>

\* No connection, no answer in time, a url that is not https, or a body that is
\* above the limit of 16 MB.
TransportFails ==
    /\ fetch.pc = "sent"
    /\ Fail("error")
    /\ UNCHANGED <<site, now, past>>

\* The web answers 304 to a request with the etag of what it would send.
Unchanged(a) == fetch.entry # NoEntry /\ a.kind = "page" /\ fetch.entry.answer = a

\* The entry is returned as it is; it does not become fresh again.
NotModified ==
    /\ fetch.pc = "sent" /\ Unchanged(Reply(site, fetch.url))
    /\ Return("ok", "revalidated", fetch.url, fetch.entry.answer)
    /\ cache' = Kept
    /\ UNCHANGED <<site, now, past>>

\* Mutant of Receive: a redirect does not count as a hop.
ReceiveUncounted ==
    LET a == Reply(site, fetch.url)
    IN  /\ fetch.pc = "sent" /\ a \in Given /\ ~ Unchanged(a)
        /\ IF a.kind = "choice"
           THEN /\ fetch' = [fetch EXCEPT !.pc = "prepare", !.c.url = a.to, !.hops = @ - 1]
                /\ cache' = Stored(fetch.url, a)
                /\ UNCHANGED result
           ELSE /\ Return("ok", "network", fetch.url, a)
                /\ cache' = Stored(fetch.url, a)
        /\ UNCHANGED <<site, now, past>>

\* An answer is stored, and returned unless it redirects; a stream is neither
\* stored nor redirected.
Receive ==
    LET a == Reply(site, fetch.url)
    IN  /\ fetch.pc = "sent" /\ a \in Given /\ ~ Unchanged(a)
        /\ IF fetch.mode # "stream" /\ a.kind = "choice"
           THEN /\ fetch' = [fetch EXCEPT !.pc = "prepare", !.c.url = a.to]
                /\ cache' = Stored(fetch.url, a)
                /\ UNCHANGED result
           ELSE /\ Return("ok", "network", fetch.url, a)
                /\ cache' = CASE fetch.mode = "fetch"  -> Stored(fetch.url, a)
                              [] fetch.mode = "stream" -> cache
                              [] OTHER                 -> fetch.kept     \* of a clone
        /\ UNCHANGED <<site, now, past>>

\* The caller takes the answer.  Nothing else is let happen before, which only
\* spares states: no other step reads the result.
Take ==
    /\ result # NoResult
    /\ result' = NoResult
    /\ UNCHANGED <<site, now, cache, fetch, past>>

FetchStep ==
    \/ TooManyHops \/ Refused \/ FromCache \/ Ask
    \/ TransportFails \/ NotModified \/ Receive \/ Take

Next ==
    \/ \E c \in Contexts, mode \in {"fetch", "stream", "clone"} : Begin(c, mode)
    \/ FetchStep
    \/ \E u \in Pages : Publish(u)
    \/ Tick

Spec == Init /\ [][Next]_vars

\* The runtime runs the fetch, and the transport answers or times out.
FairSpec == Spec /\ WF_vars(FetchStep)

-----------------------------------------------------------------------------
TypeOK ==
    /\ \A u \in Pages : site[u] \in UNION {Answers(u, v) : v \in 0 .. MaxVersion}
    /\ now \in 0 .. MaxTime
    /\ \A u \in DOMAIN cache : cache[u].storedAt \in 0 .. now /\ Cacheable(cache[u].answer)
    /\ fetch.pc \in {"idle", "prepare", "sent"} /\ fetch.hops \in 0 .. MaxHops
    /\ result.outcome \in {"none", "ok", "blocked", "error"}
    /\ result.source \in {"none", "network", "cache", "revalidated"}

\* What a fetch returns for a url is what the web answers now, or what it still
\* answered less than the maximum age before, whatever has been stored, left
\* in place, published and redirected meanwhile.
Current(u, a) ==
    \/ a = Reply(site, u)
    \/ \E p \in past[u] : p.answer = a /\ ~ a.cc.validate /\ now - p.until < a.cc.maxAge

ServedIsCurrent == result.outcome = "ok" => Current(result.url, result.answer)

\* Whatever the client asks the transport for has been inspected: also the
\* target of a redirect is allowed, and asked for as the settings want it.
Allowed(u) ==
    /\ Settings.blockTrackers => \A h \in TrackerHosts : ~ IsSuffix(h, u.host)
    /\ Settings.blockAds => \A h \in AdHosts : ~ IsSuffix(h, u.host)
    /\ Settings.stripParams => u.params \cap TrackingParams = {}
    /\ Settings.httpsOnly /\ u.scheme = "http" => NotUpgradable(u.host)

\* The query of the page's own address is told to no other host, whatever the
\* policy, the upgrade to https and the redirects were.
Discreet(u, headers) == headers.referer.host # u.host => headers.referer.params = {}

OnlyAllowedAsked ==
    fetch.pc = "sent" => Allowed(fetch.url) /\ Discreet(fetch.url, fetch.headers)

\* Every fetch ends, also among pages that redirect to each other.
FetchEnds == fetch.pc # "idle" ~> fetch.pc = "idle"
=============================================================================
