----------------------------- MODULE EngineProofs -----------------------------
(***************************************************************************)
(* Proofs about NetworkClient: that the transport is only asked for what   *)
(* the privacy settings allow, and that what a fetch returns is current,   *)
(* for every web, every setting and every sequence of requests.            *)
(* Proofs about TrustEngine: that the frames are of the page built last,    *)
(* and that a load keeps its budgets and reports what it did not take, for  *)
(* every document, every budget and every order of the answers.            *)
(* Proofs about Cascade: that an element's color is the one of the cascade, *)
(* for every sheet, every order of them and every tree of elements.         *)
(***************************************************************************)
EXTENDS NetworkClient, TrustEngine, Cascade, SequenceLemmas, TLAPS


-----------------------------------------------------------------------------
(* What an inspected request becomes.                                      *)

\* The upgrade and the stripping leave the host, and change only what they are for.
LEMMA EffectiveFields ==
    ASSUME NEW c \in Requests
    PROVE  LET u == EffectiveUrl(c)
           IN  /\ u \in Urls
               /\ u.host = c.url.host
               /\ Settings.stripParams => u.params \cap TrackingParams = {}
               /\ Settings.httpsOnly /\ u.scheme = "http" => NotUpgradable(u.host)
<1> DEFINE v == Upgraded(c.url)
           u == EffectiveUrl(c)
<1>1. c.url \in Urls
  BY DEF Requests
<1>2. v \in Urls /\ v.host = c.url.host /\ v.params = c.url.params
  <2>1. v = c.url \/ v = [c.url EXCEPT !.scheme = "https"]
    BY DEF Upgraded
  <2>2. [c.url EXCEPT !.scheme = "https"] \in Urls
    BY <1>1 DEF Urls, Schemes
  <2>3. v.host = c.url.host /\ v.params = c.url.params
    BY <1>1, <2>1 DEF Urls
  <2> QED BY <1>1, <2>1, <2>2, <2>3
<1>3. Settings.httpsOnly /\ v.scheme = "http" => NotUpgradable(c.url.host)
  BY <1>1 DEF Upgraded, Urls
<1> HIDE DEF v
<1>4. u = Stripped(v)
  BY DEF EffectiveUrl, v
<1>5. u \in Urls /\ u.host = v.host /\ u.scheme = v.scheme
  BY <1>2, <1>4 DEF Stripped, Urls
<1>6. Settings.stripParams => u.params = v.params \ TrackingParams
  BY <1>2, <1>4 DEF Stripped, Urls
<1> QED BY <1>2, <1>3, <1>5, <1>6

\* A request that is not blocked is for a host that is on no list.
LEMMA UnblockedIsAllowed ==
    ASSUME NEW c \in Requests, BlockReason(c) = "none"
    PROVE  Allowed(EffectiveUrl(c))
<1>1. /\ Settings.blockTrackers => ~ HostMatches(TrackerHosts, c.url.host)
      /\ Settings.blockAds => ~ HostMatches(AdHosts, c.url.host)
  BY DEF BlockReason
<1>2. /\ Settings.blockTrackers => \A h \in TrackerHosts : ~ IsSuffix(h, c.url.host)
      /\ Settings.blockAds => \A h \in AdHosts : ~ IsSuffix(h, c.url.host)
  BY <1>1 DEF HostMatches
<1> QED BY <1>2, EffectiveFields DEF Allowed

LEMMA NoUrlIsUrl == NoUrl \in Urls /\ NoUrl.params = {}
<1>1. <<>> \in Seq(STRING)
  OBVIOUS
<1> QED BY <1>1 DEF NoUrl, Urls

\* The referer is empty, of the host asked, or without its query.
LEMMA RefererIsDiscreet ==
    ASSUME NEW url \in Urls, NEW top \in Urls, NEW policy
    PROVE  LET r == Referer(url, top, policy)
           IN  r \in Urls /\ (r.host = url.host \/ r.params = {})
<1>1. NoUrl \in Urls /\ NoUrl.params = {}
  BY NoUrlIsUrl
<1>2. OriginOf(top) \in Urls /\ OriginOf(top).params = {}
  BY DEF OriginOf, Urls
<1>3. SameOrigin(url, top) => top.host = url.host
  BY DEF SameOrigin
<1> DEFINE r == Referer(url, top, policy)
<1>4. r = NoUrl \/ r = OriginOf(top) \/ (r = top /\ SameOrigin(url, top))
  BY DEF Referer
<1> QED BY <1>1, <1>2, <1>3, <1>4

LEMMA HeadersAreDiscreet ==
    ASSUME NEW c \in Requests
    PROVE  Discreet(EffectiveUrl(c), Headers(c))
<1>1. c.url \in Urls /\ c.top \in Urls
  BY DEF Requests
<1>2. Headers(c).referer = Referer(c.url, c.top, c.policy)
  BY DEF Headers
<1> QED BY <1>1, <1>2, EffectiveFields, RefererIsDiscreet DEF Discreet

-----------------------------------------------------------------------------
(* What is asked for.                                                      *)

Responses == [kind : Kinds, url : Urls, version : Nat, to : Urls, cc : CachingRules]

SiteTyped == site \in [Pages -> Responses]

FetchTyped ==
    /\ fetch = [pc |-> fetch.pc, mode |-> fetch.mode, c |-> fetch.c, hops |-> fetch.hops,
                url |-> fetch.url, headers |-> fetch.headers, entry |-> fetch.entry,
                kept |-> fetch.kept]
    /\ fetch.c \in Requests

\* A request that has been sent is the one that was inspected, as the settings want it.
Inspected ==
    fetch.pc = "sent" =>
        /\ BlockReason(fetch.c) = "none"
        /\ fetch.url = EffectiveUrl(fetch.c)
        /\ fetch.headers = Headers(fetch.c)

AskedInv == SiteTyped /\ FetchTyped /\ Inspected

LEMMA NoFetchIsTyped == NoFetch.c \in Requests /\ NoFetch.pc = "idle"
BY NoUrlIsUrl DEF NoFetch, Requests, ResourceTypes, ReferrerPolicies

LEMMA AnswersTyped ==
    ASSUME NEW u \in Pages, NEW v \in Nat, NEW a \in Answers(u, v)
    PROVE  a \in Responses
<1>1. NoCaching \in CachingRules
  BY DEF NoCaching, CachingRules
<1>2. Pages \subseteq Urls /\ CacheControls \subseteq CachingRules
  BY ClientAssumption
<1> QED BY <1>1, <1>2, NoUrlIsUrl DEF Answers, Responses, Kinds

LEMMA InitAsked == Init => AskedInv
<1> SUFFICES ASSUME Init PROVE AskedInv
  OBVIOUS
<1>1. PICK cc \in CacheControls :
        site = [u \in Pages |-> [NoAnswer EXCEPT !.kind = "page", !.url = u, !.cc = cc]]
  BY DEF Init
<1>2. Pages \subseteq Urls /\ cc \in CachingRules
  BY ClientAssumption
<1>3. \A u \in Pages : [NoAnswer EXCEPT !.kind = "page", !.url = u, !.cc = cc] \in Responses
  BY <1>2, NoUrlIsUrl DEF NoAnswer, Responses, Kinds
<1>4. SiteTyped
  BY <1>1, <1>3 DEF SiteTyped
<1>5. fetch = NoFetch
  BY DEF Init
<1> QED BY <1>4, <1>5, NoFetchIsTyped DEF AskedInv, FetchTyped, Inspected, NoFetch

\* Whatever ends a fetch leaves nothing that has been sent.
LEMMA EndAsked ==
    ASSUME AskedInv, site' = site, fetch' = NoFetch
    PROVE  AskedInv'
BY NoFetchIsTyped DEF AskedInv, SiteTyped, FetchTyped, Inspected, NoFetch

LEMMA BeginAsked ==
    ASSUME AskedInv, NEW c \in Contexts, NEW mode, Begin(c, mode)
    PROVE  AskedInv'
<1>1. c \in Requests
  BY ClientAssumption
<1>2. site' = site /\ fetch' = [NoFetch EXCEPT !.pc = "prepare", !.mode = mode, !.c = c,
                                   !.kept = IF mode = "clone" THEN cache ELSE <<>>]
  BY DEF Begin
<1>3. fetch'.pc = "prepare" /\ fetch'.c = c
  BY <1>2 DEF NoFetch
<1>4. FetchTyped'
  BY <1>1, <1>2, <1>3 DEF FetchTyped, NoFetch
<1> QED BY <1>2, <1>3, <1>4 DEF AskedInv, SiteTyped, Inspected

LEMMA AskAsked ==
    ASSUME AskedInv, Ask
    PROVE  AskedInv'
<1> DEFINE url == EffectiveUrl(fetch.c)
           e   == Lookup(url)
           h   == Headers(fetch.c)
           n   == fetch.hops + 1
<1>1. /\ site' = site /\ BlockReason(fetch.c) = "none"
      /\ fetch' = [fetch EXCEPT !.pc = "sent", !.hops = n, !.url = url, !.headers = h, !.entry = e]
  BY DEF Ask, Permitted
<1> HIDE DEF url, e, h, n
<1>2. FetchTyped
  BY DEF AskedInv
<1>3. fetch'.c = fetch.c /\ fetch'.url = url /\ fetch'.headers = h
  BY <1>1, <1>2 DEF FetchTyped
<1>4. FetchTyped'
  BY <1>1, <1>2 DEF FetchTyped
<1>5. Inspected'
  BY <1>1, <1>3 DEF Inspected, url, h
<1> QED BY <1>1, <1>4, <1>5 DEF AskedInv, SiteTyped

\* A redirect makes a request of its target, which is inspected in its turn.
LEMMA RedirectAsked ==
    ASSUME AskedInv, NEW a \in Given, site' = site,
           fetch' = [fetch EXCEPT !.pc = "prepare", !.c.url = a.to]
    PROVE  AskedInv'
<1>1. a.to \in Urls
  BY DEF Given, AskedInv, SiteTyped, Responses
<1>2. FetchTyped
  BY DEF AskedInv
<1>3. fetch' = [fetch EXCEPT !.pc = "prepare", !.c = [fetch.c EXCEPT !.url = a.to]]
  BY <1>2 DEF FetchTyped
<1>4. [fetch.c EXCEPT !.url = a.to] \in Requests
  BY <1>1, <1>2 DEF FetchTyped, Requests
<1>5. fetch'.pc = "prepare"
  BY <1>2, <1>3 DEF FetchTyped
<1>6. FetchTyped'
  BY <1>2, <1>3, <1>4 DEF FetchTyped
<1> QED BY <1>5, <1>6 DEF AskedInv, SiteTyped, Inspected

LEMMA PublishAsked ==
    ASSUME AskedInv, NEW u \in Pages, Publish(u)
    PROVE  AskedInv'
<1>1. fetch' = fetch
  BY DEF Publish
<1>2. PICK a \in Answers(u, site[u].version + 1) : site' = [site EXCEPT ![u] = a]
  BY DEF Publish
<1>3. site[u].version + 1 \in Nat
  BY DEF AskedInv, SiteTyped, Responses
<1>4. a \in Responses
  BY <1>3, AnswersTyped
<1>5. SiteTyped'
  BY <1>2, <1>4 DEF AskedInv, SiteTyped
<1> QED BY <1>1, <1>5 DEF AskedInv, FetchTyped, Inspected

LEMMA NextAsked == AskedInv /\ [Next]_vars => AskedInv'
<1> SUFFICES ASSUME AskedInv, [Next]_vars PROVE AskedInv'
  OBVIOUS
<1>1. CASE site' = site /\ fetch' = fetch
  BY <1>1 DEF AskedInv, SiteTyped, FetchTyped, Inspected
<1>2. CASE \E c \in Contexts, mode \in {"fetch", "stream", "clone"} : Begin(c, mode)
  BY <1>2, BeginAsked
<1>3. CASE TooManyHops \/ Refused \/ FromCache \/ TransportFails \/ NotModified
  <2>1. site' = site /\ fetch' = NoFetch
    BY <1>3 DEF TooManyHops, Refused, FromCache, TransportFails, NotModified, Fail, Return
  <2> QED BY <2>1, EndAsked
<1>4. CASE Ask
  BY <1>4, AskAsked
<1>5. CASE Receive
  <2> DEFINE a == Reply(site, fetch.url)
  <2>1. a \in Given /\ site' = site
    BY <1>5 DEF Receive
  <2>2. fetch' = NoFetch \/ fetch' = [fetch EXCEPT !.pc = "prepare", !.c.url = a.to]
    BY <1>5 DEF Receive, Return
  <2> HIDE DEF a
  <2> QED BY <2>1, <2>2, EndAsked, RedirectAsked
<1>6. CASE \E u \in Pages : Publish(u)
  BY <1>6, PublishAsked
<1> QED
  BY <1>1, <1>2, <1>3, <1>4, <1>5, <1>6 DEF Next, FetchStep, Take, Tick, vars

\* Whatever the client asks the transport for is allowed, and its referer tells no
\* other host the query of a page.
THEOREM OnlyAllowedIsAsked == Spec => []OnlyAllowedAsked
<1>1. AskedInv => OnlyAllowedAsked
  BY UnblockedIsAllowed, HeadersAreDiscreet DEF AskedInv, FetchTyped, Inspected, OnlyAllowedAsked
<1> QED
  BY InitAsked, NextAsked, <1>1, PTL DEF Spec

-----------------------------------------------------------------------------
(* What is returned.                                                       *)

Entries == [answer : Responses, storedAt : Nat]

CacheTyped(k) == DOMAIN k \subseteq Pages /\ \A u \in DOMAIN k : k[u] \in Entries

\* The web has given the entry for u at some time since it was stored.
GivenSince(u, e) ==
    /\ e.storedAt <= now
    /\ \/ e.answer = Reply(site, u)
       \/ \E p \in past[u] : p.answer = e.answer /\ e.storedAt <= p.until

CacheGiven(k) == CacheTyped(k) /\ \A u \in DOMAIN k : GivenSince(u, k[u])

HistoryTyped ==
    now \in Nat /\ \A u \in Pages : \A p \in past[u] : p.until \in Nat /\ p.until <= now

\* The cache, and the one a favicon's fetch has set aside, hold what was given; and
\* nothing moves between the return of a fetch and its caller.
CurrentInv ==
    /\ HistoryTyped
    /\ CacheGiven(cache) /\ CacheGiven(fetch.kept)
    /\ result # NoResult => fetch = NoFetch
    /\ ServedIsCurrent

LEMMA EmptyCacheGiven == CacheGiven(<<>>)
BY DEF CacheGiven, CacheTyped

LEMMA InitCurrent == Init => CurrentInv
<1> SUFFICES ASSUME Init PROVE CurrentInv
  OBVIOUS
<1>1. /\ now = 0 /\ cache = <<>> /\ fetch = NoFetch /\ result = NoResult
      /\ past = [u \in Pages |-> {}]
  BY DEF Init
<1>2. fetch.kept = <<>>
  BY <1>1 DEF NoFetch
<1> QED
  BY <1>1, <1>2, EmptyCacheGiven DEF CurrentInv, HistoryTyped, ServedIsCurrent, NoResult

\* What was given since it was stored, and is fresh, is current.
LEMMA FreshIsCurrent ==
    ASSUME HistoryTyped, NEW u \in Pages, NEW e \in Entries, GivenSince(u, e), IsFresh(e)
    PROVE  Current(u, e.answer)
<1> DEFINE age == e.answer.cc.maxAge
           at  == e.storedAt
<1>1. at \in Nat /\ age \in Nat
  BY DEF Entries, Responses, CachingRules
<1>2. ~ e.answer.cc.validate /\ now - at < age
  BY DEF IsFresh
<1>3. now \in Nat /\ \A p \in past[u] : p.until \in Nat
  BY DEF HistoryTyped
<1>4. e.answer = Reply(site, u) \/ \E p \in past[u] : p.answer = e.answer /\ at <= p.until
  BY DEF GivenSince
<1> HIDE DEF at, age
<1>5. \A p \in past[u] : at <= p.until => now - p.until < age
  BY <1>1, <1>2, <1>3
<1> QED BY <1>2, <1>4, <1>5 DEF Current, age

\* What the web gives may be stored.
LEMMA StoredGiven ==
    ASSUME SiteTyped, now \in Nat, CacheGiven(cache), NEW u, Reply(site, u) \in Given
    PROVE  CacheGiven(Stored(u, Reply(site, u)))
<1> DEFINE a == Reply(site, u)
           e == [answer |-> a, storedAt |-> now]
<1>1. a \in Responses
  BY DEF Given, SiteTyped
<1>2. NoAnswer \notin Responses
  BY DEF NoAnswer, Responses, Kinds
<1>3. u \in Pages
  BY <1>1, <1>2 DEF Reply
<1>4. e \in Entries
  BY <1>1 DEF Entries
<1>5. GivenSince(u, e)
  BY DEF GivenSince
<1> HIDE DEF a, e
<1>6. CacheGiven(Put(cache, u, e))
  BY <1>3, <1>4, <1>5 DEF Put, CacheGiven, CacheTyped
<1> QED BY <1>6 DEF Stored, a, e

\* The end of a fetch, and any other step of it: the web does not move meanwhile.
LEMMA StepCurrent ==
    ASSUME CurrentInv, site' = site, now' = now, past' = past,
           CacheGiven(cache'), CacheGiven(fetch'.kept),
           result' # NoResult => fetch' = NoFetch,
           result'.outcome = "ok" => Current(result'.url, result'.answer)
    PROVE  CurrentInv'
<1>1. HistoryTyped'
  BY DEF CurrentInv, HistoryTyped
<1>2. CacheGiven(cache)' /\ CacheGiven(fetch.kept)'
  BY DEF CacheGiven, CacheTyped, GivenSince
<1>3. ServedIsCurrent'
  BY DEF ServedIsCurrent, Current
<1> QED BY <1>1, <1>2, <1>3 DEF CurrentInv

LEMMA ReturnCurrent ==
    ASSUME CurrentInv, site' = site, now' = now, past' = past, CacheGiven(cache'),
           NEW outcome, NEW source, NEW url, NEW answer,
           Return(outcome, source, url, answer), outcome = "ok" => Current(url, answer)
    PROVE  CurrentInv'
<1>1. fetch' = NoFetch /\ result'.outcome = outcome /\ result'.url = url /\ result'.answer = answer
  BY DEF Return
<1>2. CacheGiven(fetch'.kept)
  BY <1>1, EmptyCacheGiven DEF NoFetch
<1> QED BY <1>1, <1>2, StepCurrent

LEMMA KeptGiven == CurrentInv => CacheGiven(Kept)
BY DEF CurrentInv, Kept

LEMMA FailCurrent ==
    ASSUME CurrentInv, site' = site, now' = now, past' = past, NEW outcome, outcome # "ok",
           Fail(outcome)
    PROVE  CurrentInv'
BY KeptGiven, ReturnCurrent DEF Fail

LEMMA FromCacheCurrent ==
    ASSUME CurrentInv, FromCache
    PROVE  CurrentInv'
<1> DEFINE url == EffectiveUrl(fetch.c)
           e   == Lookup(url)
<1>1. /\ e # NoEntry /\ IsFresh(e) /\ Return("ok", "cache", url, e.answer)
      /\ cache' = Kept /\ site' = site /\ now' = now /\ past' = past
  BY DEF FromCache
<1> HIDE DEF url
<1>2. url \in DOMAIN cache /\ e = cache[url]
  BY <1>1 DEF Lookup
<1>3. url \in Pages /\ e \in Entries /\ GivenSince(url, e)
  BY <1>2 DEF CurrentInv, CacheGiven, CacheTyped
<1> HIDE DEF e
<1>4. Current(url, e.answer)
  BY <1>1, <1>3, FreshIsCurrent DEF CurrentInv
<1> QED BY <1>1, <1>4, KeptGiven, ReturnCurrent

\* An entry that the web confirms is what it gives.
LEMMA NotModifiedCurrent ==
    ASSUME CurrentInv, NotModified
    PROVE  CurrentInv'
<1>1. /\ Return("ok", "revalidated", fetch.url, fetch.entry.answer)
      /\ fetch.entry.answer = Reply(site, fetch.url)
      /\ cache' = Kept /\ site' = site /\ now' = now /\ past' = past
  BY DEF NotModified, Unchanged
<1>2. Current(fetch.url, fetch.entry.answer)
  BY <1>1 DEF Current
<1> QED BY <1>1, <1>2, KeptGiven, ReturnCurrent

LEMMA ReceiveCurrent ==
    ASSUME CurrentInv, SiteTyped, FetchTyped, Receive
    PROVE  CurrentInv'
<1> DEFINE a == Reply(site, fetch.url)
<1>1. a \in Given /\ site' = site /\ now' = now /\ past' = past /\ fetch.pc = "sent"
  BY DEF Receive
<1>2. CacheGiven(Stored(fetch.url, a)) /\ CacheGiven(cache) /\ CacheGiven(fetch.kept)
  BY <1>1, StoredGiven DEF CurrentInv, HistoryTyped
<1>3. Current(fetch.url, a)
  BY DEF Current
<1> HIDE DEF a
<1>4. CASE /\ fetch' = [fetch EXCEPT !.pc = "prepare", !.c.url = a.to]
           /\ cache' = Stored(fetch.url, a) /\ result' = result
  <2>1. fetch'.kept = fetch.kept
    BY <1>4 DEF FetchTyped
  <2>2. result = NoResult
    BY <1>1 DEF CurrentInv, NoFetch
  <2> QED BY <1>1, <1>2, <1>4, <2>1, <2>2, StepCurrent DEF NoResult
<1>5. CASE /\ Return("ok", "network", fetch.url, a)
           /\ cache' \in {Stored(fetch.url, a), cache, fetch.kept}
  <2>1. CacheGiven(cache')
    BY <1>2, <1>5
  <2> QED BY <1>1, <1>3, <1>5, <2>1, ReturnCurrent
<1>6. \/ /\ fetch' = [fetch EXCEPT !.pc = "prepare", !.c.url = a.to]
         /\ cache' = Stored(fetch.url, a) /\ result' = result
      \/ /\ Return("ok", "network", fetch.url, a)
         /\ cache' \in {Stored(fetch.url, a), cache, fetch.kept}
  BY DEF Receive, a
<1> QED BY <1>4, <1>5, <1>6

LEMMA BeginCurrent ==
    ASSUME CurrentInv, NEW c, NEW mode, Begin(c, mode)
    PROVE  CurrentInv'
<1>1. /\ site' = site /\ now' = now /\ past' = past /\ cache' = cache
      /\ result' = NoResult
      /\ fetch' = [NoFetch EXCEPT !.pc = "prepare", !.mode = mode, !.c = c,
                                  !.kept = IF mode = "clone" THEN cache ELSE <<>>]
  BY DEF Begin
<1>2. fetch'.kept = IF mode = "clone" THEN cache ELSE <<>>
  BY <1>1 DEF NoFetch
<1>3. CacheGiven(fetch'.kept)
  BY <1>2, EmptyCacheGiven DEF CurrentInv
<1> QED BY <1>1, <1>3, StepCurrent DEF CurrentInv, NoResult

LEMMA AskCurrent ==
    ASSUME CurrentInv, FetchTyped, Ask
    PROVE  CurrentInv'
<1>1. /\ site' = site /\ now' = now /\ past' = past /\ cache' = cache
      /\ result' = result /\ fetch.pc = "prepare"
  BY DEF Ask
<1>2. fetch'.kept = fetch.kept
  BY DEF Ask, FetchTyped
<1>3. result = NoResult
  BY <1>1 DEF CurrentInv, NoFetch
<1> QED BY <1>1, <1>2, <1>3, StepCurrent DEF CurrentInv, NoResult

\* What the web no longer gives was given until now.
LEMMA PublishCurrent ==
    ASSUME CurrentInv, NEW u \in Pages, Publish(u)
    PROVE  CurrentInv'
<1>1. /\ now' = now /\ cache' = cache /\ fetch' = fetch /\ result' = result /\ result = NoResult
      /\ past' = [w \in Pages |->
                    {p \in past[w] : p.answer # Reply(site', w)}
                      \cup IF Reply(site, w) # Reply(site', w)
                           THEN {[answer |-> Reply(site, w), until |-> now]} ELSE {}]
  BY DEF Publish
<1>2. HistoryTyped'
  <2> SUFFICES ASSUME NEW w \in Pages, NEW p \in past'[w]
               PROVE  p.until \in Nat /\ p.until <= now
    BY <1>1 DEF CurrentInv, HistoryTyped
  <2>1. p \in past[w] \/ p.until = now
    BY <1>1
  <2> QED BY <2>1 DEF CurrentInv, HistoryTyped
<1>3. ASSUME NEW w \in Pages, NEW e, GivenSince(w, e)
      PROVE  GivenSince(w, e)'
  <2>1. CASE e.answer = Reply(site', w)
    BY <1>1, <1>3, <2>1 DEF GivenSince
  <2>2. CASE e.answer # Reply(site', w) /\ e.answer = Reply(site, w)
    <3> DEFINE p == [answer |-> Reply(site, w), until |-> now]
    <3>1. p \in past'[w]
      BY <1>1, <2>2
    <3>2. p.answer = e.answer /\ e.storedAt <= p.until
      BY <1>3, <2>2 DEF GivenSince
    <3> QED BY <1>1, <1>3, <3>1, <3>2 DEF GivenSince
  <2>3. CASE e.answer # Reply(site', w) /\ e.answer # Reply(site, w)
    <3>1. PICK p \in past[w] : p.answer = e.answer /\ e.storedAt <= p.until
      BY <1>3, <2>3 DEF GivenSince
    <3>2. p \in past'[w]
      BY <1>1, <2>3, <3>1
    <3> QED BY <1>1, <1>3, <3>1, <3>2 DEF GivenSince
  <2> QED BY <2>1, <2>2, <2>3
<1>4. CacheGiven(cache)' /\ CacheGiven(fetch.kept)'
  BY <1>1, <1>3 DEF CurrentInv, CacheGiven, CacheTyped
<1> QED BY <1>1, <1>2, <1>4 DEF CurrentInv, ServedIsCurrent, NoResult

LEMMA TickCurrent ==
    ASSUME CurrentInv, Tick
    PROVE  CurrentInv'
<1>1. /\ now' = now + 1 /\ site' = site /\ past' = past /\ cache' = cache /\ fetch' = fetch
      /\ result' = result /\ result = NoResult
  BY DEF Tick
<1>2. HistoryTyped'
  BY <1>1 DEF CurrentInv, HistoryTyped
<1>3. ASSUME NEW w, NEW e \in Entries, GivenSince(w, e)
      PROVE  GivenSince(w, e)'
  <2>1. e.storedAt \in Nat /\ now \in Nat
    BY DEF Entries, CurrentInv, HistoryTyped
  <2>2. e.storedAt <= now + 1
    BY <1>3, <2>1 DEF GivenSince
  <2> QED BY <1>1, <1>3, <2>2 DEF GivenSince
<1>4. CacheGiven(cache)' /\ CacheGiven(fetch.kept)'
  BY <1>1, <1>3 DEF CurrentInv, CacheGiven, CacheTyped
<1> QED BY <1>1, <1>2, <1>4 DEF CurrentInv, ServedIsCurrent, NoResult

LEMMA NextCurrent == AskedInv /\ CurrentInv /\ [Next]_vars => CurrentInv'
<1> SUFFICES ASSUME AskedInv, CurrentInv, [Next]_vars PROVE CurrentInv'
  OBVIOUS
<1>1. CASE UNCHANGED vars
  BY <1>1, StepCurrent DEF CurrentInv, ServedIsCurrent, vars
<1>2. CASE \E c \in Contexts, mode \in {"fetch", "stream", "clone"} : Begin(c, mode)
  BY <1>2, BeginCurrent
<1>3. CASE TooManyHops \/ Refused \/ TransportFails
  BY <1>3, FailCurrent DEF TooManyHops, Refused, TransportFails
<1>4. CASE FromCache
  BY <1>4, FromCacheCurrent
<1>5. CASE Ask
  BY <1>5, AskCurrent DEF AskedInv
<1>6. CASE NotModified
  BY <1>6, NotModifiedCurrent
<1>7. CASE Receive
  BY <1>7, ReceiveCurrent DEF AskedInv
<1>8. CASE Take
  BY <1>8, StepCurrent DEF Take, CurrentInv, NoResult
<1>9. CASE \E u \in Pages : Publish(u)
  BY <1>9, PublishCurrent
<1>10. CASE Tick
  BY <1>10, TickCurrent
<1> QED
  BY <1>1, <1>2, <1>3, <1>4, <1>5, <1>6, <1>7, <1>8, <1>9, <1>10 DEF Next, FetchStep

\* What a fetch returns is what the web gives, or gave less than its maximum age ago.
THEOREM WhatIsServedIsCurrent == Spec => []ServedIsCurrent
<1>1. CurrentInv => ServedIsCurrent
  BY DEF CurrentInv
<1> QED
  BY InitAsked, NextAsked, InitCurrent, NextCurrent, <1>1, PTL DEF Spec

-----------------------------------------------------------------------------
(* Frames.                                                                 *)

\* Where the three places of a page agree: what moves, in the renderer's cache or
\* in the runtime, moves only when anim_page is of the page built last.
PlacesAgree ==
    /\ drawCache.doc = built
    /\ config.javascript => animPage = NoPage \/ animPage.doc = built
    /\ ~ config.javascript => runtime = NoRuntime
    /\ CacheActive(drawCache) => animPage.doc = built
    /\ FrameIsOfLastPage

LEMMA InitPlaces == EngineInit => PlacesAgree
BY DEF EngineInit, PlacesAgree, FrameIsOfLastPage, NoPage, NoCache, NoController, CacheActive, IsActive

\* Building a page sets all of them, or, when nothing is drawn, the runtime alone.
LEMMA BuildPlaces ==
    ASSUME PlacesAgree, NEW d, NEW counts, BuildPage(d, counts)
    PROVE  PlacesAgree'
<1> DEFINE p == [doc |-> d, counts |-> counts, score |-> TrustScore(d, counts, config.javascript)]
<1>1. /\ config' = config /\ frame' = NoPage
      /\ ~ config.javascript => runtime' = NoRuntime
  BY DEF BuildPage
<1>2. CASE d.drawn
  <2>1. drawCache' = CacheOf(d) /\ animPage' = Remembered(d, p) /\ built' = d
    BY <1>2 DEF BuildPage
  <2>2. drawCache'.doc = d
    BY <2>1 DEF CacheOf
  <2>3. config.javascript => animPage' = p
    BY <2>1 DEF Remembered
  <2>4. CacheActive(drawCache') => animPage' = p
    BY <2>1 DEF Remembered
  <2> QED BY <1>1, <2>1, <2>2, <2>3, <2>4 DEF PlacesAgree, FrameIsOfLastPage, CacheActive
<1>3. CASE ~ d.drawn
  BY <1>1, <1>3 DEF BuildPage, PlacesAgree, FrameIsOfLastPage, CacheActive
<1> QED BY <1>2, <1>3

\* A tick makes a frame only when something moves.
LEMMA TickPlaces ==
    ASSUME PlacesAgree, NEW dt, TickAnimations(dt)
    PROVE  PlacesAgree'
<1>1. /\ config' = config /\ animPage' = animPage /\ built' = built
      /\ runtime' = AfterFrame(runtime) /\ animPage # NoPage
  BY DEF TickAnimations
<1>2. ~ config.javascript => runtime' = NoRuntime /\ runtime'.frames = 0
  BY <1>1 DEF PlacesAgree, AfterFrame, NoRuntime
<1>3. CASE CacheActive(drawCache)
  <2>1. /\ drawCache' = Applied([drawCache EXCEPT !.controllers =
                               [k \in DOMAIN @ |-> TickController(@[k], dt)]])
        /\ frame' = FrameOf
    BY <1>3 DEF TickAnimations
  <2>2. drawCache'.doc = drawCache.doc
    BY <2>1 DEF Applied
  <2>3. frame'.doc = animPage.doc
    BY <2>1 DEF FrameOf
  <2> QED BY <1>1, <1>2, <1>3, <2>2, <2>3 DEF PlacesAgree, FrameIsOfLastPage
<1>4. CASE ~ CacheActive(drawCache)
  <2>1. drawCache' = drawCache /\ frame' = IF runtime'.frames # 0 THEN animPage ELSE NoPage
    BY <1>4 DEF TickAnimations
  <2>2. ~ CacheActive(drawCache')
    BY <1>4, <2>1
  <2> QED BY <1>1, <1>2, <2>1, <2>2 DEF PlacesAgree, FrameIsOfLastPage, CacheActive
<1> QED BY <1>3, <1>4

LEMMA NextPlaces == PlacesAgree /\ [EngineNext]_engineVars => PlacesAgree'
<1> SUFFICES ASSUME PlacesAgree, [EngineNext]_engineVars PROVE PlacesAgree'
  OBVIOUS
<1>1. CASE UNCHANGED <<config, animPage, drawCache, runtime, frame, built>>
  BY <1>1 DEF PlacesAgree, FrameIsOfLastPage, CacheActive
<1>2. CASE \E d \in Documents : LoadUrl(d) \/ RenderHtml(d)
  BY <1>1, <1>2, BuildPlaces DEF LoadUrl, RenderHtml
<1>3. CASE NetprocDies
  BY <1>1, <1>3 DEF NetprocDies
<1>4. CASE LoadStep
  <2>1. CASE Build
    BY <2>1, BuildPlaces DEF Build
  <2>2. CASE ~ Build
    BY <1>1, <1>4, <2>2 DEF LoadStep, LoadFails, DocumentArrives, NextPhase, SheetRefused,
          ImageRefused, ScriptRefused, SheetArrives, ScriptArrives, ImageArrives
  <2> QED BY <2>1, <2>2
<1>5. CASE FrameTick
  BY <1>5, TickPlaces DEF FrameTick
<1>6. CASE UNCHANGED engineVars
  BY <1>1, <1>6 DEF engineVars
<1> QED BY <1>2, <1>3, <1>4, <1>5, <1>6 DEF EngineNext

\* A frame is of the page that was built last, whatever loads fail in between and
\* whether scripts run.
THEOREM FramesAreOfLastPage == EngineSpec => []FrameIsOfLastPage
<1>1. PlacesAgree => FrameIsOfLastPage
  BY DEF PlacesAgree
<1> QED BY InitPlaces, NextPlaces, <1>1, PTL DEF EngineSpec

-----------------------------------------------------------------------------
(* Budgets.                                                                *)

AtMost(n, limit) == IF n <= limit THEN n ELSE limit

LEMMA MinOfTwo == ASSUME NEW n \in Nat, NEW limit \in Nat PROVE Min({n, limit}) = AtMost(n, limit)
BY DEF Min, AtMost

\* Nothing of a load is a number below zero.
Counts == [sheetsLoaded : Nat, sheetsBlocked : Nat, imagesLoaded : Nat, imagesBlocked : Nat]

Loads ==
    [pc      : {"idle", "document", "sheets", "images", "scripts", "build"},
     doc     : Documents \cup {NoDocument},
     left    : Nat, budget : Nat, scripts : Nat, bytes : Nat, taken : Nat,
     counts  : Counts]

\* In each phase, what was loaded and blocked with what is left is what the page
\* refers to, and what was taken with what is left of the budget is the budget.
SheetsCounted(l, left) ==
    l.counts.sheetsLoaded + l.counts.sheetsBlocked + left = AtMost(l.doc.sheets, MaxSheets)

ImagesCounted(l, left) ==
    /\ l.counts.imagesLoaded + left <= AtMost(l.doc.images, MaxImages)
    /\ l.counts.imagesLoaded + l.counts.imagesBlocked + left >= AtMost(l.doc.images, MaxImages)

Counted(l) ==
    /\ l.pc \in {"idle", "document"} =>
            l.counts = NoCounts /\ l.left = 0 /\ l.scripts = 0 /\ l.bytes = 0
    /\ l.pc = "sheets" =>
            /\ SheetsCounted(l, l.left) /\ l.scripts = 0 /\ l.bytes = 0
            /\ l.counts.imagesLoaded = 0 /\ l.counts.imagesBlocked = 0
    /\ l.pc = "images" =>
            SheetsCounted(l, 0) /\ ImagesCounted(l, l.left) /\ l.scripts = 0 /\ l.bytes = 0
    /\ l.pc = "scripts" =>
            SheetsCounted(l, 0) /\ ImagesCounted(l, 0) /\ l.scripts + l.left <= MaxScripts
    /\ l.pc = "build" =>
            /\ l.left = 0 /\ l.scripts <= MaxScripts
            /\ config.subresources /\ config.network => SheetsCounted(l, 0) /\ ImagesCounted(l, 0)

LoadInv ==
    /\ load \in Loads
    /\ load.taken + load.budget <= Budget
    /\ load.bytes <= MaxScriptSize
    /\ Counted(load)

\* The numbers of a load and of its page.
NumbersOf(l) ==
    /\ l.left \in Nat /\ l.budget \in Nat /\ l.scripts \in Nat /\ l.bytes \in Nat /\ l.taken \in Nat
    /\ l.counts.sheetsLoaded \in Nat /\ l.counts.sheetsBlocked \in Nat
    /\ l.counts.imagesLoaded \in Nat /\ l.counts.imagesBlocked \in Nat
    /\ l.doc.sheets \in Nat /\ l.doc.images \in Nat /\ l.doc.scripts \in Nat
    /\ MaxSheets \in Nat /\ MaxImages \in Nat /\ MaxImageSize \in Nat
    /\ MaxScripts \in Nat /\ MaxScriptSize \in Nat /\ Budget \in Nat

LEMMA LoadNumbers == ASSUME NEW l \in Loads PROVE NumbersOf(l)
<1>1. l.doc \in Documents \cup {NoDocument}
  BY DEF Loads
<1>2. l.doc.sheets \in Nat /\ l.doc.images \in Nat /\ l.doc.scripts \in Nat
  <2>1. CASE l.doc \in Documents
    BY EngineAssumption, <2>1
  <2>2. CASE l.doc = NoDocument
    BY <2>2 DEF NoDocument
  <2> QED BY <1>1, <2>1, <2>2
<1>3. /\ MaxSheets \in Nat /\ MaxImages \in Nat /\ MaxImageSize \in Nat
      /\ MaxScripts \in Nat /\ MaxScriptSize \in Nat /\ Budget \in Nat
  BY EngineAssumption
<1> QED BY <1>1, <1>2, <1>3 DEF Loads, Counts, NumbersOf

LEMMA NoLoadInv ==
    /\ NoLoad \in Loads /\ NoLoad.taken + NoLoad.budget <= Budget
    /\ NoLoad.bytes <= MaxScriptSize /\ Counted(NoLoad)
<1>1. NoCounts \in Counts
  BY DEF NoCounts, Counts
<1>2. NoLoad \in Loads
  BY <1>1 DEF NoLoad, Loads
<1>3. /\ NoLoad.left = 0 /\ NoLoad.budget = 0 /\ NoLoad.taken = 0 /\ NoLoad.pc = "idle"
      /\ NoLoad.scripts = 0 /\ NoLoad.bytes = 0 /\ NoLoad.counts = NoCounts
  BY DEF NoLoad
<1> QED BY EngineAssumption, <1>2, <1>3 DEF Counted

\* A load that has just begun.
LEMMA BeginInv ==
    ASSUME NEW d \in Documents,
           load' = [NoLoad EXCEPT !.pc = "document", !.doc = d]
    PROVE  LoadInv'
<1>1. NoLoad \in Loads
  BY NoLoadInv
<1>2. /\ load' \in Loads /\ load'.pc = "document" /\ load'.left = NoLoad.left
      /\ load'.budget = NoLoad.budget /\ load'.taken = NoLoad.taken
      /\ load'.scripts = NoLoad.scripts /\ load'.bytes = NoLoad.bytes
      /\ load'.counts = NoLoad.counts
  BY <1>1 DEF Loads
<1>3. /\ NoLoad.left = 0 /\ NoLoad.budget = 0 /\ NoLoad.taken = 0
      /\ NoLoad.scripts = 0 /\ NoLoad.bytes = 0 /\ NoLoad.counts = NoCounts
  BY DEF NoLoad
<1> QED BY EngineAssumption, <1>2, <1>3 DEF LoadInv, Counted

\* A step of a phase takes one of what is left, at what is left of the budget.
LEMMA SheetsInv ==
    ASSUME LoadInv, config' = config,
           SheetRefused \/ \E size \in Sizes : SheetArrives(size)
    PROVE  LoadInv'
<1>0. /\ load \in Loads /\ NumbersOf(load) /\ load.taken + load.budget <= Budget
      /\ load.bytes <= MaxScriptSize /\ Counted(load)
  BY LoadNumbers DEF LoadInv
<1>1. load.pc = "sheets" /\ load.left - 1 \in Nat
  <2>1. load.pc = "sheets" /\ load.left > 0
    BY DEF SheetRefused, SheetArrives
  <2> QED BY <1>0, <2>1 DEF NumbersOf
<1>2. ASSUME NEW charge \in 0 .. load.budget, NEW counts \in Counts,
             load' = [load EXCEPT !.left = @ - 1, !.budget = @ - charge, !.taken = @ + charge,
                                  !.counts = counts],
             counts.sheetsLoaded + counts.sheetsBlocked
                = load.counts.sheetsLoaded + load.counts.sheetsBlocked + 1,
             counts.imagesLoaded = load.counts.imagesLoaded,
             counts.imagesBlocked = load.counts.imagesBlocked
      PROVE  LoadInv'
  <2>1. load.budget - charge \in Nat /\ load.taken + charge \in Nat
    BY <1>0, <1>2 DEF NumbersOf
  <2>2. /\ load' \in Loads /\ load'.counts = counts
        /\ load'.pc = "sheets" /\ load'.doc = load.doc /\ load'.left = load.left - 1
        /\ load'.budget = load.budget - charge /\ load'.taken = load.taken + charge
        /\ load'.scripts = load.scripts /\ load'.bytes = load.bytes
    BY <1>0, <1>1, <1>2, <2>1 DEF Loads
  <2>3. Counted(load)'
    BY <1>0, <1>1, <1>2, <2>2 DEF Counted, SheetsCounted, NumbersOf, Counts
  <2> QED BY <1>0, <1>2, <2>2, <2>3 DEF LoadInv, NumbersOf
<1>3. CASE load' = [load EXCEPT !.left = @ - 1, !.counts.sheetsBlocked = @ + 1]
  <2> DEFINE counts == [load.counts EXCEPT !.sheetsBlocked = @ + 1]
  <2>1. /\ counts \in Counts /\ counts.sheetsBlocked = load.counts.sheetsBlocked + 1
        /\ counts.sheetsLoaded = load.counts.sheetsLoaded
        /\ counts.imagesLoaded = load.counts.imagesLoaded
        /\ counts.imagesBlocked = load.counts.imagesBlocked
    BY <1>0 DEF Loads, Counts, NumbersOf
  <2>2. load' = [load EXCEPT !.left = @ - 1, !.budget = @ - 0, !.taken = @ + 0, !.counts = counts]
    <3>1. load.budget - 0 = load.budget /\ load.taken + 0 = load.taken
      BY <1>0 DEF NumbersOf
    <3> QED BY <1>0, <1>3, <3>1 DEF Loads
  <2>3. /\ 0 \in 0 .. load.budget
        /\ counts.sheetsLoaded + counts.sheetsBlocked
              = load.counts.sheetsLoaded + load.counts.sheetsBlocked + 1
    BY <1>0, <2>1 DEF NumbersOf
  <2> HIDE DEF counts
  <2> QED BY <1>2, <2>1, <2>2, <2>3
<1>4. ASSUME NEW size \in Sizes, Affords(size),
             load' = [load EXCEPT !.left = @ - 1, !.counts.sheetsLoaded = @ + 1,
                                  !.budget = @ - size, !.taken = @ + size]
      PROVE  LoadInv'
  <2> DEFINE counts == [load.counts EXCEPT !.sheetsLoaded = @ + 1]
  <2>1. /\ counts \in Counts /\ counts.sheetsLoaded = load.counts.sheetsLoaded + 1
        /\ counts.sheetsBlocked = load.counts.sheetsBlocked
        /\ counts.imagesLoaded = load.counts.imagesLoaded
        /\ counts.imagesBlocked = load.counts.imagesBlocked
    BY <1>0 DEF Loads, Counts, NumbersOf
  <2>2. load' = [load EXCEPT !.left = @ - 1, !.budget = @ - size, !.taken = @ + size, !.counts = counts]
    BY <1>0, <1>4 DEF Loads
  <2>3. /\ size \in 0 .. load.budget
        /\ counts.sheetsLoaded + counts.sheetsBlocked
              = load.counts.sheetsLoaded + load.counts.sheetsBlocked + 1
    BY EngineAssumption, <1>0, <1>4, <2>1 DEF Affords, NumbersOf
  <2> HIDE DEF counts
  <2> QED BY <1>2, <2>1, <2>2, <2>3
<1> QED BY <1>3, <1>4 DEF SheetRefused, SheetArrives

\* What an image leaves of a load.
ImageDone(l, left, budget, taken, loaded, failed) ==
    [l EXCEPT !.left = left, !.budget = budget, !.taken = taken,
              !.counts.imagesLoaded = loaded, !.counts.imagesBlocked = failed]

LEMMA ImageLoads ==
    ASSUME NEW l \in Loads, NEW left \in Nat, NEW budget \in Nat, NEW taken \in Nat,
           NEW loaded \in Nat, NEW failed \in Nat
    PROVE  ImageDone(l, left, budget, taken, loaded, failed) \in Loads
<1> DEFINE m == ImageDone(l, left, budget, taken, loaded, failed)
<1>1. m.counts \in Counts
  BY DEF ImageDone, Loads, Counts
<1> QED BY <1>1 DEF ImageDone, Loads

\* An image that is refused costs nothing.
LEMMA ImageFree ==
    ASSUME NEW l \in Loads, NEW left, NEW failed
    PROVE  [l EXCEPT !.left = left, !.counts.imagesBlocked = failed]
             = ImageDone(l, left, l.budget, l.taken, l.counts.imagesLoaded, failed)
BY DEF ImageDone, Loads, Counts

LEMMA ImageDoneInv ==
    ASSUME LoadInv, config' = config, load.pc = "images", load.left - 1 \in Nat,
           NEW charge \in 0 .. load.budget, NEW gained \in 0 .. charge,
           NEW loaded \in 0 .. 1, NEW failed \in 0 .. 2, loaded + failed >= 1,
           load' = ImageDone(load, load.left - 1, load.budget - charge, load.taken + gained,
                             load.counts.imagesLoaded + loaded, load.counts.imagesBlocked + failed)
    PROVE  LoadInv'
<1>0. /\ load \in Loads /\ NumbersOf(load) /\ load.taken + load.budget <= Budget
      /\ load.bytes <= MaxScriptSize /\ Counted(load)
  BY LoadNumbers DEF LoadInv
<1>1. /\ load.budget - charge \in Nat /\ load.taken + gained \in Nat
      /\ load.counts.imagesLoaded + loaded \in Nat /\ load.counts.imagesBlocked + failed \in Nat
  BY <1>0 DEF NumbersOf
<1>2. /\ load' \in Loads /\ load'.pc = load.pc /\ load'.doc = load.doc /\ load'.left = load.left - 1
      /\ load'.budget = load.budget - charge /\ load'.taken = load.taken + gained
      /\ load'.scripts = load.scripts /\ load'.bytes = load.bytes
      /\ load'.counts.imagesLoaded = load.counts.imagesLoaded + loaded
      /\ load'.counts.imagesBlocked = load.counts.imagesBlocked + failed
      /\ load'.counts.sheetsLoaded = load.counts.sheetsLoaded
      /\ load'.counts.sheetsBlocked = load.counts.sheetsBlocked
  <2> DEFINE left == load.left - 1
             budget == load.budget - charge
             taken == load.taken + gained
             kept == load.counts.imagesLoaded + loaded
             lost == load.counts.imagesBlocked + failed
  <2>1. left \in Nat /\ budget \in Nat /\ taken \in Nat /\ kept \in Nat /\ lost \in Nat
    BY <1>1
  <2>2. load' = ImageDone(load, left, budget, taken, kept, lost) /\ load \in Loads
    BY <1>0
  <2>3. /\ load' \in Loads /\ load'.pc = load.pc /\ load'.doc = load.doc /\ load'.left = left
        /\ load'.budget = budget /\ load'.taken = taken
        /\ load'.scripts = load.scripts /\ load'.bytes = load.bytes
        /\ load'.counts.imagesLoaded = kept /\ load'.counts.imagesBlocked = lost
        /\ load'.counts.sheetsLoaded = load.counts.sheetsLoaded
        /\ load'.counts.sheetsBlocked = load.counts.sheetsBlocked
    <3> HIDE DEF left, budget, taken, kept, lost
    <3>1. ImageDone(load, left, budget, taken, kept, lost) = load'
      BY <2>2
    <3>2. load' \in Loads
      BY <2>1, <2>2, <3>1, ImageLoads
    <3>3. /\ load'.pc = load.pc /\ load'.doc = load.doc /\ load'.left = left
          /\ load'.budget = budget /\ load'.taken = taken
          /\ load'.scripts = load.scripts /\ load'.bytes = load.bytes
      BY <2>2, <3>1 DEF ImageDone, Loads
    <3>4. /\ load'.counts.imagesLoaded = kept /\ load'.counts.imagesBlocked = lost
          /\ load'.counts.sheetsLoaded = load.counts.sheetsLoaded
          /\ load'.counts.sheetsBlocked = load.counts.sheetsBlocked
      <4>1. load'.counts = [load.counts EXCEPT !.imagesLoaded = kept, !.imagesBlocked = lost]
        BY <2>2, <3>1 DEF ImageDone, Loads
      <4>2. load.counts \in Counts
        BY <2>2 DEF Loads
      <4> QED BY <4>1, <4>2 DEF Counts
    <3> QED BY <3>2, <3>3, <3>4
  <2> QED BY <2>3
<1>3. Counted(load)'
  <2>1. AtMost(load.doc.images, MaxImages) \in Nat
    BY <1>0 DEF AtMost, NumbersOf
  <2>2. SheetsCounted(load', 0)
    BY <1>0, <1>2 DEF Counted, SheetsCounted
  <2>3. ImagesCounted(load', load'.left)
    BY <1>0, <1>2, <2>1 DEF Counted, ImagesCounted, NumbersOf
  <2>4. load'.scripts = 0 /\ load'.bytes = 0
    BY <1>0, <1>2 DEF Counted
  <2> QED BY <1>2, <2>2, <2>3, <2>4 DEF Counted, SheetsCounted, ImagesCounted
<1>4. load'.taken + load'.budget <= Budget /\ load'.bytes <= MaxScriptSize
  BY <1>0, <1>2 DEF NumbersOf
<1> QED BY <1>2, <1>3, <1>4 DEF LoadInv

LEMMA ImagesInv ==
    ASSUME LoadInv, config' = config,
           ImageRefused \/ \E size \in Sizes, broken \in BOOLEAN, decodes \in BOOLEAN :
                              ImageArrives(size, broken, decodes)
    PROVE  LoadInv'
<1>0. load \in Loads /\ NumbersOf(load)
  BY LoadNumbers DEF LoadInv
<1>1. load.pc = "images" /\ load.left - 1 \in Nat
  <2>1. load.pc = "images" /\ load.left > 0
    BY DEF ImageRefused, ImageArrives
  <2> QED BY <1>0, <2>1 DEF NumbersOf
<1>2. CASE ImageRefused
  <2>1. /\ load.budget - 0 = load.budget /\ load.taken + 0 = load.taken
        /\ load.counts.imagesLoaded + 0 = load.counts.imagesLoaded /\ 0 \in 0 .. load.budget
    BY <1>0 DEF NumbersOf
  <2>2. load' = ImageDone(load, load.left - 1, load.budget, load.taken, load.counts.imagesLoaded,
                          load.counts.imagesBlocked + 1)
    BY <1>0, <1>2, ImageFree DEF ImageRefused
  <2>3. load' = ImageDone(load, load.left - 1, load.budget - 0, load.taken + 0,
                          load.counts.imagesLoaded + 0, load.counts.imagesBlocked + 1)
    BY <2>1, <2>2
  <2> QED BY <1>1, <2>1, <2>3, ImageDoneInv
<1>3. ASSUME NEW size \in Sizes, NEW broken \in BOOLEAN, NEW decodes \in BOOLEAN,
             ImageArrives(size, broken, decodes)
      PROVE  LoadInv'
  <2> DEFINE limit  == Min({load.budget, MaxImageSize})
             charge == IF size <= limit THEN size ELSE 0
             gained == IF size <= limit /\ decodes THEN size ELSE 0
             loaded == IF size <= limit /\ decodes THEN 1 ELSE 0
             failed == (IF broken THEN 1 ELSE 0) + (IF size <= limit /\ decodes THEN 0 ELSE 1)
  <2>1. limit \in Nat /\ limit <= load.budget /\ size \in Nat
    BY EngineAssumption, <1>0, <1>3, MinOfTwo DEF AtMost, NumbersOf
  <2>2. load' = ImageDone(load, load.left - 1, load.budget - charge, load.taken + gained,
                          load.counts.imagesLoaded + loaded, load.counts.imagesBlocked + failed)
    <3>1. /\ load.budget - charge = IF size <= limit THEN load.budget - size ELSE load.budget
          /\ load.taken + gained = IF size <= limit /\ decodes THEN load.taken + size ELSE load.taken
          /\ load.counts.imagesLoaded + loaded
                = IF size <= limit /\ decodes THEN load.counts.imagesLoaded + 1
                                             ELSE load.counts.imagesLoaded
      <4> HIDE DEF limit
      <4> QED BY <1>0, <2>1 DEF NumbersOf
    <3>2. load' = [load EXCEPT
                      !.left = load.left - 1,
                      !.budget = IF size <= limit THEN load.budget - size ELSE load.budget,
                      !.taken  = IF size <= limit /\ decodes THEN load.taken + size ELSE load.taken,
                      !.counts.imagesLoaded = IF size <= limit /\ decodes
                                              THEN load.counts.imagesLoaded + 1
                                              ELSE load.counts.imagesLoaded,
                      !.counts.imagesBlocked = load.counts.imagesBlocked + failed]
      BY <1>3 DEF ImageArrives
    <3> HIDE DEF charge, gained, loaded, failed, limit
    <3> QED BY <3>1, <3>2 DEF ImageDone
  <2>3. /\ charge \in 0 .. load.budget /\ gained \in 0 .. charge
        /\ loaded \in 0 .. 1 /\ failed \in 0 .. 2 /\ loaded + failed >= 1
    <3> HIDE DEF limit
    <3> QED BY <1>0, <2>1 DEF NumbersOf
  <2> HIDE DEF charge, gained, loaded, failed, limit
  <2> QED BY <1>1, <2>2, <2>3, ImageDoneInv
<1> QED BY <1>2, <1>3

\* A script is taken or passed over; all of what is left may be.
LEMMA ScriptDoneInv ==
    ASSUME LoadInv, config' = config, load.pc = "scripts",
           NEW left \in Nat, NEW scripts \in Nat, NEW bytes \in Nat, bytes <= MaxScriptSize,
           left + scripts <= load.left + load.scripts,
           load' = [load EXCEPT !.left = left, !.bytes = bytes, !.scripts = scripts]
    PROVE  LoadInv'
<1>0. /\ load \in Loads /\ NumbersOf(load) /\ load.taken + load.budget <= Budget
      /\ load.bytes <= MaxScriptSize /\ Counted(load)
  BY LoadNumbers DEF LoadInv
<1>1. /\ load' \in Loads
      /\ load'.pc = "scripts" /\ load'.doc = load.doc /\ load'.left = left
      /\ load'.budget = load.budget /\ load'.taken = load.taken
      /\ load'.scripts = scripts /\ load'.bytes = bytes /\ load'.counts = load.counts
  BY <1>0 DEF Loads
<1>2. Counted(load)'
  BY <1>0, <1>1 DEF Counted, SheetsCounted, ImagesCounted, NumbersOf
<1> QED BY <1>0, <1>1, <1>2 DEF LoadInv, NumbersOf

LEMMA ScriptsInv ==
    ASSUME LoadInv, config' = config,
           ScriptRefused \/ \E size \in Sizes : ScriptArrives(size)
    PROVE  LoadInv'
<1>0. load \in Loads /\ NumbersOf(load) /\ load.bytes <= MaxScriptSize
  BY LoadNumbers DEF LoadInv
<1>1. load.pc = "scripts" /\ load.left - 1 \in Nat
  <2>1. load.pc = "scripts" /\ load.left > 0
    BY DEF ScriptRefused, ScriptArrives
  <2> QED BY <1>0, <2>1 DEF NumbersOf
<1>2. ASSUME NEW size \in Nat, load.bytes + size <= MaxScriptSize,
             load' = [load EXCEPT !.left = @ - 1, !.bytes = @ + size, !.scripts = @ + 1]
      PROVE  LoadInv'
  <2>1. /\ load.bytes + size \in Nat /\ load.scripts + 1 \in Nat
        /\ (load.left - 1) + (load.scripts + 1) <= load.left + load.scripts
    BY <1>0, <1>2 DEF NumbersOf
  <2> QED BY <1>1, <1>2, <2>1, ScriptDoneInv
<1>3. ASSUME NEW left \in Nat, left <= load.left, load' = [load EXCEPT !.left = left]
      PROVE  LoadInv'
  <2>1. load' = [load EXCEPT !.left = left, !.bytes = load.bytes, !.scripts = load.scripts]
    BY <1>0, <1>3 DEF Loads
  <2>2. load.bytes \in Nat /\ load.scripts \in Nat /\ left + load.scripts <= load.left + load.scripts
    BY <1>0, <1>3 DEF NumbersOf
  <2> QED BY <1>0, <1>1, <2>1, <2>2, ScriptDoneInv
<1>4. load.left - 1 <= load.left /\ 0 <= load.left /\ 0 \in Nat
  BY <1>0 DEF NumbersOf
<1>5. ASSUME NEW size \in Sizes, ScriptArrives(size) PROVE LoadInv'
  <2>1. size \in Nat
    BY EngineAssumption, <1>5
  <2>2. CASE load.bytes >= MaxScriptSize
    BY <1>3, <1>4, <1>5, <2>2 DEF ScriptArrives
  <2>3. CASE ~ (load.bytes >= MaxScriptSize) /\ size > MaxScriptSize - load.bytes
    BY <1>1, <1>3, <1>4, <1>5, <2>3 DEF ScriptArrives
  <2>4. CASE ~ (load.bytes >= MaxScriptSize) /\ ~ (size > MaxScriptSize - load.bytes)
    <3>1. load.bytes + size <= MaxScriptSize
      BY <1>0, <2>1, <2>4 DEF NumbersOf
    <3> QED BY <1>2, <1>5, <2>1, <2>4, <3>1 DEF ScriptArrives
  <2> QED BY <2>2, <2>3, <2>4
<1>6. CASE ScriptRefused
  BY <1>1, <1>3, <1>4, <1>6 DEF ScriptRefused
<1> QED BY <1>5, <1>6

\* A phase begins with the whole budget and nothing taken of it.
PhaseBegun(l, pc, budget, left) ==
    [l EXCEPT !.pc = pc, !.budget = budget, !.taken = 0, !.left = left]

LEMMA PhaseLoads ==
    ASSUME NEW l \in Loads, NEW pc \in {"sheets", "images", "scripts", "build"},
           NEW budget \in Nat, NEW left \in Nat
    PROVE  PhaseBegun(l, pc, budget, left) \in Loads
BY DEF PhaseBegun, Loads

LEMMA PhaseInv ==
    ASSUME LoadInv, config' = config,
           NEW pc \in {"sheets", "images", "scripts", "build"}, load' = Phase(load, pc),
           \/ load.pc = "document" /\ pc = "sheets"
           \/ load.pc = "document" /\ pc = "build" /\ ~ (config.subresources /\ config.network)
           \/ load.pc = "sheets" /\ load.left = 0 /\ pc = "images"
           \/ load.pc = "images" /\ load.left = 0 /\ pc = "scripts"
           \/ load.pc = "scripts" /\ load.left = 0 /\ pc = "build"
    PROVE  LoadInv'
<1>0. /\ load \in Loads /\ NumbersOf(load) /\ load.taken + load.budget <= Budget
      /\ load.bytes <= MaxScriptSize /\ Counted(load)
  BY LoadNumbers DEF LoadInv
<1> DEFINE left == IF pc = "sheets" THEN AtMost(load.doc.sheets, MaxSheets)
                   ELSE IF pc = "images" THEN AtMost(load.doc.images, MaxImages)
                   ELSE IF pc = "scripts" THEN AtMost(load.doc.scripts, MaxScripts) ELSE 0
<1>1. load' = PhaseBegun(load, pc, Budget, left)
  <2>1. /\ Min({load.doc.sheets, MaxSheets}) = AtMost(load.doc.sheets, MaxSheets)
        /\ Min({load.doc.images, MaxImages}) = AtMost(load.doc.images, MaxImages)
        /\ Min({load.doc.scripts, MaxScripts}) = AtMost(load.doc.scripts, MaxScripts)
    BY <1>0, MinOfTwo DEF NumbersOf
  <2> QED BY <2>1 DEF Phase, PhaseBegun
<1>2. left \in Nat /\ (pc = "scripts" => left <= MaxScripts) /\ (pc = "build" => left = 0)
  BY <1>0 DEF AtMost, NumbersOf
<1>3. /\ load' \in Loads
      /\ load'.pc = pc /\ load'.doc = load.doc /\ load'.left = left
      /\ load'.budget = Budget /\ load'.taken = 0
      /\ load'.scripts = load.scripts /\ load'.bytes = load.bytes /\ load'.counts = load.counts
  <2>1. Budget \in Nat
    BY <1>0 DEF NumbersOf
  <2>2. load \in Loads /\ left \in Nat
    BY <1>0, <1>2
  <2> HIDE DEF left
  <2>3. load' \in Loads
    BY <1>1, <2>1, <2>2, PhaseLoads
  <2>4. /\ load'.pc = pc /\ load'.doc = load.doc /\ load'.left = left
        /\ load'.budget = Budget /\ load'.taken = 0
        /\ load'.scripts = load.scripts /\ load'.bytes = load.bytes /\ load'.counts = load.counts
    BY <1>1, <2>2 DEF PhaseBegun, Loads
  <2> QED BY <2>3, <2>4
<1>4. Counted(load)'
  <2>0. /\ NoCounts.sheetsLoaded = 0 /\ NoCounts.sheetsBlocked = 0
        /\ NoCounts.imagesLoaded = 0 /\ NoCounts.imagesBlocked = 0
    BY DEF NoCounts
  <2>1. CASE pc = "sheets"
    <3>1. load.counts = NoCounts /\ load.scripts = 0 /\ load.bytes = 0
      BY <1>0, <2>1 DEF Counted
    <3>2. left = AtMost(load.doc.sheets, MaxSheets) /\ left \in Nat
      BY <1>2, <2>1
    <3> QED BY <1>3, <2>0, <2>1, <3>1, <3>2 DEF Counted, SheetsCounted
  <2>2. CASE pc = "images"
    <3>1. SheetsCounted(load, 0) /\ load.scripts = 0 /\ load.bytes = 0
          /\ load.counts.imagesLoaded = 0 /\ load.counts.imagesBlocked = 0
      BY <1>0, <2>2 DEF Counted
    <3>2. left = AtMost(load.doc.images, MaxImages) /\ left \in Nat
      BY <1>2, <2>2
    <3> QED BY <1>3, <2>2, <3>1, <3>2 DEF Counted, SheetsCounted, ImagesCounted
  <2>3. CASE pc = "scripts"
    <3>1. SheetsCounted(load, 0) /\ ImagesCounted(load, 0) /\ load.scripts = 0
      BY <1>0, <2>3 DEF Counted
    <3> HIDE DEF left
    <3> QED BY <1>2, <1>3, <2>3, <3>1 DEF Counted, SheetsCounted, ImagesCounted
  <2>4. CASE pc = "build"
    <3>1. /\ load.scripts <= MaxScripts
          /\ config.subresources /\ config.network => SheetsCounted(load, 0) /\ ImagesCounted(load, 0)
      BY <1>0, <2>4 DEF Counted, NumbersOf
    <3> HIDE DEF left
    <3> QED BY <1>2, <1>3, <2>4, <3>1 DEF Counted, SheetsCounted, ImagesCounted
  <2> QED BY <2>1, <2>2, <2>3, <2>4
<1>5. load'.taken + load'.budget <= Budget /\ load'.bytes <= MaxScriptSize
  BY <1>0, <1>3 DEF NumbersOf
<1> QED BY <1>3, <1>4, <1>5 DEF LoadInv

LEMMA NextLoad == ASSUME LoadInv, [EngineNext]_engineVars PROVE LoadInv'
<1>1. CASE UNCHANGED <<config, load>>
  BY <1>1 DEF LoadInv, Counted
<1>2. CASE \E d \in Documents : LoadUrl(d)
  BY <1>2, BeginInv DEF LoadUrl
<1>3. ASSUME load' = NoLoad PROVE LoadInv'
  <2>1. NoLoad.pc = "idle"
    BY DEF NoLoad
  <2> QED BY <1>3, <2>1, NoLoadInv DEF LoadInv, Counted
<1>4. CASE \E d \in Documents : RenderHtml(d)
  BY <1>3, <1>4 DEF RenderHtml, BuildPage
<1>5. CASE NetprocDies
  BY <1>1, <1>5 DEF NetprocDies
<1>6. CASE LoadStep
  <2>1. CASE LoadFails \/ Build
    BY <1>3, <2>1 DEF LoadFails, Build, BuildPage
  <2>2. CASE DocumentArrives
    BY <1>3, <2>2, PhaseInv DEF DocumentArrives
  <2>3. CASE NextPhase
    BY <2>3, PhaseInv DEF NextPhase
  <2>4. CASE SheetRefused \/ \E size \in Sizes : SheetArrives(size)
    <3>1. config' = config
      BY <2>4 DEF SheetRefused, SheetArrives
    <3> QED BY <2>4, <3>1, SheetsInv
  <2>5. CASE ImageRefused \/ \E size \in Sizes, broken \in BOOLEAN, decodes \in BOOLEAN :
                                ImageArrives(size, broken, decodes)
    <3>1. config' = config
      BY <2>5 DEF ImageRefused, ImageArrives
    <3> QED BY <2>5, <3>1, ImagesInv
  <2>6. CASE ScriptRefused \/ \E size \in Sizes : ScriptArrives(size)
    <3>1. config' = config
      BY <2>6 DEF ScriptRefused, ScriptArrives
    <3> QED BY <2>6, <3>1, ScriptsInv
  <2> QED BY <1>6, <2>1, <2>2, <2>3, <2>4, <2>5, <2>6 DEF LoadStep
<1>7. CASE FrameTick
  BY <1>1, <1>7 DEF FrameTick, TickAnimations
<1>8. CASE UNCHANGED engineVars
  BY <1>1, <1>8 DEF engineVars
<1> QED BY <1>2, <1>4, <1>5, <1>6, <1>7, <1>8 DEF EngineNext

\* What is kept of a page's subresources stays within the budgets, and when the
\* page is built everything it refers to is in its report.
THEOREM BudgetsAreKept == EngineSpec => []BudgetKept
<1>1. EngineInit => LoadInv
  BY NoLoadInv DEF EngineInit, LoadInv
<1>2. LoadInv /\ [EngineNext]_engineVars => LoadInv'
  BY NextLoad
<1>3. LoadInv => BudgetKept
  <2> SUFFICES ASSUME LoadInv PROVE BudgetKept
    OBVIOUS
  <2>1. load \in Loads /\ NumbersOf(load) /\ Counted(load)
    BY LoadNumbers DEF LoadInv
  <2>2. load.taken <= Budget /\ load.bytes <= MaxScriptSize
    BY <2>1 DEF LoadInv, NumbersOf
  <2>3. load.pc \in {"idle", "document", "sheets", "images", "scripts", "build"}
    BY <2>1 DEF Loads
  <2>4. load.scripts <= MaxScripts
    BY <2>1, <2>3 DEF Counted, NumbersOf
  <2>5. /\ Min({load.doc.sheets, MaxSheets}) = AtMost(load.doc.sheets, MaxSheets)
        /\ Min({load.doc.images, MaxImages}) = AtMost(load.doc.images, MaxImages)
        /\ AtMost(load.doc.sheets, MaxSheets) \in Nat /\ AtMost(load.doc.images, MaxImages) \in Nat
    BY <2>1, MinOfTwo DEF NumbersOf, AtMost
  <2>6. load.pc = "build" /\ config.subresources /\ config.network
            => Accounted(load.doc, load.counts)
    BY <2>1, <2>5 DEF Counted, SheetsCounted, ImagesCounted, Accounted, NumbersOf
  <2> QED BY <2>2, <2>4, <2>6 DEF BudgetKept
<1> QED BY <1>1, <1>2, <1>3, PTL DEF EngineSpec

-----------------------------------------------------------------------------
(* Cascade.                                                                *)

ParsedRules ==
    [selector : Seq(Parts), declaration : {d \in ParsedDeclarations : Declared(d)}, order : Nat]

ParsedSheets == [rules : Seq(ParsedRules), media : Seq([query : MediaQueries, rules : Seq(ParsedRules)])]

\* Only what parses is in a sheet or a style attribute.
StyleInv ==
    /\ sheets \in Seq(ParsedSheets) /\ sheet \in ParsedSheets
    /\ inline \in [DOMAIN Elements -> {d \in ParsedDeclarations : Declared(d)} \cup {NoDeclaration}]

LEMMA StyleInitInv == StyleInit => StyleInv
<1> SUFFICES ASSUME StyleInit PROVE StyleInv
  OBVIOUS
<1>1. UaSheet \in ParsedSheets
  <2> DEFINE r(i) == Rule(UaRules[i].selector, UaRules[i].declaration, i - 1)
             t == [i \in DOMAIN UaRules |-> r(i)]
  <2>1. Len(UaRules) \in Nat /\ DOMAIN UaRules = 1 .. Len(UaRules)
    BY StyleAssumption
  <2>2. ASSUME NEW i \in 1 .. Len(UaRules) PROVE r(i) \in ParsedRules
    <3>1. UaRules[i] \in [selector : Seq(Parts), declaration : ParsedDeclarations] /\ Declared(UaRules[i].declaration)
      <4> DEFINE X == [selector : Seq(Parts), declaration : ParsedDeclarations]
      <4>1. UaRules \in Seq(X) /\ \A j \in DOMAIN UaRules : Declared(UaRules[j].declaration)
        BY StyleAssumption
      <4> HIDE DEF X
      <4>2. UaRules[i] \in X
        BY <2>1, <4>1
      <4> QED BY <2>1, <4>1, <4>2 DEF X
    <3>2. i - 1 \in Nat
      BY <2>1
    <3> QED BY <3>1, <3>2 DEF ParsedRules, Rule
  <2> HIDE DEF r
  <2>3. t \in Seq(ParsedRules)
    BY <2>1, <2>2
  <2>4. UaSheet = [rules |-> t, media |-> <<>>]
    BY DEF UaSheet, r
  <2> HIDE DEF t
  <2>5. <<>> \in Seq([query : MediaQueries, rules : Seq(ParsedRules)])
    OBVIOUS
  <2> QED BY <2>3, <2>4, <2>5 DEF ParsedSheets
<1>2. NoSheet \in ParsedSheets
  BY DEF NoSheet, ParsedSheets
<1> HIDE DEF UaSheet
<1>3. <<UaSheet>> \in Seq(ParsedSheets)
  BY <1>1
<1> QED BY <1>2, <1>3 DEF StyleInit, StyleInv

LEMMA StyleNextInv == StyleInv /\ [StyleNext]_styleVars => StyleInv'
<1> SUFFICES ASSUME StyleInv, [StyleNext]_styleVars PROVE StyleInv'
  OBVIOUS
<1> DEFINE D == {d \in ParsedDeclarations : Declared(d)}
           M == [query : MediaQueries, rules : Seq(ParsedRules)]
<1>0. /\ sheets \in Seq(ParsedSheets) /\ sheet \in ParsedSheets
      /\ inline \in [DOMAIN Elements -> D \cup {NoDeclaration}]
  BY DEF StyleInv
<1>1. \A s \in Selectors, d \in Declarations : Declared(d) => s \in Seq(Parts) /\ d \in D
  BY StyleAssumption
<1>2. sheet.rules \in Seq(ParsedRules) /\ sheet.media \in Seq(M) /\ Len(sheet.rules) \in Nat
  BY <1>0 DEF ParsedSheets
<1>3. ASSUME NEW s \in Selectors, NEW d \in Declarations, Declared(d)
      PROVE  Rule(s, d, Len(sheet.rules)) \in ParsedRules
  BY <1>1, <1>2, <1>3 DEF Rule, ParsedRules
<1>4. CASE AddStylesheet
  <2>1. sheets' = Append(sheets, sheet) /\ sheet' = NoSheet /\ inline' = inline
    BY <1>4 DEF AddStylesheet
  <2>2. NoSheet \in ParsedSheets
    BY DEF NoSheet, ParsedSheets
  <2> HIDE DEF NoSheet
  <2>3. Append(sheets, sheet) \in Seq(ParsedSheets)
    BY <1>0
  <2> QED BY <1>0, <2>1, <2>2, <2>3 DEF StyleInv
<1>5. ASSUME NEW w \in Widths, SetMediaContext(w) PROVE StyleInv'
  BY <1>5 DEF SetMediaContext, StyleInv
<1>6. ASSUME NEW d \in Declarations, NEW e \in DOMAIN Elements, SetInline(e, d) PROVE StyleInv'
  <2>1. d \in D /\ inline' = [inline EXCEPT ![e] = d] /\ sheets' = sheets /\ sheet' = sheet
    BY <1>6, StyleAssumption DEF SetInline
  <2> HIDE DEF D
  <2>2. inline' \in [DOMAIN Elements -> D \cup {NoDeclaration}]
    BY <1>0, <2>1
  <2> QED BY <1>0, <2>1, <2>2 DEF StyleInv, D
<1>7. ASSUME NEW d \in Declarations, NEW s \in Selectors, ParseRule(s, d) PROVE StyleInv'
  <2> DEFINE r == Rule(s, d, Len(sheet.rules))
             t == Append(sheet.rules, r)
  <2>1. /\ Declared(d) /\ sheets' = sheets /\ inline' = inline
        /\ sheet' = [sheet EXCEPT !.rules = t]
    BY <1>7 DEF ParseRule
  <2>2. t \in Seq(ParsedRules)
    <3>1. r \in ParsedRules
      BY <1>3, <2>1
    <3> HIDE DEF r
    <3> QED BY <1>2, <3>1
  <2> HIDE DEF t
  <2>3. sheet' \in ParsedSheets
    BY <1>0, <2>1, <2>2 DEF ParsedSheets
  <2> QED BY <1>0, <2>1, <2>3 DEF StyleInv
<1>8. ASSUME NEW d \in Declarations, NEW s \in Selectors, NEW q \in MediaQueries, ParseMedia(q, s, d) PROVE StyleInv'
  <2> DEFINE r == Rule(s, d, Len(sheet.rules))
             m == [query |-> q, rules |-> <<r>>]
             t == Append(sheet.media, m)
  <2>1. /\ Declared(d) /\ sheets' = sheets /\ inline' = inline
        /\ sheet' = [sheet EXCEPT !.media = t]
    BY <1>8 DEF ParseMedia
  <2>2. m \in M
    <3>1. r \in ParsedRules
      BY <1>3, <2>1
    <3> HIDE DEF r
    <3>2. <<r>> \in Seq(ParsedRules)
      BY <3>1
    <3> QED BY <3>2
  <2> HIDE DEF m, M
  <2>3. t \in Seq(M)
    BY <1>2, <2>2
  <2> HIDE DEF t
  <2>4. sheet' \in ParsedSheets
    BY <1>0, <2>1, <2>3 DEF ParsedSheets, M
  <2> QED BY <1>0, <2>1, <2>4 DEF StyleInv
<1>9. CASE UNCHANGED styleVars
  BY <1>9 DEF styleVars, StyleInv
<1> QED BY <1>4, <1>5, <1>6, <1>7, <1>8, <1>9 DEF StyleNext

\* A specificity is a number.
LEMMA SpecificityType ==
    ASSUME NEW selector \in Seq(Parts)
    PROVE  Specificity(selector) \in Nat
<1> DEFINE Of(part) == (IF part.tag = "" THEN 0 ELSE 1)
                         + 256 * Cardinality({f \in {"class", "attr", "pseudo"} : part[f] # ""})
           n == Len(selector)
           Is(f) == f = [k \in 0 .. n |-> IF k = 0 THEN 0 ELSE f[k - 1] + Of(Parsed(selector[k]))]
           F == [k \in 1 .. n |-> [x \in Nat |-> x + Of(Parsed(selector[k]))]]
<1>1. n \in Nat
  OBVIOUS
<1>2. \A part : Of(part) \in Nat
  <2> TAKE part
  <2> DEFINE C == {f \in {"class", "attr", "pseudo"} : part[f] # ""}
  <2>1. IsFiniteSet({})
    BY FS_EmptySet
  <2>2. IsFiniteSet({"class"})
    BY <2>1, FS_AddElement, {} \cup {"class"} = {"class"}
  <2>3. IsFiniteSet({"class"} \cup {"attr"})
    BY <2>2, FS_AddElement
  <2>4. IsFiniteSet({"class", "attr", "pseudo"})
    <3>1. IsFiniteSet(({"class"} \cup {"attr"}) \cup {"pseudo"})
      BY <2>3, FS_AddElement
    <3>2. ({"class"} \cup {"attr"}) \cup {"pseudo"} = {"class", "attr", "pseudo"}
      OBVIOUS
    <3> QED BY <3>1, <3>2
  <2>5. IsFiniteSet(C) /\ Cardinality(C) \in Nat
    BY <2>4, FS_Subset, FS_CardinalityType
  <2> HIDE DEF C
  <2>6. \A x \in Nat : 256 * x \in Nat /\ 0 + 256 * x \in Nat /\ 1 + 256 * x \in Nat
    OBVIOUS
  <2>7. (IF part.tag = "" THEN 0 ELSE 1) + 256 * Cardinality(C) \in Nat
    <3>1. CASE part.tag = ""
      BY <2>5, <2>6, <3>1
    <3>2. CASE part.tag # ""
      BY <2>5, <2>6, <3>2
    <3> QED BY <3>1, <3>2
  <2> QED BY <2>7 DEF C
<1> HIDE DEF Of, n
<1>3. StepsWithin(F, Nat, n)
  <2>1. \A k \in 1 .. n, x \in Nat : x + Of(Parsed(selector[k])) \in Nat
    BY <1>2
  <2> QED BY <2>1 DEF StepsWithin
<1>4. PICK g : IsRun(g, F, Nat, 0, n)
  <2> HIDE DEF F
  <2> QED BY <1>1, <1>3, RunExists
<1>5. Is(g)
  <2>1. ASSUME NEW k \in 1 .. n PROVE g[k] = g[k - 1] + Of(Parsed(selector[k]))
    <3>1. k - 1 \in 0 .. n /\ g \in [0 .. n -> Nat] /\ g[k] = F[k][g[k - 1]]
      <4> HIDE DEF F
      <4> QED BY <1>1, <1>4 DEF IsRun
    <3> QED BY <3>1
  <2>2. g \in [0 .. n -> Nat] /\ g[0] = 0
    <3> HIDE DEF F
    <3> QED BY <1>4 DEF IsRun
  <2>3. \A k \in 0 .. n : k = 0 \/ k \in 1 .. n
    BY <1>1
  <2> QED BY <2>1, <2>2, <2>3
<1> DEFINE h == CHOOSE f : Is(f)
<1>6. Is(h)
  BY <1>5
<1>7. Specificity(selector) = h[n]
  BY DEF Specificity, n, Of
<1> HIDE DEF h
<1> DEFINE T == {k \in 0 .. n : h[k] \in Nat}
<1>8. 0 \in T
  BY <1>1, <1>6
<1>9. ASSUME NEW k \in 1 .. n, k - 1 \in T PROVE k \in T
  BY <1>1, <1>2, <1>6, <1>9
<1>10. \A k \in 0 .. n : k \in T
  <2> HIDE DEF T
  <2> QED BY <1>1, <1>8, <1>9, NumberInduction
<1>11. n \in 0 .. n
  BY <1>1
<1> QED BY <1>7, <1>10, <1>11

Hits == [rule : ParsedRules, specificity : Nat, sheet : Nat, media : BOOLEAN]

\* Rules that match, of those of a sheet or a media rule.
LEMMA HitsOf ==
    ASSUME NEW rules \in Seq(ParsedRules), NEW S, NEW s \in Nat, NEW media \in BOOLEAN
    PROVE  LET hit == Retained(rules, S)
           IN  [i \in DOMAIN hit |-> [rule |-> hit[i], specificity |-> Specificity(hit[i].selector),
                                      sheet |-> s, media |-> media]] \in Seq(Hits)
<1> DEFINE hit == Retained(rules, S)
           of(i) == [rule |-> hit[i], specificity |-> Specificity(hit[i].selector),
                     sheet |-> s, media |-> media]
<1>1. hit \in Seq(ParsedRules)
  BY RetainedMembers
<1> HIDE DEF hit
<1>2. Len(hit) \in Nat /\ DOMAIN hit = 1 .. Len(hit)
  BY <1>1
<1>3. ASSUME NEW i \in 1 .. Len(hit) PROVE of(i) \in Hits
  <2>1. hit[i] \in ParsedRules
    BY <1>1, <1>2
  <2>2. hit[i].selector \in Seq(Parts)
    BY <2>1 DEF ParsedRules
  <2>3. Specificity(hit[i].selector) \in Nat
    BY <2>2, SpecificityType
  <2> QED BY <2>1, <2>3 DEF Hits
<1> HIDE DEF of
<1>4. [i \in 1 .. Len(hit) |-> of(i)] \in Seq(Hits)
  BY <1>2, <1>3
<1> QED BY <1>2, <1>4 DEF of, hit

LEMMA FoundTypes ==
    ASSUME StyleInv, NEW s \in DOMAIN sheets, NEW e
    PROVE  Matching(s, e) \in Seq(Hits)
<1> DEFINE Passing(rules) == {r \in ToSet(rules) : Matches(r.selector, e)}
           Of(rules, media) == [i \in DOMAIN Retained(rules, Passing(rules)) |->
                [rule |-> Retained(rules, Passing(rules))[i],
                 specificity |-> Specificity(Retained(rules, Passing(rules))[i].selector),
                 sheet |-> s, media |-> media]]
           all == sheets[s].media
           queried == Retained(all, {m \in ToSet(all) : Evaluate(m.query)})
           t == [i \in DOMAIN queried |-> Of(queried[i].rules, TRUE)]
           M == [query : MediaQueries, rules : Seq(ParsedRules)]
<1>1. s \in Nat /\ sheets[s] \in ParsedSheets
  BY DEF StyleInv
<1>2. sheets[s].rules \in Seq(ParsedRules) /\ all \in Seq(M)
  BY <1>1 DEF ParsedSheets
<1>3. Matching(s, e) = Of(sheets[s].rules, FALSE) \o FlattenSeq(t)
  BY DEF Matching
<1>4. ASSUME NEW rules \in Seq(ParsedRules), NEW media \in BOOLEAN PROVE Of(rules, media) \in Seq(Hits)
  BY <1>1, HitsOf
<1> HIDE DEF Of, all, M
<1>5. queried \in Seq(M)
  BY <1>2, RetainedMembers
<1> HIDE DEF queried
<1>6. t \in Seq(Seq(Hits))
  <2>1. Len(queried) \in Nat /\ DOMAIN queried = 1 .. Len(queried)
    BY <1>5
  <2>2. \A m \in M : m.rules \in Seq(ParsedRules)
    BY DEF M
  <2> DEFINE of(i) == Of(queried[i].rules, TRUE)
  <2>3. ASSUME NEW i \in 1 .. Len(queried) PROVE of(i) \in Seq(Hits)
    <3>1. queried[i] \in M
      BY <1>5, <2>1
    <3>2. queried[i].rules \in Seq(ParsedRules)
      BY <2>2, <3>1
    <3> QED BY <1>4, <3>2
  <2>4. t = [i \in 1 .. Len(queried) |-> of(i)]
    BY <2>1
  <2> HIDE DEF of, t
  <2> QED BY <2>1, <2>3, <2>4
<1> HIDE DEF t
<1>7. FlattenSeq(t) \in Seq(Hits)
  BY <1>6, FlattenFacts
<1> DEFINE own == Of(sheets[s].rules, FALSE)
<1>8. own \in Seq(Hits)
  BY <1>2, <1>4
<1>9. Matching(s, e) = own \o FlattenSeq(t)
  BY <1>3
<1> HIDE DEF own
<1> QED BY <1>7, <1>8, <1>9, ConcatMembers

\* Later is not before.
InCascade(m) == \A i, j \in DOMAIN m : i < j => ~ Before(m[j], m[i])

LEMMA MatchedFacts ==
    ASSUME StyleInv, NEW e
    PROVE  Matched(e) \in Seq(Hits) /\ InCascade(Matched(e))
<1> DEFINE t == [s \in DOMAIN sheets |-> Matching(s, e)]
           all == FlattenSeq(t)
           n == Len(all)
           Earlier(i) == {j \in DOMAIN all :
                            Before(all[j], all[i]) \/ (~ Before(all[i], all[j]) /\ j < i)}
           at(k) == CHOOSE i \in DOMAIN all : Cardinality(Earlier(i)) = k - 1
           R == {p \in (1 .. n) \X (1 .. n) :
                    Before(all[p[1]], all[p[2]]) \/ (~ Before(all[p[2]], all[p[1]]) /\ p[1] < p[2])}
<1>1. all \in Seq(Hits)
  <2>1. t \in Seq(Seq(Hits))
    <3>1. Len(sheets) \in Nat /\ DOMAIN sheets = 1 .. Len(sheets)
      BY DEF StyleInv
    <3>2. \A s \in 1 .. Len(sheets) : Matching(s, e) \in Seq(Hits)
      BY <3>1, FoundTypes
    <3> QED BY <3>1, <3>2
  <2> HIDE DEF t
  <2> QED BY <2>1, FlattenFacts
<1>2. Matched(e) = [k \in DOMAIN all |-> all[at(k)]]
  BY DEF Matched
<1> HIDE DEF t, all
<1>3. n \in Nat /\ DOMAIN all = 1 .. n
  BY <1>1
<1>4. \A i \in 1 .. n : all[i].specificity \in Int /\ all[i].rule.order \in Int
  <2> TAKE i \in 1 .. n
  <2>1. all[i] \in Hits
    BY <1>1, <1>3
  <2>2. all[i].specificity \in Nat /\ all[i].rule \in ParsedRules
    BY <2>1 DEF Hits
  <2>3. all[i].rule.order \in Nat
    BY <2>2 DEF ParsedRules
  <2> QED BY <2>2, <2>3
<1> DEFINE Is(i, j) == Before(all[i], all[j]) \/ (~ Before(all[j], all[i]) /\ i < j)
<1>5. \A i, j \in 1 .. n : <<i, j>> \in R <=> Is(i, j)
  OBVIOUS
<1>6. OrdersUpTo(R, n)
  <2>1. \A i \in 1 .. n : ~ Is(i, i)
    BY <1>4 DEF Before
  <2>2. \A i, j \in 1 .. n : i # j => Is(i, j) \/ Is(j, i)
    BY <1>4 DEF Before
  <2>3. \A i, j, k \in 1 .. n : Is(i, j) /\ Is(j, k) => Is(i, k)
    BY <1>4 DEF Before
  <2> HIDE DEF Is, R
  <2> QED BY <1>5, <2>1, <2>2, <2>3 DEF OrdersUpTo
<1>7. \A i \in 1 .. n : Cardinality(Earlier(i)) = RankBefore(R, n, i)
  <2> TAKE i \in 1 .. n
  <2>1. Earlier(i) = {j \in 1 .. n : <<j, i>> \in R}
    BY <1>3, <1>5
  <2> HIDE DEF Earlier, R
  <2> QED BY <2>1 DEF RankBefore
<1> HIDE DEF R, Earlier
<1>8. \A k \in 1 .. n : at(k) \in 1 .. n /\ RankBefore(R, n, at(k)) = k - 1
  <2> TAKE k \in 1 .. n
  <2>1. PICK i \in 1 .. n : RankBefore(R, n, i) = k - 1
    BY <1>3, <1>6, CountingSorts
  <2>2. \E i2 \in DOMAIN all : Cardinality(Earlier(i2)) = k - 1
    BY <1>3, <1>7, <2>1
  <2> QED BY <1>3, <1>7, <2>2
<1> HIDE DEF at
<1> DEFINE r == Matched(e)
<1>9. DOMAIN r = 1 .. n /\ \A k \in 1 .. n : r[k] = all[at(k)]
  BY <1>2, <1>3
<1>10. r \in Seq(Hits)
  <2>1. \A k \in 1 .. n : r[k] \in Hits
    BY <1>1, <1>3, <1>8, <1>9
  <2>2. r = [k \in 1 .. n |-> r[k]]
    BY <1>2, <1>3, <1>9
  <2> HIDE DEF r
  <2> QED BY ONLY <1>3, <2>1, <2>2
<1>11. ASSUME NEW i \in 1 .. n, NEW j \in 1 .. n, i < j PROVE ~ Before(r[j], r[i])
  <2> DEFINE a == at(i)
             b == at(j)
  <2>1. RankBefore(R, n, a) < RankBefore(R, n, b) /\ a \in 1 .. n /\ b \in 1 .. n
    BY <1>8, <1>11
  <2> HIDE DEF a, b
  <2>2. <<a, b>> \in R
    BY <1>3, <1>6, <2>1, CountingSorts
  <2>3. Is(a, b) /\ a # b
    BY <1>5, <1>6, <2>1, <2>2 DEF OrdersUpTo
  <2>4. ~ Before(all[b], all[a])
    BY <1>4, <2>1, <2>3 DEF Before
  <2> QED BY <1>9, <2>4 DEF a, b
<1> QED BY <1>9, <1>10, <1>11 DEF InCascade

GoodDeclarations == {d \in ParsedDeclarations : Declared(d)}

StyleTexts == WrittenTexts \cup {"", "black", "0"}

TextValues == [ref : {""}, text : StyleTexts]

Customs == UNION {[D -> TextValues] : D \in SUBSET Custom}

StyleRecords == [color : StyleTexts, margin : StyleTexts, custom : Customs]

\* What a value is resolved to is a text, when all custom properties are.
LEMMA ResolvedText ==
    ASSUME NEW value \in WrittenValues, NEW custom \in Customs
    PROVE  /\ Resolved(value, custom) \in TextValues
           /\ ~ IsRef(value) => Resolved(value, custom) = value
<1> DEFINE n == Cardinality(Custom) + 1
           Looked(v) == IF ~ IsRef(v) THEN v
                        ELSE IF v.ref \in DOMAIN custom THEN custom[v.ref]
                        ELSE IF v.text = NoFallback THEN Text("") ELSE Text(v.text)
           Is(f) == f = [k \in 0 .. n |-> IF k = 0 THEN value ELSE Looked(f[k - 1])]
           S == WrittenValues \cup TextValues
           F == [k \in 1 .. n |-> [v \in S |-> Looked(v)]]
<1>1. n \in Nat /\ n # 0
  <2>1. IsFiniteSet({"--a"}) /\ IsFiniteSet({"--a"} \cup {"--b"})
    <3>1. IsFiniteSet({} \cup {"--a"})
      BY FS_EmptySet, FS_AddElement
    <3>2. {} \cup {"--a"} = {"--a"}
      OBVIOUS
    <3>3. IsFiniteSet({"--a"})
      BY <3>1, <3>2
    <3> QED BY <3>3, FS_AddElement
  <2>2. Custom = {"--a"} \cup {"--b"}
    BY DEF Custom
  <2>3. Cardinality(Custom) \in Nat
    BY <2>1, <2>2, FS_CardinalityType
  <2> QED BY <2>3
<1> HIDE DEF n
<1>2. ASSUME NEW v \in S PROVE Looked(v) \in TextValues /\ (~ IsRef(v) => Looked(v) = v)
  <2>1. CASE ~ IsRef(v)
    <3>1. v \in TextValues
      BY <2>1 DEF IsRef, WrittenValues, TextValues, StyleTexts
    <3> QED BY <2>1, <3>1
  <2>2. CASE IsRef(v) /\ v.ref \in DOMAIN custom
    BY <2>2 DEF Customs
  <2>3. CASE IsRef(v) /\ v.ref \notin DOMAIN custom
    <3>1. v.text \in StyleTexts /\ "" \in StyleTexts
      BY DEF WrittenValues, TextValues, StyleTexts
    <3>2. Text("") \in TextValues /\ Text(v.text) \in TextValues
      BY <3>1 DEF Text, TextValues
    <3> QED BY <2>3, <3>2
  <2> QED BY <2>1, <2>2, <2>3
<1> HIDE DEF Looked
<1>3. StepsWithin(F, S, n)
  <2>1. \A k \in 1 .. n, v \in S : Looked(v) \in S
    BY <1>2
  <2> HIDE DEF S
  <2> QED BY <2>1 DEF StepsWithin
<1>4. value \in S
  OBVIOUS
<1> HIDE DEF S
<1>5. PICK g : IsRun(g, F, S, value, n)
  <2> HIDE DEF F
  <2> QED BY <1>1, <1>3, <1>4, RunExists
<1>6. Is(g)
  <2>1. ASSUME NEW k \in 1 .. n PROVE g[k] = Looked(g[k - 1])
    <3>1. k - 1 \in 0 .. n /\ g \in [0 .. n -> S] /\ g[k] = F[k][g[k - 1]]
      <4> HIDE DEF F
      <4> QED BY <1>1, <1>5 DEF IsRun
    <3> QED BY <3>1
  <2>2. g \in [0 .. n -> S] /\ g[0] = value
    <3> HIDE DEF F
    <3> QED BY <1>5 DEF IsRun
  <2>3. \A k \in 0 .. n : k = 0 \/ k \in 1 .. n
    BY <1>1
  <2> QED BY <2>1, <2>2, <2>3
<1> DEFINE h == CHOOSE f : Is(f)
<1>7. Is(h)
  BY <1>6
<1>8. Resolved(value, custom) = h[n]
  BY DEF Resolved, n, Looked
<1> HIDE DEF h
<1> DEFINE T == {k \in 0 .. n : /\ h[k] \in S /\ (~ IsRef(value) => h[k] = value)
                                /\ k # 0 => h[k] \in TextValues}
<1>9. 0 \in T
  BY <1>1, <1>4, <1>7
<1>10. ASSUME NEW k \in 1 .. n, k - 1 \in T PROVE k \in T
  <2>1. k \in 0 .. n /\ h[k] = Looked(h[k - 1])
    BY <1>1, <1>7
  <2>2. h[k - 1] \in S
    BY <1>10
  <2>3. h[k] \in TextValues /\ (~ IsRef(h[k - 1]) => h[k] = h[k - 1])
    BY <1>2, <2>1, <2>2
  <2> QED BY <1>10, <2>1, <2>3 DEF S
<1>11. \A k \in 0 .. n : k \in T
  <2> HIDE DEF T
  <2> QED BY <1>1, <1>9, <1>10, NumberInduction
<1>12. n \in 0 .. n
  BY <1>1
<1> QED BY <1>1, <1>8, <1>11, <1>12

\* What one declaration does to a style.
LEMMA ApplyFacts ==
    ASSUME NEW style \in StyleRecords, NEW d \in GoodDeclarations
    PROVE  /\ CollectCustom(style, d) \in StyleRecords /\ CollectCustom(style, d).color = style.color
           /\ Apply(style, d) \in StyleRecords
           /\ d.property # "color" => Apply(style, d).color = style.color
           /\ d.property = "color" /\ ~ IsRef(d.value) => Apply(style, d).color = d.value.text
<1> DEFINE custom == style.custom
           v == Resolved(d.value, custom)
<1>1. /\ style.color \in StyleTexts /\ style.margin \in StyleTexts /\ custom \in Customs
      /\ d.property \in Custom \cup {"color", "margin"} /\ d.value \in WrittenValues /\ Declared(d)
  BY DEF StyleRecords, GoodDeclarations, ParsedDeclarations
<1>2. v \in TextValues /\ (~ IsRef(d.value) => v = d.value)
  BY <1>1, ResolvedText
<1> HIDE DEF v
<1>3. v.text \in StyleTexts
  BY <1>2 DEF TextValues
<1>4. ASSUME d.property \in Custom
      PROVE  Overridden(style, d) \in StyleRecords /\ Overridden(style, d).color = style.color
  <2> DEFINE c == [n \in DOMAIN custom \cup {d.property} |-> IF n = d.property THEN v ELSE custom[n]]
  <2>1. Overridden(style, d) = [style EXCEPT !.custom = c]
    BY DEF Overridden, v
  <2>2. c \in Customs
    <3>1. PICK D \in SUBSET Custom : custom \in [D -> TextValues]
      BY <1>1 DEF Customs
    <3>2. c \in [D \cup {d.property} -> TextValues]
      BY <1>2, <3>1
    <3>3. D \cup {d.property} \in SUBSET Custom
      BY <1>4, <3>1
    <3> HIDE DEF c
    <3> QED BY <3>2, <3>3 DEF Customs
  <2> HIDE DEF c
  <2> QED BY <2>1, <2>2 DEF StyleRecords
<1>5. CollectCustom(style, d) \in StyleRecords /\ CollectCustom(style, d).color = style.color
  BY <1>4 DEF CollectCustom
<1>6. CASE d.property \in Custom
  <2>1. d.property # "color"
    BY <1>6 DEF Custom
  <2> QED BY <1>4, <1>5, <1>6, <2>1 DEF Apply
<1>7. CASE d.property \notin Custom
  <2>1. Apply(style, d) = ApplyProperty(style, d.property, v.text)
    BY <1>7 DEF Apply, v
  <2>2. CASE d.property = "color"
    <3>1. Apply(style, d) = IF Accepts("color", v.text) THEN [style EXCEPT !.color = v.text] ELSE style
      BY <2>1, <2>2 DEF ApplyProperty
    <3>2. [style EXCEPT !.color = v.text] \in StyleRecords /\ [style EXCEPT !.color = v.text].color = v.text
      BY <1>3 DEF StyleRecords
    <3>3. ~ IsRef(d.value) => v = d.value /\ Accepts("color", v.text)
      BY <1>1, <1>2, <2>2 DEF Declared
    <3> QED BY <1>5, <2>2, <3>1, <3>2, <3>3
  <2>3. CASE d.property = "margin"
    <3>1. Apply(style, d) = IF Accepts("margin", v.text) THEN [style EXCEPT !.margin = v.text] ELSE style
      BY <2>1, <2>3 DEF ApplyProperty
    <3>2. [style EXCEPT !.margin = v.text] \in StyleRecords /\ [style EXCEPT !.margin = v.text].color = style.color
      BY <1>3 DEF StyleRecords
    <3> QED BY <1>5, <2>3, <3>1, <3>2
  <2> QED BY <1>1, <1>7, <2>2, <2>3
<1> QED BY <1>6, <1>7

\* Of the first k declarations, the colour is from the last that sets it.
ColorFrom(color, was, decls, k) ==
    LET hits == {i \in 1 .. k : decls[i].property = "color"}
    IN  \/ \E i \in hits : IsRef(decls[i].value)
        \/ hits = {} /\ color = was
        \/ \E i \in hits : color = decls[i].value.text /\ \A j \in hits : j <= i

LEMMA ColorFromNext ==
    ASSUME NEW decls \in Seq(GoodDeclarations), NEW k \in 1 .. Len(decls), NEW style \in StyleRecords, NEW was,
           ColorFrom(style.color, was, decls, k - 1)
    PROVE  ColorFrom(Apply(style, decls[k]).color, was, decls, k)
<1> DEFINE d == decls[k]
           c == Apply(style, d).color
           hits == {i \in 1 .. k - 1 : decls[i].property = "color"}
           more == {i \in 1 .. k : decls[i].property = "color"}
<1>1. k \in Nat /\ d \in GoodDeclarations /\ 1 .. k = (1 .. k - 1) \cup {k}
  OBVIOUS
<1>2. /\ d.property # "color" => c = style.color
      /\ d.property = "color" /\ ~ IsRef(d.value) => c = d.value.text
  BY <1>1, ApplyFacts
<1>3. more = IF d.property = "color" THEN hits \cup {k} ELSE hits
  BY <1>1
<1>4. \A j \in hits : j <= k /\ j \in Nat
  OBVIOUS
<1>5. \/ \E i \in hits : IsRef(decls[i].value)
      \/ hits = {} /\ style.color = was
      \/ \E i \in hits : style.color = decls[i].value.text /\ \A j \in hits : j <= i
  BY DEF ColorFrom
<1> HIDE DEF c, hits, more
<1>6. \/ \E i \in more : IsRef(decls[i].value)
      \/ more = {} /\ c = was
      \/ \E i \in more : c = decls[i].value.text /\ \A j \in more : j <= i
  <2>1. CASE d.property # "color"
    BY <1>2, <1>3, <1>5, <2>1
  <2>2. CASE d.property = "color" /\ IsRef(d.value)
    BY <1>3, <2>2
  <2>3. CASE d.property = "color" /\ ~ IsRef(d.value)
    <3>1. k \in more /\ c = decls[k].value.text /\ \A j \in more : j <= k
      BY <1>1, <1>2, <1>3, <1>4, <2>3
    <3> QED BY <3>1
  <2> QED BY <2>1, <2>2, <2>3
<1> QED BY <1>6 DEF ColorFrom, more, c

\* What a list of declarations makes of a style.
LEMMA PassedFacts ==
    ASSUME NEW style \in StyleRecords, NEW decls \in Seq(GoodDeclarations)
    PROVE  /\ Passed(style, decls) \in StyleRecords
           /\ ColorFrom(Passed(style, decls).color, style.color, decls, Len(decls))
<1> DEFINE n == Len(decls)
           S == StyleRecords
           F == [k \in 1 .. n |-> [x \in S |-> CollectCustom(x, decls[k])]]
           G == [k \in 1 .. n |-> [x \in S |-> Apply(x, decls[k])]]
           IsC(f) == f = [k \in 0 .. n |-> IF k = 0 THEN style ELSE CollectCustom(f[k - 1], decls[k])]
           c == CHOOSE f : IsC(f)
           IsA(f) == f = [k \in 0 .. n |-> IF k = 0 THEN c[n] ELSE Apply(f[k - 1], decls[k])]
           a == CHOOSE f : IsA(f)
<1>1. n \in Nat /\ \A k \in 1 .. n : decls[k] \in GoodDeclarations
  OBVIOUS
<1>2. Passed(style, decls) = a[n]
  BY DEF Passed
<1> HIDE DEF n, a, c
<1>3. \A x \in S, k \in 1 .. n : /\ CollectCustom(x, decls[k]) \in S /\ CollectCustom(x, decls[k]).color = x.color
                                 /\ Apply(x, decls[k]) \in S
  BY <1>1, ApplyFacts
<1>4. \A k \in 0 .. n : k = 0 \/ k \in 1 .. n
  BY <1>1
<1> HIDE DEF S
<1>5. IsC(c)
  <2>1. StepsWithin(F, S, n)
    <3>1. \A k \in 1 .. n, x \in S : CollectCustom(x, decls[k]) \in S
      BY <1>3
    <3> QED BY <3>1 DEF StepsWithin
  <2>2. PICK g : IsRun(g, F, S, style, n)
    <3>1. style \in S
      BY DEF S
    <3> HIDE DEF F
    <3> QED BY <1>1, <2>1, <3>1, RunExists
  <2>3. ASSUME NEW k \in 1 .. n PROVE g[k] = CollectCustom(g[k - 1], decls[k])
    <3>1. k - 1 \in 0 .. n /\ g \in [0 .. n -> S] /\ g[k] = F[k][g[k - 1]]
      <4> HIDE DEF F
      <4> QED BY <1>1, <2>2 DEF IsRun
    <3> QED BY <3>1
  <2>4. g \in [0 .. n -> S] /\ g[0] = style
    <3> HIDE DEF F
    <3> QED BY <2>2 DEF IsRun
  <2>5. IsC(g)
    BY <1>4, <2>3, <2>4
  <2> QED BY <2>5 DEF c
<1> DEFINE T == {k \in 0 .. n : c[k] \in S /\ c[k].color = style.color}
<1>6. 0 \in T
  BY <1>1, <1>5 DEF S
<1>7. ASSUME NEW k \in 1 .. n, k - 1 \in T PROVE k \in T
  <2>1. k \in 0 .. n /\ c[k] = CollectCustom(c[k - 1], decls[k])
    BY <1>1, <1>5
  <2> QED BY <1>3, <1>7, <2>1
<1>8. c[n] \in S /\ c[n].color = style.color
  <2> HIDE DEF T
  <2>1. \A k \in 0 .. n : k \in T
    BY <1>1, <1>6, <1>7, NumberInduction
  <2>2. n \in 0 .. n
    BY <1>1
  <2> QED BY <2>1, <2>2 DEF T
<1>9. IsA(a)
  <2>1. StepsWithin(G, S, n)
    <3>1. \A k \in 1 .. n, x \in S : Apply(x, decls[k]) \in S
      BY <1>3
    <3> QED BY <3>1 DEF StepsWithin
  <2>2. PICK g : IsRun(g, G, S, c[n], n)
    <3> HIDE DEF G
    <3> QED BY <1>1, <1>8, <2>1, RunExists
  <2>3. ASSUME NEW k \in 1 .. n PROVE g[k] = Apply(g[k - 1], decls[k])
    <3>1. k - 1 \in 0 .. n /\ g \in [0 .. n -> S] /\ g[k] = G[k][g[k - 1]]
      <4> HIDE DEF G
      <4> QED BY <1>1, <2>2 DEF IsRun
    <3> QED BY <3>1
  <2>4. g \in [0 .. n -> S] /\ g[0] = c[n]
    <3> HIDE DEF G
    <3> QED BY <2>2 DEF IsRun
  <2>5. IsA(g)
    BY <1>4, <2>3, <2>4
  <2> QED BY <2>5 DEF a
<1> DEFINE U == {k \in 0 .. n : a[k] \in S /\ ColorFrom(a[k].color, style.color, decls, k)}
<1>10. 0 \in U
  <2>1. 1 .. 0 = {} /\ 0 \in 0 .. n /\ a[0] = c[n]
    BY <1>1, <1>9
  <2>2. ColorFrom(a[0].color, style.color, decls, 0)
    BY <1>8, <2>1 DEF ColorFrom
  <2> QED BY <1>8, <2>1, <2>2
<1>11. ASSUME NEW k \in 1 .. n, k - 1 \in U PROVE k \in U
  <2>1. k \in 0 .. n /\ a[k] = Apply(a[k - 1], decls[k])
    BY <1>1, <1>9
  <2>2. a[k - 1] \in S /\ ColorFrom(a[k - 1].color, style.color, decls, k - 1)
    BY <1>11
  <2>3. ColorFrom(Apply(a[k - 1], decls[k]).color, style.color, decls, k)
    BY <2>2, ColorFromNext DEF S, n
  <2> QED BY <1>3, <2>1, <2>2, <2>3
<1>12. a[n] \in S /\ ColorFrom(a[n].color, style.color, decls, n)
  <2> HIDE DEF U
  <2>1. \A k \in 0 .. n : k \in U
    BY <1>1, <1>10, <1>11, NumberInduction
  <2>2. n \in 0 .. n
    BY <1>1
  <2> QED BY <2>1, <2>2 DEF U
<1> QED BY <1>2, <1>12 DEF S, n

\* Where the colour of an element that has matched these rules and would inherit
\* was comes from.
Cascaded(color, was, e, matched) ==
    LET hits == {i \in DOMAIN matched : matched[i].rule.declaration.property = "color"}
    IN  IF inline[e].property = "color"
        THEN IsRef(inline[e].value) \/ color = inline[e].value.text
        ELSE \/ hits = {} /\ color = was
             \/ \E i \in hits : IsRef(matched[i].rule.declaration.value)
             \/ \E i \in hits : /\ color = matched[i].rule.declaration.value.text
                               /\ \A j \in hits : ~ Loses(matched[i], matched[j])

LEMMA ComputedFacts ==
    ASSUME StyleInv, NEW e \in DOMAIN Elements, NEW base \in StyleRecords
    PROVE  /\ Computed(e, base) \in StyleRecords
           /\ Cascaded(Computed(e, base).color, base.color, e, Matched(e))
<1> DEFINE m == Matched(e)
           decls == DeclarationsOf(m)
           d == inline[e]
           own == IF d = NoDeclaration THEN <<>> ELSE <<d>>
           first == Passed(base, decls)
           s == Passed(first, own)
           n == Len(m)
           hits == {i \in DOMAIN m : m[i].rule.declaration.property = "color"}
<1>1. Computed(e, base) = s
  BY DEF Computed
<1>2. m \in Seq(Hits) /\ InCascade(m) /\ n \in Nat /\ DOMAIN m = 1 .. n
  BY MatchedFacts
<1> HIDE DEF m
<1>3. \A i \in 1 .. n : m[i].rule.declaration \in GoodDeclarations /\ m[i] \in Hits
  <2> TAKE i \in 1 .. n
  <2>1. m[i] \in Hits
    BY <1>2
  <2>2. m[i].rule \in ParsedRules
    BY <2>1 DEF Hits
  <2> QED BY <2>1, <2>2 DEF ParsedRules, GoodDeclarations
<1>4. /\ decls \in Seq(GoodDeclarations) /\ Len(decls) = n
      /\ \A i \in 1 .. n : decls[i] = m[i].rule.declaration
  <2>1. decls = [i \in 1 .. n |-> m[i].rule.declaration]
    BY <1>2 DEF DeclarationsOf
  <2> HIDE DEF decls, n
  <2> QED BY <1>2, <1>3, <2>1
<1> HIDE DEF decls
<1>5. first \in StyleRecords /\ ColorFrom(first.color, base.color, decls, n)
  BY <1>4, PassedFacts
<1> HIDE DEF first
<1>6. d = NoDeclaration \/ d \in GoodDeclarations
  BY DEF StyleInv, GoodDeclarations
<1> HIDE DEF d
<1>7. own \in Seq(GoodDeclarations)
  BY <1>6
<1>8. s \in StyleRecords /\ ColorFrom(s.color, first.color, own, Len(own))
  BY <1>5, <1>7, PassedFacts
<1> HIDE DEF s
<1>9. /\ d.property # "color" => s.color = first.color
      /\ d.property = "color" => IsRef(d.value) \/ s.color = d.value.text
  <2>1. CASE d = NoDeclaration
    <3>1. own = <<>> /\ Len(<<>>) = 0 /\ 1 .. 0 = {}
      BY <2>1
    <3>2. ColorFrom(s.color, first.color, <<>>, 0)
      BY <1>8, <3>1
    <3>3. s.color = first.color
      BY <3>1, <3>2 DEF ColorFrom
    <3>4. d.property # "color"
      BY <2>1 DEF NoDeclaration
    <3> QED BY <3>3, <3>4
  <2>2. CASE d # NoDeclaration
    <3>1. own = <<d>> /\ Len(<<d>>) = 1 /\ <<d>>[1] = d /\ 1 .. 1 = {1}
      BY <2>2
    <3>2. ColorFrom(s.color, first.color, <<d>>, 1)
      BY <1>8, <3>1
    <3> QED BY <3>1, <3>2 DEF ColorFrom
  <2> QED BY <2>1, <2>2
<1>10. ASSUME NEW i \in 1 .. n, NEW j \in 1 .. n, j <= i PROVE ~ Loses(m[i], m[j])
  <2>1. /\ m[i].specificity \in Int /\ m[i].rule.order \in Int
        /\ m[j].specificity \in Int /\ m[j].rule.order \in Int
    <3>1. \A h \in Hits : h.specificity \in Int /\ h.rule \in ParsedRules
      BY DEF Hits
    <3>2. \A r \in ParsedRules : r.order \in Int
      BY DEF ParsedRules
    <3> QED BY <1>3, <3>1, <3>2
  <2>2. Loses(m[i], m[j]) => Before(m[i], m[j])
    BY DEF Loses, Before
  <2>3. CASE i = j
    BY <2>1, <2>3 DEF Loses
  <2>4. CASE i # j
    <3>1. j < i
      BY <1>10, <2>4
    <3>2. ~ Before(m[i], m[j])
      BY <1>2, <3>1 DEF InCascade
    <3> QED BY <2>2, <3>2
  <2> QED BY <2>3, <2>4
<1>11. hits = {i \in 1 .. n : decls[i].property = "color"}
  BY <1>2, <1>4
<1>12. \A i \in hits : i \in 1 .. n /\ decls[i] = m[i].rule.declaration
  BY <1>4, <1>11
<1> HIDE DEF hits
<1>13. \/ \E i \in hits : IsRef(decls[i].value)
       \/ hits = {} /\ first.color = base.color
       \/ \E i \in hits : first.color = decls[i].value.text /\ \A j \in hits : j <= i
  BY <1>5, <1>11 DEF ColorFrom
<1>14. \/ hits = {} /\ first.color = base.color
       \/ \E i \in hits : IsRef(m[i].rule.declaration.value)
       \/ \E i \in hits : /\ first.color = m[i].rule.declaration.value.text
                         /\ \A j \in hits : ~ Loses(m[i], m[j])
  BY <1>10, <1>12, <1>13
<1>15. Cascaded(s.color, base.color, e, m)
  BY <1>9, <1>14 DEF Cascaded, hits, d
<1> QED BY <1>1, <1>8, <1>15 DEF m

LEMMA ComputedStylesFacts ==
    ASSUME StyleInv
    PROVE  LET styles == ComputedStyles
           IN  \A e \in DOMAIN Elements :
                  /\ styles[e] \in StyleRecords
                  /\ Cascaded(styles[e].color,
                              IF Elements[e].parent = 0 THEN "black" ELSE styles[Elements[e].parent].color,
                              e, Matched(e))
<1> DEFINE n == Len(Elements)
           S == StyleRecords
           Base(f, e) == IF Elements[e].parent = 0 THEN Initial ELSE Inherited(f[Elements[e].parent])
           F == [e \in 1 .. n |-> [f \in [1 .. e - 1 -> S] |-> Computed(e, Base(f, e))]]
           Is(f) == f = [e \in DOMAIN Elements |-> Computed(e, Base(f, e))]
           h == CHOOSE f : Is(f)
<1>1. /\ n \in Nat /\ DOMAIN Elements = 1 .. n
      /\ \A e \in 1 .. n : Elements[e].parent = 0 \/ (Elements[e].parent # 0 /\ Elements[e].parent \in 1 .. e - 1)
  <2>1. n \in Nat /\ DOMAIN Elements = 1 .. n
    BY StyleAssumption
  <2>2. \A e \in 1 .. n : Elements[e].parent \in 0 .. e - 1
    BY <2>1, StyleAssumption
  <2> QED BY <2>1, <2>2
<1> HIDE DEF n
<1>2. /\ Initial \in S /\ Initial.color = "black"
      /\ \A p \in S : Inherited(p) \in S /\ Inherited(p).color = p.color
  <2>1. [m \in {} |-> Text("")] \in Customs
    <3>1. [m \in {} |-> Text("")] \in [{} -> TextValues] /\ {} \in SUBSET Custom
      OBVIOUS
    <3> QED BY <3>1 DEF Customs
  <2>2. Initial \in S /\ Initial.color = "black"
    BY <2>1 DEF Initial, StyleRecords, StyleTexts
  <2>3. ASSUME NEW p \in S PROVE Inherited(p) \in S /\ Inherited(p).color = p.color
    <3>1. p.color \in StyleTexts /\ p.custom \in Customs
      BY DEF StyleRecords
    <3> QED BY <2>2, <3>1 DEF Inherited, StyleRecords
  <2> QED BY <2>2, <2>3
<1>3. ASSUME NEW e \in 1 .. n, NEW f, Elements[e].parent # 0 => f[Elements[e].parent] \in S
      PROVE  /\ Base(f, e) \in S
             /\ Base(f, e).color = IF Elements[e].parent = 0 THEN "black" ELSE f[Elements[e].parent].color
  <2> HIDE DEF S
  <2> QED BY <1>2, <1>3
<1>4. \A e \in 1 .. n, b \in S : Computed(e, b) \in S /\ Cascaded(Computed(e, b).color, b.color, e, Matched(e))
  BY <1>1, ComputedFacts
<1> HIDE DEF S, Base
<1>5. StepsUp(F, S, n)
  <2> SUFFICES ASSUME NEW e \in 1 .. n, NEW f \in [1 .. e - 1 -> S] PROVE F[e][f] \in S
    BY DEF StepsUp
  <2>1. Base(f, e) \in S
    BY <1>1, <1>3
  <2> QED BY <1>4, <2>1
<1>6. PICK g : g \in [1 .. n -> S] /\ \A e \in 1 .. n : g[e] = F[e][[j \in 1 .. e - 1 |-> g[j]]]
  <2> HIDE DEF F
  <2>1. \E g : IsAscent(g, F, S, n)
    BY <1>1, <1>5, AscentExists
  <2> QED BY <2>1 DEF IsAscent
<1>7. Is(g)
  <2>1. ASSUME NEW e \in 1 .. n PROVE g[e] = Computed(e, Base(g, e))
    <3> DEFINE f == [j \in 1 .. e - 1 |-> g[j]]
    <3>1. f \in [1 .. e - 1 -> S] /\ g[e] = F[e][f]
      <4>1. 1 .. e - 1 \subseteq 1 .. n
        BY <1>1
      <4> HIDE DEF F
      <4> QED BY <1>6, <4>1
    <3>2. Base(f, e) = Base(g, e)
      BY <1>1 DEF Base
    <3> HIDE DEF f
    <3>3. F[e][f] = Computed(e, Base(f, e))
      BY <3>1
    <3> QED BY <3>1, <3>2, <3>3
  <2>2. g = [e \in 1 .. n |-> Computed(e, Base(g, e))]
    <3> HIDE DEF F
    <3> QED BY <1>6, <2>1
  <2> QED BY <1>1, <2>2
<1>8. Is(h)
  BY <1>7
<1>9. ComputedStyles = h
  BY DEF ComputedStyles, Base
<1> HIDE DEF h
<1>10. \A e \in 1 .. n : h[e] = Computed(e, Base(h, e))
  BY <1>1, <1>8
<1> DEFINE T == {e \in 1 .. n : h[e] \in S}
<1>11. ASSUME NEW e \in 1 .. n, 1 .. e - 1 \subseteq T PROVE e \in T
  <2>1. Base(h, e) \in S
    BY <1>1, <1>3, <1>11
  <2> QED BY <1>4, <1>10, <2>1
<1>12. 1 .. n \subseteq T
  <2> HIDE DEF T
  <2> QED BY <1>1, <1>11, UpwardInduction
<1>13. ASSUME NEW e \in 1 .. n
       PROVE  /\ h[e] \in S
              /\ Cascaded(h[e].color, IF Elements[e].parent = 0 THEN "black" ELSE h[Elements[e].parent].color,
                          e, Matched(e))
  <2>1. Elements[e].parent # 0 => h[Elements[e].parent] \in S
    BY <1>1, <1>12
  <2>2. /\ Base(h, e) \in S
        /\ Base(h, e).color = IF Elements[e].parent = 0 THEN "black" ELSE h[Elements[e].parent].color
    BY <1>3, <2>1
  <2>3. Cascaded(h[e].color, Base(h, e).color, e, Matched(e))
    BY <1>4, <1>10, <2>2
  <2> QED BY <1>12, <2>2, <2>3
<1> QED BY <1>1, <1>9, <1>13 DEF S

\* Whatever sheets are parsed and styles set: the colour of every element comes
\* from its style attribute, from a matching rule that loses to none, or from the
\* parent, and no custom property is kept as a reference (compute_style).
THEOREM ColorDoesCascade == StyleSpec => []ColorCascades
<1>1. ASSUME StyleInv PROVE ColorCascades
  <2> DEFINE styles == ComputedStyles
  <2>1. \A e \in DOMAIN Elements :
          /\ styles[e] \in StyleRecords
          /\ Cascaded(styles[e].color,
                      IF Elements[e].parent = 0 THEN "black" ELSE styles[Elements[e].parent].color,
                      e, Matched(e))
    BY <1>1, ComputedStylesFacts
  <2> HIDE DEF styles
  <2>2. ASSUME NEW e \in DOMAIN Elements PROVE ColorIsOf(e, styles, Matched(e))
    <3>1. Cascaded(styles[e].color,
                   IF Elements[e].parent = 0 THEN "black" ELSE styles[Elements[e].parent].color,
                   e, Matched(e))
      BY <2>1
    <3> QED BY <3>1 DEF Cascaded, ColorIsOf
  <2>3. ASSUME NEW e \in DOMAIN Elements, NEW n \in DOMAIN styles[e].custom
        PROVE  ~ IsRef(styles[e].custom[n])
    <3>1. styles[e].custom \in Customs
      BY <2>1 DEF StyleRecords
    <3>2. styles[e].custom[n] \in TextValues
      BY <3>1 DEF Customs
    <3> QED BY <3>2 DEF TextValues, IsRef
  <2> QED BY <2>2, <2>3 DEF ColorCascades, styles
<1> QED BY <1>1, StyleInitInv, StyleNextInv, PTL DEF StyleSpec

===============================================================================
