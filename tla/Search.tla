------------------------------- MODULE Search -------------------------------
(***************************************************************************)
(* The private search of fortrust-search, as the engine worker calls it:   *)
(* a query is asked of several backends at once, what they answer is       *)
(* cleaned, ranked, freed of duplicates and kept for a while (lib.rs); and *)
(* the index of the pages visited (local_index.rs).                        *)
(*                                                                         *)
(* A backend sends a sequence of results, empty when it fails. The title   *)
(* of a result is the set of its words, its scores are hundredths, and a   *)
(* result is complete when it has the fields that are read. A url asks when *)
(* it has a "?"; of its query the tracking parameters are kept apart, and   *)
(* others would be part of its path. What the requests say is left out, and *)
(* so are the report, the snippets, the display url and the link to the     *)
(* archive.                                                                *)
(***************************************************************************)
EXTENDS Naturals, SequencesExt, FiniteSetsExt, Retain

CONSTANTS
    Queries,        \* what may be asked: [words, page, upper]
    EnabledBackends, \* the sets of backends that are asked, one of them
    Sent,           \* the sequences of results that a backend may send
    SearchConfig,   \* [strict, blockHttp, blockIp, blockLocal, strip, dedup : BOOLEAN]
    MaxResults, MaxEntries, Ttl,
    IndexedUrls,
    IndexedTitles,
    MaxClock        \* bound on the clock

\* Texts are told apart, and no more. (No prover knows a text to be a STRING.)
SearchResults ==
    [title : SUBSET STRING, scheme : STRING, host : STRING \cup {"wikipedia"}, path : STRING,
     asks : BOOLEAN, tracking : SUBSET STRING, ip : BOOLEAN, local : BOOLEAN, odd : BOOLEAN, ad : BOOLEAN,
     complete : BOOLEAN, aged : BOOLEAN, score : Nat, privacy : Nat,
     safety : {"Trusted", "Neutral", "Warning", "Blocked"}]

BackendNames == {"ddg", "stract", "mojeek", "searxng", "wikipedia", "brave"}

ASSUME SearchAssumption ==
    /\ MaxResults \in Nat /\ MaxEntries \in Nat
    /\ \A sent \in Sent : sent \in Seq(SearchResults)
    /\ \A enabled \in EnabledBackends : enabled \subseteq BackendNames

VARIABLES
    backends,       \* enabled_backends
    entries,        \* the cache: query -> [results, expires]
    order,          \* its queries, the one used longest ago first
    answer,         \* the last answer
    docs, visible,  \* the index, as written, and as its reader sees it
    instant,
    recent          \* history: the queries answered, in the order of their last use

searchVars == <<backends, entries, order, answer, docs, visible, instant, recent>>

SearchInit ==
    /\ backends \in EnabledBackends
    /\ entries = <<>> /\ order = <<>> /\ recent = <<>>
    /\ answer = <<>>
    /\ docs = {} /\ visible = {}
    /\ instant = 0

-----------------------------------------------------------------------------
(* The backends.                                                           *)

Truncated(results) == SubSeq(results, 1, Min({MaxResults, Len(results)}))

Complete(results) == Retained(results, {r \in ToSet(results) : r.complete})

Rated(results, score) == [i \in DOMAIN results |-> [results[i] EXCEPT !.score = score]]

\* The page of DuckDuckGo is searched until there are enough results; of the
\* answers of the others only the first results are looked at.
FetchDdg(sent)    == Rated(Truncated(Complete(sent)), 60)
FetchStract(sent) == Rated(Complete(Truncated(sent)), 75)
FetchMojeek(sent) == Rated(Complete(Truncated(sent)), 70)
FetchSearXNG(sent) == Complete(Truncated(sent))

\* Three at most, also when fewer are wanted, and all of one site, without a query.
FetchWikipedia(sent) ==
    Rated(Complete([i \in DOMAIN sent |->
              [sent[i] EXCEPT !.host = "wikipedia", !.asks = FALSE, !.tracking = {}]]), 50)

\* With a key only; what has an age counts more.
FetchBrave(sent) ==
    LET found == Complete(Truncated(sent))
    IN  [i \in DOMAIN found |-> [found[i] EXCEPT !.score = IF found[i].aged THEN 80 ELSE 60]]

Fetch(backend, sent) ==
    CASE backend = "ddg"       -> FetchDdg(sent)
      [] backend = "stract"    -> FetchStract(sent)
      [] backend = "mojeek"    -> FetchMojeek(sent)
      [] backend = "searxng"   -> FetchSearXNG(sent)
      [] backend = "wikipedia" -> FetchWikipedia(sent)
      [] backend = "brave"     -> FetchBrave(sent)

-----------------------------------------------------------------------------
(* The results.                                                            *)

\* sanitize_result drops what has no title, no url of the web, or a host that
\* the settings do not want.
Dropped(r) ==
    \/ r.title = {} \/ r.scheme \notin {"http", "https"}
    \/ /\ SearchConfig.strict
       /\ \/ SearchConfig.blockHttp /\ r.scheme # "https"
          \/ SearchConfig.blockIp /\ r.ip
          \/ SearchConfig.blockLocal /\ r.local

PrivacyScore(r) ==
    LET stripped == IF SearchConfig.strip THEN Cardinality(r.tracking) ELSE 0
        lost == (IF r.scheme = "https" THEN 0 ELSE 25) + (IF r.ip THEN 35 ELSE 0)
                  + (IF r.local THEN 45 ELSE 0) + 2 * stripped
                  + (IF r.odd THEN 15 ELSE 0) + (IF r.ad THEN 12 ELSE 0)
    IN  IF lost > 100 THEN 0 ELSE 100 - lost

ResultSafety(r) ==
    CASE r.ip \/ r.local                       -> "Blocked"
      [] ~ (r.ip \/ r.local)
           /\ (r.scheme = "http" \/ r.odd \/ r.ad) -> "Warning"
      [] OTHER                                 -> "Trusted"

\* Of a url with nothing but tracking parameters the "?" is left.
Sanitized(r) ==
    [r EXCEPT !.tracking = IF SearchConfig.strip THEN {} ELSE @,
              !.privacy = PrivacyScore(r), !.safety = ResultSafety(r)]

\* normalize_url_for_dedup: without the fragment, the last slash and www., but
\* with the query, also an empty one.
Normalized(r) == <<r.scheme, r.host, r.path, r.asks, r.tracking>>

\* rank_results: what several backends found counts more; the sort is stable.
Scored(results) ==
    [i \in DOMAIN results |->
        LET found == Cardinality({j \in DOMAIN results : Normalized(results[j]) = Normalized(results[i])})
        IN  [results[i] EXCEPT !.score = Min({100, @ + 15 * (found - 1)})]]

Precedes(s, i, j) == s[i].score > s[j].score \/ (s[i].score = s[j].score /\ i < j)

Place(s, i) == 1 + Cardinality({j \in DOMAIN s : Precedes(s, j, i)})

\* (\o <<>>: TLC computes a tuple once, and a function at each of its uses.)
Ranked(results) ==
    LET scored == Scored(results) \o <<>>
    IN  [k \in DOMAIN scored |-> scored[CHOOSE i \in DOMAIN scored : Place(scored, i) = k]] \o <<>>

\* title_similarity above 0.85.
Similar(r, s) == 100 * Cardinality(r.title \cap s.title) > 85 * Cardinality(r.title \cup s.title)

\* Mutant of Deduplicated: only the urls are compared.
DeduplicatedUrls(results) ==
    LET Step(acc, r) ==
            IF \E p \in ToSet(acc) : Normalized(p) = Normalized(r) THEN acc ELSE Append(acc, r)
    IN  FoldLeft(Step, <<>>, results)

\* dedup_results: the url of a result that is dropped for its title counts as
\* seen, and what else was found under it is dropped as well.
Sifted(acc, r) ==
    IF Normalized(r) \in acc.seen THEN acc
    ELSE [seen |-> acc.seen \cup {Normalized(r)},
          kept |-> IF \E i \in DOMAIN acc.kept : Similar(r, acc.kept[i]) THEN acc.kept
                   ELSE Append(acc.kept, r)]

Deduplicated(results) ==
    LET upTo[i \in 0 .. Len(results)] ==
            IF i = 0 THEN [seen |-> {}, kept |-> <<>>] ELSE Sifted(upTo[i - 1], results[i])
    IN  upTo[Len(results)].kept

\* What is made of all that the backends found, in the order of their answers.
Prepared(found) ==
    LET clean  == Retained(found, {r \in ToSet(found) : ~ Dropped(r)})
        ranked == Ranked([i \in DOMAIN clean |-> Sanitized(clean[i])])
    IN  Truncated(IF SearchConfig.dedup THEN Deduplicated(ranked) ELSE ranked)

-----------------------------------------------------------------------------
(* The cache.                                                              *)

Touched(s, q) ==
    LET places == {i \in DOMAIN s : s[i] = q}
    IN  Append(IF places = {} THEN s ELSE RemoveAt(s, Min(places)), q)

\* cache_key: what the settings and the page are, and the query in lower case.
CacheKey(asked) == [asked EXCEPT !.upper = FALSE]

Live(q) == q \in DOMAIN entries /\ instant <= entries[q].expires

\* SearchCache::insert, which makes room for the new entry, after get has
\* removed an entry whose time is over.
InsertAnswer(q, results) ==
    LET longer == Touched(order, q)
        over   == Len(longer) - Min({MaxEntries, Len(longer)})
        gone   == {longer[i] : i \in 1 .. over}
    IN  /\ order' = SubSeq(longer, over + 1, Len(longer))
        /\ entries' = [p \in (DOMAIN entries \cup {q}) \ gone |->
                         IF p = q THEN [results |-> results, expires |-> instant + Ttl]
                         ELSE entries[p]]

-----------------------------------------------------------------------------
(* What the worker is asked, one command at a time.                         *)

SearchHit(q) ==
    /\ Live(q)
    /\ answer' = entries[q].results
    /\ order' = Touched(order, q)
    /\ recent' = Touched(recent, q)
    /\ UNCHANGED <<backends, entries, docs, visible, instant>>

\* The backends answer in any order; an empty answer is kept like the others.
SearchBackendsFor(q) ==
    /\ ~ Live(q)
    /\ \E arrival \in SetToSeqs(backends), sent \in [backends -> Sent \cup {<<>>}] :
            answer' = Prepared(FlattenSeq(
                        [i \in DOMAIN arrival |-> Fetch(arrival[i], sent[arrival[i]])]))
    /\ InsertAnswer(q, answer')
    /\ recent' = Touched(recent, q)
    /\ UNCHANGED <<backends, docs, visible, instant>>

SearchFor(asked) == SearchHit(CacheKey(asked)) \/ SearchBackendsFor(CacheKey(asked))

\* index_page: what was known of the url goes, also when the page cannot be
\* added.
IndexPage(url, title, added) ==
    /\ docs' = {d \in docs : d.url # url}
                 \cup IF added THEN {[url |-> url, title |-> title]} ELSE {}
    /\ UNCHANGED <<backends, entries, order, answer, visible, instant, recent>>

DeletePage(url) ==
    /\ docs' = {d \in docs : d.url # url}
    /\ UNCHANGED <<backends, entries, order, answer, visible, instant, recent>>

ClearIndex ==
    /\ docs' = {}
    /\ UNCHANGED <<backends, entries, order, answer, visible, instant, recent>>

\* The reader is told of a commit some time later.
Reload ==
    /\ visible # docs
    /\ visible' = docs
    /\ UNCHANGED <<backends, entries, order, answer, docs, instant, recent>>

SearchLocal(query) == {d \in visible : query = d.title \/ query = d.url}

ClockTicks ==
    /\ instant < MaxClock
    /\ instant' = instant + 1
    /\ UNCHANGED <<backends, entries, order, answer, docs, visible, recent>>

CacheNext == (\E q \in Queries : SearchFor(q)) \/ ClockTicks

IndexNext ==
    \/ \E url \in IndexedUrls, title \in IndexedTitles, added \in BOOLEAN :
            IndexPage(url, title, added)
    \/ \E url \in IndexedUrls : DeletePage(url)
    \/ ClearIndex \/ Reload

SearchNext == CacheNext \/ IndexNext

SearchSpec == SearchInit /\ [][SearchNext]_searchVars

-----------------------------------------------------------------------------
\* The map and the queue of the search cache (SearchCache) tell the same story
\* after every hit, expiry, replacement and eviction: they hold the same
\* queries, and these are the ones used last, as many as the cache holds.
CacheInOrder ==
    /\ ToSet(order) = DOMAIN entries
    /\ order = SubSeq(recent, Len(recent) + 1 - Min({MaxEntries, Len(recent)}), Len(recent))

\* What a search answers, from the cache or not, has the best first, none that is
\* to be hidden and, where duplicates are looked for, no two of like titles or of
\* one normalized url, to which a url that lost its tracking parameters and the same
\* url without a query are two (path? and path): the boosts of the ranking, the
\* stable sort and the two kinds of duplicates agree, whatever backend answers
\* first; and the cache keeps the answers used last.
AnswersClean ==
    /\ CacheInOrder
    /\ Len(answer) <= MaxResults
    /\ \A j \in DOMAIN answer :
         /\ SearchConfig.strict /\ SearchConfig.blockLocal => ~ answer[j].local
         /\ SearchConfig.strict /\ SearchConfig.blockIp => ~ answer[j].ip
         /\ \A i \in 1 .. j - 1 :
              /\ answer[i].score >= answer[j].score
              /\ SearchConfig.dedup => /\ Normalized(answer[i]) # Normalized(answer[j])
                                     /\ ~ Similar(answer[i], answer[j])
=============================================================================
