----------------------------- MODULE ShellProofs -----------------------------
(***************************************************************************)
(* Proofs about the window: about the pages of its tabs and their renderer *)
(* processes (TabPages), and about the window and its engine worker        *)
(* (BrowserShell).  Each invariant says what every channel may hold: the   *)
(* members of a channel are typed by what the tabs were sent to, or by who *)
(* owns which request, and a step that only widens those sets leaves the   *)
(* channel good.                                                           *)
(***************************************************************************)
EXTENDS BrowserShell, TabPages, SequenceLemmas, TLAPS

-----------------------------------------------------------------------------
(* Sequences.                                                              *)

\* A sequence of members of S is one of members of a larger set.
LEMMA SeqWider ==
    ASSUME NEW S, NEW T, S \subseteq T, NEW s \in Seq(S)
    PROVE  s \in Seq(T)
OBVIOUS

\* What the head and the tail of a sequence are.
LEMMA HeadTail ==
    ASSUME NEW S, NEW s \in Seq(S), s # <<>>
    PROVE  /\ Head(s) \in S /\ Head(s) = s[1] /\ Len(s) \in Nat \ {0}
           /\ Tail(s) \in Seq(S) /\ Len(Tail(s)) = Len(s) - 1
           /\ \A i \in 1 .. Len(s) - 1 : Tail(s)[i] = s[i + 1]
OBVIOUS

\* What appending to a sequence does.
LEMMA Appended ==
    ASSUME NEW S, NEW s \in Seq(S), NEW x \in S
    PROVE  /\ Append(s, x) \in Seq(S) /\ Len(s) \in Nat
           /\ Len(Append(s, x)) = Len(s) + 1
           /\ Append(s, x)[Len(s) + 1] = x
           /\ \A i \in 1 .. Len(s) : Append(s, x)[i] = s[i]
OBVIOUS

-----------------------------------------------------------------------------
(* The page of a tab.                                                      *)

\* The urls there are, None among them.
Anywhere == Typed \cup Pages \cup {Start, None}

PageState ==
    [open : BOOLEAN, history : Seq(Anywhere), index : Nat, request : Nat, doc : Anywhere,
     loading : Anywhere, error : Anywhere, title : Anywhere, frame : Anywhere,
     asked : SUBSET Anywhere]

\* The current entry is one of the history.
Sound(p) == p \in PageState /\ p.index \in 1 .. Len(p.history)

\* What PageIsOwn says of one tab.
Own(p) ==
    p.open =>
        /\ {p.loading, p.title, p.frame, p.error} \subseteq p.asked \cup {None}
        /\ p.doc # None => p.doc = CurrentUrl(p)

\* Where p is on the way, q has been asked for no less: a tab that is closed has
\* nothing of its own to lose.
Follows(p, q) == q.open => p.open /\ p.asked \subseteq q.asked

LEMMA NewPageState ==
    ASSUME NEW url \in Anywhere
    PROVE  /\ Sound(TabPageState(url)) /\ Own(TabPageState(url))
           /\ TabPageState(url).loading = None
<1>1. <<url>> \in Seq(Anywhere) /\ Len(<<url>>) = 1
  OBVIOUS
<1>2. None \in Anywhere
  BY DEF Anywhere
<1> QED BY <1>1, <1>2 DEF TabPageState, Sound, Own, PageState

LEMMA ClosedState == Sound(Closed) /\ ~ Closed.open /\ Closed.loading = None
<1> DEFINE p == TabPageState(Start)
<1>1. p \in PageState /\ p.index \in 1 .. Len(p.history) /\ p.loading = None
  BY NewPageState DEF Sound, Anywhere
<1>2. Closed = [p EXCEPT !.open = FALSE]
  BY DEF Closed
<1> HIDE DEF p
<1> QED BY <1>1, <1>2 DEF Sound, PageState

LEMMA ClearedState ==
    ASSUME NEW p, Sound(p)
    PROVE  /\ Sound(Cleared(p)) /\ Cleared(p).open = p.open /\ Cleared(p).asked = p.asked
           /\ Cleared(p).title = p.title /\ Cleared(p).history = p.history
           /\ Cleared(p).index = p.index /\ Cleared(p).doc = None
           /\ Cleared(p).error = None /\ Cleared(p).loading = None
           /\ Cleared(p).request = 0 /\ Cleared(p).frame = None
<1>1. None \in Anywhere
  BY DEF Anywhere
<1> QED BY <1>1 DEF Cleared, Sound, PageState

\* commit_navigation: the page that waits for a load of url, numbered request.
Committed(p, url) == [Cleared(p) EXCEPT !.title = url, !.asked = @ \cup {url}]
Waiting(p, url, request) == [Committed(p, url) EXCEPT !.loading = url, !.request = request]

LEMMA CommittedState ==
    ASSUME NEW p, Sound(p), NEW url \in Anywhere
    PROVE  /\ Sound(Committed(p, url)) /\ Own(Committed(p, url))
           /\ Follows(p, Committed(p, url)) /\ Committed(p, url).loading = None
           /\ Committed(p, url).open = p.open /\ url \in Committed(p, url).asked
           /\ Committed(p, url).title = url /\ Committed(p, url).doc = None
           /\ Committed(p, url).error = None /\ Committed(p, url).frame = None
<1> DEFINE c == Cleared(p)
<1>1. /\ c \in PageState /\ c.index \in 1 .. Len(c.history) /\ c.open = p.open
      /\ c.asked = p.asked /\ c.doc = None /\ c.error = None /\ c.loading = None /\ c.frame = None
  BY ClearedState DEF Sound
<1>2. Committed(p, url) = [c EXCEPT !.title = url, !.asked = @ \cup {url}]
  BY DEF Committed
<1> HIDE DEF c
<1>3. Committed(p, url) \in PageState
  BY <1>1, <1>2 DEF PageState
<1> QED BY <1>1, <1>2, <1>3 DEF PageState, Sound, Own, Follows

LEMMA WaitingState ==
    ASSUME NEW p, Sound(p), NEW url \in Anywhere, NEW request \in Nat
    PROVE  /\ Sound(Waiting(p, url, request)) /\ Own(Waiting(p, url, request))
           /\ Follows(p, Waiting(p, url, request)) /\ Waiting(p, url, request).request = request
           /\ Waiting(p, url, request).open = p.open
           /\ p.open => url \in Waiting(p, url, request).asked
<1> DEFINE c == Committed(p, url)
<1>1. /\ c \in PageState /\ c.index \in 1 .. Len(c.history) /\ c.open = p.open
      /\ Follows(p, c) /\ url \in c.asked /\ c.title = url /\ c.doc = None
      /\ c.error = None /\ c.frame = None
  BY CommittedState DEF Sound
<1>2. Waiting(p, url, request) = [c EXCEPT !.loading = url, !.request = request]
  BY DEF Waiting
<1> HIDE DEF c
<1>3. Waiting(p, url, request) \in PageState
  BY <1>1, <1>2 DEF PageState
<1> QED BY <1>1, <1>2, <1>3 DEF PageState, Sound, Own, Follows

\* The history before a navigation: the same, or what is forward of it is replaced.
LEMMA PushedState ==
    ASSUME NEW p, Sound(p), NEW url \in Anywhere
    PROVE  Sound(PushHistory(p, url)) /\ Follows(p, PushHistory(p, url))
           /\ PushHistory(p, url).open = p.open
<1>1. CASE CurrentUrl(p) = url
  BY <1>1 DEF PushHistory, Follows
<1>2. CASE CurrentUrl(p) # url
  <2> DEFINE kept == SubSeq(p.history, 1, p.index)
             entries == Append(kept, url)
  <2>1. p.history \in Seq(Anywhere) /\ p.index \in 1 .. Len(p.history) /\ Len(p.history) \in Nat
    BY DEF Sound, PageState
  <2>2. kept \in Seq(Anywhere) /\ Len(kept) = p.index
    BY <2>1
  <2>3. PushHistory(p, url) = [p EXCEPT !.history = entries, !.index = p.index + 1]
    BY <1>2 DEF PushHistory
  <2> HIDE DEF kept
  <2>4. entries \in Seq(Anywhere) /\ Len(entries) = p.index + 1
    BY <2>2, Appended
  <2> HIDE DEF entries
  <2>5. p \in PageState /\ p.index + 1 \in Nat
    BY <2>1 DEF Sound
  <2>6. PushHistory(p, url) \in PageState
    BY <2>3, <2>4, <2>5 DEF PageState
  <2> QED BY <2>1, <2>3, <2>4, <2>5, <2>6 DEF PageState, Sound, Follows
<1> QED BY <1>1, <1>2

LEMMA MovedState ==
    ASSUME NEW p, Sound(p), NEW i \in DOMAIN p.history
    PROVE  /\ Sound([p EXCEPT !.index = i]) /\ Follows(p, [p EXCEPT !.index = i])
           /\ [p EXCEPT !.index = i].open = p.open /\ p.history[i] \in Anywhere
BY DEF Sound, PageState, Follows

LEMMA StoppedState ==
    ASSUME NEW p, Sound(p), Own(p)
    PROVE  /\ Sound([p EXCEPT !.loading = None, !.request = 0])
           /\ Own([p EXCEPT !.loading = None, !.request = 0])
           /\ Follows(p, [p EXCEPT !.loading = None, !.request = 0])
           /\ [p EXCEPT !.loading = None, !.request = 0].loading = None
<1> DEFINE q == [p EXCEPT !.loading = None, !.request = 0]
<1>1. None \in Anywhere /\ p \in PageState
  BY DEF Anywhere, Sound
<1>2. /\ q \in PageState /\ q.open = p.open /\ q.history = p.history /\ q.index = p.index
      /\ q.asked = p.asked /\ q.title = p.title /\ q.frame = p.frame /\ q.error = p.error
      /\ q.doc = p.doc /\ q.loading = None
  BY <1>1 DEF PageState
<1> HIDE DEF q
<1>3. Sound(q) /\ Follows(p, q)
  BY <1>2 DEF Sound, Follows
<1>4. Own(q)
  BY <1>2 DEF Own, CurrentUrl
<1> QED BY <1>2, <1>3, <1>4 DEF q

ReportKinds == {"NavigationStart", "FrameReady", "LoadComplete", "NavigationError"}
AnswerKinds == {"Loaded", "Failed"}

\* An event for a tab: reports answer no request, and only an answer may name a
\* url that the tab was not sent to.
Events(own) ==
    {e \in [tab : PageTabs, request : Nat, kind : ReportKinds \cup AnswerKinds, url : Anywhere] :
        /\ e.kind # "Loaded" => e.url \in own[e.tab]
        /\ e.kind \in ReportKinds => e.request = 0}

\* finish_load leaves a page of its own, and ends what the tab waited for.
LEMMA FinishedState ==
    ASSUME NEW p, Sound(p), Own(p), NEW e, e.kind \in AnswerKinds, e.url \in Anywhere,
           e.kind # "Loaded" => e.url \in p.asked
    PROVE  /\ Sound(Finished(p, e)) /\ Own(Finished(p, e)) /\ Follows(p, Finished(p, e))
           /\ Finished(p, e).open = p.open
           /\ e.request = p.request => Finished(p, e).loading = None
           /\ e.request # p.request => Finished(p, e) = p
<1>1. CASE e.request # p.request
  BY <1>1 DEF Finished, Follows
<1>2. CASE e.request = p.request /\ e.kind = "Loaded"
  <2> DEFINE entries == [p.history EXCEPT ![p.index] = e.url]
             r == [p EXCEPT !.history = entries]
             c == Cleared(r)
             q == [c EXCEPT !.doc = e.url, !.title = e.url, !.asked = @ \cup {e.url}]
  <2>1. p \in PageState /\ p.history \in Seq(Anywhere) /\ p.index \in 1 .. Len(p.history)
    BY DEF Sound, PageState
  <2>2. ReplaceHistory(p, e.url) = r
    BY DEF ReplaceHistory
  <2>3. entries \in Seq(Anywhere) /\ Len(entries) = Len(p.history) /\ entries[p.index] = e.url
    BY <2>1
  <2>4. Finished(p, e) = q
    BY <1>2, <2>2 DEF Finished
  <2> HIDE DEF entries
  <2>5. /\ r \in PageState /\ r.history = entries /\ r.index = p.index
        /\ r.open = p.open /\ r.asked = p.asked
    BY <2>1, <2>3 DEF PageState
  <2>6. Sound(r)
    BY <2>1, <2>3, <2>5 DEF Sound
  <2> HIDE DEF r
  <2>7. /\ c \in PageState /\ c.history = entries /\ c.index = p.index
        /\ c.open = p.open /\ c.asked = p.asked
        /\ c.error = None /\ c.loading = None /\ c.frame = None
    BY <2>5, <2>6, ClearedState DEF Sound
  <2> HIDE DEF c
  <2>8. /\ q \in PageState /\ q.history = entries /\ q.index = p.index
        /\ q.open = p.open /\ q.asked = p.asked \cup {e.url}
        /\ q.error = None /\ q.loading = None /\ q.frame = None
        /\ q.doc = e.url /\ q.title = e.url
    BY <2>7 DEF PageState
  <2> HIDE DEF q
  <2>9. Sound(q) /\ Own(q) /\ Follows(p, q) /\ q.open = p.open /\ q.loading = None
    BY <2>1, <2>3, <2>8 DEF Sound, Own, CurrentUrl, Follows
  <2> QED BY <1>2, <2>4, <2>9
<1>3. CASE e.request = p.request /\ e.kind = "Failed"
  <2> DEFINE c == Cleared(p)
             q == [c EXCEPT !.error = e.url]
  <2>1. Finished(p, e) = q
    BY <1>3 DEF Finished
  <2>2. /\ c \in PageState /\ c.history = p.history /\ c.index = p.index /\ c.title = p.title
        /\ c.open = p.open /\ c.asked = p.asked /\ c.doc = None
        /\ c.loading = None /\ c.frame = None
    BY ClearedState DEF Sound
  <2> HIDE DEF c
  <2>3. /\ q \in PageState /\ q.history = p.history /\ q.index = p.index /\ q.title = p.title
        /\ q.open = p.open /\ q.asked = p.asked /\ q.doc = None
        /\ q.loading = None /\ q.frame = None /\ q.error = e.url
    BY <2>2 DEF PageState
  <2> HIDE DEF q
  <2>4. Sound(q) /\ Own(q) /\ Follows(p, q) /\ q.open = p.open /\ q.loading = None
    BY <1>3, <2>3 DEF Sound, Own, Follows
  <2> QED BY <1>3, <2>1, <2>4
<1> QED BY <1>1, <1>2, <1>3 DEF AnswerKinds

\* A report is of a url that the tab was sent to; the last of a load ends it.
LEMMA ReportedState ==
    ASSUME NEW p, Sound(p), Own(p), p.open, NEW e, e.kind \in ReportKinds, e.url \in Anywhere,
           e.url \in p.asked
    PROVE  /\ Sound(Reported(p, e)) /\ Own(Reported(p, e)) /\ Follows(p, Reported(p, e))
           /\ Reported(p, e).open = p.open /\ Reported(p, e).request = p.request
           /\ Ends(e) => Reported(p, e).loading = None
           /\ e.kind = "FrameReady" => Reported(p, e).loading = p.loading
<1> DEFINE q == Reported(p, e)
<1>1. None \in Anywhere /\ p \in PageState
  BY DEF Anywhere, Sound
<1>2. /\ q \in PageState /\ q.open = p.open /\ q.history = p.history /\ q.index = p.index
      /\ q.asked = p.asked /\ q.doc = p.doc /\ q.request = p.request
      /\ q.title \in {p.title, e.url} /\ q.frame \in {p.frame, e.url}
      /\ q.error \in {p.error, e.url} /\ q.loading \in {p.loading, e.url, None}
      /\ Ends(e) => q.loading = None
      /\ e.kind = "FrameReady" => q.loading = p.loading
  <2>1. CASE e.kind = "NavigationStart"
    BY <1>1, <2>1 DEF Reported, PageState, Ends
  <2>2. CASE e.kind = "FrameReady"
    BY <1>1, <2>2 DEF Reported, PageState, Ends
  <2>3. CASE e.kind = "LoadComplete"
    BY <1>1, <2>3 DEF Reported, PageState, Ends
  <2>4. CASE e.kind = "NavigationError"
    BY <1>1, <2>4 DEF Reported, PageState, Ends
  <2> QED BY <2>1, <2>2, <2>3, <2>4 DEF ReportKinds
<1> HIDE DEF q
<1>3. Sound(q) /\ Follows(p, q)
  BY <1>2 DEF Sound, Follows
<1>4. Own(q)
  <2>1. {p.loading, p.title, p.frame, p.error} \subseteq p.asked \cup {None}
    BY DEF Own
  <2>2. {q.loading, q.title, q.frame, q.error} \subseteq q.asked \cup {None}
    BY <1>2, <2>1
  <2>3. q.doc # None => q.doc = CurrentUrl(q)
    BY <1>2 DEF Own, CurrentUrl
  <2> QED BY <2>2, <2>3 DEF Own
<1> QED BY <1>2, <1>3, <1>4 DEF q

-----------------------------------------------------------------------------
(* What is on its way to the tabs.                                         *)

\* The urls that may be on the way to a tab: those it was sent to, while it is open.
OnTheWay(p) == IF p.open THEN p.asked ELSE Anywhere
Ways == [t \in PageTabs |-> OnTheWay(page[t])]

Loads(own) == {r \in [tab : PageTabs, request : Nat \ {0}, url : Anywhere] : r.url \in own[r.tab]}
Deliveries(own) == {s \in [tab : PageTabs, request : Nat, url : Anywhere, to : {"window", "process"}] :
                        s.url \in own[s.tab]}
Mail(own, t) == {u \in Anywhere : u \in own[t]}
Messages(own, t) == {m \in [kind : ReportKinds, url : Anywhere] : m.url \in own[t]}

Channels(own) ==
    /\ engine \in Seq(Loads(own))
    /\ sending \subseteq Deliveries(own)
    /\ \A t \in PageTabs : mailbox[t] \in Seq(Mail(own, t))
    /\ \A t \in PageTabs : pipe[t] \in Seq(Messages(own, t))
    /\ tabEvents \in Seq(Events(own))

PagesTypes ==
    /\ moves \in Nat
    /\ page \in [PageTabs -> PageState]
    /\ \A t \in PageTabs : Sound(page[t]) /\ (page[t].open \/ page[t].loading = None)
    /\ renderer \in [PageTabs -> {"none", "running", "dead"}]
    /\ DOMAIN mailbox = PageTabs /\ DOMAIN pipe = PageTabs
    /\ mailbox \in [PageTabs -> Seq(Anywhere)]
    /\ pipe \in [PageTabs -> Seq([kind : ReportKinds, url : Anywhere])]

OwnInv == PagesTypes /\ Channels(Ways) /\ PageIsOwn

LEMMA OwnIsPageIsOwn == PageIsOwn <=> \A t \in PageTabs : Own(page[t])
BY DEF PageIsOwn, Own

\* A channel that a step leaves alone stays good when tabs are sent to more urls.
LEMMA ChannelsWiden ==
    ASSUME NEW own, NEW wide, \A t \in PageTabs : own[t] \subseteq wide[t]
    PROVE  /\ \A s \in Seq(Loads(own)) : s \in Seq(Loads(wide))
           /\ Deliveries(own) \subseteq Deliveries(wide)
           /\ \A t \in PageTabs : \A s \in Seq(Mail(own, t)) : s \in Seq(Mail(wide, t))
           /\ \A t \in PageTabs : \A s \in Seq(Messages(own, t)) : s \in Seq(Messages(wide, t))
           /\ \A s \in Seq(Events(own)) : s \in Seq(Events(wide))
<1>1. Loads(own) \subseteq Loads(wide) /\ Deliveries(own) \subseteq Deliveries(wide)
  BY DEF Loads, Deliveries
<1>2. \A t \in PageTabs : Mail(own, t) \subseteq Mail(wide, t) /\ Messages(own, t) \subseteq Messages(wide, t)
  BY DEF Mail, Messages
<1>3. Events(own) \subseteq Events(wide)
  BY DEF Events
<1> QED BY <1>1, <1>2, <1>3, SeqWider

\* When every page is followed, what may be on the way is no less than before.
LEMMA WaysWiden ==
    ASSUME NEW before, NEW after,
           \A t \in PageTabs : Sound(before[t]) /\ Follows(before[t], after[t])
    PROVE  \A t \in PageTabs : OnTheWay(before[t]) \subseteq OnTheWay(after[t])
BY DEF Follows, OnTheWay, Sound, PageState

\* The first entries of a sequence.
LEMMA Prefix ==
    ASSUME NEW S, NEW s \in Seq(S), NEW n \in 0 .. Len(s)
    PROVE  SubSeq(s, 1, n) \in Seq(S)
OBVIOUS

LEMMA PagesInitOwn == PagesInit => OwnInv
<1> SUFFICES ASSUME PagesInit PROVE OwnInv
  OBVIOUS
<1>1. \A t \in PageTabs : page[t] = TabPageState(Start)
  BY DEF PagesInit
<1>2. \A t \in PageTabs : Sound(page[t]) /\ Own(page[t]) /\ page[t].loading = None
  <2>1. Start \in Anywhere
    BY DEF Anywhere
  <2> QED BY <1>1, <2>1, NewPageState
<1>3. PagesTypes
  BY <1>1, <1>2 DEF PagesInit, PagesTypes, Sound
<1>4. Channels(Ways)
  BY DEF PagesInit, Channels
<1> QED BY <1>2, <1>3, <1>4, OwnIsPageIsOwn DEF OwnInv

\* A step that leaves the pages alone.
LEMMA SamePages ==
    ASSUME OwnInv, page' = page
    PROVE  /\ page' \in [PageTabs -> PageState] /\ PageIsOwn'
           /\ \A t \in PageTabs : Sound(page'[t]) /\ (page'[t].open \/ page'[t].loading = None)
           /\ Ways' = Ways
BY DEF OwnInv, PagesTypes, PageIsOwn, CurrentUrl, Ways

\* A step of one page.
LEMMA OnePage ==
    ASSUME OwnInv, NEW t \in PageTabs, NEW q, page' = [page EXCEPT ![t] = q],
           Sound(q), Own(q), Follows(page[t], q), q.open \/ q.loading = None
    PROVE  /\ page' \in [PageTabs -> PageState] /\ PageIsOwn'
           /\ \A u \in PageTabs : Sound(page'[u]) /\ (page'[u].open \/ page'[u].loading = None)
           /\ \A u \in PageTabs : Ways[u] \subseteq Ways'[u]
<1>1. /\ page \in [PageTabs -> PageState]
      /\ \A u \in PageTabs : Sound(page[u]) /\ Own(page[u]) /\ (page[u].open \/ page[u].loading = None)
  BY OwnIsPageIsOwn DEF OwnInv, PagesTypes
<1>2. q \in PageState
  BY DEF Sound
<1>3. page' \in [PageTabs -> PageState] /\ \A u \in PageTabs : page'[u] = IF u = t THEN q ELSE page[u]
  BY <1>1, <1>2
<1>4. \A u \in PageTabs : /\ Sound(page'[u]) /\ Own(page'[u])
                          /\ page'[u].open \/ page'[u].loading = None
  BY <1>1, <1>3
<1>5. PageIsOwn'
  BY <1>4 DEF PageIsOwn, Own, CurrentUrl
<1>6. \A u \in PageTabs : Sound(page[u]) /\ Follows(page[u], page'[u])
  <2>1. \A p : Follows(p, p)
    BY DEF Follows
  <2> QED BY <1>1, <1>3, <2>1
<1>7. \A u \in PageTabs : Ways[u] = OnTheWay(page[u]) /\ Ways'[u] = OnTheWay(page'[u])
  BY DEF Ways
<1>8. \A u \in PageTabs : Ways[u] \subseteq Ways'[u]
  <2> DEFINE before == page
             after == page'
  <2>1. \A u \in PageTabs : Sound(before[u]) /\ Follows(before[u], after[u])
    BY <1>6
  <2> HIDE DEF before, after
  <2>2. \A u \in PageTabs : OnTheWay(before[u]) \subseteq OnTheWay(after[u])
    BY <2>1, WaysWiden
  <2> QED BY <1>7, <2>2 DEF before, after
<1> QED BY <1>3, <1>4, <1>5, <1>8

\* What each channel holds after a step is still good, where it holds nothing new.
LEMMA OldChannels ==
    ASSUME OwnInv, \A t \in PageTabs : Ways[t] \subseteq Ways'[t]
    PROVE  /\ engine \in Seq(Loads(Ways')) /\ sending \subseteq Deliveries(Ways')
           /\ \A t \in PageTabs : mailbox[t] \in Seq(Mail(Ways', t))
           /\ \A t \in PageTabs : pipe[t] \in Seq(Messages(Ways', t))
           /\ tabEvents \in Seq(Events(Ways'))
<1> DEFINE own == Ways
           wide == Ways'
<1>1. /\ engine \in Seq(Loads(own)) /\ sending \subseteq Deliveries(own)
      /\ \A t \in PageTabs : mailbox[t] \in Seq(Mail(own, t))
      /\ \A t \in PageTabs : pipe[t] \in Seq(Messages(own, t))
      /\ tabEvents \in Seq(Events(own))
  BY DEF OwnInv, Channels
<1>2. \A t \in PageTabs : own[t] \subseteq wide[t]
  OBVIOUS
<1> HIDE DEF own, wide
<1>3. /\ \A s \in Seq(Loads(own)) : s \in Seq(Loads(wide))
      /\ Deliveries(own) \subseteq Deliveries(wide)
      /\ \A t \in PageTabs : \A s \in Seq(Mail(own, t)) : s \in Seq(Mail(wide, t))
      /\ \A t \in PageTabs : \A s \in Seq(Messages(own, t)) : s \in Seq(Messages(wide, t))
      /\ \A s \in Seq(Events(own)) : s \in Seq(Events(wide))
  BY <1>2, ChannelsWiden
<1>4. /\ engine \in Seq(Loads(wide)) /\ sending \subseteq Deliveries(wide)
      /\ \A t \in PageTabs : mailbox[t] \in Seq(Mail(wide, t))
      /\ \A t \in PageTabs : pipe[t] \in Seq(Messages(wide, t))
      /\ tabEvents \in Seq(Events(wide))
  BY <1>1, <1>3, Zenon
<1> QED BY <1>4 DEF wide

-----------------------------------------------------------------------------
(* The user's steps.                                                       *)

\* A navigation of tab t, whose history and index p has already.
LEMMA CommitOwn ==
    ASSUME OwnInv, NEW t \in PageTabs, page[t].open, NEW p, Sound(p), Follows(page[t], p),
           p.open = page[t].open, NEW url \in Anywhere, Commit(t, p, url),
           UNCHANGED <<mailbox, pipe, tabEvents>>
    PROVE  OwnInv'
<1>1. moves' = moves + 1 /\ moves' \in Nat \ {0}
  BY DEF Commit, OwnInv, PagesTypes
<1>2. CASE url = Start
  <2>1. page' = [page EXCEPT ![t] = Committed(p, url)]
    BY <1>2 DEF Commit, Committed
  <2>2. Sound(Committed(p, url)) /\ Own(Committed(p, url)) /\ Follows(page[t], Committed(p, url))
        /\ Committed(p, url).open
    BY CommittedState DEF Follows
  <2>3. /\ page' \in [PageTabs -> PageState] /\ PageIsOwn'
        /\ \A u \in PageTabs : Sound(page'[u]) /\ (page'[u].open \/ page'[u].loading = None)
        /\ \A u \in PageTabs : Ways[u] \subseteq Ways'[u]
    BY <2>1, <2>2, OnePage
  <2>4. engine' = engine /\ sending' = sending /\ renderer' = renderer
    BY <1>2 DEF Commit
  <2>5. Channels(Ways)'
    BY <2>3, <2>4, OldChannels DEF Channels
  <2>6. PagesTypes'
    BY <1>1, <2>3, <2>4 DEF OwnInv, PagesTypes
  <2> QED BY <2>3, <2>5, <2>6 DEF OwnInv
<1>3. CASE url # Start
  <2> DEFINE q == Waiting(p, url, moves')
             load == [tab |-> t, request |-> moves', url |-> url]
  <2>1. page' = [page EXCEPT ![t] = q]
    BY <1>3 DEF Commit, Committed, Waiting
  <2>2. Sound(q) /\ Own(q) /\ Follows(page[t], q) /\ q.open /\ url \in q.asked
    BY <1>1, WaitingState DEF Follows
  <2>3. /\ page' \in [PageTabs -> PageState] /\ PageIsOwn'
        /\ \A u \in PageTabs : Sound(page'[u]) /\ (page'[u].open \/ page'[u].loading = None)
        /\ \A u \in PageTabs : Ways[u] \subseteq Ways'[u]
    BY <2>1, <2>2, OnePage
  <2>4. url \in Ways'[t]
    <3>1. page'[t] = q
      BY <2>1 DEF OwnInv, PagesTypes
    <3>2. Ways'[t] = OnTheWay(page'[t])
      BY DEF Ways
    <3> HIDE DEF q
    <3> QED BY <2>2, <3>1, <3>2 DEF OnTheWay
  <2>5. Load(t, url)
    BY <1>3 DEF Commit
  <2>6. engine' = Append(engine, load)
        /\ \E to \in {"window", "process"} :
             sending' = sending \cup {[tab |-> t, request |-> moves', url |-> url, to |-> to]}
    BY <2>5 DEF Load
  <2>7. load \in Loads(Ways')
    BY <1>1, <2>4 DEF Loads
  <2>8. engine' \in Seq(Loads(Ways'))
    <3>1. engine \in Seq(Loads(Ways'))
      BY <2>3, OldChannels
    <3> HIDE DEF load
    <3> QED BY <2>6, <2>7, <3>1, Appended
  <2>9. sending' \subseteq Deliveries(Ways')
    <3>1. \A to \in {"window", "process"} :
            [tab |-> t, request |-> moves', url |-> url, to |-> to] \in Deliveries(Ways')
      BY <1>1, <2>4 DEF Deliveries
    <3>2. sending \subseteq Deliveries(Ways')
      BY <2>3, OldChannels
    <3> QED BY <2>6, <3>1, <3>2
  <2>10. renderer' \in [PageTabs -> {"none", "running", "dead"}]
    BY <2>5 DEF Load, EnsureRenderer, TrySpawn, OwnInv, PagesTypes
  <2>11. Channels(Ways)'
    BY <2>3, <2>8, <2>9, OldChannels DEF Channels
  <2>12. PagesTypes'
    BY <1>1, <2>3, <2>10 DEF OwnInv, PagesTypes
  <2> QED BY <2>3, <2>11, <2>12 DEF OwnInv
<1> QED BY <1>2, <1>3

LEMMA NavigateOwn ==
    ASSUME OwnInv, NEW t \in PageTabs, page[t].open, NEW url \in Typed \cup {Start},
           NavigateInput(t, url)
    PROVE  OwnInv'
<1>1. Sound(page[t]) /\ url \in Anywhere
  BY DEF OwnInv, PagesTypes, Anywhere
<1> QED BY <1>1, PushedState, CommitOwn DEF NavigateInput

LEMMA GoToOwn ==
    ASSUME OwnInv, NEW t \in PageTabs, page[t].open, NEW i, GoTo(t, i)
    PROVE  OwnInv'
<1> DEFINE p == [page[t] EXCEPT !.index = i]
           url == page[t].history[i]
<1>1. i \in DOMAIN page[t].history /\ Sound(page[t])
  BY DEF GoTo, OwnInv, PagesTypes
<1>2. Sound(p) /\ Follows(page[t], p) /\ p.open = page[t].open /\ url \in Anywhere
  BY <1>1, MovedState
<1>3. Commit(t, p, url) /\ UNCHANGED <<mailbox, pipe, tabEvents>>
  BY DEF GoTo
<1> HIDE DEF p, url
<1> QED BY <1>2, <1>3, CommitOwn

LEMMA ReloadOwn ==
    ASSUME OwnInv, NEW t \in PageTabs, page[t].open, Reload(t)
    PROVE  OwnInv'
<1>1. Sound(page[t])
  BY DEF OwnInv, PagesTypes
<1>2. CurrentUrl(page[t]) \in Anywhere /\ Follows(page[t], page[t])
  BY <1>1 DEF CurrentUrl, Sound, PageState, Follows
<1> QED BY <1>1, <1>2, CommitOwn DEF Reload

LEMMA StopOwn ==
    ASSUME OwnInv, NEW t \in PageTabs, StopLoading(t)
    PROVE  OwnInv'
<1> DEFINE q == [page[t] EXCEPT !.loading = None, !.request = 0]
<1>1. Sound(page[t]) /\ Own(page[t])
  BY OwnIsPageIsOwn DEF OwnInv, PagesTypes
<1>2. Sound(q) /\ Own(q) /\ Follows(page[t], q) /\ q.loading = None
  BY <1>1, StoppedState
<1>3. page' = [page EXCEPT ![t] = q]
  BY DEF StopLoading, OwnInv, PagesTypes
<1> HIDE DEF q
<1>4. /\ page' \in [PageTabs -> PageState] /\ PageIsOwn'
      /\ \A u \in PageTabs : Sound(page'[u]) /\ (page'[u].open \/ page'[u].loading = None)
      /\ \A u \in PageTabs : Ways[u] \subseteq Ways'[u]
  BY <1>2, <1>3, OnePage
<1>5. UNCHANGED <<moves, engine, sending, renderer, mailbox, pipe, tabEvents>>
  BY DEF StopLoading
<1>6. Channels(Ways)'
  BY <1>4, <1>5, OldChannels DEF Channels
<1> QED BY <1>4, <1>5, <1>6 DEF OwnInv, PagesTypes

\* The mail of a process that has ended is lost, and the last of its messages may be.
LEMMA EndedOwn ==
    ASSUME OwnInv, NEW t \in PageTabs, Ended(t), \A u \in PageTabs : Ways[u] \subseteq Ways'[u]
    PROVE  /\ DOMAIN mailbox' = PageTabs /\ DOMAIN pipe' = PageTabs
           /\ mailbox' \in [PageTabs -> Seq(Anywhere)]
           /\ pipe' \in [PageTabs -> Seq([kind : ReportKinds, url : Anywhere])]
           /\ \A u \in PageTabs : mailbox'[u] \in Seq(Mail(Ways', u))
           /\ \A u \in PageTabs : pipe'[u] \in Seq(Messages(Ways', u))
<1>1. PICK n \in 0 .. Len(pipe[t]) : pipe' = [pipe EXCEPT ![t] = SubSeq(pipe[t], 1, n)]
  BY DEF Ended
<1>2. mailbox' = [mailbox EXCEPT ![t] = <<>>]
  BY DEF Ended
<1>3. /\ \A u \in PageTabs : mailbox[u] \in Seq(Mail(Ways', u))
      /\ \A u \in PageTabs : pipe[u] \in Seq(Messages(Ways', u))
  BY OldChannels
<1>4. SubSeq(pipe[t], 1, n) \in Seq(Messages(Ways', t))
  BY <1>3, Prefix
<1>5. pipe[t] \in Seq([kind : ReportKinds, url : Anywhere])
  BY DEF OwnInv, PagesTypes
<1>6. SubSeq(pipe[t], 1, n) \in Seq([kind : ReportKinds, url : Anywhere])
  BY <1>5, Prefix
<1> DEFINE rest == SubSeq(pipe[t], 1, n)
<1> HIDE DEF rest
<1>7. pipe' = [pipe EXCEPT ![t] = rest]
  BY <1>1 DEF rest
<1>8. rest \in Seq(Messages(Ways', t)) /\ rest \in Seq([kind : ReportKinds, url : Anywhere])
  BY <1>4, <1>6 DEF rest
<1>9. pipe' \in [PageTabs -> Seq([kind : ReportKinds, url : Anywhere])]
  BY <1>7, <1>8 DEF OwnInv, PagesTypes
<1>10. mailbox' \in [PageTabs -> Seq(Anywhere)]
  BY <1>2 DEF OwnInv, PagesTypes
<1>11. \A u \in PageTabs : pipe'[u] \in Seq(Messages(Ways', u))
  BY <1>3, <1>7, <1>8 DEF OwnInv, PagesTypes
<1>12. \A u \in PageTabs : mailbox'[u] \in Seq(Mail(Ways', u))
  BY <1>2, <1>3 DEF OwnInv, PagesTypes
<1> QED BY <1>9, <1>10, <1>11, <1>12

LEMMA CloseOwn ==
    ASSUME OwnInv, NEW t \in PageTabs, ClosePage(t)
    PROVE  OwnInv'
<1>1. Sound(Closed) /\ Own(Closed) /\ Follows(page[t], Closed) /\ Closed.loading = None
  BY ClosedState DEF Own, Follows
<1>2. page' = [page EXCEPT ![t] = Closed]
  BY DEF ClosePage
<1>3. /\ page' \in [PageTabs -> PageState] /\ PageIsOwn'
      /\ \A u \in PageTabs : Sound(page'[u]) /\ (page'[u].open \/ page'[u].loading = None)
      /\ \A u \in PageTabs : Ways[u] \subseteq Ways'[u]
  BY <1>1, <1>2, OnePage
<1>4. /\ UNCHANGED <<moves, engine, sending, tabEvents>> /\ Ended(t)
      /\ renderer' \in [PageTabs -> {"none", "running", "dead"}]
  BY DEF ClosePage, OwnInv, PagesTypes
<1>5. Channels(Ways)'
  BY <1>3, <1>4, OldChannels, EndedOwn DEF Channels
<1>6. PagesTypes'
  BY <1>3, <1>4, EndedOwn DEF OwnInv, PagesTypes
<1> QED BY <1>3, <1>5, <1>6 DEF OwnInv

-----------------------------------------------------------------------------
(* The steps of the processes, of the worker and of the window.            *)

LEMMA DeliverOwn ==
    ASSUME OwnInv, NEW s \in sending, Deliver(s)
    PROVE  OwnInv'
<1>1. UNCHANGED <<page, moves, engine, renderer, pipe, tabEvents>> /\ sending' \subseteq sending
  BY DEF Deliver
<1>2. /\ page' \in [PageTabs -> PageState] /\ PageIsOwn'
      /\ \A u \in PageTabs : Sound(page'[u]) /\ (page'[u].open \/ page'[u].loading = None)
      /\ \A u \in PageTabs : Ways[u] \subseteq Ways'[u]
  BY <1>1, SamePages
<1>3. s.tab \in PageTabs /\ s.url \in Anywhere /\ s.url \in Mail(Ways', s.tab)
  BY <1>2, OldChannels DEF Deliveries, Mail
<1>4. /\ mailbox' \in [PageTabs -> Seq(Anywhere)]
      /\ \A u \in PageTabs : mailbox'[u] \in Seq(Mail(Ways', u))
  <2>1. CASE mailbox' = mailbox
    BY <1>2, <2>1, OldChannels DEF OwnInv, PagesTypes
  <2>2. CASE mailbox' # mailbox
    <3> DEFINE longer == Append(mailbox[s.tab], s.url)
    <3>1. mailbox' = [mailbox EXCEPT ![s.tab] = longer]
      BY <2>2 DEF Deliver
    <3>2. longer \in Seq(Anywhere)
      <4>1. mailbox[s.tab] \in Seq(Anywhere)
        BY <1>3 DEF OwnInv, PagesTypes
      <4> QED BY <1>3, <4>1, Appended
    <3>3. longer \in Seq(Mail(Ways', s.tab))
      <4>1. mailbox[s.tab] \in Seq(Mail(Ways', s.tab))
        BY <1>2, <1>3, OldChannels
      <4> QED BY <1>3, <4>1, Appended
    <3> HIDE DEF longer
    <3>4. \A u \in PageTabs : mailbox[u] \in Seq(Mail(Ways', u))
      BY <1>2, OldChannels
    <3> QED BY <1>3, <3>1, <3>2, <3>3, <3>4 DEF OwnInv, PagesTypes
  <2> QED BY <2>1, <2>2
<1>5. Channels(Ways)'
  BY <1>1, <1>2, <1>4, OldChannels DEF Channels
<1>6. PagesTypes'
  BY <1>1, <1>2, <1>4 DEF OwnInv, PagesTypes
<1> QED BY <1>2, <1>5, <1>6 DEF OwnInv

\* A list of reports of url is one of messages, and ends the load.
LEMMA ReportsAreMessages ==
    ASSUME NEW url, NEW S, \A kind \in ReportKinds : Message(kind, url) \in S,
           NEW reports \in Reports(url)
    PROVE  reports \in Seq(S) /\ Len(reports) \in Nat \ {0} /\ Ends(reports[Len(reports)])
<1>1. /\ Message("NavigationStart", url) \in S /\ Message("FrameReady", url) \in S
      /\ Message("LoadComplete", url) \in S /\ Message("NavigationError", url) \in S
  BY DEF ReportKinds
<1>2. Ends(Message("LoadComplete", url)) /\ Ends(Message("NavigationError", url))
  BY DEF Ends, Message
<1> DEFINE started == Message("NavigationStart", url)
           drawn == Message("FrameReady", url)
           loaded == Message("LoadComplete", url)
           failed == Message("NavigationError", url)
<1>3. reports \in {<<started, failed>>, <<started, drawn, loaded>>}
  BY DEF Reports
<1>4. started \in S /\ drawn \in S /\ loaded \in S /\ failed \in S /\ Ends(loaded) /\ Ends(failed)
  BY <1>1, <1>2
<1> HIDE DEF started, drawn, loaded, failed
<1>5. CASE reports = <<started, failed>>
  <2>1. reports \in Seq(S) /\ Len(reports) = 2 /\ reports[2] = failed
    BY <1>4, <1>5
  <2> QED BY <1>4, <2>1
<1>6. CASE reports = <<started, drawn, loaded>>
  <2>1. reports \in Seq(S) /\ Len(reports) = 3 /\ reports[3] = loaded
    BY <1>4, <1>6
  <2> QED BY <1>4, <2>1
<1> QED BY <1>3, <1>5, <1>6

LEMMA RenderOwn ==
    ASSUME OwnInv, NEW t \in PageTabs, Render(t)
    PROVE  OwnInv'
<1>1. UNCHANGED <<page, moves, engine, sending, renderer, tabEvents>>
  BY DEF Render
<1>2. /\ page' \in [PageTabs -> PageState] /\ PageIsOwn'
      /\ \A u \in PageTabs : Sound(page'[u]) /\ (page'[u].open \/ page'[u].loading = None)
      /\ \A u \in PageTabs : Ways[u] \subseteq Ways'[u]
  BY <1>1, SamePages
<1>3. /\ engine \in Seq(Loads(Ways')) /\ sending \subseteq Deliveries(Ways')
      /\ \A u \in PageTabs : mailbox[u] \in Seq(Mail(Ways', u))
      /\ \A u \in PageTabs : pipe[u] \in Seq(Messages(Ways', u))
      /\ tabEvents \in Seq(Events(Ways'))
  BY <1>2, OldChannels
<1> DEFINE url == Head(mailbox[t])
           rest == Tail(mailbox[t])
<1>4. mailbox' = [mailbox EXCEPT ![t] = rest] /\ mailbox[t] # <<>>
  BY DEF Render
<1>5. url \in Mail(Ways', t) /\ rest \in Seq(Mail(Ways', t))
  BY <1>3, <1>4, HeadTail
<1>6. rest \in Seq(Anywhere) /\ mailbox[t] \in Seq(Anywhere) /\ pipe[t] \in Seq([kind : ReportKinds, url : Anywhere])
  BY <1>4, HeadTail DEF OwnInv, PagesTypes
<1>7. PICK reports \in Reports(url) : pipe' = [pipe EXCEPT ![t] = pipe[t] \o reports]
  BY DEF Render
<1> HIDE DEF url, rest
<1>8. \A kind \in ReportKinds : /\ Message(kind, url) \in Messages(Ways', t)
                                /\ Message(kind, url) \in [kind : ReportKinds, url : Anywhere]
  BY <1>5 DEF Message, Messages, Mail
<1>9. reports \in Seq(Messages(Ways', t)) /\ reports \in Seq([kind : ReportKinds, url : Anywhere])
  BY <1>8, ReportsAreMessages
<1> DEFINE longer == pipe[t] \o reports
<1>10. longer \in Seq(Messages(Ways', t)) /\ longer \in Seq([kind : ReportKinds, url : Anywhere])
  BY <1>3, <1>6, <1>9
<1>11. pipe' = [pipe EXCEPT ![t] = longer]
  BY <1>7
<1> HIDE DEF longer
<1>12. /\ mailbox' \in [PageTabs -> Seq(Anywhere)]
       /\ pipe' \in [PageTabs -> Seq([kind : ReportKinds, url : Anywhere])]
  BY <1>4, <1>6, <1>10, <1>11 DEF OwnInv, PagesTypes
<1>13. \A u \in PageTabs : mailbox'[u] \in Seq(Mail(Ways', u)) /\ pipe'[u] \in Seq(Messages(Ways', u))
  BY <1>3, <1>4, <1>5, <1>10, <1>11 DEF OwnInv, PagesTypes
<1>14. Channels(Ways)'
  BY <1>1, <1>3, <1>13 DEF Channels
<1>15. PagesTypes'
  BY <1>1, <1>2, <1>12 DEF OwnInv, PagesTypes
<1> QED BY <1>2, <1>14, <1>15 DEF OwnInv

LEMMA DiesOwn ==
    ASSUME OwnInv, NEW t \in PageTabs, RendererDies(t)
    PROVE  OwnInv'
<1>1. /\ UNCHANGED <<page, moves, engine, sending, tabEvents>> /\ Ended(t)
      /\ renderer' \in [PageTabs -> {"none", "running", "dead"}]
  BY DEF RendererDies, OwnInv, PagesTypes
<1>2. /\ page' \in [PageTabs -> PageState] /\ PageIsOwn'
      /\ \A u \in PageTabs : Sound(page'[u]) /\ (page'[u].open \/ page'[u].loading = None)
      /\ \A u \in PageTabs : Ways[u] \subseteq Ways'[u]
  BY <1>1, SamePages
<1>3. Channels(Ways)'
  BY <1>1, <1>2, OldChannels, EndedOwn DEF Channels
<1>4. PagesTypes'
  BY <1>1, <1>2, EndedOwn DEF OwnInv, PagesTypes
<1> QED BY <1>2, <1>3, <1>4 DEF OwnInv

\* An event names the tab whose forwarder or load it comes from.
LEMMA ForwardOwn ==
    ASSUME OwnInv, NEW t \in PageTabs, Forward(t)
    PROVE  OwnInv'
<1>1. UNCHANGED <<page, moves, engine, sending, renderer, mailbox>> /\ pipe[t] # <<>>
  BY DEF Forward
<1>2. /\ page' \in [PageTabs -> PageState] /\ PageIsOwn'
      /\ \A u \in PageTabs : Sound(page'[u]) /\ (page'[u].open \/ page'[u].loading = None)
      /\ \A u \in PageTabs : Ways[u] \subseteq Ways'[u]
  BY <1>1, SamePages
<1>3. /\ engine \in Seq(Loads(Ways')) /\ sending \subseteq Deliveries(Ways')
      /\ \A u \in PageTabs : mailbox[u] \in Seq(Mail(Ways', u))
      /\ \A u \in PageTabs : pipe[u] \in Seq(Messages(Ways', u))
      /\ tabEvents \in Seq(Events(Ways'))
  BY <1>2, OldChannels
<1> DEFINE m == Head(pipe[t])
           rest == Tail(pipe[t])
           e == EngineEvent(t, 0, m.kind, m.url)
<1>4. pipe' = [pipe EXCEPT ![t] = rest] /\ tabEvents' = Append(tabEvents, e)
  BY DEF Forward
<1>5. m \in Messages(Ways', t) /\ rest \in Seq(Messages(Ways', t))
  BY <1>1, <1>3, HeadTail
<1>6. rest \in Seq([kind : ReportKinds, url : Anywhere])
  BY <1>1, HeadTail DEF OwnInv, PagesTypes
<1> HIDE DEF m, rest
<1>7. e \in Events(Ways')
  BY <1>5 DEF EngineEvent, Messages, Events
<1> HIDE DEF e
<1>8. tabEvents' \in Seq(Events(Ways'))
  BY <1>3, <1>4, <1>7, Appended
<1>9. /\ pipe' \in [PageTabs -> Seq([kind : ReportKinds, url : Anywhere])]
      /\ \A u \in PageTabs : pipe'[u] \in Seq(Messages(Ways', u))
  BY <1>3, <1>4, <1>5, <1>6 DEF OwnInv, PagesTypes
<1>10. Channels(Ways)'
  BY <1>1, <1>3, <1>8, <1>9 DEF Channels
<1>11. PagesTypes'
  BY <1>1, <1>2, <1>9 DEF OwnInv, PagesTypes
<1> QED BY <1>2, <1>10, <1>11 DEF OwnInv

LEMMA AnswersOwn ==
    ASSUME OwnInv, EngineAnswers
    PROVE  OwnInv'
<1>1. UNCHANGED <<page, moves, sending, renderer, mailbox, pipe>> /\ engine # <<>>
  BY DEF EngineAnswers
<1>2. /\ page' \in [PageTabs -> PageState] /\ PageIsOwn'
      /\ \A u \in PageTabs : Sound(page'[u]) /\ (page'[u].open \/ page'[u].loading = None)
      /\ \A u \in PageTabs : Ways[u] \subseteq Ways'[u]
  BY <1>1, SamePages
<1>3. /\ engine \in Seq(Loads(Ways')) /\ sending \subseteq Deliveries(Ways')
      /\ \A u \in PageTabs : mailbox[u] \in Seq(Mail(Ways', u))
      /\ \A u \in PageTabs : pipe[u] \in Seq(Messages(Ways', u))
      /\ tabEvents \in Seq(Events(Ways'))
  BY <1>2, OldChannels
<1> DEFINE r == Head(engine)
<1>4. PICK kind \in AnswerKinds, url \in Pages :
        /\ kind = "Failed" => url = r.url
        /\ tabEvents' = Append(tabEvents, EngineEvent(r.tab, r.request, kind, url))
  BY DEF EngineAnswers, AnswerKinds
<1>5. engine' = Tail(engine)
  BY DEF EngineAnswers
<1>6. r \in Loads(Ways') /\ engine' \in Seq(Loads(Ways'))
  BY <1>1, <1>3, <1>5, HeadTail
<1> DEFINE e == EngineEvent(r.tab, r.request, kind, url)
<1> HIDE DEF r
<1>7. e \in Events(Ways')
  <2>1. url \in Anywhere
    BY DEF Anywhere
  <2> QED BY <1>4, <1>6, <2>1 DEF EngineEvent, Loads, Events, AnswerKinds, ReportKinds
<1>8. tabEvents' = Append(tabEvents, e)
  BY <1>4
<1> HIDE DEF e
<1>9. tabEvents' \in Seq(Events(Ways'))
  BY <1>3, <1>7, <1>8, Appended
<1>10. Channels(Ways)'
  BY <1>1, <1>3, <1>6, <1>9 DEF Channels
<1>11. PagesTypes'
  BY <1>1, <1>2 DEF OwnInv, PagesTypes
<1> QED BY <1>2, <1>10, <1>11 DEF OwnInv

\* What the event at the head does to the page of its tab.
Polled(p, e) ==
    IF ~ p.open THEN p ELSE IF e.kind \in AnswerKinds THEN Finished(p, e) ELSE Reported(p, e)

LEMMA PolledStep ==
    ASSUME OwnInv, PollLoading
    PROVE  LET e == Head(tabEvents) IN
           /\ e \in Events(Ways) /\ e.tab \in PageTabs /\ tabEvents # <<>>
           /\ page' = [page EXCEPT ![e.tab] = Polled(page[e.tab], e)]
<1> DEFINE e == Head(tabEvents)
           p == page[e.tab]
<1>1. tabEvents # <<>> /\ tabEvents \in Seq(Events(Ways))
  BY DEF PollLoading, OwnInv, Channels
<1>2. e \in Events(Ways)
  BY <1>1, HeadTail
<1>3. e.tab \in PageTabs
  BY <1>2 DEF Events
<1>4. page' = IF p.open
              THEN [page EXCEPT ![e.tab] =
                        IF e.kind \in {"Loaded", "Failed"} THEN Finished(p, e) ELSE Reported(p, e)]
              ELSE page
  BY DEF PollLoading
<1>5. page = [page EXCEPT ![e.tab] = page[e.tab]]
  BY <1>3 DEF OwnInv, PagesTypes
<1> HIDE DEF e
<1>6. page' = [page EXCEPT ![e.tab] = Polled(p, e)]
  BY <1>4, <1>5 DEF Polled, AnswerKinds
<1> QED BY <1>1, <1>2, <1>3, <1>6 DEF e

\* The page after an event is its own, and so is what it waits for.
LEMMA PolledState ==
    ASSUME OwnInv, NEW e \in Events(Ways)
    PROVE  /\ Sound(Polled(page[e.tab], e)) /\ Own(Polled(page[e.tab], e))
           /\ Follows(page[e.tab], Polled(page[e.tab], e))
           /\ Polled(page[e.tab], e).open \/ Polled(page[e.tab], e).loading = None
<1> DEFINE p == page[e.tab]
<1>1. /\ e.tab \in PageTabs /\ e.kind \in ReportKinds \cup AnswerKinds /\ e.url \in Anywhere
      /\ e.kind # "Loaded" => e.url \in Ways[e.tab]
  BY DEF Events
<1>2. Sound(p) /\ Own(p) /\ (p.open \/ p.loading = None)
  BY <1>1, OwnIsPageIsOwn DEF OwnInv, PagesTypes
<1>3. p.open => Ways[e.tab] = p.asked
  BY <1>1 DEF Ways, OnTheWay
<1> HIDE DEF p
<1>4. CASE ~ p.open
  BY <1>2, <1>4 DEF Polled, Follows, p
<1>5. CASE p.open /\ e.kind \in AnswerKinds
  <2>1. /\ Sound(Finished(p, e)) /\ Own(Finished(p, e)) /\ Follows(p, Finished(p, e))
        /\ Finished(p, e).open = p.open
    BY <1>1, <1>2, <1>3, <1>5, FinishedState
  <2>2. Polled(p, e) = Finished(p, e)
    BY <1>5 DEF Polled
  <2> QED BY <1>5, <2>1, <2>2 DEF p
<1>6. CASE p.open /\ e.kind \notin AnswerKinds
  <2>1. e.kind \in ReportKinds /\ e.url \in p.asked
    BY <1>1, <1>3, <1>6 DEF AnswerKinds
  <2>2. /\ Sound(Reported(p, e)) /\ Own(Reported(p, e)) /\ Follows(p, Reported(p, e))
        /\ Reported(p, e).open = p.open
    BY <1>1, <1>2, <1>6, <2>1, ReportedState
  <2>3. Polled(p, e) = Reported(p, e)
    BY <1>6 DEF Polled
  <2> QED BY <1>6, <2>2, <2>3 DEF p
<1> QED BY <1>4, <1>5, <1>6

LEMMA PollOwn ==
    ASSUME OwnInv, PollLoading
    PROVE  OwnInv'
<1> DEFINE e == Head(tabEvents)
           q == Polled(page[e.tab], e)
<1>1. /\ e \in Events(Ways) /\ e.tab \in PageTabs /\ tabEvents # <<>>
      /\ page' = [page EXCEPT ![e.tab] = q]
  BY PolledStep
<1>2. Sound(q) /\ Own(q) /\ Follows(page[e.tab], q) /\ (q.open \/ q.loading = None)
  BY <1>1, PolledState
<1>3. tabEvents' = Tail(tabEvents) /\ UNCHANGED <<moves, engine, sending, renderer, mailbox, pipe>>
  BY DEF PollLoading
<1> HIDE DEF e, q
<1>4. /\ page' \in [PageTabs -> PageState] /\ PageIsOwn'
      /\ \A u \in PageTabs : Sound(page'[u]) /\ (page'[u].open \/ page'[u].loading = None)
      /\ \A u \in PageTabs : Ways[u] \subseteq Ways'[u]
  BY <1>1, <1>2, OnePage
<1>5. tabEvents \in Seq(Events(Ways'))
  BY <1>4, OldChannels
<1>6. tabEvents' \in Seq(Events(Ways'))
  BY <1>1, <1>3, <1>5, HeadTail
<1>7. Channels(Ways)'
  BY <1>3, <1>4, <1>6, OldChannels DEF Channels
<1>8. PagesTypes'
  BY <1>3, <1>4 DEF OwnInv, PagesTypes
<1> QED BY <1>4, <1>7, <1>8 DEF OwnInv

LEMMA PagesNextOwn == OwnInv /\ [PagesNext]_pageVars => OwnInv'
<1> SUFFICES ASSUME OwnInv, [PagesNext]_pageVars PROVE OwnInv'
  OBVIOUS
<1>1. ASSUME NEW t \in PageTabs, page[t].open, NEW url \in Typed \cup {Start}, NavigateInput(t, url)
      PROVE  OwnInv'
  BY <1>1, NavigateOwn
<1>2. ASSUME NEW t \in PageTabs, page[t].open, NEW i \in DOMAIN page[t].history, GoTo(t, i)
      PROVE  OwnInv'
  BY <1>2, GoToOwn
<1>3. ASSUME NEW t \in PageTabs, page[t].open, Reload(t) \/ StopLoading(t) \/ ClosePage(t)
      PROVE  OwnInv'
  BY <1>3, ReloadOwn, StopOwn, CloseOwn
<1>4. ASSUME NEW s \in sending, Deliver(s) PROVE OwnInv'
  BY <1>4, DeliverOwn
<1>5. ASSUME NEW t \in PageTabs, Render(t) \/ RendererDies(t) \/ Forward(t) PROVE OwnInv'
  BY <1>5, RenderOwn, DiesOwn, ForwardOwn
<1>6. CASE EngineAnswers \/ PollLoading
  BY <1>6, AnswersOwn, PollOwn
<1>7. CASE UNCHANGED pageVars
  <2>1. /\ page' \in [PageTabs -> PageState] /\ PageIsOwn'
        /\ \A t \in PageTabs : Sound(page'[t]) /\ (page'[t].open \/ page'[t].loading = None)
        /\ Ways' = Ways
    BY <1>7, SamePages DEF pageVars
  <2>2. Channels(Ways)'
    BY <1>7, <2>1, OldChannels DEF pageVars, Channels
  <2> QED BY <1>7, <2>1, <2>2 DEF pageVars, OwnInv, PagesTypes
<1> QED BY <1>1, <1>2, <1>3, <1>4, <1>5, <1>6, <1>7 DEF PagesNext, UserStep

\* For any number of tabs, pages, navigations and events, whichever processes start, die and
\* are killed: what a tab shows comes from the urls it was sent to itself, and the page on
\* screen is the current entry of its history.
THEOREM PagesAreOwn == PagesSpec => []PageIsOwn
<1>1. OwnInv => PageIsOwn
  BY DEF OwnInv
<1> QED BY PagesInitOwn, PagesNextOwn, <1>1, PTL DEF PagesSpec

-----------------------------------------------------------------------------
(* What a loading tab waits for.                                           *)

AnyReport == [kind : ReportKinds, url : Anywhere]
Arrivals == [tab : PageTabs, request : Nat, kind : ReportKinds \cup AnswerKinds, url : Anywhere]
Asked == [tab : PageTabs, request : Nat, url : Anywhere]

\* What a process has written ends with the end of a load.
EndsLast(sent) == sent # <<>> => Ends(sent[Len(sent)])

\* The end of a load that tab t has been told of follows, unless more is to be forwarded.
EndFollows(t, sent, es) ==
    \A i \in DOMAIN es : es[i].tab = t /\ es[i].kind = "NavigationStart" =>
        sent # <<>> \/ \E j \in DOMAIN es : j > i /\ es[j].tab = t /\ Ends(es[j])

\* What ends the wait of tab t for request is asked, written, or on its way.
Coming(t, request, asked, sent, es) ==
    \/ \E i \in DOMAIN asked : asked[i].tab = t /\ asked[i].request = request
    \/ \E i \in DOMAIN sent : Ends(sent[i])
    \/ \E i \in DOMAIN es : es[i].tab = t /\ (Ends(es[i]) \/ es[i].request \in {request} \ {0})

\* The page p of tab t, whose process is alive.
Promised(t, p, process, asked, sent, es) ==
    p.open /\ process # "dead" =>
        /\ EndsLast(sent)
        /\ EndFollows(t, sent, es)
        /\ p.loading # None => Coming(t, p.request, asked, sent, es)

\* A page that is not left waiting for anything but a request that is asked.
LEMMA PromisedPage ==
    ASSUME NEW t, NEW p, NEW q, NEW process, NEW asked, NEW sent, NEW es,
           Promised(t, p, process, asked, sent, es), q.open => p.open,
           \/ q.loading = None
           \/ q.loading = p.loading /\ q.request = p.request
           \/ Coming(t, q.request, asked, sent, es)
    PROVE  Promised(t, q, process, asked, sent, es)
BY DEF Promised

LEMMA PromisedAsked ==
    ASSUME NEW t, NEW p, NEW process, NEW asked \in Seq(Asked), NEW r \in Asked, NEW sent, NEW es,
           Promised(t, p, process, asked, sent, es)
    PROVE  /\ Promised(t, p, process, Append(asked, r), sent, es)
           /\ Coming(r.tab, r.request, Append(asked, r), sent, es)
<1> DEFINE longer == Append(asked, r)
<1>1. /\ DOMAIN asked = 1 .. Len(asked) /\ DOMAIN longer = 1 .. Len(asked) + 1 /\ Len(asked) \in Nat
      /\ longer[Len(asked) + 1] = r /\ \A i \in 1 .. Len(asked) : longer[i] = asked[i]
  BY Appended
<1> HIDE DEF longer
<1> QED BY <1>1 DEF Promised, Coming

\* The process writes what ends a load.
LEMMA PromisedWritten ==
    ASSUME NEW t, NEW p, NEW process, NEW asked, NEW sent \in Seq(AnyReport), NEW es,
           NEW reports \in Seq(AnyReport), Len(reports) \in Nat \ {0}, Ends(reports[Len(reports)]),
           Promised(t, p, process, asked, sent, es)
    PROVE  Promised(t, p, process, asked, sent \o reports, es)
<1> DEFINE longer == sent \o reports
<1>1. /\ longer \in Seq(AnyReport) /\ Len(longer) = Len(sent) + Len(reports)
      /\ \A i \in 1 .. Len(sent) : longer[i] = sent[i]
      /\ longer[Len(longer)] = reports[Len(reports)]
      /\ Len(sent) \in Nat /\ DOMAIN sent = 1 .. Len(sent) /\ DOMAIN longer = 1 .. Len(longer)
  BY ConcatProperties
<1> HIDE DEF longer
<1>2. longer # <<>> /\ EndsLast(longer)
  BY <1>1 DEF EndsLast
<1>3. EndFollows(t, longer, es)
  BY <1>2 DEF EndFollows
<1>4. ASSUME Coming(t, p.request, asked, sent, es) PROVE Coming(t, p.request, asked, longer, es)
  BY <1>1, <1>4 DEF Coming
<1> QED BY <1>2, <1>3, <1>4 DEF Promised, longer

\* An event is added that is not the beginning of a load of this tab.
LEMMA PromisedEvent ==
    ASSUME NEW t, NEW p, NEW process, NEW asked, NEW sent, NEW es \in Seq(Arrivals),
           NEW e \in Arrivals, e.tab # t \/ e.kind # "NavigationStart",
           Promised(t, p, process, asked, sent, es)
    PROVE  Promised(t, p, process, asked, sent, Append(es, e))
<1> DEFINE longer == Append(es, e)
<1>1. /\ DOMAIN es = 1 .. Len(es) /\ DOMAIN longer = 1 .. Len(es) + 1 /\ Len(es) \in Nat
      /\ longer[Len(es) + 1] = e /\ \A i \in 1 .. Len(es) : longer[i] = es[i]
  BY Appended
<1> HIDE DEF longer
<1>2. ASSUME EndFollows(t, sent, es) PROVE EndFollows(t, sent, longer)
  BY <1>1, <1>2 DEF EndFollows
<1>3. ASSUME Coming(t, p.request, asked, sent, es) PROVE Coming(t, p.request, asked, sent, longer)
  BY <1>1, <1>3 DEF Coming
<1> QED BY <1>2, <1>3 DEF Promised, longer

\* The first of what the process has written becomes an event.
LEMMA PromisedForwarded ==
    ASSUME NEW t, NEW p, NEW process, NEW asked, NEW sent \in Seq(AnyReport), sent # <<>>,
           NEW es \in Seq(Arrivals), NEW e \in Arrivals, e.tab = t, e.kind = Head(sent).kind,
           Promised(t, p, process, asked, sent, es)
    PROVE  Promised(t, p, process, asked, Tail(sent), Append(es, e))
<1> DEFINE longer == Append(es, e)
           rest == Tail(sent)
<1>1. /\ DOMAIN es = 1 .. Len(es) /\ DOMAIN longer = 1 .. Len(es) + 1 /\ Len(es) \in Nat
      /\ longer[Len(es) + 1] = e /\ \A i \in 1 .. Len(es) : longer[i] = es[i]
  BY Appended
<1>2. /\ rest \in Seq(AnyReport) /\ Len(rest) = Len(sent) - 1 /\ Len(sent) \in Nat \ {0}
      /\ \A i \in 1 .. Len(sent) - 1 : rest[i] = sent[i + 1]
      /\ DOMAIN sent = 1 .. Len(sent) /\ DOMAIN rest = 1 .. Len(sent) - 1
      /\ e.kind = sent[1].kind
  BY HeadTail
<1> HIDE DEF longer, rest
<1>3. SUFFICES ASSUME p.open, process # "dead"
               PROVE  /\ EndsLast(rest) /\ EndFollows(t, rest, longer)
                      /\ p.loading # None => Coming(t, p.request, asked, rest, longer)
  BY DEF Promised, longer, rest
<1>4. EndsLast(sent) /\ EndFollows(t, sent, es)
  BY <1>3 DEF Promised
<1>5. EndsLast(rest)
  BY <1>2, <1>4 DEF EndsLast
<1>6. CASE rest = <<>>
  <2>1. Len(sent) = 1
    BY <1>2, <1>6
  <2>2. Ends(e)
    BY <1>2, <1>4, <2>1 DEF EndsLast, Ends
  <2>3. EndFollows(t, rest, longer)
    BY <1>1, <2>2 DEF EndFollows, Ends
  <2>4. Coming(t, p.request, asked, rest, longer)
    BY <1>1, <2>2 DEF Coming
  <2> QED BY <1>5, <2>3, <2>4
<1>7. CASE rest # <<>>
  <2>1. EndFollows(t, rest, longer)
    BY <1>7 DEF EndFollows
  <2>2. Coming(t, p.request, asked, rest, longer)
    <3>1. Len(rest) \in DOMAIN rest
      BY <1>2, <1>7
    <3> QED BY <1>5, <1>7, <3>1 DEF Coming, EndsLast
  <2> QED BY <1>5, <2>1, <2>2
<1> QED BY <1>6, <1>7

\* The worker's first request is answered.
LEMMA PromisedAnswered ==
    ASSUME NEW t, NEW p, NEW process, NEW asked \in Seq(Asked), asked # <<>>, NEW sent,
           NEW es \in Seq(Arrivals), NEW e \in Arrivals, e.kind \in AnswerKinds,
           Head(asked).request # 0, e.tab = Head(asked).tab, e.request = Head(asked).request,
           Promised(t, p, process, asked, sent, es)
    PROVE  Promised(t, p, process, Tail(asked), sent, Append(es, e))
<1> DEFINE longer == Append(es, e)
           rest == Tail(asked)
<1>1. /\ DOMAIN es = 1 .. Len(es) /\ DOMAIN longer = 1 .. Len(es) + 1 /\ Len(es) \in Nat
      /\ longer[Len(es) + 1] = e /\ \A i \in 1 .. Len(es) : longer[i] = es[i]
  BY Appended
<1>2. /\ Len(asked) \in Nat \ {0} /\ \A i \in 1 .. Len(asked) - 1 : rest[i] = asked[i + 1]
      /\ DOMAIN asked = 1 .. Len(asked) /\ DOMAIN rest = 1 .. Len(asked) - 1
      /\ e.request = asked[1].request /\ e.tab = asked[1].tab /\ e.request # 0
  BY HeadTail
<1> HIDE DEF longer, rest
<1>3. e.kind # "NavigationStart"
  BY DEF AnswerKinds
<1>4. Promised(t, p, process, asked, sent, longer)
  BY <1>3, PromisedEvent DEF longer
<1>5. ASSUME Coming(t, p.request, asked, sent, longer) PROVE Coming(t, p.request, rest, sent, longer)
  <2>1. ASSUME NEW i \in DOMAIN asked, asked[i].tab = t, asked[i].request = p.request
        PROVE  Coming(t, p.request, rest, sent, longer)
    <3>1. CASE i = 1
      <4>1. longer[Len(es) + 1].tab = t /\ longer[Len(es) + 1].request \in {p.request} \ {0}
        BY <1>1, <1>2, <2>1, <3>1
      <4> QED BY <1>1, <4>1 DEF Coming
    <3>2. CASE i # 1
      <4>1. i - 1 \in DOMAIN rest /\ rest[i - 1] = asked[i]
        BY <1>2, <2>1, <3>2
      <4> QED BY <2>1, <4>1 DEF Coming
    <3> QED BY <3>1, <3>2
  <2> QED BY <1>5, <2>1 DEF Coming
<1>6. Promised(t, p, process, rest, sent, longer)
  BY <1>4, <1>5 DEF Promised
<1> QED BY <1>6 DEF longer, rest

\* The first event is taken, and leaves page q of tab t.
LEMMA PromisedTaken ==
    ASSUME NEW t, NEW p, NEW q, NEW process, NEW asked, NEW sent,
           NEW es \in Seq(Arrivals), es # <<>>, NEW e, e = Head(es), q.open => p.open,
           \/ q.loading = None
           \/ /\ q.loading = p.loading /\ q.request = p.request
              /\ e.tab = t => ~ Ends(e) /\ e.request \notin {p.request} \ {0}
           \/ e.tab = t /\ e.kind = "NavigationStart",
           Promised(t, p, process, asked, sent, es)
    PROVE  Promised(t, q, process, asked, sent, Tail(es))
<1> DEFINE rest == Tail(es)
<1>1. /\ Len(es) \in Nat \ {0} /\ \A i \in 1 .. Len(es) - 1 : rest[i] = es[i + 1]
      /\ DOMAIN es = 1 .. Len(es) /\ DOMAIN rest = 1 .. Len(es) - 1 /\ e = es[1]
  BY HeadTail
<1> HIDE DEF rest
<1>2. SUFFICES ASSUME q.open, process # "dead"
               PROVE  /\ EndsLast(sent) /\ EndFollows(t, sent, rest)
                      /\ q.loading # None => Coming(t, q.request, asked, sent, rest)
  BY DEF Promised, rest
<1>3. /\ EndsLast(sent) /\ EndFollows(t, sent, es)
      /\ p.loading # None => Coming(t, p.request, asked, sent, es)
  BY <1>2 DEF Promised
<1>4. \A j \in DOMAIN es : j > 1 => j - 1 \in DOMAIN rest /\ rest[j - 1] = es[j]
  BY <1>1
<1>5. EndFollows(t, sent, rest)
  <2>1. SUFFICES ASSUME NEW i \in DOMAIN rest, rest[i].tab = t, rest[i].kind = "NavigationStart",
                        sent = <<>>
                 PROVE  \E j \in DOMAIN rest : j > i /\ rest[j].tab = t /\ Ends(rest[j])
    BY DEF EndFollows
  <2>2. i + 1 \in DOMAIN es /\ es[i + 1] = rest[i]
    BY <1>1
  <2>3. PICK j \in DOMAIN es : j > i + 1 /\ es[j].tab = t /\ Ends(es[j])
    BY <1>3, <2>1, <2>2 DEF EndFollows
  <2>4. j - 1 \in DOMAIN rest /\ rest[j - 1] = es[j] /\ j - 1 > i
    BY <1>1, <1>4, <2>3
  <2> QED BY <2>3, <2>4
<1>6. CASE /\ q.loading = p.loading /\ q.request = p.request
           /\ e.tab = t => ~ Ends(e) /\ e.request \notin {p.request} \ {0}
  <2>1. SUFFICES ASSUME q.loading # None PROVE Coming(t, q.request, asked, sent, rest)
    BY <1>3, <1>5
  <2>2. Coming(t, p.request, asked, sent, es)
    BY <1>3, <1>6, <2>1
  <2>3. ASSUME NEW j \in DOMAIN es, es[j].tab = t, Ends(es[j]) \/ es[j].request \in {p.request} \ {0}
        PROVE  Coming(t, q.request, asked, sent, rest)
    <3>1. j > 1
      BY <1>1, <1>6, <2>3
    <3>2. j - 1 \in DOMAIN rest /\ rest[j - 1] = es[j]
      BY <1>4, <3>1
    <3> QED BY <1>6, <2>3, <3>2 DEF Coming
  <2> QED BY <1>6, <2>2, <2>3 DEF Coming
<1>7. CASE e.tab = t /\ e.kind = "NavigationStart"
  <2>1. 1 \in DOMAIN es /\ es[1].tab = t /\ es[1].kind = "NavigationStart"
    BY <1>1, <1>7
  <2>2. sent # <<>> \/ \E j \in DOMAIN es : j > 1 /\ es[j].tab = t /\ Ends(es[j])
    BY <1>3, <2>1 DEF EndFollows
  <2>3. CASE sent # <<>>
    <3>1. EndsLast(sent) /\ sent # <<>>
      BY <1>3, <2>3
    <3> QED BY <1>3, <1>5, <2>3 DEF Coming, EndsLast
  <2>4. ASSUME NEW j \in DOMAIN es, j > 1, es[j].tab = t, Ends(es[j])
        PROVE  Coming(t, q.request, asked, sent, rest)
    BY <1>4, <2>4 DEF Coming
  <2> QED BY <1>3, <1>5, <2>2, <2>3, <2>4
<1> QED BY <1>2, <1>3, <1>5, <1>6, <1>7

-----------------------------------------------------------------------------
PromisesKept ==
    \A t \in PageTabs : Promised(t, page[t], renderer[t], engine, pipe[t], tabEvents)

AwaitInv == OwnInv /\ PromisesKept

LEMMA AwaitIsAwaited == AwaitInv => LoadingIsAwaited
<1> SUFFICES ASSUME AwaitInv, NEW t \in PageTabs, page[t].loading # None, renderer[t] # "dead"
             PROVE  \/ \E r \in ToSet(engine) : r.tab = t /\ r.request = page[t].request
                    \/ \E m \in ToSet(pipe[t]) : Ends(m)
                    \/ \E e \in ToSet(tabEvents) :
                            e.tab = t /\ (Ends(e) \/ e.request \in {page[t].request} \ {0})
  BY DEF LoadingIsAwaited
<1>1. page[t].open
  BY DEF AwaitInv, OwnInv, PagesTypes
<1>2. Coming(t, page[t].request, engine, pipe[t], tabEvents)
  BY <1>1 DEF AwaitInv, PromisesKept, Promised
<1> QED BY <1>2 DEF Coming, ToSet

LEMMA ChannelTypes ==
    ASSUME OwnInv
    PROVE  /\ engine \in Seq(Asked) /\ tabEvents \in Seq(Arrivals)
           /\ \A t \in PageTabs : pipe[t] \in Seq(AnyReport)
<1> DEFINE own == Ways
<1>1. Loads(own) \subseteq Asked /\ Events(own) \subseteq Arrivals
  BY DEF Loads, Events, Asked, Arrivals
<1>2. engine \in Seq(Loads(own)) /\ tabEvents \in Seq(Events(own))
  BY DEF OwnInv, Channels
<1>3. \A t \in PageTabs : pipe[t] \in Seq(AnyReport)
  BY DEF OwnInv, PagesTypes, AnyReport
<1> HIDE DEF own
<1> QED BY <1>1, <1>2, <1>3, SeqWider

LEMMA AwaitInit == PagesInit => PromisesKept
<1> SUFFICES ASSUME PagesInit, NEW t \in PageTabs
             PROVE  Promised(t, page[t], renderer[t], engine, pipe[t], tabEvents)
  BY DEF PromisesKept
<1>1. pipe[t] = <<>> /\ tabEvents = <<>> /\ page[t].loading = None
  BY DEF PagesInit, TabPageState
<1> QED BY <1>1 DEF Promised, EndsLast, EndFollows

\* A step of the user that only changes the page of tab t.
LEMMA StoppedAwait ==
    ASSUME AwaitInv, NEW t \in PageTabs, NEW q, page' = [page EXCEPT ![t] = q],
           q.open => page[t].open, q.loading = None,
           UNCHANGED <<engine, pipe, tabEvents>>, renderer' = renderer
    PROVE  PromisesKept'
<1> SUFFICES ASSUME NEW u \in PageTabs
             PROVE  Promised(u, page'[u], renderer[u], engine, pipe[u], tabEvents)
  BY DEF PromisesKept
<1>1. Promised(u, page[u], renderer[u], engine, pipe[u], tabEvents)
  BY DEF AwaitInv, PromisesKept
<1>2. page \in [PageTabs -> PageState]
  BY DEF AwaitInv, OwnInv, PagesTypes
<1>3. page'[u] = IF u = t THEN q ELSE page[u]
  BY <1>2
<1>4. CASE u = t
  BY <1>1, <1>3, <1>4, PromisedPage
<1>5. CASE u # t
  BY <1>1, <1>3, <1>5
<1> QED BY <1>4, <1>5

LEMMA CommitAwait ==
    ASSUME AwaitInv, NEW t \in PageTabs, page[t].open, NEW p, Sound(p), p.open = page[t].open,
           NEW url \in Anywhere, Commit(t, p, url), UNCHANGED <<mailbox, pipe, tabEvents>>
    PROVE  PromisesKept'
<1>1. moves' \in Nat \ {0}
  BY DEF Commit, AwaitInv, OwnInv, PagesTypes
<1>2. CASE url = Start
  <2>1. page' = [page EXCEPT ![t] = Committed(p, url)]
    BY <1>2 DEF Commit, Committed
  <2>2. Committed(p, url).loading = None /\ Committed(p, url).open = page[t].open
    BY CommittedState
  <2>3. UNCHANGED <<engine, pipe, tabEvents>> /\ renderer' = renderer
    BY <1>2 DEF Commit
  <2> QED BY <2>1, <2>2, <2>3, StoppedAwait
<1>3. CASE url # Start
  <2> DEFINE q == Waiting(p, url, moves')
             load == [tab |-> t, request |-> moves', url |-> url]
             asked == Append(engine, load)
  <2>1. page' = [page EXCEPT ![t] = q]
    BY <1>3 DEF Commit, Committed, Waiting
  <2>2. q.open = page[t].open /\ q.request = moves'
    BY <1>1, WaitingState
  <2>3. Load(t, url)
    BY <1>3 DEF Commit
  <2>4. engine' = asked
    BY <2>3 DEF Load
  <2>5. load \in Asked /\ engine \in Seq(Asked)
    BY <1>1, ChannelTypes DEF Asked, AwaitInv
  <2>6. \A u \in PageTabs : renderer[u] = "dead" => renderer'[u] = "dead"
    BY <2>3 DEF Load, EnsureRenderer, TrySpawn, AwaitInv, OwnInv, PagesTypes
  <2>7. SUFFICES ASSUME NEW u \in PageTabs
                 PROVE  Promised(u, page'[u], renderer'[u], asked, pipe[u], tabEvents)
    BY <2>4 DEF PromisesKept
  <2>8. page'[u] = IF u = t THEN q ELSE page[u]
    BY <2>1 DEF AwaitInv, OwnInv, PagesTypes
  <2>9. load.tab = t /\ load.request = q.request
    BY <2>2
  <2> HIDE DEF q, load
  <2>10. Promised(u, page[u], renderer[u], engine, pipe[u], tabEvents)
    BY DEF AwaitInv, PromisesKept
  <2>11. /\ Promised(u, page[u], renderer[u], asked, pipe[u], tabEvents)
         /\ Coming(load.tab, load.request, asked, pipe[u], tabEvents)
    BY <2>5, <2>10, PromisedAsked
  <2> HIDE DEF asked
  <2>12. Promised(u, page'[u], renderer[u], asked, pipe[u], tabEvents)
    <3>1. CASE u = t
      BY <2>2, <2>8, <2>9, <2>11, <3>1, PromisedPage
    <3>2. CASE u # t
      BY <2>8, <2>11, <3>2
    <3> QED BY <3>1, <3>2
  <2> QED BY <2>6, <2>12 DEF Promised
<1> QED BY <1>2, <1>3

LEMMA UserAwait ==
    ASSUME AwaitInv, NEW t \in PageTabs, page[t].open,
           \/ \E url \in Typed \cup {Start} : NavigateInput(t, url)
           \/ \E i \in DOMAIN page[t].history : GoTo(t, i)
           \/ Reload(t) \/ StopLoading(t) \/ ClosePage(t)
    PROVE  PromisesKept'
<1>1. Sound(page[t]) /\ page \in [PageTabs -> PageState]
  BY DEF AwaitInv, OwnInv, PagesTypes
<1>2. ASSUME NEW url \in Typed \cup {Start}, NavigateInput(t, url) PROVE PromisesKept'
  <2>1. url \in Anywhere
    BY DEF Anywhere
  <2> QED BY <1>1, <1>2, <2>1, PushedState, CommitAwait DEF NavigateInput
<1>3. ASSUME NEW i \in DOMAIN page[t].history, GoTo(t, i) PROVE PromisesKept'
  <2> DEFINE p == [page[t] EXCEPT !.index = i]
             url == page[t].history[i]
  <2>1. Sound(p) /\ p.open = page[t].open /\ url \in Anywhere
    BY <1>1, MovedState
  <2>2. Commit(t, p, url) /\ UNCHANGED <<mailbox, pipe, tabEvents>>
    BY <1>3 DEF GoTo
  <2> HIDE DEF p, url
  <2> QED BY <2>1, <2>2, CommitAwait
<1>4. CASE Reload(t)
  <2>1. CurrentUrl(page[t]) \in Anywhere
    BY <1>1 DEF CurrentUrl, Sound, PageState
  <2> QED BY <1>1, <1>4, <2>1, CommitAwait DEF Reload
<1>5. CASE StopLoading(t)
  <2> DEFINE q == [page[t] EXCEPT !.loading = None, !.request = 0]
  <2>1. page' = [page EXCEPT ![t] = q]
    BY <1>1, <1>5 DEF StopLoading
  <2>2. q.loading = None /\ q.open = page[t].open
    BY <1>1 DEF PageState
  <2>3. UNCHANGED <<engine, pipe, tabEvents>> /\ renderer' = renderer
    BY <1>5 DEF StopLoading
  <2> HIDE DEF q
  <2> QED BY <2>1, <2>2, <2>3, StoppedAwait
<1>6. CASE ClosePage(t)
  <2>1. SUFFICES ASSUME NEW u \in PageTabs
                 PROVE  Promised(u, page'[u], renderer'[u], engine, pipe'[u], tabEvents)
    BY <1>6 DEF ClosePage, PromisesKept
  <2>2. Promised(u, page[u], renderer[u], engine, pipe[u], tabEvents)
    BY DEF AwaitInv, PromisesKept
  <2>3. CASE u = t
    <3>1. page'[u] = Closed
      BY <1>1, <1>6, <2>3 DEF ClosePage
    <3> QED BY <3>1, ClosedState DEF Promised
  <2>4. CASE u # t
    <3>1. page'[u] = page[u] /\ renderer'[u] = renderer[u] /\ pipe'[u] = pipe[u]
      BY <1>6, <2>4 DEF ClosePage, Ended, AwaitInv, OwnInv, PagesTypes
    <3> QED BY <2>2, <3>1
  <2> QED BY <2>3, <2>4
<1> QED BY <1>2, <1>3, <1>4, <1>5, <1>6

LEMMA RenderAwait ==
    ASSUME AwaitInv, NEW t \in PageTabs, Render(t)
    PROVE  PromisesKept'
<1> DEFINE url == Head(mailbox[t])
<1>1. PICK reports \in Reports(url) : pipe' = [pipe EXCEPT ![t] = pipe[t] \o reports]
  BY DEF Render
<1>2. mailbox[t] \in Seq(Anywhere) /\ mailbox[t] # <<>>
  BY DEF Render, AwaitInv, OwnInv, PagesTypes
<1>3. url \in Anywhere
  BY <1>2, HeadTail
<1> HIDE DEF url
<1>4. \A kind \in ReportKinds : Message(kind, url) \in AnyReport
  BY <1>3 DEF Message, AnyReport
<1>5. reports \in Seq(AnyReport) /\ Len(reports) \in Nat \ {0} /\ Ends(reports[Len(reports)])
  BY <1>4, ReportsAreMessages
<1>6. SUFFICES ASSUME NEW u \in PageTabs
               PROVE  Promised(u, page[u], renderer[u], engine, pipe'[u], tabEvents)
  BY DEF Render, PromisesKept
<1>7. Promised(u, page[u], renderer[u], engine, pipe[u], tabEvents) /\ pipe[u] \in Seq(AnyReport)
  BY ChannelTypes DEF AwaitInv, PromisesKept
<1> DEFINE longer == pipe[t] \o reports
<1>8. pipe'[u] = IF u = t THEN longer ELSE pipe[u]
  BY <1>1 DEF AwaitInv, OwnInv, PagesTypes
<1>9. CASE u = t
  <2>1. Promised(u, page[u], renderer[u], engine, pipe[u] \o reports, tabEvents)
    BY <1>5, <1>7, PromisedWritten
  <2> QED BY <1>8, <1>9, <2>1
<1>10. CASE u # t
  BY <1>7, <1>8, <1>10
<1> QED BY <1>9, <1>10

LEMMA DiesAwait ==
    ASSUME AwaitInv, NEW t \in PageTabs, RendererDies(t)
    PROVE  PromisesKept'
<1> SUFFICES ASSUME NEW u \in PageTabs
             PROVE  Promised(u, page[u], renderer'[u], engine, pipe'[u], tabEvents)
  BY DEF RendererDies, PromisesKept
<1>1. CASE u = t
  <2>1. renderer'[u] = "dead"
    BY <1>1 DEF RendererDies, AwaitInv, OwnInv, PagesTypes
  <2> QED BY <2>1 DEF Promised
<1>2. CASE u # t
  <2>1. renderer'[u] = renderer[u] /\ pipe'[u] = pipe[u]
    BY <1>2 DEF RendererDies, Ended, AwaitInv, OwnInv, PagesTypes
  <2> QED BY <2>1 DEF AwaitInv, PromisesKept
<1> QED BY <1>1, <1>2

LEMMA ForwardAwait ==
    ASSUME AwaitInv, NEW t \in PageTabs, Forward(t)
    PROVE  PromisesKept'
<1> DEFINE m == Head(pipe[t])
           rest == Tail(pipe[t])
           e == EngineEvent(t, 0, m.kind, m.url)
<1>1. pipe' = [pipe EXCEPT ![t] = rest] /\ tabEvents' = Append(tabEvents, e) /\ pipe[t] # <<>>
  BY DEF Forward
<1>2. /\ engine \in Seq(Asked) /\ tabEvents \in Seq(Arrivals)
      /\ \A u \in PageTabs : pipe[u] \in Seq(AnyReport)
  BY ChannelTypes DEF AwaitInv
<1>3. m \in AnyReport
  BY <1>1, <1>2, HeadTail
<1> HIDE DEF m
<1>4. e \in Arrivals /\ e.tab = t /\ e.kind = m.kind
  BY <1>3 DEF EngineEvent, AnyReport, Arrivals
<1> HIDE DEF e
<1>5. SUFFICES ASSUME NEW u \in PageTabs
               PROVE  Promised(u, page[u], renderer[u], engine, pipe'[u], Append(tabEvents, e))
  BY <1>1 DEF Forward, PromisesKept
<1>6. Promised(u, page[u], renderer[u], engine, pipe[u], tabEvents)
  BY DEF AwaitInv, PromisesKept
<1>7. CASE u = t
  <2>1. pipe'[u] = Tail(pipe[u])
    BY <1>1, <1>7 DEF AwaitInv, OwnInv, PagesTypes
  <2>2. pipe[u] # <<>> /\ e.tab = u /\ e.kind = Head(pipe[u]).kind /\ pipe[u] \in Seq(AnyReport)
    BY <1>1, <1>2, <1>4, <1>7 DEF m
  <2>3. Promised(u, page[u], renderer[u], engine, Tail(pipe[u]), Append(tabEvents, e))
    BY <1>2, <1>4, <1>6, <2>2, PromisedForwarded
  <2> QED BY <2>1, <2>3
<1>8. CASE u # t
  <2>1. pipe'[u] = pipe[u]
    BY <1>1, <1>8 DEF AwaitInv, OwnInv, PagesTypes
  <2>2. Promised(u, page[u], renderer[u], engine, pipe[u], Append(tabEvents, e))
    BY <1>2, <1>4, <1>6, <1>8, PromisedEvent
  <2> QED BY <2>1, <2>2
<1> QED BY <1>7, <1>8

LEMMA AnswersAwait ==
    ASSUME AwaitInv, EngineAnswers
    PROVE  PromisesKept'
<1> DEFINE r == Head(engine)
<1>1. engine # <<>> /\ engine' = Tail(engine)
  BY DEF EngineAnswers
<1>2. PICK kind \in AnswerKinds, url \in Pages :
        tabEvents' = Append(tabEvents, EngineEvent(r.tab, r.request, kind, url))
  BY DEF EngineAnswers, AnswerKinds
<1>3. engine \in Seq(Asked) /\ tabEvents \in Seq(Arrivals)
  BY ChannelTypes DEF AwaitInv
<1>4. r \in Asked /\ r.request # 0
  <2> DEFINE own == Ways
  <2>1. engine \in Seq(Loads(own))
    BY DEF AwaitInv, OwnInv, Channels
  <2> HIDE DEF own
  <2>2. r \in Loads(own)
    BY <1>1, <2>1, HeadTail
  <2> HIDE DEF r
  <2> QED BY <2>2 DEF Loads, Asked
<1> DEFINE e == EngineEvent(r.tab, r.request, kind, url)
<1>5. e \in Arrivals /\ e.kind \in AnswerKinds /\ e.tab = r.tab /\ e.request = r.request
  <2> HIDE DEF r
  <2>1. url \in Anywhere
    BY DEF Anywhere
  <2> QED BY <1>4, <2>1 DEF EngineEvent, Asked, Arrivals
<1> HIDE DEF e
<1>6. tabEvents' = Append(tabEvents, e)
  BY <1>2 DEF e
<1>7. SUFFICES ASSUME NEW t \in PageTabs
               PROVE  Promised(t, page[t], renderer[t], Tail(engine), pipe[t], Append(tabEvents, e))
  BY <1>1, <1>6 DEF EngineAnswers, PromisesKept
<1>8. Promised(t, page[t], renderer[t], engine, pipe[t], tabEvents)
  BY DEF AwaitInv, PromisesKept
<1> QED BY <1>1, <1>3, <1>4, <1>5, <1>8, PromisedAnswered

\* What an event leaves of the wait of its tab.
LEMMA PolledWait ==
    ASSUME OwnInv, NEW e \in Events(Ways), page[e.tab].open
    PROVE  LET p == page[e.tab]
               q == Polled(page[e.tab], e)
           IN  \/ q.loading = None
               \/ q.loading = p.loading /\ q.request = p.request
                    /\ ~ Ends(e) /\ e.request \notin {p.request} \ {0}
               \/ e.kind = "NavigationStart"
<1> DEFINE p == page[e.tab]
<1>1. /\ e.tab \in PageTabs /\ e.kind \in ReportKinds \cup AnswerKinds /\ e.url \in Anywhere
      /\ e.kind # "Loaded" => e.url \in Ways[e.tab]
      /\ e.kind \in ReportKinds => e.request = 0
  BY DEF Events
<1>2. Sound(p) /\ Own(p)
  BY <1>1, OwnIsPageIsOwn DEF OwnInv, PagesTypes
<1>3. Ways[e.tab] = p.asked
  BY <1>1 DEF Ways, OnTheWay
<1> HIDE DEF p
<1>4. p.open
  BY DEF p
<1>5. CASE e.kind \in AnswerKinds
  <2>1. Polled(p, e) = Finished(p, e)
    BY <1>4, <1>5 DEF Polled
  <2>2. /\ e.request = p.request => Finished(p, e).loading = None
        /\ e.request # p.request => Finished(p, e) = p
    BY <1>1, <1>2, <1>3, <1>5, FinishedState
  <2>3. ~ Ends(e)
    BY <1>5 DEF AnswerKinds, Ends
  <2> QED BY <2>1, <2>2, <2>3 DEF p
<1>6. CASE e.kind \in ReportKinds
  <2>1. e.kind \notin AnswerKinds /\ e.kind # "Loaded"
    BY <1>6 DEF AnswerKinds, ReportKinds
  <2>2. Polled(p, e) = Reported(p, e)
    BY <1>4, <2>1 DEF Polled
  <2>3. /\ Reported(p, e).request = p.request
        /\ Ends(e) => Reported(p, e).loading = None
        /\ e.kind = "FrameReady" => Reported(p, e).loading = p.loading
    BY <1>1, <1>2, <1>3, <1>4, <1>6, <2>1, ReportedState
  <2>4. Ends(e) \/ e.kind \in {"FrameReady", "NavigationStart"}
    BY <1>6 DEF Ends, ReportKinds
  <2>5. e.request = 0
    BY <1>1, <1>6
  <2> QED BY <2>2, <2>3, <2>4, <2>5 DEF p
<1> QED BY <1>1, <1>5, <1>6

LEMMA PollAwait ==
    ASSUME AwaitInv, PollLoading
    PROVE  PromisesKept'
<1> DEFINE e == Head(tabEvents)
           q == Polled(page[e.tab], e)
<1>1. OwnInv
  BY DEF AwaitInv
<1>2. /\ e \in Events(Ways) /\ e.tab \in PageTabs /\ tabEvents # <<>>
      /\ page' = [page EXCEPT ![e.tab] = q]
  BY <1>1, PolledStep
<1>3. tabEvents' = Tail(tabEvents) /\ UNCHANGED <<engine, renderer, pipe>>
  BY DEF PollLoading
<1>4. tabEvents \in Seq(Arrivals)
  BY <1>1, ChannelTypes
<1>5. q.open => page[e.tab].open
  BY <1>1, <1>2, PolledState DEF Follows
<1>6. page[e.tab].open =>
        \/ q.loading = None
        \/ q.loading = page[e.tab].loading /\ q.request = page[e.tab].request
             /\ ~ Ends(e) /\ e.request \notin {page[e.tab].request} \ {0}
        \/ e.kind = "NavigationStart"
  BY <1>1, <1>2, PolledWait
<1>7. SUFFICES ASSUME NEW t \in PageTabs
               PROVE  Promised(t, page'[t], renderer[t], engine, pipe[t], Tail(tabEvents))
  BY <1>3 DEF PromisesKept
<1>8. Promised(t, page[t], renderer[t], engine, pipe[t], tabEvents)
  BY DEF AwaitInv, PromisesKept
<1> HIDE DEF q
<1>9. page'[t] = IF t = e.tab THEN q ELSE page[t]
  BY <1>1, <1>2 DEF OwnInv, PagesTypes
<1>10. CASE ~ page'[t].open
  BY <1>10 DEF Promised
<1>11. CASE page'[t].open /\ t = e.tab
  <2>1. page'[t] = q /\ page[t].open
    BY <1>5, <1>9, <1>11
  <2>2. \/ q.loading = None
        \/ /\ q.loading = page[t].loading /\ q.request = page[t].request
           /\ e.tab = t => ~ Ends(e) /\ e.request \notin {page[t].request} \ {0}
        \/ e.tab = t /\ e.kind = "NavigationStart"
    BY <1>6, <1>11, <2>1
  <2>3. e = Head(tabEvents)
    OBVIOUS
  <2> HIDE DEF e
  <2>4. Promised(t, q, renderer[t], engine, pipe[t], Tail(tabEvents))
    BY <1>2, <1>4, <1>8, <2>1, <2>2, <2>3, PromisedTaken
  <2> QED BY <2>1, <2>4
<1>12. CASE page'[t].open /\ t # e.tab
  <2>1. page'[t] = page[t]
    BY <1>9, <1>12
  <2>2. e = Head(tabEvents) /\ e.tab # t
    BY <1>12
  <2> HIDE DEF e
  <2>3. Promised(t, page[t], renderer[t], engine, pipe[t], Tail(tabEvents))
    BY <1>2, <1>4, <1>8, <2>2, PromisedTaken
  <2> QED BY <2>1, <2>3
<1> QED BY <1>10, <1>11, <1>12

LEMMA AwaitNext == AwaitInv /\ [PagesNext]_pageVars => AwaitInv'
<1> SUFFICES ASSUME AwaitInv, [PagesNext]_pageVars PROVE AwaitInv'
  OBVIOUS
<1>1. OwnInv'
  BY PagesNextOwn DEF AwaitInv
<1>2. PromisesKept'
  <2>1. CASE UserStep
    BY <2>1, UserAwait DEF UserStep
  <2>2. ASSUME NEW s \in sending, Deliver(s) PROVE PromisesKept'
    BY <2>2 DEF Deliver, AwaitInv, PromisesKept
  <2>3. ASSUME NEW t \in PageTabs, Render(t) \/ RendererDies(t) \/ Forward(t) PROVE PromisesKept'
    BY <2>3, RenderAwait, DiesAwait, ForwardAwait
  <2>4. CASE EngineAnswers \/ PollLoading
    BY <2>4, AnswersAwait, PollAwait
  <2>5. CASE UNCHANGED pageVars
    BY <2>5 DEF pageVars, AwaitInv, PromisesKept
  <2> QED BY <2>1, <2>2, <2>3, <2>4, <2>5 DEF PagesNext
<1> QED BY <1>1, <1>2 DEF AwaitInv

\* For any number of tabs, pages, navigations and events: a tab that shows that it is loading
\* will be told of the end, by the worker or by its process, unless the process died.
THEOREM LoadsAreAwaited == PagesSpec => []LoadingIsAwaited
<1>1. PagesInit => AwaitInv
  BY PagesInitOwn, AwaitInit DEF AwaitInv
<1> QED BY <1>1, AwaitNext, AwaitIsAwaited, PTL DEF PagesSpec

-----------------------------------------------------------------------------
(* The strip.                                                              *)

StripInv ==
    /\ nextTab \in Nat \ {0}
    /\ order \in Seq(Nat)
    /\ \A i \in DOMAIN order : order[i] < nextTab
    /\ \A i, j \in DOMAIN order : order[i] = order[j] => i = j
    /\ front \in StripTabs

LEMMA StripInit == ShellInit => StripInv /\ StripTabs = {1}
<1> SUFFICES ASSUME ShellInit PROVE StripInv /\ StripTabs = {1}
  OBVIOUS
<1>1. order = <<1>> /\ front = 1 /\ nextTab = 2
  BY DEF ShellInit
<1>2. order \in Seq(Nat) /\ DOMAIN order = {1} /\ order[1] = 1
  BY <1>1
<1> QED BY <1>1, <1>2 DEF StripInv, StripTabs, ToSet

LEMMA TabsAreNumbered ==
    ASSUME StripInv
    PROVE  StripTabs \subseteq Nat /\ nextTab \notin StripTabs
BY DEF StripInv, StripTabs, ToSet

LEMMA StripOpened ==
    ASSUME StripInv, WindowStrip!Open
    PROVE  StripInv' /\ StripTabs' = StripTabs \cup {nextTab}
<1>1. order' = Append(order, nextTab) /\ front' = nextTab /\ nextTab' = nextTab + 1
  BY DEF WindowStrip!Open
<1>2. /\ nextTab \in Nat \ {0} /\ order \in Seq(Nat) /\ nextTab \notin ToSet(order)
      /\ \A i, j \in DOMAIN order : order[i] = order[j] => i = j
      /\ \A i \in DOMAIN order : order[i] < nextTab
  BY TabsAreNumbered DEF StripInv, StripTabs
<1>3. /\ order' \in Seq(Nat) /\ ToSet(order') = ToSet(order) \cup {nextTab}
      /\ \A i, j \in DOMAIN order' : order'[i] = order'[j] => i = j
  <2>1. nextTab \in Nat
    BY <1>2
  <2> QED BY <1>1, <1>2, <2>1, AppendSet
<1>4. \A i \in DOMAIN order' : order'[i] < nextTab'
  <2>1. \A i \in DOMAIN order' : order'[i] \in ToSet(order')
    BY DEF ToSet
  <2>2. \A x \in ToSet(order) : x \in Nat /\ x < nextTab
    BY <1>2 DEF ToSet
  <2> QED BY <1>1, <1>2, <1>3, <2>1, <2>2
<1> QED BY <1>1, <1>2, <1>3, <1>4 DEF StripInv, StripTabs

LEMMA StripActivated ==
    ASSUME StripInv, NEW k \in DOMAIN order, WindowStrip!Activate(k)
    PROVE  StripInv' /\ StripTabs' = StripTabs
<1>1. order' = order /\ front' = order[k] /\ nextTab' = nextTab
  BY DEF WindowStrip!Activate
<1>2. order[k] \in StripTabs
  BY DEF StripTabs, ToSet
<1> QED BY <1>1, <1>2 DEF StripInv, StripTabs

LEMMA StripClosed ==
    ASSUME StripInv, NEW k \in DOMAIN order, Len(order) > 1, WindowStrip!Close(k)
    PROVE  StripInv' /\ StripTabs' = StripTabs \ {order[k]}
<1> DEFINE rest == RemoveAt(order, k)
<1>1. /\ order' = rest /\ nextTab' = nextTab
      /\ front' = IF front # order[k] THEN front ELSE IF rest = <<>> THEN WindowStrip!NoTab ELSE Last(rest)
  BY DEF WindowStrip!Close, WindowStrip!RemoveAt, RemoveAt, WindowStrip!Last, Last
<1>2. /\ nextTab \in Nat \ {0} /\ order \in Seq(Nat)
      /\ \A i, j \in DOMAIN order : order[i] = order[j] => i = j
      /\ \A i \in DOMAIN order : order[i] < nextTab /\ front \in ToSet(order)
  BY DEF StripInv, StripTabs
<1>3. /\ ToSet(rest) = ToSet(order) \ {order[k]}
      /\ \A i, j \in DOMAIN rest : rest[i] = rest[j] => i = j
  BY <1>2, RemoveAtSet
<1>4. rest \in Seq(Nat) /\ Len(rest) = Len(order) - 1
  BY <1>2, RemoveAtProperties
<1> HIDE DEF rest
<1>5. \A i \in DOMAIN rest : rest[i] < nextTab
  <2>1. \A i \in DOMAIN rest : rest[i] \in ToSet(rest)
    BY DEF ToSet
  <2>2. \A x \in ToSet(order) : x < nextTab
    BY <1>2 DEF ToSet
  <2> QED BY <1>3, <2>1, <2>2
<1>6. front' \in ToSet(rest)
  <2>1. CASE front # order[k]
    BY <1>1, <1>2, <1>3, <2>1 DEF StripInv, StripTabs
  <2>2. CASE front = order[k]
    <3>1. Len(rest) > 0 /\ Len(rest) \in Nat
      BY <1>2, <1>4
    <3>2. rest # <<>> /\ Len(rest) \in DOMAIN rest
      BY <1>4, <3>1
    <3>3. front' = rest[Len(rest)]
      BY <1>1, <2>2, <3>2 DEF Last
    <3> QED BY <3>2, <3>3 DEF ToSet
  <2> QED BY <2>1, <2>2
<1> QED BY <1>1, <1>2, <1>3, <1>4, <1>5, <1>6 DEF StripInv, StripTabs

LEMMA StripReplaced ==
    ASSUME StripInv, order' = <<nextTab>>, front' = nextTab, nextTab' = nextTab + 1
    PROVE  StripInv' /\ StripTabs' = {nextTab}
<1>1. nextTab \in Nat \ {0}
  BY DEF StripInv
<1>2. order' \in Seq(Nat) /\ DOMAIN order' = {1} /\ order'[1] = nextTab
  BY <1>1
<1> QED BY <1>1, <1>2 DEF StripInv, StripTabs, ToSet

-----------------------------------------------------------------------------
(* The window and its worker.                                              *)

AnyUrl == Urls \cup {Internal, Search}
AnyDoc == [tab : Nat, asked : AnyUrl, url : AnyUrl]
AnyPage == [url : AnyUrl, asked : AnyUrl, request : Nat, doc : AnyDoc, failed : BOOLEAN]
AnyCommand == [id : Nat \ {0}, kind : {"load", "search", "index", "tick"}, url : AnyUrl, tab : Nat]
AnyEvent == [id : Nat \ {0}, kind : {"loaded", "searched", "failed", "indexed", "frame"}, doc : AnyDoc]

\* The load of a tab is asked for by the tab that owns the request, as long as it waits.
Orders(n, own, pgs) ==
    {c \in AnyCommand :
        /\ c.id < n
        /\ c.kind = "load" /\ c.id \in DOMAIN own =>
             /\ own[c.id] = c.tab
             /\ pgs[c.tab].request = c.id => pgs[c.tab].asked = c.url}

Notices(n, own, pgs, still) ==
    {e \in AnyEvent :
        /\ e.id < n
        /\ e.kind = "loaded" /\ e.id \in DOMAIN own =>
             /\ own[e.id] = e.doc.tab
             /\ pgs[e.doc.tab].request = e.id => pgs[e.doc.tab].asked = e.doc.asked
        /\ e.kind = "frame" /\ still => e.doc = NoDoc}

\* A step to own2 and pgs2 notes no earlier request anew.
Lessens(n, own, pgs, own2, pgs2) ==
    \A r \in Nat \ {0} : r < n /\ r \in DOMAIN own2 =>
        /\ r \in DOMAIN own /\ own2[r] = own[r]
        /\ pgs2[own[r]].request = r =>
             pgs[own[r]].request = r /\ pgs2[own[r]].asked = pgs[own[r]].asked

LEMMA ChannelsLessen ==
    ASSUME NEW n \in Nat, NEW n2 \in Nat, n <= n2, NEW own, NEW pgs, NEW own2, NEW pgs2,
           Lessens(n, own, pgs, own2, pgs2), NEW still
    PROVE  /\ \A s \in Seq(Orders(n, own, pgs)) : s \in Seq(Orders(n2, own2, pgs2))
           /\ \A s \in Seq(Notices(n, own, pgs, still)) : s \in Seq(Notices(n2, own2, pgs2, still))
<1>1. Orders(n, own, pgs) \subseteq Orders(n2, own2, pgs2)
  <2> SUFFICES ASSUME NEW c \in Orders(n, own, pgs) PROVE c \in Orders(n2, own2, pgs2)
    OBVIOUS
  <2>1. c \in AnyCommand /\ c.id < n /\ c.id \in Nat \ {0}
    BY DEF Orders, AnyCommand
  <2>2. c.id < n2
    BY <2>1
  <2>3. ASSUME c.kind = "load", c.id \in DOMAIN own2
        PROVE  own2[c.id] = c.tab /\ (pgs2[c.tab].request = c.id => pgs2[c.tab].asked = c.url)
    BY <2>1, <2>3 DEF Orders, Lessens
  <2> QED BY <2>1, <2>2, <2>3 DEF Orders
<1>2. Notices(n, own, pgs, still) \subseteq Notices(n2, own2, pgs2, still)
  <2> SUFFICES ASSUME NEW e \in Notices(n, own, pgs, still) PROVE e \in Notices(n2, own2, pgs2, still)
    OBVIOUS
  <2>1. e \in AnyEvent /\ e.id < n /\ e.id \in Nat \ {0} /\ (e.kind = "frame" /\ still => e.doc = NoDoc)
    BY DEF Notices, AnyEvent
  <2>2. e.id < n2
    BY <2>1
  <2>3. ASSUME e.kind = "loaded", e.id \in DOMAIN own2
        PROVE  /\ own2[e.id] = e.doc.tab
               /\ pgs2[e.doc.tab].request = e.id => pgs2[e.doc.tab].asked = e.doc.asked
    BY <2>1, <2>3 DEF Notices, Lessens
  <2> QED BY <2>1, <2>2, <2>3 DEF Notices
<1> QED BY <1>1, <1>2, SeqWider

Still == ~ scenario.animated

ShellTypes ==
    /\ scenario \in Scenario
    /\ StripInv
    /\ pages \in [StripTabs -> AnyPage]
    /\ owner \in [DOMAIN owner -> StripTabs] /\ DOMAIN owner \subseteq Nat \ {0}
    /\ nextRequest \in Nat \ {0}
    /\ animPage \in AnyDoc
    /\ animPending \in Nat

ShellChannels ==
    /\ commands \in Seq(Orders(nextRequest, owner, pages))
    /\ events \in Seq(Notices(nextRequest, owner, pages, Still))

WindowInv == ShellTypes /\ ShellChannels /\ DocumentIsOwn

\* What DocumentIsOwn says of one tab.
OwnDoc(t, p) == p.doc # NoDoc => p.doc = [tab |-> t, asked |-> p.asked, url |-> p.url]

LEMMA OwnDocs == DocumentIsOwn <=> (Still => \A t \in StripTabs : OwnDoc(t, pages[t]))
BY DEF DocumentIsOwn, Still, OwnDoc

LEMMA EmptyPage ==
    /\ NoDoc \in AnyDoc /\ NewPage \in AnyPage
    /\ NewPage.request = 0 /\ NewPage.doc = NoDoc /\ NewPage.asked = Internal
<1>1. NoDoc \in AnyDoc
  BY DEF NoDoc, AnyDoc, AnyUrl
<1>2. Internal \in AnyUrl
  BY DEF AnyUrl
<1> QED BY <1>1, <1>2 DEF NewPage, AnyPage

LEMMA WindowInit == ShellInit => WindowInv
<1> SUFFICES ASSUME ShellInit PROVE WindowInv
  OBVIOUS
<1>1. StripInv /\ StripTabs = {1}
  BY StripInit
<1>2. /\ scenario \in Scenario /\ pages = [t \in {1} |-> NewPage] /\ owner = [r \in {} |-> 0]
      /\ nextRequest = 1 /\ commands = <<>> /\ events = <<>> /\ animPage = NoDoc /\ animPending = 0
  BY DEF ShellInit
<1>3. ShellTypes
  BY <1>1, <1>2, EmptyPage DEF ShellTypes
<1>4. ShellChannels
  BY <1>2 DEF ShellChannels
<1>5. DocumentIsOwn
  BY <1>1, <1>2, EmptyPage DEF DocumentIsOwn
<1> QED BY <1>3, <1>4, <1>5 DEF WindowInv

\* The channels after a step that leaves them alone, or the numbering at least no lower.
LEMMA OldShellChannels ==
    ASSUME WindowInv, nextRequest' \in Nat, nextRequest <= nextRequest', scenario' = scenario,
           Lessens(nextRequest, owner, pages, owner', pages')
    PROVE  /\ commands \in Seq(Orders(nextRequest', owner', pages'))
           /\ events \in Seq(Notices(nextRequest', owner', pages', Still'))
<1> DEFINE orders == Orders(nextRequest, owner, pages)
           notices == Notices(nextRequest, owner, pages, Still)
           orders2 == Orders(nextRequest', owner', pages')
           notices2 == Notices(nextRequest', owner', pages', Still)
<1>1. commands \in Seq(orders) /\ events \in Seq(notices)
  BY DEF WindowInv, ShellChannels
<1>2. nextRequest \in Nat
  BY DEF WindowInv, ShellTypes
<1>3. /\ \A s \in Seq(orders) : s \in Seq(orders2)
      /\ \A s \in Seq(notices) : s \in Seq(notices2)
  <2> DEFINE n == nextRequest
             n2 == nextRequest'
             own == owner
             own2 == owner'
             pgs == pages
             pgs2 == pages'
             still == Still
  <2>1. n \in Nat /\ n2 \in Nat /\ n <= n2 /\ Lessens(n, own, pgs, own2, pgs2)
    BY <1>2
  <2> HIDE DEF n, n2, own, own2, pgs, pgs2, still
  <2>2. /\ \A s \in Seq(Orders(n, own, pgs)) : s \in Seq(Orders(n2, own2, pgs2))
        /\ \A s \in Seq(Notices(n, own, pgs, still)) : s \in Seq(Notices(n2, own2, pgs2, still))
    BY <2>1, ChannelsLessen
  <2> QED BY <2>2 DEF n, n2, own, own2, pgs, pgs2, still
<1>4. Still' = Still
  BY DEF Still
<1> HIDE DEF orders, notices, orders2, notices2
<1>5. commands \in Seq(orders2) /\ events \in Seq(notices2)
  BY <1>1, <1>3, Zenon
<1> QED BY <1>4, <1>5 DEF orders2, notices2

\* A step that leaves the channels and the numbering alone.
LEMMA QuietStep ==
    ASSUME WindowInv, ShellTypes', scenario' = scenario, UNCHANGED <<nextRequest, commands, events>>,
           Lessens(nextRequest, owner, pages, owner', pages'),
           \A t \in StripTabs' : OwnDoc(t, pages'[t]) \/ (t \in StripTabs /\ pages'[t] = pages[t])
    PROVE  WindowInv'
<1>1. /\ commands' \in Seq(Orders(nextRequest', owner', pages'))
      /\ events' \in Seq(Notices(nextRequest', owner', pages', Still'))
  <2>1. nextRequest' \in Nat /\ nextRequest <= nextRequest'
    BY DEF WindowInv, ShellTypes
  <2> QED BY <2>1, OldShellChannels
<1>2. ShellChannels'
  BY <1>1 DEF ShellChannels
<1>3. DocumentIsOwn'
  <2>1. Still => \A t \in StripTabs : OwnDoc(t, pages[t])
    BY OwnDocs DEF WindowInv
  <2>2. Still' => \A t \in StripTabs' : OwnDoc(t, pages'[t])
    BY <2>1 DEF Still
  <2> QED BY <2>2 DEF DocumentIsOwn, Still, OwnDoc
<1> QED BY <1>2, <1>3 DEF WindowInv

LEMMA OpenWindow ==
    ASSUME WindowInv, OpenNewTab, scenario' = scenario
    PROVE  WindowInv'
<1>1. /\ WindowStrip!Open /\ pages' = Assign(pages, nextTab, NewPage)
      /\ UNCHANGED <<owner, nextRequest, commands, events, animPage, animPending>>
  BY DEF OpenNewTab, worker, animator
<1>2. StripInv' /\ StripTabs' = StripTabs \cup {nextTab} /\ nextTab \notin StripTabs
  BY <1>1, StripOpened, TabsAreNumbered DEF WindowInv, ShellTypes
<1>3. /\ pages \in [StripTabs -> AnyPage] /\ owner \in [DOMAIN owner -> StripTabs]
  BY DEF WindowInv, ShellTypes
<1>4. /\ DOMAIN pages' = StripTabs \cup {nextTab} /\ pages'[nextTab] = NewPage
      /\ \A t \in StripTabs : pages'[t] = pages[t]
      /\ pages' = [t \in DOMAIN pages' |-> pages'[t]]
  BY <1>1, <1>2, <1>3 DEF Assign
<1>5. pages' \in [StripTabs' -> AnyPage]
  BY <1>2, <1>3, <1>4, EmptyPage
<1>6. ShellTypes'
  BY <1>1, <1>2, <1>3, <1>5 DEF WindowInv, ShellTypes
<1>7. Lessens(nextRequest, owner, pages, owner', pages')
  BY <1>1, <1>3, <1>4 DEF Lessens
<1>8. \A t \in StripTabs' : OwnDoc(t, pages'[t]) \/ (t \in StripTabs /\ pages'[t] = pages[t])
  BY <1>2, <1>4, EmptyPage DEF OwnDoc
<1> QED BY <1>1, <1>6, <1>7, <1>8, QuietStep

LEMMA ActivateWindow ==
    ASSUME WindowInv, NEW k \in DOMAIN order, ActivateTab(k), scenario' = scenario
    PROVE  WindowInv'
<1>1. /\ WindowStrip!Activate(k)
      /\ UNCHANGED <<pages, owner, nextRequest, commands, events, animPage, animPending>>
  BY DEF ActivateTab, worker, animator
<1>2. StripInv' /\ StripTabs' = StripTabs
  BY <1>1, StripActivated DEF WindowInv, ShellTypes
<1>3. ShellTypes'
  BY <1>1, <1>2 DEF WindowInv, ShellTypes
<1>4. Lessens(nextRequest, owner, pages, owner', pages')
  BY <1>1 DEF Lessens
<1> QED BY <1>1, <1>2, <1>3, <1>4, QuietStep

LEMMA CloseWindow ==
    ASSUME WindowInv, NEW k \in DOMAIN order, CloseTabAt(k), scenario' = scenario
    PROVE  WindowInv'
<1> DEFINE t == order[k]
           S == {r \in DOMAIN owner : owner[r] = t}
<1>1. /\ owner' = Without(owner, S)
      /\ \/ /\ Len(order) > 1 /\ WindowStrip!Close(k) /\ pages' = Without(pages, {t})
         \/ /\ Len(order) = 1 /\ order' = <<nextTab>> /\ front' = nextTab /\ nextTab' = nextTab + 1
            /\ pages' = [i \in {nextTab} |-> NewPage]
      /\ UNCHANGED <<nextRequest, commands, events, animPage, animPending>>
  BY DEF CloseTabAt, worker, animator
<1>2. /\ pages \in [StripTabs -> AnyPage] /\ owner \in [DOMAIN owner -> StripTabs]
      /\ DOMAIN owner \subseteq Nat \ {0} /\ StripInv
  BY DEF WindowInv, ShellTypes
<1>3. /\ DOMAIN owner' = DOMAIN owner \ S /\ owner' = [r \in DOMAIN owner' |-> owner'[r]]
      /\ \A r \in DOMAIN owner' : owner'[r] = owner[r] /\ owner[r] \in StripTabs \ {t}
  BY <1>1, <1>2 DEF Without
<1>4. CASE Len(order) > 1 /\ WindowStrip!Close(k) /\ pages' = Without(pages, {t})
  <2>1. StripInv' /\ StripTabs' = StripTabs \ {t}
    BY <1>2, <1>4, StripClosed
  <2> HIDE DEF t
  <2>2. /\ DOMAIN pages' = StripTabs \ {t} /\ \A u \in StripTabs \ {t} : pages'[u] = pages[u]
        /\ pages' = [u \in DOMAIN pages' |-> pages'[u]]
    BY <1>2, <1>4 DEF Without
  <2>3. pages' \in [StripTabs' -> AnyPage] /\ owner' \in [DOMAIN owner' -> StripTabs']
    BY <1>2, <1>3, <2>1, <2>2
  <2>4. ShellTypes'
    BY <1>1, <1>2, <1>3, <2>1, <2>3 DEF WindowInv, ShellTypes
  <2>5. Lessens(nextRequest, owner, pages, owner', pages')
    BY <1>3, <2>2 DEF Lessens
  <2> QED BY <1>1, <2>1, <2>2, <2>4, <2>5, QuietStep
<1>5. CASE /\ Len(order) = 1 /\ order' = <<nextTab>> /\ front' = nextTab /\ nextTab' = nextTab + 1
           /\ pages' = [i \in {nextTab} |-> NewPage]
  <2>1. StripInv' /\ StripTabs' = {nextTab}
    BY <1>2, <1>5, StripReplaced
  <2>2. StripTabs = {t}
    BY <1>2, <1>5 DEF StripInv, StripTabs, ToSet
  <2> HIDE DEF t
  <2>3. DOMAIN owner' = {}
    BY <1>3, <2>2
  <2>4. pages' \in [StripTabs' -> AnyPage] /\ owner' \in [DOMAIN owner' -> StripTabs']
    BY <1>3, <1>5, <2>1, <2>3, EmptyPage
  <2>5. ShellTypes'
    BY <1>1, <1>2, <1>3, <2>1, <2>4 DEF WindowInv, ShellTypes
  <2>6. Lessens(nextRequest, owner, pages, owner', pages')
    BY <2>3 DEF Lessens
  <2>7. \A u \in StripTabs' : OwnDoc(u, pages'[u])
    BY <1>5, <2>1, EmptyPage DEF OwnDoc
  <2> QED BY <1>1, <2>5, <2>6, <2>7, QuietStep
<1> QED BY <1>1, <1>4, <1>5

\* A command is sent, or none, by a step that leaves the answers alone.
LEMMA SendingStep ==
    ASSUME WindowInv, ShellTypes', scenario' = scenario, events' = events,
           NEW kind, NEW url, NEW tab, Send(kind, url, tab),
           Lessens(nextRequest, owner, pages, owner', pages'),
           [id |-> nextRequest, kind |-> kind, url |-> url, tab |-> tab]
               \in Orders(nextRequest', owner', pages'),
           \A t \in StripTabs' : OwnDoc(t, pages'[t]) \/ (t \in StripTabs /\ pages'[t] = pages[t])
    PROVE  WindowInv'
<1> DEFINE c == [id |-> nextRequest, kind |-> kind, url |-> url, tab |-> tab]
<1>1. nextRequest' = nextRequest + 1 /\ commands' = Append(commands, c)
  BY DEF Send
<1>2. nextRequest' \in Nat /\ nextRequest <= nextRequest'
  BY <1>1 DEF WindowInv, ShellTypes
<1>3. /\ commands \in Seq(Orders(nextRequest', owner', pages'))
      /\ events \in Seq(Notices(nextRequest', owner', pages', Still'))
  BY <1>2, OldShellChannels
<1>4. c \in Orders(nextRequest', owner', pages')
  OBVIOUS
<1> HIDE DEF c
<1>5. commands' \in Seq(Orders(nextRequest', owner', pages'))
  BY <1>1, <1>3, <1>4, Appended
<1>6. ShellChannels'
  BY <1>3, <1>5 DEF ShellChannels
<1>7. DocumentIsOwn'
  <2>1. Still => \A t \in StripTabs : OwnDoc(t, pages[t])
    BY OwnDocs DEF WindowInv
  <2>2. Still' => \A t \in StripTabs' : OwnDoc(t, pages'[t])
    BY <2>1 DEF Still
  <2> QED BY <2>2 DEF DocumentIsOwn, Still, OwnDoc
<1> QED BY <1>6, <1>7 DEF WindowInv

\* What the page of the front tab is while it waits for url, or shows an internal page.
Asking(url, request) == [NewPage EXCEPT !.url = url, !.asked = url, !.request = request]

LEMMA AskingPage ==
    ASSUME NEW url \in AnyUrl, NEW request \in Nat
    PROVE  /\ Asking(url, request) \in AnyPage /\ Asking(url, request).request = request
           /\ Asking(url, request).asked = url /\ Asking(url, request).doc = NoDoc
<1> DEFINE p == NewPage
<1>1. p \in AnyPage /\ p.doc = NoDoc
  BY EmptyPage
<1>2. Asking(url, request) = [p EXCEPT !.url = url, !.asked = url, !.request = request]
  BY DEF Asking
<1> HIDE DEF p
<1> QED BY <1>1, <1>2 DEF AnyPage

LEMMA NavigateWindow ==
    ASSUME WindowInv, NEW url \in scenario.urls \cup {Internal, Search}, Navigate(url),
           scenario' = scenario
    PROVE  WindowInv'
<1> DEFINE request == IF url = Internal THEN 0 ELSE nextRequest
           kind == IF url = Search THEN "search" ELSE "load"
           q == Asking(url, request)
<1>1. /\ pages' = [pages EXCEPT ![front] = q]
      /\ IF url = Internal
         THEN UNCHANGED <<owner, nextRequest, commands>>
         ELSE Send(kind, url, front) /\ owner' = Assign(owner, nextRequest, front)
      /\ UNCHANGED <<order, front, nextTab, events, animPage, animPending>>
  BY DEF Navigate, Asking, strip, animator
<1>2. /\ pages \in [StripTabs -> AnyPage] /\ owner \in [DOMAIN owner -> StripTabs]
      /\ DOMAIN owner \subseteq Nat \ {0} /\ StripInv /\ front \in StripTabs
      /\ nextRequest \in Nat \ {0} /\ url \in AnyUrl /\ front \in Nat
  <2>1. scenario.urls \subseteq Urls
    BY DEF WindowInv, ShellTypes, Scenario
  <2>2. front \in Nat
    BY TabsAreNumbered DEF WindowInv, ShellTypes, StripInv
  <2> QED BY <2>1, <2>2 DEF WindowInv, ShellTypes, StripInv, AnyUrl
<1>3. /\ q \in AnyPage /\ q.request = request /\ q.asked = url /\ q.doc = NoDoc
      /\ request \in {0, nextRequest}
  BY <1>2, AskingPage
<1>4. StripInv' /\ StripTabs' = StripTabs
  BY <1>1, <1>2 DEF StripInv, StripTabs
<1> HIDE DEF q
<1>5. \A t \in StripTabs : pages'[t] = IF t = front THEN q ELSE pages[t]
  BY <1>1, <1>2
<1>6. pages' \in [StripTabs' -> AnyPage]
  BY <1>1, <1>2, <1>3, <1>4
<1>7. \A t \in StripTabs' : OwnDoc(t, pages'[t]) \/ (t \in StripTabs /\ pages'[t] = pages[t])
  BY <1>3, <1>4, <1>5 DEF OwnDoc
<1>8. CASE url = Internal
  <2>1. owner' = owner /\ UNCHANGED <<nextRequest, commands, events>>
    BY <1>1, <1>8
  <2>2. ShellTypes'
    BY <1>1, <1>2, <1>4, <1>6, <2>1 DEF WindowInv, ShellTypes
  <2>3. Lessens(nextRequest, owner, pages, owner', pages')
    BY <1>2, <1>3, <1>5, <1>8, <2>1 DEF Lessens
  <2> QED BY <1>7, <2>1, <2>2, <2>3, QuietStep
<1>9. CASE url # Internal
  <2>1. Send(kind, url, front) /\ owner' = Assign(owner, nextRequest, front) /\ events' = events
    BY <1>1, <1>9
  <2>2. /\ DOMAIN owner' = DOMAIN owner \cup {nextRequest} /\ owner'[nextRequest] = front
        /\ \A r \in DOMAIN owner : r # nextRequest => owner'[r] = owner[r]
        /\ owner' = [r \in DOMAIN owner' |-> owner'[r]]
    BY <2>1 DEF Assign
  <2>3. owner' \in [DOMAIN owner' -> StripTabs']
    BY <1>2, <1>4, <2>2
  <2>4. nextRequest' = nextRequest + 1
    BY <2>1 DEF Send
  <2>5. ShellTypes'
    BY <1>1, <1>2, <1>4, <1>6, <2>2, <2>3, <2>4 DEF WindowInv, ShellTypes
  <2>6. Lessens(nextRequest, owner, pages, owner', pages')
    BY <1>2, <1>3, <1>5, <2>2 DEF Lessens
  <2>7. [id |-> nextRequest, kind |-> kind, url |-> url, tab |-> front]
            \in Orders(nextRequest', owner', pages')
    <3>1. pages'[front].asked = url
      BY <1>2, <1>3, <1>5
    <3> QED BY <1>2, <2>2, <2>4, <3>1 DEF Orders, AnyCommand
  <2> HIDE DEF kind
  <2> QED BY <1>7, <2>1, <2>5, <2>6, <2>7, SendingStep
<1> QED BY <1>8, <1>9

LEMMA StopWindow ==
    ASSUME WindowInv, StopActive, scenario' = scenario
    PROVE  WindowInv'
<1> DEFINE q == [pages[front] EXCEPT !.request = 0]
           n == pages[front].request
<1>1. /\ pages \in [StripTabs -> AnyPage] /\ owner \in [DOMAIN owner -> StripTabs]
      /\ DOMAIN owner \subseteq Nat \ {0} /\ StripInv /\ front \in StripTabs
  BY DEF WindowInv, ShellTypes, StripInv
<1>2. /\ pages' = [pages EXCEPT ![front] = q] /\ owner' = Without(owner, {n})
      /\ UNCHANGED <<order, front, nextTab, nextRequest, commands, events, animPage, animPending>>
  BY <1>1 DEF StopActive, strip, worker, animator
<1>3. /\ q \in AnyPage /\ q.request = 0 /\ q.doc = pages[front].doc
      /\ q.asked = pages[front].asked /\ q.url = pages[front].url
  BY <1>1 DEF AnyPage
<1> HIDE DEF q
<1>4. \A t \in StripTabs : pages'[t] = IF t = front THEN q ELSE pages[t]
  BY <1>1, <1>2
<1>5. StripInv' /\ StripTabs' = StripTabs
  BY <1>1, <1>2 DEF StripInv, StripTabs
<1>6. /\ DOMAIN owner' \subseteq DOMAIN owner /\ \A r \in DOMAIN owner' : owner'[r] = owner[r]
      /\ owner' = [r \in DOMAIN owner' |-> owner'[r]]
  BY <1>2 DEF Without
<1>7. /\ pages' \in [StripTabs' -> AnyPage] /\ owner' \in [DOMAIN owner' -> StripTabs']
  BY <1>1, <1>2, <1>3, <1>5, <1>6
<1>8. ShellTypes'
  BY <1>1, <1>2, <1>5, <1>6, <1>7 DEF WindowInv, ShellTypes
<1>9. Lessens(nextRequest, owner, pages, owner', pages')
  BY <1>1, <1>3, <1>4, <1>6 DEF Lessens
<1>10. UNCHANGED <<nextRequest, commands, events>>
  BY <1>2
<1>11. ShellChannels'
  <2>1. nextRequest' \in Nat /\ nextRequest <= nextRequest'
    BY <1>10 DEF WindowInv, ShellTypes
  <2> QED BY <1>9, <1>10, <2>1, OldShellChannels DEF ShellChannels
<1>12. DocumentIsOwn'
  <2>1. Still => \A t \in StripTabs : OwnDoc(t, pages[t])
    BY OwnDocs DEF WindowInv
  <2>2. Still' => \A t \in StripTabs' : OwnDoc(t, pages'[t])
    BY <1>1, <1>3, <1>4, <1>5, <2>1 DEF Still, OwnDoc
  <2> QED BY <2>2 DEF DocumentIsOwn, Still, OwnDoc
<1> QED BY <1>8, <1>11, <1>12 DEF WindowInv

LEMMA RebuildWindow ==
    ASSUME WindowInv, RebuildPrivacyPipeline, scenario' = scenario
    PROVE  WindowInv'
<1>1. /\ nextRequest' = 1 /\ commands' = <<>> /\ events' = <<>> /\ animPage' = NoDoc
      /\ UNCHANGED <<order, front, nextTab, pages, owner, animPending>>
  BY DEF RebuildPrivacyPipeline, strip, animator
<1>2. ShellTypes'
  BY <1>1, EmptyPage DEF WindowInv, ShellTypes, StripInv, StripTabs
<1>3. ShellChannels'
  BY <1>1 DEF ShellChannels
<1>4. DocumentIsOwn'
  BY <1>1 DEF WindowInv, DocumentIsOwn, StripTabs
<1> QED BY <1>2, <1>3, <1>4 DEF WindowInv

\* What the worker answers a command with is for the tab that gave it.
LEMMA AnswersAreNotices ==
    ASSUME scenario \in Scenario, NEW n \in Nat, NEW own, NEW pgs, NEW c \in Orders(n, own, pgs),
           NEW e \in Answer(c), animPage \in AnyDoc
    PROVE  /\ e \in Notices(n, own, pgs, Still) /\ e.id = c.id /\ e.doc \in AnyDoc
           /\ c.kind = "load" => e.kind \in {"loaded", "failed"}
           /\ c.kind = "search" => e.kind \in {"searched", "failed"}
           /\ c.kind = "tick" => e.kind = "frame"
<1>1. /\ c.id \in Nat \ {0} /\ c.tab \in Nat /\ c.url \in AnyUrl /\ c.id < n
      /\ c.kind \in {"load", "search", "index", "tick"} /\ scenario.urls \subseteq AnyUrl
      /\ c.kind = "load" /\ c.id \in DOMAIN own =>
             own[c.id] = c.tab /\ (pgs[c.tab].request = c.id => pgs[c.tab].asked = c.url)
  BY DEF Orders, AnyCommand, Scenario, AnyUrl
<1>2. NoDoc \in AnyDoc
  BY EmptyPage
<1>3. CASE c.kind = "load"
  <2>1. CASE e.kind = "failed"
    <3>1. e = [id |-> c.id, kind |-> "failed", doc |-> NoDoc]
      BY <1>3, <2>1 DEF Answer
    <3> QED BY <1>1, <1>2, <1>3, <3>1 DEF Notices, AnyEvent
  <2>2. CASE e.kind # "failed"
    <3>1. PICK u \in scenario.urls :
            e = [id |-> c.id, kind |-> "loaded", doc |-> [tab |-> c.tab, asked |-> c.url, url |-> u]]
      BY <1>3, <2>2 DEF Answer
    <3>2. e.doc = [tab |-> c.tab, asked |-> c.url, url |-> u] /\ e.id = c.id /\ e.kind = "loaded"
      BY <3>1
    <3>3. e.doc \in AnyDoc /\ e.doc.tab = c.tab /\ e.doc.asked = c.url
      BY <1>1, <3>2 DEF AnyDoc
    <3>4. e \in AnyEvent
      BY <1>1, <3>1, <3>3 DEF AnyEvent
    <3> QED BY <1>1, <1>3, <3>2, <3>3, <3>4 DEF Notices
  <2> QED BY <2>1, <2>2
<1>4. CASE c.kind = "search"
  <2>1. \/ e = [id |-> c.id, kind |-> "searched", doc |-> NoDoc]
        \/ e = [id |-> c.id, kind |-> "failed", doc |-> NoDoc]
    BY <1>4 DEF Answer
  <2> QED BY <1>1, <1>2, <1>4, <2>1 DEF Notices, AnyEvent
<1>5. CASE c.kind = "index"
  <2>1. e = [id |-> c.id, kind |-> "indexed", doc |-> NoDoc]
    BY <1>5 DEF Answer
  <2> QED BY <1>1, <1>2, <1>5, <2>1 DEF Notices, AnyEvent
<1>6. CASE c.kind = "tick"
  <2>1. PICK d \in {NoDoc} \cup (IF scenario.animated THEN {animPage} ELSE {}) :
            e = [id |-> c.id, kind |-> "frame", doc |-> d]
    BY <1>6 DEF Answer
  <2>2. d \in AnyDoc /\ (Still => d = NoDoc)
    BY <1>2, <2>1 DEF Still
  <2> QED BY <1>1, <1>6, <2>1, <2>2 DEF Notices, AnyEvent
<1> QED BY <1>1, <1>3, <1>4, <1>5, <1>6

LEMMA WorkWindow ==
    ASSUME WindowInv, WorkerStep, scenario' = scenario
    PROVE  WindowInv'
<1> DEFINE c == Head(commands)
<1>1. PICK e \in Answer(c) :
        events' = Append(events, e) /\ animPage' = IF e.kind = "loaded" THEN e.doc ELSE animPage
  BY DEF WorkerStep
<1>2. /\ commands # <<>> /\ commands' = Tail(commands)
      /\ UNCHANGED <<order, front, nextTab, pages, owner, nextRequest, animPending>>
  BY DEF WorkerStep, strip, animator
<1>3. /\ commands \in Seq(Orders(nextRequest, owner, pages))
      /\ events \in Seq(Notices(nextRequest, owner, pages, Still))
      /\ scenario \in Scenario /\ nextRequest \in Nat /\ animPage \in AnyDoc
  BY DEF WindowInv, ShellTypes, ShellChannels
<1>4. c \in Orders(nextRequest, owner, pages) /\ commands' \in Seq(Orders(nextRequest, owner, pages))
  BY <1>2, <1>3, HeadTail
<1> HIDE DEF c
<1>5. e \in Notices(nextRequest, owner, pages, Still) /\ e.doc \in AnyDoc
  BY <1>1, <1>3, <1>4, AnswersAreNotices
<1>6. events' \in Seq(Notices(nextRequest, owner, pages, Still))
  BY <1>1, <1>3, <1>5, Appended
<1>7. ShellTypes'
  BY <1>1, <1>2, <1>5 DEF WindowInv, ShellTypes, StripInv, StripTabs
<1>8. Still' = Still
  BY DEF Still
<1>9. ShellChannels'
  BY <1>2, <1>4, <1>6, <1>8 DEF ShellChannels
<1>10. DocumentIsOwn'
  BY <1>2 DEF WindowInv, DocumentIsOwn, StripTabs
<1> QED BY <1>7, <1>9, <1>10 DEF WindowInv

\* The event at the head of the channel.
LEMMA Arrival ==
    ASSUME WindowInv, NEW e, Arrives(e)
    PROVE  e \in Notices(nextRequest, owner, pages, Still) /\ events # <<>> /\ events' = Tail(events)
<1>1. events # <<>> /\ e = Head(events) /\ events' = Tail(events)
  BY DEF Arrives
<1>2. events \in Seq(Notices(nextRequest, owner, pages, Still))
  BY DEF WindowInv, ShellChannels
<1> QED BY <1>1, <1>2, HeadTail

\* The channels after an event is taken.
LEMMA TakenEvents ==
    ASSUME WindowInv, NEW e, Arrives(e), nextRequest' \in Nat, nextRequest <= nextRequest',
           scenario' = scenario, Lessens(nextRequest, owner, pages, owner', pages')
    PROVE  /\ commands \in Seq(Orders(nextRequest', owner', pages'))
           /\ events' \in Seq(Notices(nextRequest', owner', pages', Still'))
<1>1. /\ commands \in Seq(Orders(nextRequest', owner', pages'))
      /\ events \in Seq(Notices(nextRequest', owner', pages', Still'))
  BY OldShellChannels
<1>2. events # <<>> /\ events' = Tail(events)
  BY Arrival
<1> DEFINE S == Notices(nextRequest', owner', pages', Still')
<1>3. events \in Seq(S)
  BY <1>1
<1> HIDE DEF S
<1>4. events' \in Seq(S)
  BY <1>2, <1>3, HeadTail
<1> QED BY <1>1, <1>4 DEF S

\* finish_load and fail_load: the tab that asked has a page of its own, and awaits nothing.
LEMMA FinishWindow ==
    ASSUME WindowInv, NEW e, Arrives(e), Awaited(e), NEW p, p \in AnyPage, p.request = 0,
           pages[owner[e.id]].request = e.id /\ Still => OwnDoc(owner[e.id], p),
           Finish(e, p), UNCHANGED <<order, front, nextTab, animPage, animPending>>,
           nextRequest' \in Nat \ {0}, nextRequest <= nextRequest', scenario' = scenario
    PROVE  /\ ShellTypes' /\ Lessens(nextRequest, owner, pages, owner', pages')
           /\ DocumentIsOwn' /\ owner[e.id] \in StripTabs
<1> DEFINE t == owner[e.id]
<1>1. /\ pages \in [StripTabs -> AnyPage] /\ owner \in [DOMAIN owner -> StripTabs]
      /\ DOMAIN owner \subseteq Nat \ {0} /\ e.id \in DOMAIN owner /\ t \in StripTabs
  BY DEF WindowInv, ShellTypes, Awaited
<1>2. /\ owner' = Without(owner, {e.id})
      /\ pages' = IF pages[t].request = e.id THEN [pages EXCEPT ![t] = p] ELSE pages
  BY DEF Finish
<1>3. t \in StripTabs /\ (pages[t].request = e.id /\ Still => OwnDoc(t, p))
  BY <1>1
<1>4. /\ DOMAIN owner' = DOMAIN owner \ {e.id} /\ \A r \in DOMAIN owner' : owner'[r] = owner[r]
      /\ owner' = [r \in DOMAIN owner' |-> owner'[r]]
  BY <1>2 DEF Without
<1> HIDE DEF t
<1>5. /\ \A u \in StripTabs : pages'[u] = IF u = t /\ pages[t].request = e.id THEN p ELSE pages[u]
      /\ pages' \in [StripTabs -> AnyPage]
  BY <1>1, <1>2, <1>3
<1>6. StripInv' /\ StripTabs' = StripTabs
  BY DEF WindowInv, ShellTypes, StripInv, StripTabs
<1>7. owner' \in [DOMAIN owner' -> StripTabs']
  BY <1>1, <1>4, <1>6
<1>8. ShellTypes'
  BY <1>1, <1>4, <1>5, <1>6, <1>7 DEF WindowInv, ShellTypes
<1>9. Lessens(nextRequest, owner, pages, owner', pages')
  BY <1>1, <1>4, <1>5 DEF Lessens
<1>10. DocumentIsOwn'
  <2>1. Still => \A u \in StripTabs : OwnDoc(u, pages[u])
    BY OwnDocs DEF WindowInv
  <2>2. Still' => \A u \in StripTabs' : OwnDoc(u, pages'[u])
    BY <1>3, <1>5, <1>6, <2>1 DEF Still
  <2> QED BY <2>2 DEF DocumentIsOwn, Still, OwnDoc
<1> QED BY <1>3, <1>8, <1>9, <1>10 DEF t

\* What a tab shows after an answer.
LEMMA AnsweredPage ==
    ASSUME WindowInv, NEW t \in StripTabs, NEW p \in AnyPage
    PROVE  /\ Answered(t, p) \in AnyPage /\ Answered(t, p).request = p.request
           /\ Answered(t, p).doc = p.doc /\ Answered(t, p).url = p.url
           /\ Answered(t, p).asked = pages[t].asked
<1>1. pages[t].asked \in AnyUrl
  BY DEF WindowInv, ShellTypes, AnyPage
<1> QED BY <1>1 DEF Answered, AnyPage

LEMMA FoundPage ==
    ASSUME NEW doc \in AnyDoc
    PROVE  LET q == [NewPage EXCEPT !.url = doc.url, !.doc = doc]
           IN  q \in AnyPage /\ q.request = 0 /\ q.doc = doc /\ q.url = doc.url
<1> DEFINE p == NewPage
<1>1. p \in AnyPage /\ p.request = 0 /\ doc.url \in AnyUrl
  BY EmptyPage DEF AnyDoc
<1> HIDE DEF p
<1>2. LET q == [p EXCEPT !.url = doc.url, !.doc = doc]
      IN  q \in AnyPage /\ q.request = 0 /\ q.doc = doc /\ q.url = doc.url
  BY <1>1 DEF AnyPage
<1> QED BY <1>2 DEF p

LEMMA EmptyAnswer ==
    ASSUME NEW url \in AnyUrl, NEW failed \in BOOLEAN
    PROVE  LET q == [NewPage EXCEPT !.url = url, !.failed = failed]
           IN  q \in AnyPage /\ q.request = 0 /\ q.doc = NoDoc
<1> DEFINE p == NewPage
<1>1. p \in AnyPage /\ p.request = 0 /\ p.doc = NoDoc
  BY EmptyPage
<1> HIDE DEF p
<1>2. LET q == [p EXCEPT !.url = url, !.failed = failed]
      IN  q \in AnyPage /\ q.request = 0 /\ q.doc = NoDoc
  BY <1>1 DEF AnyPage
<1> QED BY <1>2 DEF p

\* The page that shows a result of the search engine of the browser.
LEMMA SearchPage ==
    LET q == [NewPage EXCEPT !.url = Search]
    IN  q \in AnyPage /\ q.request = 0 /\ q.doc = NoDoc
<1> DEFINE p == NewPage
<1>1. p \in AnyPage /\ p.request = 0 /\ p.doc = NoDoc /\ Search \in AnyUrl
  BY EmptyPage DEF AnyUrl
<1> HIDE DEF p
<1>2. LET q == [p EXCEPT !.url = Search]
      IN  q \in AnyPage /\ q.request = 0 /\ q.doc = NoDoc
  BY <1>1 DEF AnyPage
<1> QED BY <1>2 DEF p

\* A page that is accepted as the answer to e.
Accepts(e, p) ==
    /\ p \in AnyPage /\ p.request = 0
    /\ pages[owner[e.id]].request = e.id /\ Still => OwnDoc(owner[e.id], p)

LEMMA LoadedAccepted ==
    ASSUME WindowInv, NEW e, Arrives(e), e.kind = "loaded", Awaited(e)
    PROVE  Accepts(e, Answered(owner[e.id], [NewPage EXCEPT !.url = e.doc.url, !.doc = e.doc]))
<1> DEFINE t == owner[e.id]
           found == [NewPage EXCEPT !.url = e.doc.url, !.doc = e.doc]
           p == Answered(t, found)
<1>1. /\ e.doc \in AnyDoc /\ e.id \in DOMAIN owner /\ t \in StripTabs
      /\ t = e.doc.tab /\ (pages[t].request = e.id => pages[t].asked = e.doc.asked)
  BY Arrival DEF Notices, AnyEvent, Awaited, WindowInv, ShellTypes
<1>2. found \in AnyPage /\ found.request = 0 /\ found.doc = e.doc /\ found.url = e.doc.url
  BY <1>1, FoundPage
<1> HIDE DEF found, t
<1>3. /\ p \in AnyPage /\ p.request = 0 /\ p.doc = e.doc /\ p.url = e.doc.url
      /\ p.asked = pages[t].asked
  BY <1>1, <1>2, AnsweredPage
<1> HIDE DEF p
<1>4. e.doc = [tab |-> e.doc.tab, asked |-> e.doc.asked, url |-> e.doc.url]
  BY <1>1 DEF AnyDoc
<1>5. pages[t].request = e.id => OwnDoc(t, p)
  BY <1>1, <1>3, <1>4 DEF OwnDoc
<1> QED BY <1>3, <1>5 DEF Accepts, p, t, found

LEMMA SearchedAccepted ==
    ASSUME WindowInv, NEW e, Arrives(e), e.kind = "searched", Awaited(e)
    PROVE  Accepts(e, Answered(owner[e.id], [NewPage EXCEPT !.url = Search]))
<1> DEFINE t == owner[e.id]
           found == [NewPage EXCEPT !.url = Search]
           p == Answered(t, found)
<1>1. t \in StripTabs
  BY DEF Awaited, WindowInv, ShellTypes
<1>2. found \in AnyPage /\ found.request = 0 /\ found.doc = NoDoc
  BY SearchPage
<1> HIDE DEF found, t
<1>3. p \in AnyPage /\ p.request = 0 /\ p.doc = NoDoc
  BY <1>1, <1>2, AnsweredPage
<1> QED BY <1>3 DEF Accepts, OwnDoc, p, t, found

LEMMA FailedAccepted ==
    ASSUME WindowInv, NEW e, Arrives(e), e.kind = "failed", Awaited(e)
    PROVE  Accepts(e, Answered(owner[e.id],
                          [NewPage EXCEPT !.url = pages[owner[e.id]].url, !.failed = TRUE]))
<1> DEFINE t == owner[e.id]
           found == [NewPage EXCEPT !.url = pages[t].url, !.failed = TRUE]
           p == Answered(t, found)
<1>1. t \in StripTabs /\ pages[t].url \in AnyUrl
  BY DEF Awaited, WindowInv, ShellTypes, AnyPage
<1>2. found \in AnyPage /\ found.request = 0 /\ found.doc = NoDoc
  BY <1>1, EmptyAnswer
<1> HIDE DEF found, t
<1>3. p \in AnyPage /\ p.request = 0 /\ p.doc = NoDoc
  BY <1>1, <1>2, AnsweredPage
<1> QED BY <1>3 DEF Accepts, OwnDoc, p, t, found

\* The answer is given to its tab, and no command follows.
LEMMA FinishOnly ==
    ASSUME WindowInv, NEW e, Arrives(e), Awaited(e), NEW p, Accepts(e, p), Finish(e, p),
           UNCHANGED <<order, front, nextTab, animPage, animPending, nextRequest, commands>>,
           scenario' = scenario
    PROVE  WindowInv'
<1>1. nextRequest' \in Nat \ {0} /\ nextRequest <= nextRequest'
  BY DEF WindowInv, ShellTypes
<1>2. /\ ShellTypes' /\ Lessens(nextRequest, owner, pages, owner', pages')
      /\ DocumentIsOwn'
  BY <1>1, FinishWindow DEF Accepts
<1>3. ShellChannels'
  BY <1>1, <1>2, TakenEvents DEF ShellChannels
<1> QED BY <1>2, <1>3 DEF WindowInv

LEMMA LoadedWindow ==
    ASSUME WindowInv, NEW e, HandleLoaded(e), scenario' = scenario
    PROVE  WindowInv'
<1> DEFINE p == Answered(owner[e.id], [NewPage EXCEPT !.url = e.doc.url, !.doc = e.doc])
           c == [id |-> nextRequest, kind |-> "index", url |-> e.doc.url, tab |-> 0]
<1>1. /\ Arrives(e) /\ e.kind = "loaded" /\ Awaited(e) /\ Finish(e, p)
      /\ UNCHANGED <<order, front, nextTab, animPage, animPending>>
      /\ \/ Send("index", e.doc.url, 0)
         \/ UNCHANGED <<nextRequest, commands>>
  BY DEF HandleLoaded, strip
<1>2. Accepts(e, p)
  BY <1>1, LoadedAccepted
<1>3. e.doc.url \in AnyUrl
  BY <1>1, Arrival DEF Notices, AnyEvent, AnyDoc
<1> HIDE DEF p
<1>4. CASE UNCHANGED <<nextRequest, commands>>
  BY <1>1, <1>2, <1>4, FinishOnly
<1>5. CASE Send("index", e.doc.url, 0)
  <2>1. nextRequest' = nextRequest + 1 /\ commands' = Append(commands, c)
    BY <1>5 DEF Send
  <2>2. nextRequest' \in Nat \ {0} /\ nextRequest <= nextRequest' /\ nextRequest \in Nat \ {0}
    BY <2>1 DEF WindowInv, ShellTypes
  <2>3. /\ ShellTypes' /\ Lessens(nextRequest, owner, pages, owner', pages')
        /\ DocumentIsOwn'
    BY <1>1, <1>2, <2>2, FinishWindow DEF Accepts
  <2>4. c \in Orders(nextRequest', owner', pages')
    BY <1>3, <2>1, <2>2 DEF Orders, AnyCommand
  <2> HIDE DEF c
  <2>5. /\ commands \in Seq(Orders(nextRequest', owner', pages'))
        /\ events' \in Seq(Notices(nextRequest', owner', pages', Still'))
    BY <1>1, <2>2, <2>3, TakenEvents
  <2>6. commands' \in Seq(Orders(nextRequest', owner', pages'))
    BY <2>1, <2>4, <2>5, Appended
  <2> QED BY <2>3, <2>5, <2>6 DEF WindowInv, ShellChannels
<1> QED BY <1>1, <1>4, <1>5

LEMMA SearchedWindow ==
    ASSUME WindowInv, NEW e, HandleSearchLoaded(e), scenario' = scenario
    PROVE  WindowInv'
<1>1. /\ Arrives(e) /\ e.kind = "searched" /\ Awaited(e)
      /\ Finish(e, Answered(owner[e.id], [NewPage EXCEPT !.url = Search]))
      /\ UNCHANGED <<order, front, nextTab, animPage, animPending, nextRequest, commands>>
  BY DEF HandleSearchLoaded, strip, animator
<1> QED BY <1>1, SearchedAccepted, FinishOnly

LEMMA FailedWindow ==
    ASSUME WindowInv, NEW e, HandleFailed(e), scenario' = scenario
    PROVE  WindowInv'
<1>1. /\ Arrives(e) /\ e.kind = "failed" /\ Awaited(e)
      /\ Finish(e, Answered(owner[e.id],
                       [NewPage EXCEPT !.url = pages[owner[e.id]].url, !.failed = TRUE]))
      /\ UNCHANGED <<order, front, nextTab, animPage, animPending, nextRequest, commands>>
  BY DEF HandleFailed, strip, animator
<1> QED BY <1>1, FailedAccepted, FinishOnly

\* An event that no tab waits for.
LEMMA IgnoredWindow ==
    ASSUME WindowInv, NEW e, Arrives(e), scenario' = scenario,
           UNCHANGED <<order, front, nextTab, pages, owner, nextRequest, commands, animPage>>,
           animPending' \in Nat
    PROVE  WindowInv'
<1>1. nextRequest' \in Nat /\ nextRequest <= nextRequest'
  BY DEF WindowInv, ShellTypes
<1>2. Lessens(nextRequest, owner, pages, owner', pages')
  BY DEF Lessens
<1>3. ShellChannels'
  BY <1>1, <1>2, TakenEvents DEF ShellChannels
<1>4. ShellTypes'
  BY DEF WindowInv, ShellTypes, StripInv, StripTabs
<1>5. DocumentIsOwn'
  BY DEF WindowInv, DocumentIsOwn, StripTabs
<1> QED BY <1>3, <1>4, <1>5 DEF WindowInv

LEMMA FrameWindow ==
    ASSUME WindowInv, NEW e, HandleAnimationFrame(e), scenario' = scenario
    PROVE  WindowInv'
<1>1. /\ Arrives(e) /\ e.kind = "frame"
      /\ UNCHANGED <<order, front, nextTab, owner, nextRequest, commands, animPage>>
      /\ IF e.id = animPending
         THEN /\ animPending' = 0
              /\ pages' = IF e.doc = NoDoc THEN pages ELSE [pages EXCEPT ![front].doc = e.doc]
         ELSE animPending' = animPending /\ pages' = pages
  BY DEF HandleAnimationFrame, strip, animator
<1>2. e.doc \in AnyDoc /\ (Still => e.doc = NoDoc)
  BY <1>1, Arrival DEF Notices, AnyEvent
<1>3. animPending' \in Nat
  BY <1>1 DEF WindowInv, ShellTypes
<1>4. CASE pages' = pages
  BY <1>1, <1>3, <1>4, IgnoredWindow
<1>5. CASE pages' # pages
  <2> DEFINE q == [pages[front] EXCEPT !.doc = e.doc]
  <2>1. pages \in [StripTabs -> AnyPage] /\ front \in StripTabs
    BY DEF WindowInv, ShellTypes, StripInv
  <2>2. pages' = [pages EXCEPT ![front] = q] /\ ~ Still
    BY <1>1, <1>2, <1>5, <2>1
  <2>3. /\ q \in AnyPage /\ q.request = pages[front].request /\ q.asked = pages[front].asked
    BY <1>2, <2>1 DEF AnyPage
  <2> HIDE DEF q
  <2>4. /\ \A t \in StripTabs : pages'[t] = IF t = front THEN q ELSE pages[t]
        /\ pages' \in [StripTabs -> AnyPage]
    BY <2>1, <2>2, <2>3
  <2>5. StripInv' /\ StripTabs' = StripTabs
    BY <1>1 DEF WindowInv, ShellTypes, StripInv, StripTabs
  <2>6. owner \in [DOMAIN owner -> StripTabs]
    BY DEF WindowInv, ShellTypes
  <2>7. ShellTypes'
    BY <1>1, <1>3, <2>4, <2>5 DEF WindowInv, ShellTypes
  <2>8. Lessens(nextRequest, owner, pages, owner', pages')
    BY <1>1, <2>3, <2>4, <2>6 DEF Lessens
  <2>9. nextRequest' \in Nat /\ nextRequest <= nextRequest'
    BY <1>1 DEF WindowInv, ShellTypes
  <2>10. ShellChannels'
    BY <1>1, <2>8, <2>9, TakenEvents DEF ShellChannels
  <2>11. DocumentIsOwn'
    BY <2>2 DEF DocumentIsOwn, Still
  <2> QED BY <2>7, <2>10, <2>11 DEF WindowInv
<1> QED BY <1>4, <1>5

LEMMA TickWindow ==
    ASSUME WindowInv, AnimationTick, scenario' = scenario
    PROVE  WindowInv'
<1>1. /\ Send("tick", Internal, 0) /\ animPending' = nextRequest
      /\ UNCHANGED <<order, front, nextTab, pages, owner, events, animPage>>
  BY DEF AnimationTick, strip
<1>2. nextRequest' = nextRequest + 1
  BY <1>1 DEF Send
<1>3. ShellTypes'
  BY <1>1, <1>2 DEF WindowInv, ShellTypes, StripInv, StripTabs
<1>4. Lessens(nextRequest, owner, pages, owner', pages')
  BY <1>1 DEF Lessens
<1>5. [id |-> nextRequest, kind |-> "tick", url |-> Internal, tab |-> 0]
          \in Orders(nextRequest', owner', pages')
  BY <1>2 DEF Orders, AnyCommand, AnyUrl, WindowInv, ShellTypes
<1>6. StripTabs' = StripTabs
  BY <1>1 DEF StripTabs
<1> QED BY <1>1, <1>3, <1>4, <1>5, <1>6, SendingStep

LEMMA WindowNext == WindowInv /\ [ShellNext]_shellVars => WindowInv'
<1> SUFFICES ASSUME WindowInv, [ShellNext]_shellVars PROVE WindowInv'
  OBVIOUS
<1>1. CASE UNCHANGED shellVars
  <2>1. UNCHANGED <<scenario, order, front, nextTab, pages, owner, nextRequest, commands, events,
                    animPage, animPending>>
    BY <1>1 DEF shellVars, strip, worker, animator
  <2>2. ShellTypes'
    BY <2>1 DEF WindowInv, ShellTypes, StripInv, StripTabs
  <2>3. ShellChannels'
    BY <2>1 DEF WindowInv, ShellChannels, Still
  <2>4. DocumentIsOwn'
    BY <2>1 DEF WindowInv, DocumentIsOwn, StripTabs
  <2> QED BY <2>2, <2>3, <2>4 DEF WindowInv
<1>2. CASE ShellNext
  <2>1. scenario' = scenario
    BY <1>2 DEF ShellNext
  <2>2. CASE OpenNewTab \/ StopActive \/ RebuildPrivacyPipeline
    BY <2>1, <2>2, OpenWindow, StopWindow, RebuildWindow
  <2>3. CASE WorkerStep \/ AnimationTick
    BY <2>1, <2>3, WorkWindow, TickWindow
  <2>4. ASSUME NEW k \in DOMAIN order, ActivateTab(k) \/ CloseTabAt(k) PROVE WindowInv'
    BY <2>1, <2>4, ActivateWindow, CloseWindow
  <2>5. ASSUME NEW url \in scenario.urls \cup {Internal, Search}, Navigate(url) PROVE WindowInv'
    BY <2>1, <2>5, NavigateWindow
  <2>6. ASSUME NEW e, HandleLoaded(e) \/ HandleSearchLoaded(e) \/ HandleFailed(e) PROVE WindowInv'
    BY <2>1, <2>6, LoadedWindow, SearchedWindow, FailedWindow
  <2>7. ASSUME NEW e, HandleOther(e) \/ HandleAnimationFrame(e) PROVE WindowInv'
    <3>1. CASE HandleOther(e)
      <4>1. /\ Arrives(e)
            /\ UNCHANGED <<order, front, nextTab, pages, owner, nextRequest, commands, animPage,
                           animPending>>
        BY <3>1 DEF HandleOther, strip, animator
      <4>2. animPending' \in Nat
        BY <4>1 DEF WindowInv, ShellTypes
      <4> QED BY <2>1, <4>1, <4>2, IgnoredWindow
    <3> QED BY <2>1, <2>7, <3>1, FrameWindow
  <2> QED BY <1>2, <2>2, <2>3, <2>4, <2>5, <2>6, <2>7 DEF ShellNext, HandleEvent
<1> QED BY <1>1, <1>2

\* For any number of tabs, urls, requests and replaced workers: where no page is animated, a
\* tab shows the document that it asked for itself and last, at the url that it is on.
THEOREM DocumentsAreOwn == ShellSpec => []DocumentIsOwn
<1>1. WindowInv => DocumentIsOwn
  BY DEF WindowInv
<1> QED BY WindowInit, WindowNext, <1>1, PTL DEF ShellSpec

-----------------------------------------------------------------------------
(* What the tabs and the animation loop wait for.                          *)

Asks == {"load", "search"}
Answers == {"loaded", "searched", "failed"}

\* Request r is asked for, or its answer has arrived.
Due(r, cs, es) ==
    \/ \E i \in DOMAIN cs : cs[i].id = r /\ cs[i].kind \in Asks
    \/ \E i \in DOMAIN es : es[i].id = r /\ es[i].kind \in Answers

FrameDue(r, cs, es) ==
    \/ \E i \in DOMAIN cs : cs[i].id = r /\ cs[i].kind = "tick"
    \/ \E i \in DOMAIN es : es[i].id = r /\ es[i].kind = "frame"

LEMMA DueSent ==
    ASSUME NEW cs \in Seq(AnyCommand), NEW c \in AnyCommand, NEW es, NEW r
    PROVE  /\ Due(r, cs, es) => Due(r, Append(cs, c), es)
           /\ FrameDue(r, cs, es) => FrameDue(r, Append(cs, c), es)
           /\ c.id = r /\ c.kind \in Asks => Due(r, Append(cs, c), es)
           /\ c.id = r /\ c.kind = "tick" => FrameDue(r, Append(cs, c), es)
<1> DEFINE longer == Append(cs, c)
<1>1. /\ DOMAIN cs = 1 .. Len(cs) /\ DOMAIN longer = 1 .. Len(cs) + 1 /\ Len(cs) \in Nat
      /\ longer[Len(cs) + 1] = c /\ \A i \in 1 .. Len(cs) : longer[i] = cs[i]
  BY Appended
<1> HIDE DEF longer
<1> QED BY <1>1 DEF Due, FrameDue, longer

LEMMA DueAnswered ==
    ASSUME NEW cs \in Seq(AnyCommand), cs # <<>>, NEW c, c = Head(cs),
           NEW es \in Seq(AnyEvent), NEW e \in AnyEvent, e.id = c.id,
           c.kind = "load" => e.kind \in {"loaded", "failed"},
           c.kind = "search" => e.kind \in {"searched", "failed"},
           c.kind = "tick" => e.kind = "frame", NEW r
    PROVE  /\ Due(r, cs, es) => Due(r, Tail(cs), Append(es, e))
           /\ FrameDue(r, cs, es) => FrameDue(r, Tail(cs), Append(es, e))
<1> DEFINE longer == Append(es, e)
           rest == Tail(cs)
<1>1. /\ DOMAIN es = 1 .. Len(es) /\ DOMAIN longer = 1 .. Len(es) + 1 /\ Len(es) \in Nat
      /\ longer[Len(es) + 1] = e /\ \A i \in 1 .. Len(es) : longer[i] = es[i]
  BY Appended
<1>2. /\ Len(cs) \in Nat \ {0} /\ \A i \in 1 .. Len(cs) - 1 : rest[i] = cs[i + 1]
      /\ DOMAIN cs = 1 .. Len(cs) /\ DOMAIN rest = 1 .. Len(cs) - 1 /\ c = cs[1]
  BY HeadTail
<1> HIDE DEF longer, rest
<1>3. \A i \in DOMAIN cs : i = 1 \/ (i - 1 \in DOMAIN rest /\ rest[i - 1] = cs[i])
  BY <1>2
<1>4. \A i \in DOMAIN es : i \in DOMAIN longer /\ longer[i] = es[i]
  BY <1>1
<1>5. Len(es) + 1 \in DOMAIN longer /\ longer[Len(es) + 1] = e
  BY <1>1
<1>6. /\ e.id = cs[1].id
      /\ cs[1].kind \in Asks => e.kind \in Answers
      /\ cs[1].kind = "tick" => e.kind = "frame"
  BY <1>2 DEF Asks, Answers
<1>7. ASSUME Due(r, cs, es) PROVE Due(r, rest, longer)
  <2>1. ASSUME NEW i \in DOMAIN cs, cs[i].id = r, cs[i].kind \in Asks PROVE Due(r, rest, longer)
    BY <1>3, <1>5, <1>6, <2>1 DEF Due
  <2>2. ASSUME NEW i \in DOMAIN es, es[i].id = r, es[i].kind \in Answers PROVE Due(r, rest, longer)
    BY <1>4, <2>2 DEF Due
  <2> QED BY <1>7, <2>1, <2>2 DEF Due
<1>8. ASSUME FrameDue(r, cs, es) PROVE FrameDue(r, rest, longer)
  <2>1. ASSUME NEW i \in DOMAIN cs, cs[i].id = r, cs[i].kind = "tick" PROVE FrameDue(r, rest, longer)
    BY <1>3, <1>5, <1>6, <2>1 DEF FrameDue
  <2>2. ASSUME NEW i \in DOMAIN es, es[i].id = r, es[i].kind = "frame" PROVE FrameDue(r, rest, longer)
    BY <1>4, <2>2 DEF FrameDue
  <2> QED BY <1>8, <2>1, <2>2 DEF FrameDue
<1> QED BY <1>7, <1>8 DEF longer, rest

LEMMA DueTaken ==
    ASSUME NEW cs, NEW es \in Seq(AnyEvent), es # <<>>, NEW e, e = Head(es), NEW r
    PROVE  /\ Due(r, cs, es) /\ (e.id # r \/ e.kind \notin Answers) => Due(r, cs, Tail(es))
           /\ FrameDue(r, cs, es) /\ (e.id # r \/ e.kind # "frame") => FrameDue(r, cs, Tail(es))
<1> DEFINE rest == Tail(es)
<1>1. /\ Len(es) \in Nat \ {0} /\ \A i \in 1 .. Len(es) - 1 : rest[i] = es[i + 1]
      /\ DOMAIN es = 1 .. Len(es) /\ DOMAIN rest = 1 .. Len(es) - 1 /\ e = es[1]
  BY HeadTail
<1> HIDE DEF rest
<1>2. \A i \in DOMAIN es : i = 1 \/ (i - 1 \in DOMAIN rest /\ rest[i - 1] = es[i])
  BY <1>1
<1>3. ASSUME Due(r, cs, es), e.id # r \/ e.kind \notin Answers PROVE Due(r, cs, rest)
  BY <1>1, <1>2, <1>3 DEF Due
<1>4. ASSUME FrameDue(r, cs, es), e.id # r \/ e.kind # "frame" PROVE FrameDue(r, cs, rest)
  BY <1>1, <1>2, <1>4 DEF FrameDue
<1> QED BY <1>3, <1>4 DEF rest

\* What each tab waits for is its own, and due.
Answerable(own, pgs, cs, es) ==
    \A t \in DOMAIN pgs : pgs[t].request # 0 =>
        /\ pgs[t].request \in DOMAIN own /\ own[pgs[t].request] = t
        /\ Due(pgs[t].request, cs, es)

FrameAwaited(r, cs, es) == r # 0 => FrameDue(r, cs, es)

NumberedInv == rebuilds \in Nat /\ (scenario.rebuilds = 0 => \A r \in DOMAIN owner : r < nextRequest)

DueInv ==
    scenario.rebuilds = 0 =>
        /\ Answerable(owner, pages, commands, events)
        /\ FrameAwaited(animPending, commands, events)

PendingInv == WindowInv /\ NumberedInv /\ DueInv

LEMMA PendingAnswered == PendingInv => PendingIsAnswerable
<1> SUFFICES ASSUME PendingInv, scenario.rebuilds = 0
             PROVE  /\ \A t \in StripTabs : LET r == pages[t].request
                                            IN  r # 0 => InFlight(r) /\ r \in DOMAIN owner /\ owner[r] = t
                    /\ \A r \in DOMAIN owner : owner[r] \in StripTabs
                    /\ animPending # 0 => InFlight(animPending)
  BY DEF PendingIsAnswerable
<1>1. \A r : Due(r, commands, events) \/ FrameDue(r, commands, events) => InFlight(r)
  BY DEF Due, FrameDue, InFlight
<1>2. /\ Answerable(owner, pages, commands, events)
      /\ FrameAwaited(animPending, commands, events)
      /\ DOMAIN pages = StripTabs /\ owner \in [DOMAIN owner -> StripTabs]
  BY DEF PendingInv, DueInv, WindowInv, ShellTypes
<1> QED BY <1>1, <1>2 DEF Answerable, FrameAwaited

LEMMA PendingInit == ShellInit => NumberedInv /\ DueInv
<1> SUFFICES ASSUME ShellInit PROVE NumberedInv /\ DueInv
  OBVIOUS
<1>1. /\ pages = [t \in {1} |-> NewPage] /\ owner = [r \in {} |-> 0] /\ animPending = 0 /\ rebuilds = 0
  BY DEF ShellInit
<1> QED BY <1>1, EmptyPage DEF NumberedInv, DueInv, Answerable, FrameAwaited

LEMMA WindowChannels ==
    ASSUME WindowInv
    PROVE  commands \in Seq(AnyCommand) /\ events \in Seq(AnyEvent)
<1> DEFINE n == nextRequest
           own == owner
           pgs == pages
           still == Still
<1>1. Orders(n, own, pgs) \subseteq AnyCommand /\ Notices(n, own, pgs, still) \subseteq AnyEvent
  BY DEF Orders, Notices
<1>2. commands \in Seq(Orders(n, own, pgs)) /\ events \in Seq(Notices(n, own, pgs, still))
  BY DEF WindowInv, ShellChannels
<1> HIDE DEF n, own, pgs, still
<1> QED BY <1>1, <1>2, SeqWider

\* The requests of the tabs that still wait after a step that leaves the channels alone.
LEMMA QuietDue ==
    ASSUME PendingInv, scenario' = scenario, UNCHANGED <<commands, events, animPending>>,
           \A t \in DOMAIN pages' : pages'[t].request # 0 =>
               /\ t \in DOMAIN pages /\ pages'[t].request = pages[t].request
               /\ pages[t].request \in DOMAIN owner /\ owner[pages[t].request] = t =>
                    pages[t].request \in DOMAIN owner' /\ owner'[pages[t].request] = t
    PROVE  DueInv'
<1> SUFFICES ASSUME scenario.rebuilds = 0
             PROVE  /\ Answerable(owner', pages', commands, events)
                    /\ FrameAwaited(animPending, commands, events)
  BY DEF DueInv
<1>1. /\ Answerable(owner, pages, commands, events)
      /\ FrameAwaited(animPending, commands, events)
  BY DEF PendingInv, DueInv
<1> QED BY <1>1 DEF Answerable

LEMMA OpenDue ==
    ASSUME PendingInv, OpenNewTab, scenario' = scenario
    PROVE  NumberedInv' /\ DueInv'
<1>1. /\ pages' = Assign(pages, nextTab, NewPage)
      /\ UNCHANGED <<owner, nextRequest, commands, events, animPending, rebuilds>>
  BY DEF OpenNewTab, worker, animator
<1>2. NumberedInv'
  BY <1>1 DEF PendingInv, NumberedInv
<1>3. \A t \in DOMAIN pages' : pages'[t].request # 0 =>
        t \in DOMAIN pages /\ pages'[t].request = pages[t].request
  BY <1>1, EmptyPage DEF Assign
<1> QED BY <1>1, <1>2, <1>3, QuietDue

LEMMA ActivateDue ==
    ASSUME PendingInv, NEW k, ActivateTab(k), scenario' = scenario
    PROVE  NumberedInv' /\ DueInv'
<1>1. UNCHANGED <<pages, owner, nextRequest, commands, events, animPending, rebuilds>>
  BY DEF ActivateTab, worker, animator
<1>2. NumberedInv'
  BY <1>1 DEF PendingInv, NumberedInv
<1> QED BY <1>1, <1>2, QuietDue

LEMMA CloseDue ==
    ASSUME PendingInv, NEW k \in DOMAIN order, CloseTabAt(k), scenario' = scenario
    PROVE  NumberedInv' /\ DueInv'
<1> DEFINE closed == order[k]
           S == {r \in DOMAIN owner : owner[r] = closed}
<1>1. /\ owner' = Without(owner, S)
      /\ pages' = Without(pages, {closed}) \/ pages' = [i \in {nextTab} |-> NewPage]
      /\ UNCHANGED <<nextRequest, commands, events, animPending, rebuilds>>
  BY DEF CloseTabAt, worker, animator
<1> HIDE DEF closed
<1>2. /\ DOMAIN owner' = DOMAIN owner \ S /\ \A r \in DOMAIN owner' : owner'[r] = owner[r]
  BY <1>1 DEF Without
<1>3. NumberedInv'
  BY <1>1, <1>2 DEF PendingInv, NumberedInv
<1>4. CASE pages' = Without(pages, {closed})
  <2>1. \A t \in DOMAIN pages' : t \in DOMAIN pages /\ pages'[t] = pages[t] /\ t # closed
    BY <1>4 DEF Without
  <2> QED BY <1>1, <1>2, <1>3, <2>1, QuietDue
<1>5. CASE pages' = [i \in {nextTab} |-> NewPage]
  <2>1. \A t \in DOMAIN pages' : pages'[t].request = 0
    BY <1>5, EmptyPage
  <2> QED BY <1>1, <1>3, <2>1, QuietDue
<1> QED BY <1>1, <1>4, <1>5

LEMMA StopDue ==
    ASSUME PendingInv, StopActive, scenario' = scenario
    PROVE  NumberedInv' /\ DueInv'
<1> DEFINE n == pages[front].request
           q == [pages[front] EXCEPT !.request = 0]
<1>1. pages \in [StripTabs -> AnyPage] /\ front \in StripTabs
  BY DEF PendingInv, WindowInv, ShellTypes, StripInv
<1>2. /\ pages' = [pages EXCEPT ![front] = q] /\ owner' = Without(owner, {n}) /\ n # 0
      /\ UNCHANGED <<nextRequest, commands, events, animPending, rebuilds>>
  BY <1>1 DEF StopActive, worker, animator
<1>3. q.request = 0
  BY <1>1 DEF AnyPage
<1> HIDE DEF q
<1>4. /\ DOMAIN owner' = DOMAIN owner \ {n} /\ \A r \in DOMAIN owner' : owner'[r] = owner[r]
  BY <1>2 DEF Without
<1>5. NumberedInv'
  BY <1>2, <1>4 DEF PendingInv, NumberedInv
<1>6. DueInv'
  <2> SUFFICES ASSUME scenario.rebuilds = 0
               PROVE  /\ Answerable(owner', pages', commands, events)
                      /\ FrameAwaited(animPending, commands, events)
    BY <1>2 DEF DueInv
  <2>1. /\ Answerable(owner, pages, commands, events)
        /\ FrameAwaited(animPending, commands, events)
    BY DEF PendingInv, DueInv
  <2>2. owner[n] = front
    BY <1>1, <1>2, <2>1 DEF Answerable
  <2>3. \A t \in DOMAIN pages' : t \in DOMAIN pages /\ pages'[t] = IF t = front THEN q ELSE pages[t]
    BY <1>1, <1>2
  <2> QED BY <1>3, <1>4, <2>1, <2>2, <2>3 DEF Answerable
<1> QED BY <1>5, <1>6

LEMMA NavigateDue ==
    ASSUME PendingInv, NEW url \in scenario.urls \cup {Internal, Search}, Navigate(url),
           scenario' = scenario
    PROVE  NumberedInv' /\ DueInv'
<1> DEFINE request == IF url = Internal THEN 0 ELSE nextRequest
           kind == IF url = Search THEN "search" ELSE "load"
           q == Asking(url, request)
           c == [id |-> nextRequest, kind |-> kind, url |-> url, tab |-> front]
           longer == Append(commands, c)
<1>1. /\ pages' = [pages EXCEPT ![front] = q]
      /\ IF url = Internal
         THEN UNCHANGED <<owner, nextRequest, commands>>
         ELSE /\ nextRequest' = nextRequest + 1 /\ commands' = longer
              /\ owner' = Assign(owner, nextRequest, front)
      /\ UNCHANGED <<events, animPending, rebuilds>>
  BY DEF Navigate, Asking, Send, strip, animator
<1>2. /\ pages \in [StripTabs -> AnyPage] /\ front \in StripTabs /\ front \in Nat
      /\ nextRequest \in Nat \ {0} /\ url \in AnyUrl /\ DOMAIN owner \subseteq Nat \ {0}
  <2>1. scenario.urls \subseteq Urls
    BY DEF PendingInv, WindowInv, ShellTypes, Scenario
  <2>2. front \in Nat
    BY TabsAreNumbered DEF PendingInv, WindowInv, ShellTypes, StripInv
  <2> QED BY <2>1, <2>2 DEF PendingInv, WindowInv, ShellTypes, StripInv, AnyUrl
<1>3. q.request = request /\ commands \in Seq(AnyCommand) /\ c \in AnyCommand
  BY <1>2, AskingPage, WindowChannels DEF PendingInv, AnyCommand
<1>4. c.id = nextRequest /\ c.kind \in Asks
  BY DEF Asks
<1> HIDE DEF q, c
<1>5. \A t \in DOMAIN pages' : t \in DOMAIN pages /\ pages'[t] = IF t = front THEN q ELSE pages[t]
  BY <1>1, <1>2
<1>6. CASE url = Internal
  <2>1. NumberedInv'
    BY <1>1, <1>6 DEF PendingInv, NumberedInv
  <2>2. \A t \in DOMAIN pages' : pages'[t].request # 0 => t \in DOMAIN pages /\ pages'[t] = pages[t]
    BY <1>3, <1>5, <1>6
  <2> QED BY <1>1, <1>6, <2>1, <2>2, QuietDue
<1>7. CASE url # Internal
  <2>1. /\ DOMAIN owner' = DOMAIN owner \cup {nextRequest} /\ owner'[nextRequest] = front
        /\ \A r \in DOMAIN owner : r # nextRequest => owner'[r] = owner[r]
        /\ nextRequest' = nextRequest + 1 /\ commands' = longer
    BY <1>1, <1>7 DEF Assign
  <2>2. NumberedInv'
    BY <1>1, <1>2, <2>1 DEF PendingInv, NumberedInv
  <2>3. /\ \A r : Due(r, commands, events) => Due(r, longer, events)
        /\ \A r : FrameDue(r, commands, events) => FrameDue(r, longer, events)
        /\ Due(nextRequest, longer, events)
    BY <1>3, <1>4, DueSent
  <2> HIDE DEF longer
  <2>4. DueInv'
    <3> SUFFICES ASSUME scenario.rebuilds = 0
                 PROVE  /\ Answerable(owner', pages', longer, events)
                        /\ FrameAwaited(animPending, longer, events)
      BY <1>1, <2>1 DEF DueInv
    <3>1. /\ Answerable(owner, pages, commands, events)
          /\ FrameAwaited(animPending, commands, events)
          /\ \A r \in DOMAIN owner : r < nextRequest
      BY DEF PendingInv, DueInv, NumberedInv
    <3>2. FrameAwaited(animPending, longer, events)
      BY <2>3, <3>1 DEF FrameAwaited
    <3>3. SUFFICES ASSUME NEW t \in DOMAIN pages', pages'[t].request # 0
                   PROVE  /\ pages'[t].request \in DOMAIN owner' /\ owner'[pages'[t].request] = t
                          /\ Due(pages'[t].request, longer, events)
      BY <3>2 DEF Answerable
    <3>4. CASE t = front
      <4>1. pages'[t].request = nextRequest
        BY <1>3, <1>5, <1>7, <3>4
      <4> QED BY <2>1, <2>3, <3>4, <4>1
    <3>5. CASE t # front
      <4>1. t \in DOMAIN pages /\ pages'[t] = pages[t]
        BY <1>5, <3>5
      <4>2. /\ pages[t].request \in DOMAIN owner /\ owner[pages[t].request] = t
            /\ Due(pages[t].request, commands, events)
        BY <3>1, <3>3, <4>1 DEF Answerable
      <4>3. pages[t].request # nextRequest
        BY <1>2, <3>1, <4>2
      <4> QED BY <2>1, <2>3, <4>1, <4>2, <4>3
    <3> QED BY <3>4, <3>5
  <2> QED BY <2>2, <2>4
<1> QED BY <1>6, <1>7

LEMMA RebuildDue ==
    ASSUME PendingInv, RebuildPrivacyPipeline, scenario' = scenario
    PROVE  NumberedInv' /\ DueInv'
<1>1. rebuilds' = rebuilds + 1 /\ rebuilds < scenario.rebuilds /\ rebuilds \in Nat
  BY DEF RebuildPrivacyPipeline, PendingInv, NumberedInv
<1>2. scenario.rebuilds # 0
  BY <1>1
<1> QED BY <1>1, <1>2 DEF NumberedInv, DueInv

LEMMA WorkDue ==
    ASSUME PendingInv, WorkerStep, scenario' = scenario
    PROVE  NumberedInv' /\ DueInv'
<1> DEFINE c == Head(commands)
<1>1. PICK e \in Answer(c) : events' = Append(events, e)
  BY DEF WorkerStep
<1>2. /\ commands # <<>> /\ commands' = Tail(commands)
      /\ UNCHANGED <<pages, owner, nextRequest, animPending, rebuilds>>
  BY DEF WorkerStep, strip, animator
<1>3. NumberedInv'
  BY <1>2 DEF PendingInv, NumberedInv
<1>4. /\ commands \in Seq(Orders(nextRequest, owner, pages))
      /\ scenario \in Scenario /\ nextRequest \in Nat /\ animPage \in AnyDoc
  BY DEF PendingInv, WindowInv, ShellTypes, ShellChannels
<1>5. c \in Orders(nextRequest, owner, pages)
  BY <1>2, <1>4, HeadTail
<1>6. commands \in Seq(AnyCommand) /\ events \in Seq(AnyEvent)
  BY WindowChannels DEF PendingInv
<1>7. c = Head(commands)
  OBVIOUS
<1> HIDE DEF c
<1>8. /\ e \in Notices(nextRequest, owner, pages, Still) /\ e.id = c.id
      /\ c.kind = "load" => e.kind \in {"loaded", "failed"}
      /\ c.kind = "search" => e.kind \in {"searched", "failed"}
      /\ c.kind = "tick" => e.kind = "frame"
  BY <1>1, <1>4, <1>5, AnswersAreNotices
<1>9. e \in AnyEvent
  BY <1>8 DEF Notices
<1>10. \A r : /\ Due(r, commands, events) => Due(r, commands', events')
              /\ FrameDue(r, commands, events) => FrameDue(r, commands', events')
  BY <1>1, <1>2, <1>6, <1>7, <1>8, <1>9, DueAnswered
<1>11. DueInv'
  <2> SUFFICES ASSUME scenario.rebuilds = 0
               PROVE  /\ Answerable(owner, pages, commands', events')
                      /\ FrameAwaited(animPending, commands', events')
    BY <1>2 DEF DueInv
  <2>1. /\ Answerable(owner, pages, commands, events)
        /\ FrameAwaited(animPending, commands, events)
    BY DEF PendingInv, DueInv
  <2> QED BY <1>10, <2>1 DEF Answerable, FrameAwaited
<1> QED BY <1>3, <1>11

\* The answer e leaves what the other tabs wait for, whether a command follows or not.
LEMMA FinishDue ==
    ASSUME PendingInv, NEW e, Arrives(e), e.kind \in Answers, Awaited(e), NEW p, p.request = 0,
           Finish(e, p), UNCHANGED <<animPending, rebuilds>>, scenario' = scenario,
           nextRequest' \in Nat, nextRequest <= nextRequest',
           \/ commands' = commands
           \/ \E c \in AnyCommand : commands' = Append(commands, c)
    PROVE  NumberedInv' /\ DueInv'
<1> DEFINE t == owner[e.id]
<1>1. /\ owner' = Without(owner, {e.id}) /\ e.id \in DOMAIN owner /\ t \in StripTabs
      /\ pages' = IF pages[t].request = e.id THEN [pages EXCEPT ![t] = p] ELSE pages
  BY DEF Finish, Awaited, PendingInv, WindowInv, ShellTypes
<1>2. /\ pages \in [StripTabs -> AnyPage] /\ nextRequest \in Nat /\ DOMAIN owner \subseteq Nat \ {0}
  BY DEF PendingInv, WindowInv, ShellTypes
<1>3. t = owner[e.id]
  OBVIOUS
<1> HIDE DEF t
<1>4. /\ DOMAIN owner' = DOMAIN owner \ {e.id} /\ \A r \in DOMAIN owner' : owner'[r] = owner[r]
  BY <1>1 DEF Without
<1>5. NumberedInv'
  BY <1>2, <1>4 DEF PendingInv, NumberedInv
<1>6. events # <<>> /\ e = Head(events) /\ events' = Tail(events)
  BY DEF Arrives
<1>7. commands \in Seq(AnyCommand) /\ events \in Seq(AnyEvent)
  BY WindowChannels DEF PendingInv
<1>8. /\ \A r : Due(r, commands, events) => Due(r, commands', events)
      /\ \A r : FrameDue(r, commands, events) => FrameDue(r, commands', events)
  BY <1>7, DueSent
<1>9. /\ \A r : Due(r, commands', events) /\ e.id # r => Due(r, commands', events')
      /\ \A r : FrameDue(r, commands', events) => FrameDue(r, commands', events')
  <2>1. e.kind # "frame"
    BY DEF Answers
  <2> QED BY <1>6, <1>7, <2>1, DueTaken
<1>10. DueInv'
  <2> SUFFICES ASSUME scenario.rebuilds = 0
               PROVE  /\ Answerable(owner', pages', commands', events')
                      /\ FrameAwaited(animPending, commands', events')
    BY DEF DueInv
  <2>1. /\ Answerable(owner, pages, commands, events)
        /\ FrameAwaited(animPending, commands, events)
    BY DEF PendingInv, DueInv
  <2>2. FrameAwaited(animPending, commands', events')
    BY <1>8, <1>9, <2>1 DEF FrameAwaited
  <2>3. SUFFICES ASSUME NEW u \in DOMAIN pages', pages'[u].request # 0
                 PROVE  /\ pages'[u].request \in DOMAIN owner' /\ owner'[pages'[u].request] = u
                        /\ Due(pages'[u].request, commands', events')
    BY <2>2 DEF Answerable
  <2>4. u \in DOMAIN pages /\ pages'[u] = pages[u] /\ pages[u].request # 0
    BY <1>1, <1>2, <2>3
  <2>5. /\ pages[u].request \in DOMAIN owner /\ owner[pages[u].request] = u
        /\ Due(pages[u].request, commands, events)
    BY <2>1, <2>4 DEF Answerable
  <2>6. pages[u].request # e.id
    <3>1. CASE u = t
      <4>1. pages[t].request # e.id
        BY <1>1, <1>2, <2>3, <2>4, <3>1
      <4> QED BY <3>1, <4>1
    <3>2. CASE u # t
      BY <1>3, <2>5, <3>2
    <3> QED BY <3>1, <3>2
  <2> QED BY <1>4, <1>8, <1>9, <2>4, <2>5, <2>6
<1> QED BY <1>5, <1>10

LEMMA LoadedDue ==
    ASSUME PendingInv, NEW e, HandleLoaded(e), scenario' = scenario
    PROVE  NumberedInv' /\ DueInv'
<1> DEFINE p == Answered(owner[e.id], [NewPage EXCEPT !.url = e.doc.url, !.doc = e.doc])
           c == [id |-> nextRequest, kind |-> "index", url |-> e.doc.url, tab |-> 0]
<1>1. /\ Arrives(e) /\ e.kind = "loaded" /\ Awaited(e) /\ Finish(e, p)
      /\ UNCHANGED <<animPending, rebuilds>>
      /\ \/ nextRequest' = nextRequest + 1 /\ commands' = Append(commands, c)
         \/ UNCHANGED <<nextRequest, commands>>
  BY DEF HandleLoaded, Send
<1>2. Accepts(e, p) /\ nextRequest \in Nat \ {0}
  BY <1>1, LoadedAccepted DEF PendingInv, WindowInv, ShellTypes
<1>3. e.doc.url \in AnyUrl
  BY <1>1, Arrival DEF PendingInv, Notices, AnyEvent, AnyDoc
<1>4. c \in AnyCommand
  BY <1>2, <1>3 DEF AnyCommand
<1> HIDE DEF p, c
<1>5. /\ p.request = 0 /\ nextRequest' \in Nat /\ nextRequest <= nextRequest'
      /\ commands' = commands \/ \E d \in AnyCommand : commands' = Append(commands, d)
      /\ e.kind \in Answers
  BY <1>1, <1>2, <1>4 DEF Accepts, Answers
<1> QED BY <1>1, <1>5, FinishDue

LEMMA SearchedDue ==
    ASSUME PendingInv, NEW e, HandleSearchLoaded(e), scenario' = scenario
    PROVE  NumberedInv' /\ DueInv'
<1> DEFINE p == Answered(owner[e.id], [NewPage EXCEPT !.url = Search])
<1>1. /\ Arrives(e) /\ e.kind = "searched" /\ Awaited(e) /\ Finish(e, p)
      /\ UNCHANGED <<animPending, rebuilds, nextRequest, commands>>
  BY DEF HandleSearchLoaded, animator
<1>2. Accepts(e, p) /\ nextRequest \in Nat
  BY <1>1, SearchedAccepted DEF PendingInv, WindowInv, ShellTypes
<1> HIDE DEF p
<1>3. p.request = 0 /\ nextRequest' \in Nat /\ nextRequest <= nextRequest' /\ e.kind \in Answers
  BY <1>1, <1>2 DEF Accepts, Answers
<1> QED BY <1>1, <1>3, FinishDue

LEMMA FailedDue ==
    ASSUME PendingInv, NEW e, HandleFailed(e), scenario' = scenario
    PROVE  NumberedInv' /\ DueInv'
<1> DEFINE p == Answered(owner[e.id], [NewPage EXCEPT !.url = pages[owner[e.id]].url, !.failed = TRUE])
<1>1. /\ Arrives(e) /\ e.kind = "failed" /\ Awaited(e) /\ Finish(e, p)
      /\ UNCHANGED <<animPending, rebuilds, nextRequest, commands>>
  BY DEF HandleFailed, animator
<1>2. Accepts(e, p) /\ nextRequest \in Nat
  BY <1>1, FailedAccepted DEF PendingInv, WindowInv, ShellTypes
<1> HIDE DEF p
<1>3. p.request = 0 /\ nextRequest' \in Nat /\ nextRequest <= nextRequest' /\ e.kind \in Answers
  BY <1>1, <1>2 DEF Accepts, Answers
<1> QED BY <1>1, <1>3, FinishDue

LEMMA OtherDue ==
    ASSUME PendingInv, NEW e, HandleOther(e), scenario' = scenario
    PROVE  NumberedInv' /\ DueInv'
<1>1. /\ events # <<>> /\ e = Head(events) /\ events' = Tail(events)
      /\ e.kind # "frame" /\ (e.kind = "indexed" \/ e.id \notin DOMAIN owner)
      /\ UNCHANGED <<pages, owner, nextRequest, commands, animPending, rebuilds>>
  BY DEF HandleOther, Arrives, Awaited, strip, animator
<1>2. NumberedInv'
  BY <1>1 DEF PendingInv, NumberedInv
<1>3. events \in Seq(AnyEvent)
  BY WindowChannels DEF PendingInv
<1>4. \A r : /\ Due(r, commands, events) /\ r \in DOMAIN owner => Due(r, commands, events')
             /\ FrameDue(r, commands, events) => FrameDue(r, commands, events')
  <2>1. \A r \in DOMAIN owner : e.id # r \/ e.kind \notin Answers
    BY <1>1 DEF Answers
  <2> QED BY <1>1, <1>3, <2>1, DueTaken
<1>5. DueInv'
  <2> SUFFICES ASSUME scenario.rebuilds = 0
               PROVE  /\ Answerable(owner, pages, commands, events')
                      /\ FrameAwaited(animPending, commands, events')
    BY <1>1 DEF DueInv
  <2>1. /\ Answerable(owner, pages, commands, events)
        /\ FrameAwaited(animPending, commands, events)
    BY DEF PendingInv, DueInv
  <2> QED BY <1>4, <2>1 DEF Answerable, FrameAwaited
<1> QED BY <1>2, <1>5

LEMMA FrameTaken ==
    ASSUME PendingInv, NEW e, HandleAnimationFrame(e), scenario' = scenario
    PROVE  NumberedInv' /\ DueInv'
<1>1. /\ events # <<>> /\ e = Head(events) /\ events' = Tail(events) /\ e.kind = "frame"
      /\ UNCHANGED <<owner, nextRequest, commands, rebuilds>>
      /\ pages' = pages \/ pages' = [pages EXCEPT ![front].doc = e.doc]
      /\ animPending' = 0 \/ (animPending' = animPending /\ e.id # animPending)
  BY DEF HandleAnimationFrame, Arrives, strip, animator
<1>2. NumberedInv'
  BY <1>1 DEF PendingInv, NumberedInv
<1>3. events \in Seq(AnyEvent) /\ pages \in [StripTabs -> AnyPage] /\ e.kind \notin Answers
  BY <1>1, WindowChannels DEF PendingInv, WindowInv, ShellTypes, Answers
<1>4. \A r : /\ Due(r, commands, events) => Due(r, commands, events')
             /\ FrameDue(r, commands, events) /\ e.id # r => FrameDue(r, commands, events')
  BY <1>1, <1>3, DueTaken
<1>5. /\ DOMAIN pages' = DOMAIN pages
      /\ \A t \in DOMAIN pages : pages'[t].request = pages[t].request
  <2> DEFINE q == [pages[front] EXCEPT !.doc = e.doc]
  <2>1. front \in StripTabs
    BY DEF PendingInv, WindowInv, ShellTypes, StripInv
  <2>2. q.request = pages[front].request
    BY <1>3, <2>1 DEF AnyPage
  <2>3. pages' = pages \/ pages' = [pages EXCEPT ![front] = q]
    BY <1>1
  <2> HIDE DEF q
  <2> QED BY <1>3, <2>1, <2>2, <2>3
<1>6. DueInv'
  <2> SUFFICES ASSUME scenario.rebuilds = 0
               PROVE  /\ Answerable(owner, pages', commands, events')
                      /\ FrameAwaited(animPending', commands, events')
    BY <1>1 DEF DueInv
  <2>1. /\ Answerable(owner, pages, commands, events)
        /\ FrameAwaited(animPending, commands, events)
    BY DEF PendingInv, DueInv
  <2>2. Answerable(owner, pages', commands, events')
    BY <1>4, <1>5, <2>1 DEF Answerable
  <2>3. FrameAwaited(animPending', commands, events')
    BY <1>1, <1>4, <2>1 DEF FrameAwaited
  <2> QED BY <2>2, <2>3
<1> QED BY <1>2, <1>6

LEMMA TickDue ==
    ASSUME PendingInv, AnimationTick, scenario' = scenario
    PROVE  NumberedInv' /\ DueInv'
<1> DEFINE c == [id |-> nextRequest, kind |-> "tick", url |-> Internal, tab |-> 0]
<1>1. /\ commands' = Append(commands, c) /\ nextRequest' = nextRequest + 1 /\ animPending' = nextRequest
      /\ UNCHANGED <<pages, owner, events, rebuilds>>
  BY DEF AnimationTick, Send, strip
<1>2. nextRequest \in Nat \ {0} /\ DOMAIN owner \subseteq Nat \ {0}
  BY DEF PendingInv, WindowInv, ShellTypes
<1>3. NumberedInv'
  BY <1>1, <1>2 DEF PendingInv, NumberedInv
<1>4. c \in AnyCommand /\ commands \in Seq(AnyCommand) /\ c.id = nextRequest /\ c.kind = "tick"
  BY <1>2, WindowChannels DEF PendingInv, AnyCommand, AnyUrl
<1> HIDE DEF c
<1>5. /\ \A r : Due(r, commands, events) => Due(r, commands', events)
      /\ FrameDue(nextRequest, commands', events)
  BY <1>1, <1>4, DueSent
<1>6. DueInv'
  <2> SUFFICES ASSUME scenario.rebuilds = 0
               PROVE  /\ Answerable(owner, pages, commands', events)
                      /\ FrameAwaited(nextRequest, commands', events)
    BY <1>1 DEF DueInv
  <2>1. Answerable(owner, pages, commands, events)
    BY DEF PendingInv, DueInv
  <2> QED BY <1>5, <2>1 DEF Answerable, FrameAwaited
<1> QED BY <1>3, <1>6

LEMMA PendingNext == PendingInv /\ [ShellNext]_shellVars => PendingInv'
<1> SUFFICES ASSUME PendingInv, [ShellNext]_shellVars PROVE PendingInv'
  OBVIOUS
<1>1. WindowInv'
  BY WindowNext DEF PendingInv
<1>2. NumberedInv' /\ DueInv'
  <2>1. CASE UNCHANGED shellVars
    <3>1. UNCHANGED <<scenario, pages, owner, nextRequest, commands, events, animPending, rebuilds>>
      BY <2>1 DEF shellVars, worker, animator
    <3> QED BY <3>1 DEF PendingInv, NumberedInv, DueInv, Answerable, FrameAwaited
  <2>2. CASE ShellNext
    <3>1. scenario' = scenario
      BY <2>2 DEF ShellNext
    <3>2. CASE OpenNewTab \/ StopActive \/ RebuildPrivacyPipeline \/ WorkerStep \/ AnimationTick
      BY <3>1, <3>2, OpenDue, StopDue, RebuildDue, WorkDue, TickDue
    <3>3. ASSUME NEW k \in DOMAIN order, ActivateTab(k) \/ CloseTabAt(k) PROVE NumberedInv' /\ DueInv'
      BY <3>1, <3>3, ActivateDue, CloseDue
    <3>4. ASSUME NEW url \in scenario.urls \cup {Internal, Search}, Navigate(url)
          PROVE  NumberedInv' /\ DueInv'
      BY <3>1, <3>4, NavigateDue
    <3>5. ASSUME NEW e, HandleLoaded(e) \/ HandleSearchLoaded(e) \/ HandleFailed(e) \/ HandleOther(e)
                        \/ HandleAnimationFrame(e)
          PROVE  NumberedInv' /\ DueInv'
      BY <3>1, <3>5, LoadedDue, SearchedDue, FailedDue, OtherDue, FrameTaken
    <3> QED BY <2>2, <3>2, <3>3, <3>4, <3>5 DEF ShellNext, HandleEvent
  <2> QED BY <2>1, <2>2
<1> QED BY <1>1, <1>2 DEF PendingInv

\* For any number of tabs, urls and requests: as long as the worker is not replaced, what a tab
\* or the animation loop waits for is on its way and will be given to it, and nothing is kept
\* for a tab that was closed.
THEOREM PendingAreAnswered == ShellSpec => []PendingIsAnswerable
<1>1. ShellInit => PendingInv
  BY WindowInit, PendingInit DEF PendingInv
<1> QED BY <1>1, PendingNext, PendingAnswered, PTL DEF ShellSpec
=============================================================================
